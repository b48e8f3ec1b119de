---------------------------- MODULE AccessProofs ----------------------------
(***************************************************************************)
(* Who may act for an account, for any number of users, organisations,     *)
(* invitations, domains and requests at once: accounts and invitations,    *)
(* custom domains and credentials (src/auth).                              *)
(*                                                                         *)
(* An invitation is spent once, although the handler that joins reads it   *)
(* before it counts it: the invariant also says what the statements a      *)
(* handler has still to run may touch, and how many of them are left.      *)
(*                                                                         *)
(* A domain that is served has been seen to match: the invariant says it   *)
(* of the stored row, and of every statement that a handler or a sweep has *)
(* still to run for it.                                                    *)
(*                                                                         *)
(* The factor of an account that is active was proven, and the lockout is  *)
(* applied, although handlers write whole rows that they read before: the  *)
(* invariant also speaks of every row that a handler is going to write.    *)
(*                                                                         *)
(* The parts share no state; each is declared where it is reasoned about,  *)
(* and the last section puts them side by side.                            *)
(***************************************************************************)
EXTENDS Parts, Naturals, Sequences, FiniteSets, TLAPS

-----------------------------------------------------------------------------
(* Accounts.                                                                 *)

CONSTANTS Users, Founders, Orgs, OrgSlugs, Invites, Nobody, Grants, MaxMembers, MaxOrgs

VARIABLES user, org, seat, tomb, invite, registrar, overlap, doubled, seated

A == INSTANCE Accounts WITH Slugs <- OrgSlugs, worker <- registrar

AccountOps == {"CreateUser", "DeleteUser", "CreateOrg", "DeleteOrg", "AddOrgMember",
               "SetOrgMemberRole", "RemoveOrgMember", "TransferOrgOwnership", "CreateInvite",
               "ConsumeInvite", "Join"}
\* The id that no organization has.
NoId == ""
OrgArgs == Orgs \cup {NoId}
UserArgs == Users \cup {Nobody}
AccountArgs == Users \cup A!Names \cup Grants \cup Invites \cup {""}
AccountWrites == [do : AccountOps, org : OrgArgs, user : UserArgs, arg : AccountArgs]

\* A member is seated right after their invitation was spent; an invitation that
\* is still to be inserted is new, and no other one is redeemed.
Redeems(q, inv, st) ==
  \A k \in 1..Len(q) :
    /\ q[k].do \in {"CreateInvite", "ConsumeInvite", "Join"} => q[k].arg \in Invites
    /\ q[k].do = "CreateInvite" => Len(q) = 1 /\ inv[q[k].arg].state = "new"
    /\ q[k].do \in {"ConsumeInvite", "Join"} => inv[q[k].arg].state # "new"
    /\ q[k].do = "Join" =>
         IF k = 1 THEN inv[q[k].arg].uses = 1 /\ st[q[k].arg] = 0
         ELSE q[k - 1].do = "ConsumeInvite" /\ q[k - 1].arg = q[k].arg

\* No two handlers are about to insert, or to seat the member of, one invitation.
OneRedeems(reg) ==
  \A v, w \in Workers :
    /\ reg[v] # <<>> /\ reg[w] # <<>>
    /\ reg[v][1].do = reg[w][1].do /\ reg[v][1].arg = reg[w][1].arg
    /\ reg[v][1].do \in {"CreateInvite", "Join"}
    => v = w

InviteInv ==
  /\ invite \in [Invites -> [state : {"new", "live", "revoked", "gone"}, kind : {"user", "org"},
                             org : OrgArgs, uses : {0, 1}]]
  /\ seated \in [Invites -> {0, 1}]
  /\ registrar \in [Workers -> Seq(AccountWrites)]
  /\ \A i \in Invites : /\ seated[i] <= invite[i].uses
                        /\ invite[i].state = "new" => invite[i].uses = 0 /\ invite[i].org = NoId
  /\ \A w \in Workers : Redeems(registrar[w], invite, seated)
  /\ OneRedeems(registrar)

\* A handler starts with statements that agree with what it has just read.
LEMMA AccountHandlerStarts ==
  ASSUME InviteInv, NEW w \in Workers, NEW q \in Seq(AccountWrites), A!Start(w, q),
         q # <<>>, Redeems(q, invite, seated), q[1].do # "Join",
         q[1].do = "CreateInvite" =>
           \A v \in Workers : registrar[v] # <<>> /\ registrar[v][1].do = "CreateInvite"
             => registrar[v][1].arg # q[1].arg
  PROVE  InviteInv'
<1>1. /\ registrar[w] = <<>> /\ registrar' = [registrar EXCEPT ![w] = q]
      /\ invite' = invite /\ seated' = seated
  BY Zenon DEF A!Start
<1>2. registrar' \in [Workers -> Seq(AccountWrites)]
  BY Zenon, <1>1 DEF InviteInv
<1>3. \A v \in Workers : registrar'[v] = IF v = w THEN q ELSE registrar[v]
  BY Zenon, <1>1 DEF InviteInv
<1>4. \A v \in Workers : Redeems(registrar'[v], invite, seated)
  BY Zenon, <1>3 DEF InviteInv
<1>5. ASSUME NEW u \in Workers, NEW v \in Workers, registrar'[u] # <<>>, registrar'[v] # <<>>,
             registrar'[u][1].do = registrar'[v][1].do,
             registrar'[u][1].arg = registrar'[v][1].arg,
             registrar'[u][1].do \in {"CreateInvite", "Join"}
      PROVE  u = v
  <2>1. CASE u # w /\ v # w
    <3>1. registrar'[u] = registrar[u] /\ registrar'[v] = registrar[v]
      BY Zenon, <1>3, <2>1
    <3>2. OneRedeems(registrar)
      BY Zenon DEF InviteInv
    <3>3. QED
      BY <1>5, <3>1, <3>2 DEF OneRedeems
  <2>2. CASE u = w /\ v # w
    <3>1. registrar'[u] = q /\ registrar'[v] = registrar[v]
      BY Zenon, <1>3, <2>2
    <3>2. QED
      BY <1>5, <3>1
  <2>3. CASE u # w /\ v = w
    <3>1. registrar'[u] = registrar[u] /\ registrar'[v] = q
      BY Zenon, <1>3, <2>3
    <3>2. QED
      BY <1>5, <3>1
  <2>4. QED
    BY <2>1, <2>2, <2>3
<1>6. QED
  <2>1. OneRedeems(registrar')
    BY Zenon, <1>5 DEF OneRedeems
  <2>2. QED
    BY Zenon, <1>1, <1>2, <1>4, <2>1 DEF InviteInv

\* One statement after the other.
LEMMA ShortHandlers ==
  ASSUME NEW a \in AccountWrites, NEW b \in AccountWrites
  PROVE  /\ <<a>> \in Seq(AccountWrites) /\ <<a>> # <<>> /\ <<a>>[1] = a /\ Len(<<a>>) = 1
         /\ <<a, b>> \in Seq(AccountWrites) /\ <<a, b>> # <<>> /\ Len(<<a, b>>) = 2
         /\ <<a, b>>[1] = a /\ <<a, b>>[2] = b
  OBVIOUS

\* A statement that has nothing to do with an invitation.
LEMMA OneAccountWrite ==
  ASSUME InviteInv, NEW w \in Workers, NEW a \in AccountWrites, A!Start(w, <<a>>),
         a.do \notin {"CreateInvite", "ConsumeInvite", "Join"}
  PROVE  InviteInv'
<1>1. PICK q \in Seq(AccountWrites) : q = <<a>> /\ q # <<>> /\ q[1] = a /\ Len(q) = 1
  BY Zenon, ShortHandlers
<1>2. \A k \in 1..Len(q) : k = 1
  BY <1>1
<1>3. Redeems(q, invite, seated)
  BY <1>1, <1>2 DEF Redeems
<1>4. QED
  BY Zenon, <1>1, <1>3, AccountHandlerStarts

LEMMA AccountWrite ==
  ASSUME NEW what \in AccountOps, NEW o \in OrgArgs, NEW u \in UserArgs, NEW x \in AccountArgs
  PROVE  \E a \in AccountWrites : a = A!Do(what, o, u, x) /\ a.do = what /\ a.arg = x
<1>1. PICK r : r = [do |-> what, org |-> o, user |-> u, arg |-> x]
  BY Zenon
<1>2. r \in AccountWrites /\ r.do = what /\ r.arg = x
  BY <1>1 DEF AccountWrites
<1>3. QED
  BY Zenon, <1>1, <1>2 DEF A!Do

LEMMA AccountValues ==
  /\ "CreateUser" \in AccountOps /\ "DeleteUser" \in AccountOps /\ "CreateOrg" \in AccountOps
  /\ "DeleteOrg" \in AccountOps /\ "AddOrgMember" \in AccountOps
  /\ "SetOrgMemberRole" \in AccountOps /\ "RemoveOrgMember" \in AccountOps
  /\ "TransferOrgOwnership" \in AccountOps /\ "CreateInvite" \in AccountOps
  /\ "ConsumeInvite" \in AccountOps /\ "Join" \in AccountOps
  /\ "" \in OrgArgs /\ \A o \in Orgs : o \in OrgArgs
  /\ Nobody \in UserArgs /\ \A u \in Users : u \in UserArgs /\ u \in AccountArgs
  /\ "" \in AccountArgs /\ \A n \in A!Names : n \in AccountArgs
  /\ \A r \in Grants : r \in AccountArgs
  /\ \A i \in Invites : i \in AccountArgs
  BY Zenon DEF AccountOps, OrgArgs, NoId, UserArgs, AccountArgs

\* An invitation is created under an identifier that nobody else is inserting.
LEMMA InvitationStarts ==
  ASSUME InviteInv, NEW w \in Workers, NEW i \in Invites, invite[i].state = "new",
         NEW a \in AccountWrites, a.do = "CreateInvite", a.arg = i, A!Start(w, <<a>>),
         \A v \in Workers : \A k \in 1..Len(registrar[v]) :
           registrar[v][k].do = "CreateInvite" => registrar[v][k].arg # i
  PROVE  InviteInv'
<1>1. PICK q \in Seq(AccountWrites) : q = <<a>> /\ q # <<>> /\ q[1] = a /\ Len(q) = 1
  BY Zenon, ShortHandlers
<1>2. \A k \in 1..Len(q) : k = 1
  BY <1>1
<1>3. Redeems(q, invite, seated)
  BY <1>1, <1>2 DEF Redeems
<1>4. ASSUME NEW v \in Workers, registrar[v] # <<>>, registrar[v][1].do = "CreateInvite"
      PROVE  registrar[v][1].arg # i
  <2>1. registrar[v] \in Seq(AccountWrites)
    BY DEF InviteInv
  <2>2. 1 \in 1..Len(registrar[v])
    BY <1>4, <2>1
  <2>3. QED
    BY Zenon, <1>4, <2>2
<1>5. A!Start(w, q)
  BY Zenon, <1>1
<1>6. q[1].do # "Join"
  BY <1>1
<1>7. QED
  BY Zenon, <1>1, <1>3, <1>4, <1>5, <1>6, AccountHandlerStarts

\* Two statements, the second of which spends an invitation or seats its member.
LEMMA RedemptionStarts ==
  ASSUME InviteInv, NEW w \in Workers, NEW a \in AccountWrites, NEW b \in AccountWrites,
         A!Start(w, <<a, b>>), NEW i \in Invites, invite[i].state = "live", b.arg = i,
         \/ a.do = "CreateUser" /\ b.do = "ConsumeInvite"
         \/ a.do = "ConsumeInvite" /\ a.arg = i /\ b.do = "Join"
  PROVE  InviteInv'
<1>1. PICK q \in Seq(AccountWrites) : /\ q = <<a, b>> /\ q # <<>> /\ q[1] = a /\ q[2] = b
                                      /\ Len(q) = 2
  BY Zenon, ShortHandlers
<1>2. \A k \in 1..Len(q) : k = 1 \/ (k = 2 /\ q[k - 1] = a)
  BY <1>1
<1>3. Redeems(q, invite, seated)
  BY <1>1, <1>2 DEF Redeems
<1>4. q[1].do # "Join" /\ q[1].do # "CreateInvite"
  BY <1>1
<1>5. QED
  BY Zenon, <1>1, <1>3, <1>4, AccountHandlerStarts

\* Every handler starts in that way.
LEMMA AccountHandlers ==
  ASSUME InviteInv, NEW w \in Workers, NEW u \in Users,
         \/ \E n \in A!Names : A!Register(w, u, n)
         \/ A!DeleteAccount(w, u)
         \/ \E i \in Invites : A!AcceptOrgInvite(w, i, u)
         \/ \E o \in Orgs :
              \/ A!DeleteOrg(w, o, u) \/ A!AddOrgMember(w, o, u)
              \/ A!SetOrgMemberRole(w, o, u) \/ A!RemoveOrgMember(w, o, u)
              \/ \E n \in A!Names : A!CreateOrg(w, o, u, n)
              \/ \E to \in Users : A!TransferOrgOwnership(w, o, u, to)
  PROVE  InviteInv'
<1>1. ASSUME NEW what \in AccountOps, what \notin {"CreateInvite", "ConsumeInvite", "Join"},
             NEW o \in OrgArgs, NEW x \in AccountArgs, A!Start(w, <<A!Do(what, o, u, x)>>)
      PROVE  InviteInv'
  <2>1. PICK a \in AccountWrites : a = A!Do(what, o, u, x) /\ a.do = what
    <3>1. what \in AccountOps /\ o \in OrgArgs /\ u \in UserArgs /\ x \in AccountArgs
      BY Zenon, AccountValues
    <3>2. QED
      BY <3>1, AccountWrite
  <2>2. a.do \notin {"CreateInvite", "ConsumeInvite", "Join"}
    BY Zenon, <1>1, <2>1
  <2>3. A!Start(w, <<a>>)
    BY Zenon, <1>1, <2>1
  <2>4. QED
    BY Zenon, <2>2, <2>3, OneAccountWrite
<1>2. ASSUME NEW n \in A!Names, A!Register(w, u, n)
      PROVE  InviteInv'
  <2>1. CASE A!Start(w, <<A!Do("CreateUser", "", u, n)>>)
    <3>1. "CreateUser" \notin {"CreateInvite", "ConsumeInvite", "Join"}
      BY Zenon
    <3>2. QED
      BY Zenon, <1>1, <2>1, <3>1, AccountValues
  <2>2. ASSUME NEW i \in Invites, A!Usable(i),
               A!Start(w, <<A!Do("CreateUser", "", u, n), A!Do("ConsumeInvite", "", u, i)>>)
        PROVE  InviteInv'
    <3>0. PICK e \in OrgArgs : e = ""
      BY Zenon, AccountValues
    <3>1. PICK a \in AccountWrites : a = A!Do("CreateUser", e, u, n) /\ a.do = "CreateUser"
      <4>1. "CreateUser" \in AccountOps /\ e \in OrgArgs /\ u \in UserArgs /\ n \in AccountArgs
        BY Zenon, AccountValues
      <4>2. QED
        BY <4>1, AccountWrite
    <3>2. PICK b \in AccountWrites : /\ b = A!Do("ConsumeInvite", e, u, i)
                                     /\ b.do = "ConsumeInvite" /\ b.arg = i
      <4>1. "ConsumeInvite" \in AccountOps /\ e \in OrgArgs /\ u \in UserArgs /\ i \in AccountArgs
        BY Zenon, AccountValues
      <4>2. QED
        BY <4>1, AccountWrite
    <3>3. A!Start(w, <<a, b>>) /\ invite[i].state = "live"
      BY Zenon, <2>2, <3>0, <3>1, <3>2 DEF A!Usable
    <3>4. QED
      BY Zenon, <3>1, <3>2, <3>3, RedemptionStarts
  <2>3. QED
    BY Zenon, <1>2, <2>1, <2>2 DEF A!Register
<1>3. ASSUME NEW i \in Invites, A!AcceptOrgInvite(w, i, u)
      PROVE  InviteInv'
  <2>1. PICK o \in OrgArgs : o = invite[i].org
    BY Zenon DEF InviteInv
  <2>2. PICK a \in AccountWrites : /\ a = A!Do("ConsumeInvite", o, u, i)
                                   /\ a.do = "ConsumeInvite" /\ a.arg = i
    <3>1. "ConsumeInvite" \in AccountOps /\ o \in OrgArgs /\ u \in UserArgs /\ i \in AccountArgs
      BY Zenon, AccountValues
    <3>2. QED
      BY <3>1, AccountWrite
  <2>3. PICK b \in AccountWrites : b = A!Do("Join", o, u, i) /\ b.do = "Join" /\ b.arg = i
    <3>1. "Join" \in AccountOps /\ o \in OrgArgs /\ u \in UserArgs /\ i \in AccountArgs
      BY Zenon, AccountValues
    <3>2. QED
      BY <3>1, AccountWrite
  <2>4. A!Start(w, <<a, b>>) /\ invite[i].state = "live"
    BY Zenon, <1>3, <2>1, <2>2, <2>3 DEF A!AcceptOrgInvite, A!Usable
  <2>5. QED
    BY Zenon, <2>2, <2>3, <2>4, RedemptionStarts
<1>4. CASE A!DeleteAccount(w, u)
  <2>1. A!Start(w, <<A!Do("DeleteUser", "", u, "")>>)
    BY Zenon, <1>4 DEF A!DeleteAccount
  <2>2. "DeleteUser" \notin {"CreateInvite", "ConsumeInvite", "Join"}
    BY Zenon
  <2>3. QED
    BY Zenon, <1>1, <2>1, <2>2, AccountValues
<1>5. ASSUME NEW o \in Orgs,
             \/ A!DeleteOrg(w, o, u) \/ A!AddOrgMember(w, o, u)
             \/ A!SetOrgMemberRole(w, o, u) \/ A!RemoveOrgMember(w, o, u)
             \/ \E n \in A!Names : A!CreateOrg(w, o, u, n)
             \/ \E to \in Users : A!TransferOrgOwnership(w, o, u, to)
      PROVE  InviteInv'
  <2>1. /\ "DeleteOrg" \notin {"CreateInvite", "ConsumeInvite", "Join"}
        /\ "RemoveOrgMember" \notin {"CreateInvite", "ConsumeInvite", "Join"}
        /\ "AddOrgMember" \notin {"CreateInvite", "ConsumeInvite", "Join"}
        /\ "SetOrgMemberRole" \notin {"CreateInvite", "ConsumeInvite", "Join"}
        /\ "CreateOrg" \notin {"CreateInvite", "ConsumeInvite", "Join"}
        /\ "TransferOrgOwnership" \notin {"CreateInvite", "ConsumeInvite", "Join"}
    BY Zenon
  <2>2. CASE A!DeleteOrg(w, o, u) \/ A!RemoveOrgMember(w, o, u)
    BY Zenon, <1>1, <2>1, <2>2, AccountValues DEF A!DeleteOrg, A!RemoveOrgMember
  <2>3. CASE A!AddOrgMember(w, o, u) \/ A!SetOrgMemberRole(w, o, u)
    BY Zenon, <1>1, <2>1, <2>3, AccountValues DEF A!AddOrgMember, A!SetOrgMemberRole
  <2>4. CASE \E n \in A!Names : A!CreateOrg(w, o, u, n)
    BY Zenon, <1>1, <2>1, <2>4, AccountValues DEF A!CreateOrg
  <2>5. CASE \E to \in Users : A!TransferOrgOwnership(w, o, u, to)
    BY Zenon, <1>1, <2>1, <2>5, AccountValues DEF A!TransferOrgOwnership
  <2>6. QED
    BY Zenon, <1>5, <2>2, <2>3, <2>4, <2>5
<1>6. QED
  BY Zenon, <1>2, <1>3, <1>4, <1>5

\* The two handlers that make invitations.
LEMMA InviteHandlers ==
  ASSUME InviteInv, NEW w \in Workers, NEW i \in Invites,
         \/ A!CreateUserInvite(w, i)
         \/ \E u \in Users, o \in Orgs : A!InviteOrgMember(w, i, o, u)
  PROVE  InviteInv'
<1>1. PICK o \in OrgArgs, u \in UserArgs :
         /\ invite[i].state = "new" /\ A!Unused(i, "arg")
         /\ A!Start(w, <<A!Do("CreateInvite", o, u, i)>>)
  BY Zenon, AccountValues DEF A!CreateUserInvite, A!InviteOrgMember
<1>2. PICK a \in AccountWrites : /\ a = A!Do("CreateInvite", o, u, i)
                                 /\ a.do = "CreateInvite" /\ a.arg = i
  <2>1. "CreateInvite" \in AccountOps /\ o \in OrgArgs /\ u \in UserArgs /\ i \in AccountArgs
    BY Zenon, AccountValues
  <2>2. QED
    BY <2>1, AccountWrite
<1>3. \A v \in Workers : \A k \in 1..Len(registrar[v]) :
        registrar[v][k].do = "CreateInvite" => registrar[v][k].arg # i
  BY Zenon, <1>1 DEF A!Unused
<1>4. A!Start(w, <<a>>)
  BY Zenon, <1>1, <1>2
<1>5. QED
  BY Zenon, <1>1, <1>2, <1>3, <1>4, InvitationStarts

\* What is left of a handler, unless its first statement spent an invitation.
LEMMA RestRedeems ==
  ASSUME NEW q \in Seq(AccountWrites), q # <<>>, NEW inv, NEW st, Redeems(q, inv, st)
  PROVE  /\ Len(q) \in Nat /\ Len(q) > 0 /\ 1 \in 1..Len(q) /\ Head(q) = q[1]
         /\ q[1] \in AccountWrites /\ Tail(q) \in Seq(AccountWrites)
         /\ q[1].do # "ConsumeInvite" => /\ Redeems(Tail(q), inv, st)
                                         /\ Tail(q) # <<>> => Tail(q)[1].do # "Join"
         /\ Tail(q) # <<>> => Tail(q)[1].do # "CreateInvite"
<1>1. Len(q) \in Nat /\ Len(q) > 0 /\ 1 \in 1..Len(q)
  OBVIOUS
<1>2. PICK p \in Seq(AccountWrites) : p = Tail(q) /\ Len(p) = Len(q) - 1
  <2>1. Tail(q) \in Seq(AccountWrites) /\ Len(Tail(q)) = Len(q) - 1
    BY <1>1
  <2>2. QED
    BY Zenon, <2>1
<1>3. Head(q) = q[1] /\ q[1] \in AccountWrites
  BY <1>1
<1>4. \A k \in 1..Len(p) : p[k] = q[k + 1] /\ k + 1 \in 1..Len(q) /\ (k + 1) - 1 = k /\ k + 1 # 1
  BY <1>1, <1>2
<1>5. ASSUME NEW k \in 1..Len(p)
      PROVE  /\ p[k].do # "CreateInvite"
             /\ p[k].do \in {"ConsumeInvite", "Join"} => p[k].arg \in Invites
             /\ p[k].do \in {"ConsumeInvite", "Join"} => inv[p[k].arg].state # "new"
             /\ p[k].do = "Join" => q[k].do = "ConsumeInvite" /\ q[k].arg = p[k].arg
  <2>1. p[k] = q[k + 1] /\ k + 1 \in 1..Len(q) /\ (k + 1) - 1 = k /\ k + 1 # 1
    BY <1>4
  <2>2. Len(q) # 1
    BY <1>1, <2>1
  <2>3. QED
    BY <2>1, <2>2 DEF Redeems
<1>6. Len(p) > 0 => 1 \in 1..Len(p)
  BY <1>2
<1>7. p # <<>> => Len(p) > 0
  BY <1>2
<1>8. p # <<>> => p[1].do # "CreateInvite"
  BY <1>5, <1>6, <1>7
<1>9. ASSUME q[1].do # "ConsumeInvite"
      PROVE  Redeems(p, inv, st) /\ (p # <<>> => p[1].do # "Join")
  <2>1. p # <<>> => p[1].do # "Join"
    BY <1>5, <1>6, <1>7, <1>9
  <2>2. \A k \in 1..Len(p) : k # 1 => q[k] = p[k - 1]
    <3>1. SUFFICES ASSUME NEW k \in 1..Len(p), k # 1 PROVE q[k] = p[k - 1]
      OBVIOUS
    <3>2. k - 1 \in 1..Len(p) /\ (k - 1) + 1 = k
      BY <1>2, <3>1
    <3>3. QED
      BY <1>4, <3>2
  <2>3. SUFFICES ASSUME NEW k \in 1..Len(p)
                 PROVE  /\ p[k].do \in {"CreateInvite", "ConsumeInvite", "Join"} => p[k].arg \in Invites
                        /\ p[k].do = "CreateInvite" => Len(p) = 1 /\ inv[p[k].arg].state = "new"
                        /\ p[k].do \in {"ConsumeInvite", "Join"} => inv[p[k].arg].state # "new"
                        /\ p[k].do = "Join" =>
                             IF k = 1 THEN inv[p[k].arg].uses = 1 /\ st[p[k].arg] = 0
                             ELSE p[k - 1].do = "ConsumeInvite" /\ p[k - 1].arg = p[k].arg
    BY Zenon, <2>1 DEF Redeems
  <2>4. k = 1 => p[k].do # "Join"
    BY <1>5, <1>9
  <2>5. QED
    BY <1>5, <2>2, <2>4
<1>10. QED
  BY Zenon, <1>1, <1>2, <1>3, <1>8, <1>9

\* Handlers go on, and the invitations they hold are as they were.
LEMMA RestKept ==
  ASSUME InviteInv, NEW w \in Workers, NEW q \in Seq(AccountWrites),
         registrar' = [registrar EXCEPT ![w] = q],
         invite' \in [Invites -> [state : {"new", "live", "revoked", "gone"},
                                  kind : {"user", "org"}, org : OrgArgs, uses : {0, 1}]],
         seated' \in [Invites -> {0, 1}],
         \A i \in Invites : /\ seated'[i] <= invite'[i].uses
                            /\ invite'[i].state = "new" => invite'[i].uses = 0 /\ invite'[i].org = NoId,
         Redeems(q, invite', seated'),
         \A v \in Workers : v # w => Redeems(registrar[v], invite', seated'),
         q # <<>> => q[1].do # "CreateInvite",
         q # <<>> /\ q[1].do = "Join" => \A v \in Workers :
           v # w /\ registrar[v] # <<>> /\ registrar[v][1].do = "Join"
             => registrar[v][1].arg # q[1].arg
  PROVE  InviteInv'
<1>1. \A v \in Workers : registrar'[v] = IF v = w THEN q ELSE registrar[v]
  BY Zenon DEF InviteInv
<1>2. registrar' \in [Workers -> Seq(AccountWrites)]
  BY Zenon DEF InviteInv
<1>3. \A v \in Workers : Redeems(registrar'[v], invite', seated')
  BY Zenon, <1>1
<1>4. ASSUME NEW u \in Workers, NEW v \in Workers, registrar'[u] # <<>>, registrar'[v] # <<>>,
             registrar'[u][1].do = registrar'[v][1].do,
             registrar'[u][1].arg = registrar'[v][1].arg,
             registrar'[u][1].do \in {"CreateInvite", "Join"}
      PROVE  u = v
  <2>1. CASE u # w /\ v # w
    <3>1. registrar'[u] = registrar[u] /\ registrar'[v] = registrar[v]
      BY Zenon, <1>1, <2>1
    <3>2. OneRedeems(registrar)
      BY Zenon DEF InviteInv
    <3>3. QED
      BY <1>4, <3>1, <3>2 DEF OneRedeems
  <2>2. CASE u = w /\ v # w
    <3>1. registrar'[u] = q /\ registrar'[v] = registrar[v]
      BY Zenon, <1>1, <2>2
    <3>2. QED
      BY <1>4, <2>2, <3>1
  <2>3. CASE u # w /\ v = w
    <3>1. registrar'[u] = registrar[u] /\ registrar'[v] = q
      BY Zenon, <1>1, <2>3
    <3>2. QED
      BY <1>4, <2>3, <3>1
  <2>4. QED
    BY <2>1, <2>2, <2>3
<1>5. OneRedeems(registrar')
  BY Zenon, <1>4 DEF OneRedeems
<1>6. QED
  BY Zenon, <1>2, <1>3, <1>5 DEF InviteInv

\* Invitations that are withdrawn, spent ones that are purged.
LEMMA StillRedeems ==
  ASSUME NEW q, NEW inv, NEW st, Redeems(q, inv, st), NEW inv2,
         \A i \in Invites : /\ inv2[i].uses = inv[i].uses
                            /\ inv2[i].state = "new" <=> inv[i].state = "new"
  PROVE  Redeems(q, inv2, st)
<1>1. SUFFICES ASSUME NEW k \in 1..Len(q)
               PROVE  /\ q[k].do \in {"CreateInvite", "ConsumeInvite", "Join"} => q[k].arg \in Invites
                      /\ q[k].do = "CreateInvite" => Len(q) = 1 /\ inv2[q[k].arg].state = "new"
                      /\ q[k].do \in {"ConsumeInvite", "Join"} => inv2[q[k].arg].state # "new"
                      /\ q[k].do = "Join" =>
                           IF k = 1 THEN inv2[q[k].arg].uses = 1 /\ st[q[k].arg] = 0
                           ELSE q[k - 1].do = "ConsumeInvite" /\ q[k - 1].arg = q[k].arg
  BY Zenon DEF Redeems
<1>2. QED
  BY DEF Redeems

\* One statement of a handler.
LEMMA AccountStatement ==
  ASSUME InviteInv, NoId \notin Orgs, NEW w \in Workers, A!Statement(w)
  PROVE  InviteInv'
<1>1. PICK q \in Seq(AccountWrites) : q = registrar[w] /\ q # <<>> /\ Redeems(q, invite, seated)
  BY Zenon DEF InviteInv, A!Statement
<1>2. PICK s \in AccountWrites : s = q[1] /\ s = Head(q)
  BY Zenon, <1>1, RestRedeems
<1>3. PICK p \in Seq(AccountWrites) : p = Tail(q)
  BY Zenon, <1>1, RestRedeems
<1>4. /\ registrar' = [registrar EXCEPT ![w] = p]
      /\ \/ s.do = "CreateUser" /\ A!CreateUserRow(s)
         \/ s.do = "DeleteUser" /\ A!DeleteUserRow(s)
         \/ s.do = "CreateOrg" /\ A!CreateOrgRow(s)
         \/ s.do = "DeleteOrg" /\ A!DeleteOrgRow(s)
         \/ s.do = "AddOrgMember" /\ A!InsertSeat(s)
         \/ s.do = "SetOrgMemberRole" /\ A!UpdateSeat(s)
         \/ s.do = "RemoveOrgMember" /\ A!DeleteSeat(s)
         \/ s.do = "TransferOrgOwnership" /\ A!TransferRows(s)
         \/ s.do = "CreateInvite" /\ A!CreateInviteRow(s)
         \/ s.do = "ConsumeInvite" /\ A!ConsumeInvite(s)
         \/ s.do = "Join" /\ A!JoinRow(s)
  BY Zenon, <1>1, <1>2, <1>3 DEF A!Statement
<1>5. /\ 1 \in 1..Len(q)
      /\ s.do # "ConsumeInvite" => Redeems(p, invite, seated) /\ (p # <<>> => p[1].do # "Join")
      /\ p # <<>> => p[1].do # "CreateInvite"
  BY Zenon, <1>1, <1>2, <1>3, RestRedeems
<1>6. s.org \in OrgArgs /\ s.arg \in AccountArgs
  BY DEF AccountWrites
<1>7. /\ \A v \in Workers : Redeems(registrar[v], invite, seated)
      /\ \A i \in Invites : /\ seated[i] <= invite[i].uses
                            /\ invite[i].state = "new" => invite[i].uses = 0 /\ invite[i].org = NoId
      /\ OneRedeems(registrar)
  BY Zenon DEF InviteInv
\* Rows of users, organizations and members.
<1>8. CASE s.do # "ConsumeInvite" /\ invite' = invite /\ seated' = seated
  BY Zenon, <1>4, <1>5, <1>7, <1>8, RestKept DEF InviteInv
<1>9. CASE \/ s.do = "CreateUser" /\ A!CreateUserRow(s)
           \/ s.do = "DeleteUser" /\ A!DeleteUserRow(s)
           \/ s.do = "CreateOrg" /\ A!CreateOrgRow(s)
           \/ s.do = "AddOrgMember" /\ A!InsertSeat(s)
           \/ s.do = "SetOrgMemberRole" /\ A!UpdateSeat(s)
           \/ s.do = "RemoveOrgMember" /\ A!DeleteSeat(s)
           \/ s.do = "TransferOrgOwnership" /\ A!TransferRows(s)
  <2>1. invite' = invite /\ seated' = seated
    BY Zenon, <1>9 DEF A!CreateUserRow, A!DeleteUserRow, A!CreateOrgRow, A!InsertSeat,
       A!UpdateSeat, A!DeleteSeat, A!TransferRows
  <2>2. s.do # "ConsumeInvite"
    BY <1>9
  <2>3. QED
    BY Zenon, <1>8, <2>1, <2>2
\* An organization goes, with the invitations to it.
<1>10. CASE s.do = "DeleteOrg" /\ A!DeleteOrgRow(s)
  <2>1. /\ s.org # NoId /\ seated' = seated
        /\ invite' = [i \in Invites |-> IF invite[i].org = s.org
                                        THEN [invite[i] EXCEPT !.state = "gone"] ELSE invite[i]]
    BY Zenon, <1>10 DEF A!DeleteOrgRow, A!Live
  <2>2. invite' \in [Invites -> [state : {"new", "live", "revoked", "gone"},
                                 kind : {"user", "org"}, org : OrgArgs, uses : {0, 1}]]
    BY <2>1 DEF InviteInv
  <2>3. \A i \in Invites : /\ invite'[i].uses = invite[i].uses /\ invite'[i].org = invite[i].org
                           /\ invite'[i].state = "new" <=> invite[i].state = "new"
    BY <1>7, <2>1 DEF InviteInv
  <2>4. \A v \in Workers : Redeems(registrar[v], invite', seated)
    BY Zenon, <1>7, <2>3, StillRedeems
  <2>5. Redeems(p, invite', seated) /\ (p # <<>> => p[1].do # "Join")
    <3>1. s.do # "ConsumeInvite"
      BY <1>10
    <3>2. QED
      BY Zenon, <1>5, <2>3, <3>1, StillRedeems
  <2>6. \A i \in Invites : /\ seated[i] <= invite'[i].uses
                           /\ invite'[i].state = "new" => invite'[i].uses = 0 /\ invite'[i].org = NoId
    BY Zenon, <1>7, <2>3
  <2>7. seated' \in [Invites -> {0, 1}]
    BY Zenon, <2>1 DEF InviteInv
  <2>8. QED
    BY Zenon, <1>4, <1>5, <2>1, <2>2, <2>4, <2>5, <2>6, <2>7, RestKept
\* An invitation is inserted: only this handler knows of it.
<1>11. CASE s.do = "CreateInvite" /\ A!CreateInviteRow(s)
  <2>1. PICK i \in Invites : i = s.arg /\ invite[i].state = "new" /\ invite[i].uses = 0
    <3>1. s.arg \in Invites /\ invite[s.arg].state = "new"
      BY <1>1, <1>2, <1>5, <1>11 DEF Redeems
    <3>2. QED
      BY Zenon, <1>7, <3>1
  <2>2. PICK x : x = [state |-> "live", kind |-> IF s.org = "" THEN "user" ELSE "org",
                      org |-> s.org, uses |-> 0]
    BY Zenon
  <2>3. /\ x \in [state : {"new", "live", "revoked", "gone"}, kind : {"user", "org"},
                  org : OrgArgs, uses : {0, 1}]
        /\ x.state = "live" /\ x.uses = 0
    BY Zenon, <1>6, <2>2
  <2>4. invite' = [invite EXCEPT ![i] = x] /\ seated' = seated
    BY Zenon, <1>11, <2>1, <2>2 DEF A!CreateInviteRow
  <2>5. \A j \in Invites : invite'[j] = IF j = i THEN x ELSE invite[j]
    BY Zenon, <2>4 DEF InviteInv
  <2>6. invite' \in [Invites -> [state : {"new", "live", "revoked", "gone"},
                                 kind : {"user", "org"}, org : OrgArgs, uses : {0, 1}]]
    BY Zenon, <2>3, <2>4 DEF InviteInv
  <2>7. \A j \in Invites :
          /\ seated[j] <= invite'[j].uses
          /\ invite'[j].state = "new" => invite'[j].uses = 0 /\ invite'[j].org = NoId
    BY <1>7, <2>1, <2>3, <2>5
  <2>8. seated' \in [Invites -> {0, 1}]
    BY Zenon, <2>4 DEF InviteInv
  <2>9. ASSUME NEW r \in Seq(AccountWrites), Redeems(r, invite, seated),
               \A k \in 1..Len(r) : r[k].do = "CreateInvite" => r[k].arg # i
        PROVE  Redeems(r, invite', seated)
    <3>1. SUFFICES ASSUME NEW k \in 1..Len(r)
                   PROVE  /\ r[k].do \in {"CreateInvite", "ConsumeInvite", "Join"} => r[k].arg \in Invites
                          /\ r[k].do = "CreateInvite" => Len(r) = 1 /\ invite'[r[k].arg].state = "new"
                          /\ r[k].do \in {"ConsumeInvite", "Join"} => invite'[r[k].arg].state # "new"
                          /\ r[k].do = "Join" =>
                               IF k = 1 THEN invite'[r[k].arg].uses = 1 /\ seated[r[k].arg] = 0
                               ELSE r[k - 1].do = "ConsumeInvite" /\ r[k - 1].arg = r[k].arg
      BY Zenon DEF Redeems
    <3>2. r[k].do \in {"CreateInvite", "ConsumeInvite", "Join"}
            => r[k].arg \in Invites /\ invite'[r[k].arg] = invite[r[k].arg]
      BY <2>1, <2>5, <2>9 DEF Redeems
    <3>3. QED
      BY <2>9, <3>2 DEF Redeems
  <2>10. ASSUME NEW v \in Workers, v # w
         PROVE  Redeems(registrar[v], invite', seated)
    <3>1. PICK r \in Seq(AccountWrites) : r = registrar[v] /\ Redeems(r, invite, seated)
      BY Zenon DEF InviteInv
    <3>2. ASSUME NEW k \in 1..Len(r), r[k].do = "CreateInvite" PROVE r[k].arg # i
      <4>1. k = 1
        BY <3>1, <3>2 DEF Redeems
      <4>2. r # <<>>
        BY <3>2
      <4>3. QED
        BY <1>1, <1>2, <1>7, <1>11, <2>1, <2>10, <3>1, <3>2, <4>1, <4>2 DEF OneRedeems
    <3>3. QED
      BY Zenon, <2>9, <3>1, <3>2
  <2>11. p = <<>>
    <3>1. Len(q) = 1
      BY <1>1, <1>2, <1>5, <1>11 DEF Redeems
    <3>2. QED
      BY <1>3, <3>1
  <2>12. Redeems(p, invite', seated)
    <3>1. \A k \in 1..Len(p) : FALSE
      BY <2>11
    <3>2. QED
      BY Zenon, <3>1 DEF Redeems
  <2>13. QED
    BY Zenon, <1>4, <2>4, <2>6, <2>7, <2>8, <2>10, <2>11, <2>12, RestKept
\* An invitation is spent: nobody is seated for it yet.
<1>12. CASE s.do = "ConsumeInvite" /\ A!ConsumeInvite(s)
  <2>1. PICK i \in Invites : i = s.arg /\ invite[i].state = "live" /\ invite[i].uses = 0
    <3>1. s.arg \in Invites
      BY <1>1, <1>2, <1>5, <1>12 DEF Redeems
    <3>2. invite[s.arg].state = "live" /\ invite[s.arg].uses < 1
      BY Zenon, <1>12 DEF A!ConsumeInvite, A!Usable
    <3>3. invite[s.arg].uses = 0
      BY <3>1, <3>2 DEF InviteInv
    <3>4. QED
      BY Zenon, <3>1, <3>2, <3>3
  <2>2. seated[i] = 0
    BY <1>7, <2>1 DEF InviteInv
  <2>3. invite' = [invite EXCEPT ![i].uses = @ + 1] /\ seated' = seated
    BY Zenon, <1>12, <2>1 DEF A!ConsumeInvite
  <2>4. PICK x : x = [invite[i] EXCEPT !.uses = 1]
    BY Zenon
  <2>5. /\ x \in [state : {"new", "live", "revoked", "gone"}, kind : {"user", "org"},
                  org : OrgArgs, uses : {0, 1}]
        /\ x.state = "live" /\ x.uses = 1
    <3>1. PICK y \in [state : {"new", "live", "revoked", "gone"}, kind : {"user", "org"},
                      org : OrgArgs, uses : {0, 1}] : y = invite[i]
      BY Zenon DEF InviteInv
    <3>2. QED
      BY <2>1, <2>4, <3>1
  <2>6. invite' = [invite EXCEPT ![i] = x]
    BY <2>1, <2>3, <2>4 DEF InviteInv
  <2>7. \A j \in Invites : invite'[j] = IF j = i THEN x ELSE invite[j]
    BY Zenon, <2>6 DEF InviteInv
  <2>8. invite' \in [Invites -> [state : {"new", "live", "revoked", "gone"},
                                 kind : {"user", "org"}, org : OrgArgs, uses : {0, 1}]]
    BY Zenon, <2>5, <2>6 DEF InviteInv
  <2>9. \A j \in Invites :
          /\ seated[j] <= invite'[j].uses
          /\ invite'[j].state = "new" => invite'[j].uses = 0 /\ invite'[j].org = NoId
    BY <1>7, <2>2, <2>5, <2>7
  <2>10. seated' \in [Invites -> {0, 1}]
    BY Zenon, <2>3 DEF InviteInv
  <2>11. ASSUME NEW v \in Workers
         PROVE  Redeems(registrar[v], invite', seated)
    <3>1. PICK r \in Seq(AccountWrites) : r = registrar[v] /\ Redeems(r, invite, seated)
      BY Zenon DEF InviteInv
    <3>2. SUFFICES ASSUME NEW k \in 1..Len(r)
                   PROVE  /\ r[k].do \in {"CreateInvite", "ConsumeInvite", "Join"} => r[k].arg \in Invites
                          /\ r[k].do = "CreateInvite" => Len(r) = 1 /\ invite'[r[k].arg].state = "new"
                          /\ r[k].do \in {"ConsumeInvite", "Join"} => invite'[r[k].arg].state # "new"
                          /\ r[k].do = "Join" =>
                               IF k = 1 THEN invite'[r[k].arg].uses = 1 /\ seated[r[k].arg] = 0
                               ELSE r[k - 1].do = "ConsumeInvite" /\ r[k - 1].arg = r[k].arg
      BY Zenon, <3>1 DEF Redeems
    <3>3. r[k].do \in {"CreateInvite", "ConsumeInvite", "Join"} =>
            /\ r[k].arg \in Invites
            /\ \/ invite'[r[k].arg] = invite[r[k].arg]
               \/ /\ r[k].arg = i /\ invite'[r[k].arg].state = "live"
                  /\ invite'[r[k].arg].uses = 1 /\ seated[r[k].arg] = 0
      BY Zenon, <2>2, <2>5, <2>7, <3>1 DEF Redeems
    <3>4. QED
      BY <2>1, <3>1, <3>3 DEF Redeems
  <2>12. \A v \in Workers : registrar[v] # <<>> /\ registrar[v][1].do = "Join"
           => registrar[v][1].arg # i
    <3>1. SUFFICES ASSUME NEW v \in Workers, registrar[v] # <<>>, registrar[v][1].do = "Join"
                   PROVE  registrar[v][1].arg # i
      BY Zenon
    <3>2. PICK r \in Seq(AccountWrites) : r = registrar[v] /\ Redeems(r, invite, seated)
      BY Zenon DEF InviteInv
    <3>3. 1 \in 1..Len(r)
      BY <3>1, <3>2
    <3>4. invite[r[1].arg].uses = 1
      BY <3>1, <3>2, <3>3 DEF Redeems
    <3>5. QED
      BY <2>1, <3>2, <3>4
  <2>13. /\ Len(p) = Len(q) - 1 /\ Len(q) \in Nat
         /\ \A k \in 1..Len(p) : p[k] = q[k + 1] /\ k + 1 \in 1..Len(q)
    BY <1>1, <1>3
  <2>14. Redeems(q, invite', seated)
    BY Zenon, <1>1, <2>11
  <2>15. ASSUME NEW k \in 1..Len(p), k = 1, p[k].do = "Join"
         PROVE  p[k].arg = i
    <3>1. p[k] = q[2] /\ 2 \in 1..Len(q) /\ 2 - 1 = 1 /\ 2 # 1
      BY <2>13, <2>15
    <3>2. q[1].arg = q[2].arg
      BY <2>14, <2>15, <3>1 DEF Redeems
    <3>3. QED
      BY <1>2, <2>1, <3>1, <3>2
  <2>16. Redeems(p, invite', seated)
    <3>1. SUFFICES ASSUME NEW k \in 1..Len(p)
                   PROVE  /\ p[k].do \in {"CreateInvite", "ConsumeInvite", "Join"} => p[k].arg \in Invites
                          /\ p[k].do = "CreateInvite" => Len(p) = 1 /\ invite'[p[k].arg].state = "new"
                          /\ p[k].do \in {"ConsumeInvite", "Join"} => invite'[p[k].arg].state # "new"
                          /\ p[k].do = "Join" =>
                               IF k = 1 THEN invite'[p[k].arg].uses = 1 /\ seated[p[k].arg] = 0
                               ELSE p[k - 1].do = "ConsumeInvite" /\ p[k - 1].arg = p[k].arg
      BY Zenon DEF Redeems
    <3>2. p[k] = q[k + 1] /\ k + 1 \in 1..Len(q) /\ (k + 1) - 1 = k /\ k + 1 # 1 /\ Len(q) # 1
      BY <2>13
    <3>3. k # 1 => q[k] = p[k - 1]
      <4>1. SUFFICES ASSUME k # 1 PROVE q[k] = p[k - 1]
        OBVIOUS
      <4>2. k - 1 \in 1..Len(p) /\ (k - 1) + 1 = k
        BY <2>13, <4>1
      <4>3. QED
        BY <2>13, <4>2
    <3>4. k = 1 /\ p[k].do = "Join" => invite'[p[k].arg].uses = 1 /\ seated[p[k].arg] = 0
      BY <2>2, <2>5, <2>7, <2>15
    <3>5. /\ q[k + 1].do \in {"CreateInvite", "ConsumeInvite", "Join"} => q[k + 1].arg \in Invites
          /\ q[k + 1].do # "CreateInvite"
          /\ q[k + 1].do \in {"ConsumeInvite", "Join"} => invite'[q[k + 1].arg].state # "new"
          /\ q[k + 1].do = "Join" => q[k].do = "ConsumeInvite" /\ q[k].arg = q[k + 1].arg
      BY <2>14, <3>2 DEF Redeems
    <3>6. QED
      BY <3>2, <3>3, <3>4, <3>5
  <2>17. p # <<>> /\ p[1].do = "Join" => p[1].arg = i
    <3>1. p # <<>> => 1 \in 1..Len(p)
      BY <2>13
    <3>2. QED
      BY <2>15, <3>1
  <2>18. p # <<>> /\ p[1].do = "Join" => \A v \in Workers :
           v # w /\ registrar[v] # <<>> /\ registrar[v][1].do = "Join"
             => registrar[v][1].arg # p[1].arg
    BY Zenon, <2>12, <2>17
  <2>19. QED
    BY Zenon, <1>4, <1>5, <2>3, <2>8, <2>9, <2>10, <2>11, <2>16, <2>18, RestKept
\* The member is seated, once.
<1>13. CASE s.do = "Join" /\ A!JoinRow(s)
  <2>1. PICK i \in Invites : i = s.arg /\ invite[i].uses = 1 /\ seated[i] = 0
    BY <1>1, <1>2, <1>5, <1>13 DEF Redeems
  <2>2. invite' = invite /\ seated' = [seated EXCEPT ![i] = @ + 1]
    BY Zenon, <1>13, <2>1 DEF A!JoinRow
  <2>3. seated' \in [Invites -> {0, 1}] /\ \A j \in Invites : j # i => seated'[j] = seated[j]
    BY <2>1, <2>2 DEF InviteInv
  <2>4. \A j \in Invites : seated'[j] <= invite[j].uses
    BY <1>7, <2>1, <2>3
  <2>5. ASSUME NEW r \in Seq(AccountWrites), Redeems(r, invite, seated),
               r # <<>> /\ r[1].do = "Join" => r[1].arg # i
        PROVE  Redeems(r, invite, seated')
    <3>1. SUFFICES ASSUME NEW k \in 1..Len(r), k = 1, r[k].do = "Join"
                   PROVE  seated'[r[k].arg] = seated[r[k].arg]
      BY <2>5 DEF Redeems
    <3>2. r # <<>>
      BY <3>1
    <3>3. r[k].arg \in Invites /\ r[k].arg # i
      BY <2>5, <3>1, <3>2 DEF Redeems
    <3>4. QED
      BY Zenon, <2>3, <3>3
  <2>6. ASSUME NEW v \in Workers, v # w
        PROVE  Redeems(registrar[v], invite, seated')
    <3>1. PICK r \in Seq(AccountWrites) : r = registrar[v] /\ Redeems(r, invite, seated)
      BY Zenon DEF InviteInv
    <3>2. r # <<>> /\ r[1].do = "Join" => r[1].arg # i
      BY <1>1, <1>2, <1>7, <1>13, <2>1, <2>6, <3>1 DEF OneRedeems
    <3>3. QED
      BY Zenon, <2>5, <3>1, <3>2
  <2>7. s.do # "ConsumeInvite"
    BY <1>13
  <2>8. Redeems(p, invite, seated')
    BY Zenon, <1>5, <2>5, <2>7
  <2>9. QED
    BY Zenon, <1>4, <1>5, <1>7, <2>2, <2>3, <2>4, <2>6, <2>7, <2>8, RestKept DEF InviteInv
<1>14. QED
  BY Zenon, <1>4, <1>9, <1>10, <1>11, <1>12, <1>13

\* An invitation is withdrawn or purged: nothing is inserted or seated for it.
LEMMA InviteRetired ==
  ASSUME InviteInv, NEW i \in Invites, invite[i].state # "new",
         NEW state \in {"revoked", "gone"}, invite' = [invite EXCEPT ![i].state = state],
         registrar' = registrar, seated' = seated
  PROVE  InviteInv'
<1>1. PICK y \in [state : {"new", "live", "revoked", "gone"}, kind : {"user", "org"},
                  org : OrgArgs, uses : {0, 1}] : y = invite[i]
  BY Zenon DEF InviteInv
<1>2. PICK x : x = [y EXCEPT !.state = state]
  BY Zenon
<1>3. /\ x \in [state : {"new", "live", "revoked", "gone"}, kind : {"user", "org"},
                org : OrgArgs, uses : {0, 1}]
      /\ x.state # "new" /\ x.uses = y.uses
  BY <1>1, <1>2
<1>4. invite' = [invite EXCEPT ![i] = x]
  BY Zenon, <1>1, <1>2
<1>5. \A j \in Invites : invite'[j] = IF j = i THEN x ELSE invite[j]
  BY Zenon, <1>4 DEF InviteInv
<1>6. invite' \in [Invites -> [state : {"new", "live", "revoked", "gone"},
                               kind : {"user", "org"}, org : OrgArgs, uses : {0, 1}]]
  BY Zenon, <1>3, <1>4 DEF InviteInv
<1>7. \A j \in Invites : /\ invite'[j].uses = invite[j].uses
                         /\ invite'[j].state = "new" <=> invite[j].state = "new"
                         /\ invite'[j].state = "new" => invite'[j] = invite[j]
  BY <1>1, <1>3, <1>5
<1>8. \A w \in Workers : Redeems(registrar[w], invite', seated)
  <2>1. \A w \in Workers : Redeems(registrar[w], invite, seated)
    BY Zenon DEF InviteInv
  <2>2. PICK inv2 : inv2 = invite'
    BY Zenon
  <2>3. \A j \in Invites : /\ inv2[j].uses = invite[j].uses
                           /\ inv2[j].state = "new" <=> invite[j].state = "new"
    BY Zenon, <1>7, <2>2
  <2>4. \A w \in Workers : Redeems(registrar[w], inv2, seated)
    BY <2>1, <2>3, StillRedeems
  <2>5. QED
    BY Zenon, <2>2, <2>4
<1>9. \A j \in Invites : /\ seated[j] <= invite'[j].uses
                         /\ invite'[j].state = "new" => invite'[j].uses = 0 /\ invite'[j].org = NoId
  BY Zenon, <1>7 DEF InviteInv
<1>10. QED
  BY Zenon, <1>6, <1>8, <1>9 DEF InviteInv

\* A handler stops.
LEMMA AccountHandlerStops ==
  ASSUME InviteInv, NEW w \in Workers, A!HandlerFails(w)
  PROVE  InviteInv'
<1>1. PICK q : q = <<>>
  BY Zenon
<1>2. q \in Seq(AccountWrites) /\ \A k \in 1..Len(q) : FALSE
  BY <1>1
<1>3. registrar' = [registrar EXCEPT ![w] = q] /\ invite' = invite /\ seated' = seated
  BY Zenon, <1>1 DEF A!HandlerFails
<1>4. Redeems(q, invite, seated)
  BY Zenon, <1>2 DEF Redeems
<1>5. QED
  BY Zenon, <1>1, <1>2, <1>3, <1>4, RestKept DEF InviteInv

\* At every point of redemptions that overlap, an invitation seated no more than
\* it was used, and one handler at most is about to seat the member of its use.
THEOREM InviteInductive ==
  ASSUME NoId \notin Orgs
  PROVE  A!Spec => []InviteInv
<1>1. A!Init => InviteInv
  <2>1. SUFFICES ASSUME A!Init PROVE InviteInv
    OBVIOUS
  <2>2. PICK x : x = A!NoInvite
    BY Zenon
  <2>3. PICK o \in OrgArgs : o = "" /\ o = NoId
    BY Zenon DEF OrgArgs, NoId
  <2>4. x = [state |-> "new", kind |-> "user", org |-> o, uses |-> 0]
    BY Zenon, <2>2, <2>3 DEF A!NoInvite
  <2>5. /\ x \in [state : {"new", "live", "revoked", "gone"}, kind : {"user", "org"},
                  org : OrgArgs, uses : {0, 1}]
        /\ x.uses = 0 /\ x.org = NoId
    BY Zenon, <2>3, <2>4
  <2>6. PICK q : q = <<>>
    BY Zenon
  <2>7. q \in Seq(AccountWrites) /\ \A k \in 1..Len(q) : FALSE
    BY <2>6
  <2>8. /\ invite = [i \in Invites |-> x] /\ registrar = [w \in Workers |-> q]
        /\ seated = [i \in Invites |-> 0]
    BY Zenon, <2>1, <2>2, <2>6 DEF A!Init
  <2>9. \A w \in Workers : registrar[w] = q /\ Redeems(registrar[w], invite, seated)
    BY Zenon, <2>7, <2>8 DEF Redeems
  <2>10. OneRedeems(registrar)
    BY Zenon, <2>6, <2>9 DEF OneRedeems
  <2>11. \A i \in Invites : /\ seated[i] <= invite[i].uses
                            /\ invite[i].state = "new" => invite[i].uses = 0 /\ invite[i].org = NoId
    BY <2>5, <2>8
  <2>12. /\ invite \in [Invites -> [state : {"new", "live", "revoked", "gone"},
                                    kind : {"user", "org"}, org : OrgArgs, uses : {0, 1}]]
         /\ seated \in [Invites -> {0, 1}] /\ registrar \in [Workers -> Seq(AccountWrites)]
    BY <2>5, <2>7, <2>8
  <2>13. QED
    BY Zenon, <2>9, <2>10, <2>11, <2>12 DEF InviteInv
<1>2. InviteInv /\ [A!Next]_A!vars => InviteInv'
  <2>1. SUFFICES ASSUME InviteInv, [A!Next]_A!vars PROVE InviteInv'
    OBVIOUS
  <2>2. CASE UNCHANGED A!vars
    <3>1. invite' = invite /\ registrar' = registrar /\ seated' = seated
      BY Zenon, <2>2 DEF A!vars
    <3>2. QED
      BY Zenon, <2>1, <3>1 DEF InviteInv
  <2>3. CASE A!PurgeExpiredInvites
    <3>1. PICK i \in Invites : /\ invite[i].state = "revoked" \/ invite[i].uses >= 1
                               /\ invite' = [invite EXCEPT ![i].state = "gone"]
      BY Zenon, <2>3 DEF A!PurgeExpiredInvites
    <3>2. invite[i].state # "new"
      BY <2>1, <3>1 DEF InviteInv
    <3>3. registrar' = registrar /\ seated' = seated
      BY Zenon, <2>3 DEF A!PurgeExpiredInvites
    <3>4. QED
      BY Zenon, <2>1, <3>1, <3>2, <3>3, InviteRetired
  <2>4. ASSUME NEW i \in Invites, A!RevokeOrgInvite(i) PROVE InviteInv'
    <3>1. /\ invite[i].state = "live" /\ invite' = [invite EXCEPT ![i].state = "revoked"]
          /\ registrar' = registrar /\ seated' = seated
      BY Zenon, <2>4 DEF A!RevokeOrgInvite
    <3>2. QED
      BY Zenon, <2>1, <3>1, InviteRetired
  <2>5. ASSUME NEW w \in Workers, A!Statement(w) \/ A!HandlerFails(w) PROVE InviteInv'
    BY Zenon, <2>1, <2>5, AccountStatement, AccountHandlerStops
  <2>6. ASSUME NEW w \in Workers, NEW u \in Users,
               \/ \E n \in A!Names : A!Register(w, u, n)
               \/ A!DeleteAccount(w, u)
               \/ \E i \in Invites : A!AcceptOrgInvite(w, i, u)
               \/ \E o \in Orgs :
                    \/ A!DeleteOrg(w, o, u) \/ A!AddOrgMember(w, o, u)
                    \/ A!SetOrgMemberRole(w, o, u) \/ A!RemoveOrgMember(w, o, u)
                    \/ \E n \in A!Names : A!CreateOrg(w, o, u, n)
                    \/ \E to \in Users : A!TransferOrgOwnership(w, o, u, to)
        PROVE  InviteInv'
    BY Zenon, <2>1, <2>6, AccountHandlers
  <2>7. ASSUME NEW w \in Workers, NEW i \in Invites,
               \/ A!CreateUserInvite(w, i)
               \/ \E u \in Users, o \in Orgs : A!InviteOrgMember(w, i, o, u)
        PROVE  InviteInv'
    BY Zenon, <2>1, <2>7, InviteHandlers
  <2>8. QED
    BY Zenon, <2>1, <2>2, <2>3, <2>4, <2>5, <2>6, <2>7 DEF A!Next
<1>3. QED
  BY <1>1, <1>2, PTL DEF A!Spec

\* However redemptions overlap and wherever they fail, an invitation is used
\* once, and nobody is seated without a use.
THEOREM InvitationSpentOnce ==
  ASSUME NoId \notin Orgs
  PROVE  A!Spec => []A!InviteSpentOnce
<1>1. InviteInv => A!InviteSpentOnce
  BY DEF InviteInv, A!InviteSpentOnce
<1>2. QED
  BY <1>1, InviteInductive, PTL

-----------------------------------------------------------------------------
(* Custom domains.                                                           *)

CONSTANTS Rows, DomainNames, Eligible, Owners, RequireApproval, MaxDomains, MaxChecks

VARIABLES row, matched, cert, verifier, crossed

D == INSTANCE Domains WITH Names <- DomainNames, worker <- verifier, overlap <- crossed

DomainRows == [state : {"row"}, owner : Owners, name : DomainNames,
               verification : {"pending", "verified", "failed"}, checks : Nat,
               status : {"pending", "active", "suspended"}, ssl : {"none", "pending", "error"}]

\* A row that was verified, or is served, has been seen to match.
Proven(d, r, m) == r.status = "active" \/ r.verification = "verified" => d \in m

DomainOps == {"create", "checked", "verified", "status", "ssl", "delete", "addCert", "removeCert"}
DomainArgs == {"none", "pending", "active", "suspended", "failed", "error"} \cup DomainNames

\* What a statement writes is a value of its column, and claims only what was seen.
Claims(s, m) ==
  /\ s.op = "create" => /\ s.new \in DomainRows /\ s.new.status = "pending"
                        /\ s.new.verification = "pending"
  /\ s.op = "checked" => s.arg \in {"pending", "failed"}
  /\ s.op = "verified" => s.arg \in {"pending", "active"} /\ s.id \in m
  /\ s.op = "status" => s.arg \in {"active", "suspended"} /\ (s.arg = "active" => s.id \in m)
  /\ s.op = "ssl" => s.arg \in {"none", "pending", "error"}

DomainWrites(m) ==
  {s \in [op : DomainOps, id : Rows, arg : DomainArgs, new : DomainRows \cup {D!NoRow}] :
     Claims(s, m)}
RowWork(m) == {q \in Seq(DomainWrites(m)) : Len(q) > 0}

DomainInv ==
  /\ row \in [Rows -> DomainRows \cup {D!NoRow, D!Deleted}]
  /\ matched \in SUBSET Rows
  /\ \A d \in Rows : row[d] \in DomainRows => Proven(d, row[d], matched)
  /\ verifier \in [Workers -> Seq(RowWork(matched))]

LEMMA DomainStates ==
  /\ D!NoRow.state = "none" /\ D!Deleted.state = "deleted"
  /\ \A r \in DomainRows : r.state = "row"
  /\ \A r \in DomainRows \cup {D!NoRow, D!Deleted} : r.state = "row" => r \in DomainRows
<1>1. D!NoRow.state = "none" /\ D!Deleted.state = "deleted"
  BY DEF D!NoRow, D!Deleted
<1>2. \A r \in DomainRows : r.state = "row"
  BY DEF DomainRows
<1>3. QED
  BY <1>1, <1>2

\* What has been seen to match is never unseen.
LEMMA WorkGrows ==
  ASSUME NEW m, NEW n, m \subseteq n
  PROVE  /\ DomainWrites(m) \subseteq DomainWrites(n) /\ RowWork(m) \subseteq RowWork(n)
         /\ Seq(RowWork(m)) \subseteq Seq(RowWork(n))
<1>1. DomainWrites(m) \subseteq DomainWrites(n)
  BY DEF DomainWrites, Claims
<1>2. \A E, F : E \subseteq F => Seq(E) \subseteq Seq(F)
  OBVIOUS
<1>3. RowWork(m) \subseteq RowWork(n)
  BY Zenon, <1>1, <1>2 DEF RowWork
<1>4. QED
  BY Zenon, <1>1, <1>2, <1>3

\* A statement other than the insertion of a row.
LEMMA DomainWrite ==
  ASSUME NEW op \in DomainOps, NEW d \in Rows, NEW arg \in DomainArgs, NEW m, op # "create",
         op = "checked" => arg \in {"pending", "failed"},
         op = "verified" => arg \in {"pending", "active"} /\ d \in m,
         op = "status" => arg \in {"active", "suspended"} /\ (arg = "active" => d \in m),
         op = "ssl" => arg \in {"none", "pending", "error"}
  PROVE  D!Do(op, d, arg) \in DomainWrites(m)
<1>1. PICK n : n = D!NoRow
  BY Zenon
<1>2. PICK s : s = [op |-> op, id |-> d, arg |-> arg, new |-> n]
  BY Zenon
<1>3. /\ s \in [op : DomainOps, id : Rows, arg : DomainArgs, new : DomainRows \cup {D!NoRow}]
      /\ s.op = op /\ s.id = d /\ s.arg = arg
  BY <1>1, <1>2
<1>4. Claims(s, m)
  BY <1>3 DEF Claims
<1>5. D!Do(op, d, arg) = s
  BY Zenon, <1>1, <1>2 DEF D!Do
<1>6. QED
  BY Zenon, <1>3, <1>4, <1>5 DEF DomainWrites

\* Lists of statements.
LEMMA WorkLists ==
  ASSUME NEW m, NEW a \in DomainWrites(m)
  PROVE  /\ <<a>> \in RowWork(m)
         /\ \A b \in DomainWrites(m) : <<a, b>> \in RowWork(m)
         /\ \A q \in RowWork(m) : <<a>> \o q \in RowWork(m)
<1>1. PICK p : p = <<a>>
  BY Zenon
<1>2. p \in Seq(DomainWrites(m)) /\ Len(p) = 1
  BY <1>1
<1>3. \A b \in DomainWrites(m) : <<a, b>> \in RowWork(m)
  BY DEF RowWork
<1>4. ASSUME NEW q \in RowWork(m) PROVE p \o q \in RowWork(m)
  <2>1. q \in Seq(DomainWrites(m)) /\ Len(q) > 0 /\ Len(q) \in Nat
    BY DEF RowWork
  <2>2. p \o q \in Seq(DomainWrites(m))
    BY <1>2, <2>1
  <2>3. Len(p \o q) = Len(p) + Len(q)
    <3>1. \A E : \A x, y \in Seq(E) : Len(x \o y) = Len(x) + Len(y)
      OBVIOUS
    <3>2. QED
      BY Zenon, <1>2, <2>1, <3>1
  <2>4. Len(p \o q) > 0
    BY <1>2, <2>1, <2>3
  <2>5. QED
    BY Zenon, <2>2, <2>4 DEF RowWork
<1>5. p \in RowWork(m)
  BY <1>2 DEF RowWork
<1>6. QED
  BY Zenon, <1>1, <1>3, <1>4, <1>5

LEMMA OneRow ==
  ASSUME NEW m, NEW q \in RowWork(m)
  PROVE  <<q>> \in Seq(RowWork(m))
OBVIOUS

LEMMA CertificateWork ==
  ASSUME DomainInv, NEW d \in D!Stored, NEW m
  PROVE  D!requestCertificate(d) \in RowWork(m)
<1>1. d \in Rows /\ row[d].name \in DomainNames
  BY DomainStates DEF D!Stored, DomainInv, DomainRows
<1>2. D!Do("ssl", d, "none") \in DomainWrites(m)
  BY <1>1, DomainWrite DEF DomainOps, DomainArgs
<1>3. D!Do("ssl", d, "pending") \in DomainWrites(m)
  BY <1>1, DomainWrite DEF DomainOps, DomainArgs
<1>4. D!Do("addCert", d, row[d].name) \in DomainWrites(m)
  BY Zenon, <1>1, DomainWrite DEF DomainOps, DomainArgs
<1>5. QED
  BY Zenon, <1>2, <1>3, <1>4, WorkLists DEF D!requestCertificate

LEMMA VerificationWork ==
  ASSUME DomainInv, NEW d \in D!Stored, NEW match \in BOOLEAN, NEW m, match => d \in m
  PROVE  D!runVerification(d, match) \in RowWork(m)
<1>1. d \in Rows
  BY Zenon DEF D!Stored
<1>2. PICK f \in {"pending", "failed"} : f = D!failedLookup(d)
  BY DEF D!failedLookup
<1>3. D!Do("checked", d, f) \in DomainWrites(m)
  BY <1>1, DomainWrite DEF DomainOps, DomainArgs
<1>4. match => D!Do("verified", d, "pending") \in DomainWrites(m)
  BY <1>1, DomainWrite DEF DomainOps, DomainArgs
<1>5. match => D!Do("verified", d, "active") \in DomainWrites(m)
  BY <1>1, DomainWrite DEF DomainOps, DomainArgs
<1>6. D!requestCertificate(d) \in RowWork(m)
  BY Zenon, CertificateWork
<1>7. CASE ~ match
  BY Zenon, <1>2, <1>3, <1>7, WorkLists DEF D!runVerification
<1>8. CASE match /\ RequireApproval
  BY Zenon, <1>4, <1>8, WorkLists DEF D!runVerification
<1>9. CASE match /\ ~ RequireApproval
  BY Zenon, <1>5, <1>6, <1>9, WorkLists DEF D!runVerification
<1>10. QED
  BY Zenon, <1>7, <1>8, <1>9

\* A handler starts on what it has read and seen.
LEMMA DomainHandlerStarts ==
  ASSUME DomainInv, NEW w \in Workers, NEW work, D!Start(w, work), matched' \in SUBSET Rows,
         matched \subseteq matched', work \in Seq(RowWork(matched'))
  PROVE  DomainInv'
<1>1. verifier' = [verifier EXCEPT ![w] = work] /\ row' = row
  BY Zenon DEF D!Start
<1>2. Seq(RowWork(matched)) \subseteq Seq(RowWork(matched'))
  BY Zenon, WorkGrows
<1>3. verifier' \in [Workers -> Seq(RowWork(matched'))]
  BY Zenon, <1>1, <1>2 DEF DomainInv
<1>4. \A d \in Rows : row[d] \in DomainRows => Proven(d, row[d], matched')
  BY Zenon DEF DomainInv, Proven
<1>5. QED
  BY Zenon, <1>1, <1>3, <1>4 DEF DomainInv

LEMMA DomainHandlers ==
  ASSUME DomainInv, NEW w \in Workers, NEW d \in Rows,
         \/ D!ActivateDomain(w, d) \/ D!SuspendDomain(w, d) \/ D!DeleteDomain(w, d)
         \/ \E match \in BOOLEAN : D!VerifyDomain(w, d, match)
         \/ \E o \in Owners, n \in DomainNames : D!AddDomain(w, o, n, d)
  PROVE  DomainInv'
<1>1. matched \in SUBSET Rows
  BY Zenon DEF DomainInv
<1>2. ASSUME NEW work \in RowWork(matched'), D!Start(w, <<work>>), matched' \in SUBSET Rows,
             matched \subseteq matched'
      PROVE  DomainInv'
  BY Zenon, <1>2, OneRow, DomainHandlerStarts
<1>3. CASE D!ActivateDomain(w, d)
  <2>1. /\ d \in D!Stored /\ row[d].verification = "verified" /\ matched' = matched
        /\ D!Start(w, << <<D!Do("status", d, "active")>> \o D!requestCertificate(d) >>)
    BY Zenon, <1>3 DEF D!ActivateDomain
  <2>2. d \in matched
    BY <2>1, DomainStates DEF D!Stored, DomainInv, Proven
  <2>3. D!Do("status", d, "active") \in DomainWrites(matched)
    BY <2>2, DomainWrite DEF DomainOps, DomainArgs
  <2>4. D!requestCertificate(d) \in RowWork(matched)
    BY Zenon, <2>1, CertificateWork
  <2>5. <<D!Do("status", d, "active")>> \o D!requestCertificate(d) \in RowWork(matched)
    BY Zenon, <2>3, <2>4, WorkLists
  <2>6. QED
    BY Zenon, <1>1, <1>2, <2>1, <2>5
<1>4. CASE D!SuspendDomain(w, d) \/ D!DeleteDomain(w, d)
  <2>1. /\ d \in D!Stored /\ matched' = matched
        /\ \/ D!Start(w, << <<D!Do("status", d, "suspended"),
                              D!Do("removeCert", d, row[d].name)>> >>)
           \/ D!Start(w, << <<D!Do("delete", d, "none"), D!Do("removeCert", d, row[d].name)>> >>)
    BY Zenon, <1>4 DEF D!SuspendDomain, D!DeleteDomain
  <2>2. row[d].name \in DomainNames
    BY <2>1, DomainStates DEF D!Stored, DomainInv, DomainRows
  <2>3. D!Do("status", d, "suspended") \in DomainWrites(matched)
    BY DomainWrite DEF DomainOps, DomainArgs
  <2>4. D!Do("delete", d, "none") \in DomainWrites(matched)
    BY DomainWrite DEF DomainOps, DomainArgs
  <2>5. D!Do("removeCert", d, row[d].name) \in DomainWrites(matched)
    BY Zenon, <2>2, DomainWrite DEF DomainOps, DomainArgs
  <2>6. QED
    BY Zenon, <1>1, <1>2, <2>1, <2>3, <2>4, <2>5, WorkLists
<1>5. ASSUME NEW match \in BOOLEAN, D!VerifyDomain(w, d, match)
      PROVE  DomainInv'
  <2>1. /\ d \in D!Stored /\ matched' = IF match THEN matched \cup {d} ELSE matched
        /\ D!Start(w, <<D!runVerification(d, match)>>)
    BY Zenon, <1>5 DEF D!VerifyDomain
  <2>2. /\ matched' \in SUBSET Rows /\ matched \subseteq matched' /\ (match => d \in matched')
    BY Zenon, <1>1, <2>1
  <2>3. D!runVerification(d, match) \in RowWork(matched')
    BY Zenon, <2>1, <2>2, VerificationWork
  <2>4. QED
    BY Zenon, <1>2, <2>1, <2>2, <2>3
<1>6. ASSUME NEW o \in Owners, NEW n \in DomainNames, D!AddDomain(w, o, n, d)
      PROVE  DomainInv'
  <2>1. PICK r : r = [state |-> "row", owner |-> o, name |-> n, verification |-> "pending",
                      checks |-> 0, status |-> "pending", ssl |-> "none"]
    BY Zenon
  <2>2. r \in DomainRows /\ r.status = "pending" /\ r.verification = "pending"
    BY <2>1 DEF DomainRows
  <2>3. PICK x : x = D!NoRow
    BY Zenon
  <2>4. PICK s : s = [op |-> "create", id |-> d, arg |-> "none", new |-> r]
    BY Zenon
  <2>5. /\ s \in [op : DomainOps, id : Rows, arg : DomainArgs, new : DomainRows \cup {D!NoRow}]
        /\ s.op = "create" /\ s.new = r
    BY <2>2, <2>4 DEF DomainOps, DomainArgs
  <2>6. s \in DomainWrites(matched)
    BY <2>2, <2>5 DEF DomainWrites, Claims
  <2>7. s = [D!Do("create", d, "none") EXCEPT !.new = r]
    <3>1. D!Do("create", d, "none") = [op |-> "create", id |-> d, arg |-> "none", new |-> x]
      BY Zenon, <2>3 DEF D!Do
    <3>2. [[op |-> "create", id |-> d, arg |-> "none", new |-> x] EXCEPT !.new = r] = s
      BY <2>4
    <3>3. QED
      BY Zenon, <3>1, <3>2
  <2>8. D!Start(w, << <<s>> >>) /\ matched' = matched
    BY Zenon, <1>6, <2>1, <2>7 DEF D!AddDomain
  <2>9. <<s>> \in RowWork(matched)
    BY Zenon, <2>6, WorkLists
  <2>10. QED
    BY Zenon, <1>1, <1>2, <2>8, <2>9
<1>7. QED
  BY Zenon, <1>3, <1>4, <1>5, <1>6

\* What cleanup and the sweep read of the table is finite.
FinitelyManyDomains == \A ds \in SUBSET Rows : Cardinality(ds) \in Nat

LEMMA DomainSweepStarts ==
  ASSUME DomainInv, FinitelyManyDomains, NEW w \in Workers, NEW hits \in SUBSET Rows,
         D!RunDomainVerification(w, hits)
  PROVE  DomainInv'
<1>1. PICK due : due = {d \in D!Stored : row[d].verification = "pending"}
  BY Zenon
<1>2. /\ due \in SUBSET D!Stored /\ due \in SUBSET Rows
      /\ matched' = matched \cup hits
  BY Zenon, <1>1 DEF D!Stored, D!RunDomainVerification
<1>3. PICK n \in Nat : n = D!Cardinality(due)
  <2>1. D!Cardinality(due) = Cardinality(due)
    BY Zenon DEF Cardinality, D!Cardinality
  <2>2. QED
    BY <1>2, <2>1 DEF FinitelyManyDomains
<1>4. PICK q \in D!Listed(due) :
        D!Start(w, [i \in 1..D!Cardinality(due) |-> D!runVerification(q[i], q[i] \in hits)])
  BY Zenon, <1>1 DEF D!RunDomainVerification
<1>5. \A i \in 1..n : q[i] \in due
  BY <1>3, <1>4 DEF D!Listed
<1>6. matched \subseteq matched' /\ matched' \in SUBSET Rows /\ hits \subseteq matched'
  BY Zenon, <1>2 DEF DomainInv
<1>7. ASSUME NEW i \in 1..n
      PROVE  D!runVerification(q[i], q[i] \in hits) \in RowWork(matched')
  <2>1. PICK d \in D!Stored : d = q[i]
    BY Zenon, <1>2, <1>5
  <2>2. (d \in hits) \in BOOLEAN
    OBVIOUS
  <2>3. d \in hits => d \in matched'
    BY Zenon, <1>6
  <2>4. D!runVerification(d, d \in hits) \in RowWork(matched')
    BY Zenon, <2>2, <2>3, VerificationWork
  <2>5. QED
    BY Zenon, <2>1, <2>4
<1>8. [i \in 1..n |-> D!runVerification(q[i], q[i] \in hits)] \in Seq(RowWork(matched'))
  BY <1>7
<1>9. QED
  BY Zenon, <1>3, <1>4, <1>6, <1>8, DomainHandlerStarts

\* A row of the table is written; nothing else about the table changes.
LEMMA DomainRowWritten ==
  ASSUME DomainInv, NEW d \in Rows, NEW r \in DomainRows \cup {D!NoRow, D!Deleted},
         r \in DomainRows => Proven(d, r, matched),
         row' = [row EXCEPT ![d] = r] \/ row' = row
  PROVE  /\ row' \in [Rows -> DomainRows \cup {D!NoRow, D!Deleted}]
         /\ \A e \in Rows : row'[e] \in DomainRows => Proven(e, row'[e], matched)
<1>1. CASE row' = row
  BY Zenon, <1>1 DEF DomainInv
<1>2. CASE row' = [row EXCEPT ![d] = r]
  BY Zenon, <1>2 DEF DomainInv
<1>3. QED
  BY Zenon, <1>1, <1>2

LEMMA DomainWorkLeft ==
  ASSUME DomainInv, NEW w \in Workers, verifier[w] # <<>>
  PROVE  /\ Head(verifier[w]) \in RowWork(matched)
         /\ Tail(verifier[w]) \in Seq(RowWork(matched))
         /\ Head(Head(verifier[w])) \in DomainWrites(matched)
         /\ \A q \in RowWork(matched) : <<q>> \o Tail(verifier[w]) \in Seq(RowWork(matched))
         /\ Len(Head(verifier[w])) = 1 \/ Tail(Head(verifier[w])) \in RowWork(matched)
<1>1. PICK v \in Seq(RowWork(matched)) : v = verifier[w] /\ v # <<>>
  BY Zenon DEF DomainInv
<1>2. Head(v) \in RowWork(matched) /\ Tail(v) \in Seq(RowWork(matched))
  BY <1>1
<1>3. PICK p \in RowWork(matched) : p = Head(v)
  BY Zenon, <1>2
<1>4. PICK t \in Seq(RowWork(matched)) : t = Tail(v)
  BY Zenon, <1>2
<1>5. p \in Seq(DomainWrites(matched)) /\ Len(p) \in Nat /\ Len(p) > 0
  BY DEF RowWork
<1>6. Head(p) \in DomainWrites(matched)
  BY <1>5
<1>7. Len(p) = 1 \/ Tail(p) \in RowWork(matched)
  <2>1. Tail(p) \in Seq(DomainWrites(matched)) /\ Len(Tail(p)) = Len(p) - 1
    BY <1>5
  <2>2. Len(p) = 1 \/ Len(Tail(p)) > 0
    BY <1>5, <2>1
  <2>3. QED
    BY Zenon, <2>1, <2>2 DEF RowWork
<1>8. ASSUME NEW q \in RowWork(matched) PROVE <<q>> \o t \in Seq(RowWork(matched))
  <2>1. PICK u \in Seq(RowWork(matched)) : u = <<q>>
    BY Zenon, OneRow
  <2>2. u \o t \in Seq(RowWork(matched))
    OBVIOUS
  <2>3. QED
    BY Zenon, <2>1, <2>2
<1>9. QED
  BY Zenon, <1>1, <1>3, <1>4, <1>6, <1>7, <1>8

LEMMA DomainChecked ==
  ASSUME NEW x \in DomainRows, NEW v \in {"pending", "verified", "failed"}
  PROVE  LET r == [x EXCEPT !.verification = v, !.checks = @ + 1]
         IN  r \in DomainRows /\ r.status = x.status /\ r.verification = v
<1>1. x.checks + 1 \in Nat
  BY DEF DomainRows
<1>2. PICK n \in Nat : n = x.checks + 1
  BY <1>1
<1>3. PICK r : r = [x EXCEPT !.verification = v, !.checks = n]
  BY Zenon
<1>4. r \in DomainRows /\ r.status = x.status /\ r.verification = v
  BY Zenon, <1>3 DEF DomainRows
<1>5. QED
  BY Zenon, <1>2, <1>3, <1>4

LEMMA DomainVerified ==
  ASSUME NEW x \in DomainRows, NEW v \in {"pending", "active", "suspended"}
  PROVE  [x EXCEPT !.verification = "verified", !.checks = @ + 1, !.status = v] \in DomainRows
<1>1. x.checks + 1 \in Nat
  BY DEF DomainRows
<1>2. PICK n \in Nat : n = x.checks + 1
  BY <1>1
<1>3. PICK r : r = [x EXCEPT !.verification = "verified", !.checks = n, !.status = v]
  BY Zenon
<1>4. r \in DomainRows
  BY Zenon, <1>3 DEF DomainRows
<1>5. QED
  BY Zenon, <1>2, <1>3, <1>4

LEMMA DomainStatement ==
  ASSUME DomainInv, NEW w \in Workers, D!Statement(w)
  PROVE  DomainInv'
<1>1. PICK v : v = verifier[w] /\ v # <<>>
  BY Zenon DEF D!Statement
<1>2. PICK s \in DomainWrites(matched) : s = Head(Head(verifier[w]))
  BY Zenon, <1>1, DomainWorkLeft
<1>3. verifier' \in [Workers -> Seq(RowWork(matched))] /\ matched' = matched
  <2>1. PICK t : /\ t = IF Len(Head(verifier[w])) = 1 THEN Tail(verifier[w])
                       ELSE <<Tail(Head(verifier[w]))>> \o Tail(verifier[w])
                 /\ verifier' = [verifier EXCEPT ![w] = t] /\ matched' = matched
    BY Zenon DEF D!Statement
  <2>2. t \in Seq(RowWork(matched))
    BY Zenon, <1>1, <2>1, DomainWorkLeft
  <2>3. QED
    BY Zenon, <2>1, <2>2 DEF DomainInv
<1>4. PICK d \in Rows : d = s.id
  BY DEF DomainWrites
<1>5. Claims(s, matched)
  BY Zenon DEF DomainWrites
<1>6. \/ s.op = "create" /\ D!CreateDomain(d, s.new)
      \/ s.op = "checked" /\ D!MarkDomainChecked(d, s.arg)
      \/ s.op = "verified" /\ D!MarkDomainVerified(d, s.arg)
      \/ s.op = "status" /\ D!SetDomainStatus(d, s.arg)
      \/ s.op = "ssl" /\ D!SetDomainSSL(d, s.arg)
      \/ s.op = "delete" /\ D!DeleteRow(d)
      \/ UNCHANGED row
  BY Zenon, <1>2, <1>4 DEF D!Statement
<1>7. PICK x : x = row[d]
  BY Zenon
<1>8. d \in D!Stored => x \in DomainRows /\ Proven(d, x, matched)
  BY Zenon, <1>7, DomainStates DEF DomainInv, D!Stored
<1>9. /\ row' \in [Rows -> DomainRows \cup {D!NoRow, D!Deleted}]
      /\ \A e \in Rows : row'[e] \in DomainRows => Proven(e, row'[e], matched)
  <2>1. ASSUME NEW r, D!SetRow(d, r),
               d \in D!Stored => r \in DomainRows /\ Proven(d, r, matched)
        PROVE  <1>9!1 /\ <1>9!2
    <3>1. CASE d \in D!Stored
      BY Zenon, <2>1, <3>1, DomainRowWritten DEF D!SetRow
    <3>2. CASE d \notin D!Stored
      BY Zenon, <2>1, <3>2 DEF D!SetRow, DomainInv
    <3>3. QED
      BY Zenon, <3>1, <3>2
  <2>2. CASE s.op = "create" /\ D!CreateDomain(d, s.new)
    <3>1. s.new \in DomainRows /\ Proven(d, s.new, matched)
      BY <1>5, <2>2 DEF Claims, Proven
    <3>2. QED
      BY Zenon, <2>2, <3>1, DomainRowWritten DEF D!CreateDomain
  <2>3. CASE s.op = "checked" /\ D!MarkDomainChecked(d, s.arg)
    <3>1. PICK r : r = [x EXCEPT !.verification = s.arg, !.checks = @ + 1]
      BY Zenon
    <3>2. s.arg \in {"pending", "failed"}
      BY Zenon, <1>5, <2>3 DEF Claims
    <3>3. d \in D!Stored => r \in DomainRows /\ Proven(d, r, matched)
      <4>1. SUFFICES ASSUME d \in D!Stored PROVE r \in DomainRows /\ Proven(d, r, matched)
        BY Zenon
      <4>2. s.arg \in {"pending", "verified", "failed"} /\ x \in DomainRows
        BY Zenon, <1>8, <3>2, <4>1
      <4>3. r \in DomainRows /\ r.status = x.status /\ r.verification = s.arg
        BY Zenon, <3>1, <4>2, DomainChecked
      <4>4. r.verification # "verified"
        BY <3>2, <4>3
      <4>5. QED
        BY Zenon, <1>8, <4>1, <4>3, <4>4 DEF Proven
    <3>4. QED
      BY Zenon, <1>7, <2>1, <2>3, <3>1, <3>3 DEF D!MarkDomainChecked
  <2>4. CASE s.op = "verified" /\ D!MarkDomainVerified(d, s.arg)
    <3>1. PICK r : r = [x EXCEPT !.verification = "verified", !.checks = @ + 1,
                                 !.status = s.arg]
      BY Zenon
    <3>2. s.arg \in {"pending", "active"} /\ d \in matched
      BY Zenon, <1>4, <1>5, <2>4 DEF Claims
    <3>3. d \in D!Stored => r \in DomainRows /\ Proven(d, r, matched)
      BY Zenon, <1>8, <3>1, <3>2, DomainVerified DEF Proven
    <3>4. QED
      BY Zenon, <1>7, <2>1, <2>4, <3>1, <3>3 DEF D!MarkDomainVerified
  <2>5. CASE s.op = "status" /\ D!SetDomainStatus(d, s.arg)
    <3>1. PICK r : r = [x EXCEPT !.status = s.arg]
      BY Zenon
    <3>2. s.arg \in {"active", "suspended"} /\ (s.arg = "active" => d \in matched)
      BY Zenon, <1>4, <1>5, <2>5 DEF Claims
    <3>3. d \in D!Stored => r \in DomainRows /\ Proven(d, r, matched)
      BY <1>8, <3>1, <3>2 DEF DomainRows, Proven
    <3>4. QED
      BY Zenon, <1>7, <2>1, <2>5, <3>1, <3>3 DEF D!SetDomainStatus
  <2>6. CASE s.op = "ssl" /\ D!SetDomainSSL(d, s.arg)
    <3>1. PICK r : r = [x EXCEPT !.ssl = s.arg]
      BY Zenon
    <3>2. s.arg \in {"none", "pending", "error"}
      BY Zenon, <1>5, <2>6 DEF Claims
    <3>3. d \in D!Stored => r \in DomainRows /\ Proven(d, r, matched)
      BY <1>8, <3>1, <3>2 DEF DomainRows, Proven
    <3>4. QED
      BY Zenon, <1>7, <2>1, <2>6, <3>1, <3>3 DEF D!SetDomainSSL
  <2>7. CASE s.op = "delete" /\ D!DeleteRow(d)
    <3>1. D!Deleted \notin DomainRows
      BY DomainStates
    <3>2. QED
      BY Zenon, <2>7, <3>1, DomainRowWritten DEF D!DeleteRow
  <2>8. CASE UNCHANGED row
    BY Zenon, <2>8 DEF DomainInv
  <2>9. QED
    BY Zenon, <1>6, <2>2, <2>3, <2>4, <2>5, <2>6, <2>7, <2>8
<1>10. QED
  BY Zenon, <1>3, <1>9 DEF DomainInv

LEMMA DomainHandlerStops ==
  ASSUME DomainInv, NEW w \in Workers, D!StatementFails(w) \/ D!HandlerFails(w)
  PROVE  DomainInv'
<1>1. PICK t : /\ verifier' = [verifier EXCEPT ![w] = t] /\ verifier[w] # <<>>
               /\ UNCHANGED <<row, matched>>
               /\ \/ t = <<>>
                  \/ t = Tail(verifier[w])
                  \/ t = << <<D!Do("ssl", Head(Head(verifier[w])).id, "error")>> >>
                           \o Tail(verifier[w])
  BY Zenon DEF D!StatementFails, D!HandlerFails
<1>2. PICK s \in DomainWrites(matched) : s = Head(Head(verifier[w]))
  BY Zenon, <1>1, DomainWorkLeft
<1>3. PICK d \in Rows : d = s.id
  BY DEF DomainWrites
<1>4. D!Do("ssl", d, "error") \in DomainWrites(matched)
  BY DomainWrite DEF DomainOps, DomainArgs
<1>5. <<D!Do("ssl", d, "error")>> \in RowWork(matched)
  BY Zenon, <1>4, WorkLists
<1>6. <<>> \in Seq(RowWork(matched))
  OBVIOUS
<1>7. t \in Seq(RowWork(matched))
  BY Zenon, <1>1, <1>2, <1>3, <1>5, <1>6, DomainWorkLeft
<1>8. verifier' \in [Workers -> Seq(RowWork(matched))]
  BY Zenon, <1>1, <1>7 DEF DomainInv
<1>9. QED
  BY Zenon, <1>1, <1>8 DEF DomainInv

\* Each statement writes what its handler had seen, and what was seen stays seen.
THEOREM DomainInductive ==
  ASSUME FinitelyManyDomains
  PROVE  D!Spec => []DomainInv
<1>1. D!Init => DomainInv
  <2>1. SUFFICES ASSUME D!Init PROVE DomainInv
    BY Zenon
  <2>2. PICK n : n = D!NoRow
    BY Zenon
  <2>3. n \in DomainRows \cup {n, D!Deleted} /\ n \notin DomainRows
    BY <2>2, DomainStates
  <2>4. row \in [Rows -> DomainRows \cup {n, D!Deleted}] /\ \A d \in Rows : row[d] = n
    BY Zenon, <2>1, <2>2, <2>3 DEF D!Init
  <2>5. matched = {} /\ verifier = [w \in Workers |-> <<>>]
    BY Zenon, <2>1 DEF D!Init
  <2>6. <<>> \in Seq(RowWork(matched))
    OBVIOUS
  <2>7. verifier \in [Workers -> Seq(RowWork(matched))] /\ matched \in SUBSET Rows
    BY Zenon, <2>5, <2>6
  <2>8. QED
    BY Zenon, <2>2, <2>3, <2>4, <2>7 DEF DomainInv
<1>2. DomainInv /\ [D!Next]_D!vars => DomainInv'
  <2>1. SUFFICES ASSUME DomainInv, [D!Next]_D!vars PROVE DomainInv'
    BY Zenon
  <2>2. CASE UNCHANGED D!vars
    <3>1. UNCHANGED <<row, matched, verifier>>
      BY Zenon, <2>2 DEF D!vars
    <3>2. QED
      BY Zenon, <2>1, <3>1 DEF DomainInv
  <2>3. ASSUME NEW old \in SUBSET Rows, D!PurgeStaleDomains(old) PROVE DomainInv'
    <3>1. /\ row' = [d \in Rows |-> IF d \in old THEN D!Deleted ELSE row[d]]
          /\ UNCHANGED <<matched, verifier>>
      BY Zenon, <2>3 DEF D!PurgeStaleDomains
    <3>2. D!Deleted \notin DomainRows
      BY DomainStates
    <3>3. /\ row' \in [Rows -> DomainRows \cup {D!NoRow, D!Deleted}]
          /\ \A d \in Rows : row'[d] = D!Deleted \/ row'[d] = row[d]
      BY Zenon, <2>1, <3>1 DEF DomainInv
    <3>4. \A d \in Rows : row'[d] \in DomainRows => Proven(d, row'[d], matched)
      BY Zenon, <2>1, <3>2, <3>3 DEF DomainInv
    <3>5. QED
      BY Zenon, <2>1, <3>1, <3>3, <3>4 DEF DomainInv
  <2>4. ASSUME NEW w \in Workers,
               \/ D!Statement(w) \/ D!StatementFails(w) \/ D!HandlerFails(w)
               \/ \E hits \in SUBSET Rows : D!RunDomainVerification(w, hits)
               \/ \E d \in Rows :
                    \/ D!ActivateDomain(w, d) \/ D!SuspendDomain(w, d) \/ D!DeleteDomain(w, d)
                    \/ \E match \in BOOLEAN : D!VerifyDomain(w, d, match)
                    \/ \E o \in Owners, n \in DomainNames : D!AddDomain(w, o, n, d)
        PROVE  DomainInv'
    BY Zenon, <2>1, <2>4, DomainStatement, DomainHandlerStops, DomainSweepStarts, DomainHandlers
  <2>5. QED
    BY Zenon, <2>1, <2>2, <2>3, <2>4 DEF D!Next
<1>3. QED
  BY <1>1, <1>2, PTL DEF D!Spec

\* However verifications, approvals and sweeps overlap, and whichever of their
\* statements fail, a domain that is served has been seen to match.
THEOREM ServedWasProven ==
  ASSUME FinitelyManyDomains
  PROVE  D!Spec => []D!ProvenBeforeServed
<1>1. DomainInv => D!ProvenBeforeServed
  BY Zenon, DomainStates DEF DomainInv, D!ProvenBeforeServed, D!Stored, Proven
<1>2. QED
  BY <1>1, DomainInductive, PTL

-----------------------------------------------------------------------------
(* The credentials of an account.                                            *)

CONSTANTS Sessions, Secrets, NoSecret, MaxSessions, Threshold, SessionTTL

VARIABLES loginNow, account, session, proven, login, cut

S == INSTANCE Credentials WITH now <- loginNow, worker <- login

\* The columns of an account, and of a statement on them, when those secrets
\* are proven: the count is below the threshold, the active factor is proven.
Sound(r, secrets) == r.failed < Threshold /\ (r.totp => r.secret \in secrets)

Columns(secrets) ==
  {r \in [failed : Nat, locked : BOOLEAN, secret : Secrets \cup {NoSecret}, totp : BOOLEAN] :
     Sound(r, secrets)}
AccountRows(secrets) ==
  {r \in [disabled : BOOLEAN, secret : Secrets \cup {NoSecret}, totp : BOOLEAN,
          failed : Nat, locked : BOOLEAN] : Sound(r, secrets)}
Ops == {"failure", "totp", "session", "trim", "success", "endAll", "end", "drop"}
AccountStatements(secrets) == [op : Ops, on : SUBSET Sessions, row : Columns(secrets)]

\* The row is sound, and so is every row a handler is still going to write.
SoundInv ==
  /\ account \in AccountRows(proven)
  /\ login \in [Workers -> Seq(AccountStatements(proven))]

\* What is sound stays so when more secrets are proven.
LEMMA StillSound ==
  ASSUME NEW p, NEW q, p \subseteq q
  PROVE  /\ AccountRows(p) \subseteq AccountRows(q)
         /\ Seq(AccountStatements(p)) \subseteq Seq(AccountStatements(q))
<1>1. AccountRows(p) \subseteq AccountRows(q)
  BY DEF AccountRows, Sound
<1>2. Columns(p) \subseteq Columns(q)
  BY DEF Columns, Sound
<1>3. AccountStatements(p) \subseteq AccountStatements(q)
  BY <1>2 DEF AccountStatements
<1>4. QED
  BY <1>1, <1>3

\* The rows the handlers compute are sound.
LEMMA WrittenIsSound ==
  ASSUME Threshold \in Nat \ {0}, NEW p
  PROVE  /\ S!Blank \in Columns(p)
         /\ \A a \in AccountRows(p) : S!FailureAfter(a) \in Columns(p)
         /\ \A k \in Secrets : [S!Blank EXCEPT !.secret = k] \in Columns(p)
         /\ \A k \in (Secrets \cup {NoSecret}) \cap p :
              [S!Blank EXCEPT !.secret = k, !.totp = TRUE] \in Columns(p)
<1>1. S!Blank = [failed |-> 0, locked |-> FALSE, secret |-> NoSecret, totp |-> FALSE]
  BY DEF S!Blank
<1>2. S!Blank \in Columns(p)
  BY <1>1 DEF Columns, Sound
<1>3. ASSUME NEW a \in AccountRows(p) PROVE S!FailureAfter(a) \in Columns(p)
  <2>1. a.failed \in Nat /\ a.locked \in BOOLEAN
    BY DEF AccountRows
  <2>2. CASE a.failed + 1 >= Threshold
    <3>1. S!FailureAfter(a) = [failed |-> 0, locked |-> TRUE, secret |-> NoSecret, totp |-> FALSE]
      BY Zenon, <1>1, <2>2 DEF S!FailureAfter
    <3>2. QED
      BY <3>1 DEF Columns, Sound
  <2>3. CASE ~ (a.failed + 1 >= Threshold)
    <3>1. S!FailureAfter(a) = [failed |-> a.failed + 1, locked |-> a.locked,
                               secret |-> NoSecret, totp |-> FALSE]
      BY Zenon, <1>1, <2>3 DEF S!FailureAfter
    <3>2. QED
      BY <2>1, <2>3, <3>1 DEF Columns, Sound
  <2>4. QED
    BY <2>2, <2>3
<1>b. PICK blank : /\ blank = S!Blank
                   /\ blank \in [failed : Nat, locked : BOOLEAN, secret : Secrets \cup {NoSecret},
                                 totp : BOOLEAN]
                   /\ blank.failed = 0 /\ blank.totp = FALSE
  <2>1. PICK b : b = [failed |-> 0, locked |-> FALSE, secret |-> NoSecret, totp |-> FALSE]
    BY Zenon
  <2>2. /\ b \in [failed : Nat, locked : BOOLEAN, secret : Secrets \cup {NoSecret}, totp : BOOLEAN]
        /\ b.failed = 0 /\ b.totp = FALSE
    BY <2>1
  <2>3. QED
    BY Zenon, <1>1, <2>1, <2>2
<1>4. ASSUME NEW k \in Secrets PROVE [S!Blank EXCEPT !.secret = k] \in Columns(p)
  <2>1. [blank EXCEPT !.secret = k] \in Columns(p)
    BY <1>b DEF Columns, Sound
  <2>2. QED
    BY <1>b, <2>1
<1>5. ASSUME NEW k \in (Secrets \cup {NoSecret}) \cap p
      PROVE  [S!Blank EXCEPT !.secret = k, !.totp = TRUE] \in Columns(p)
  <2>1. PICK c : c = [blank EXCEPT !.secret = k, !.totp = TRUE]
    OBVIOUS
  <2>2. /\ c \in [failed : Nat, locked : BOOLEAN, secret : Secrets \cup {NoSecret}, totp : BOOLEAN]
        /\ c.failed = 0 /\ c.secret = k
    BY Zenon, <1>b, <2>1
  <2>3. c \in Columns(p)
    BY <2>2 DEF Columns, Sound
  <2>4. QED
    BY <1>b, <2>1, <2>3
<1>6. QED
  BY Zenon, <1>2, <1>3, <1>4, <1>5

\* The statements that name a sound row are sound.
LEMMA NamedIsSound ==
  ASSUME Threshold \in Nat \ {0}, NEW p, NEW r \in Columns(p), NEW on \in SUBSET Sessions
  PROVE  /\ S!Put("failure", r) \in AccountStatements(p)
         /\ S!Put("totp", r) \in AccountStatements(p)
         /\ S!Do("session", on) \in AccountStatements(p)
         /\ S!Do("trim", on) \in AccountStatements(p)
         /\ S!Do("success", on) \in AccountStatements(p)
         /\ S!Do("endAll", on) \in AccountStatements(p)
         /\ S!Do("end", on) \in AccountStatements(p)
         /\ S!Do("drop", on) \in AccountStatements(p)
<1>1. PICK b \in Columns(p) : b = S!Blank
  BY Zenon, WrittenIsSound
<1>2. S!Put("failure", r) \in AccountStatements(p) /\ S!Put("totp", r) \in AccountStatements(p)
  BY DEF S!Put, AccountStatements, Ops
<1>3. QED
  BY <1>1, <1>2 DEF S!Do, AccountStatements, Ops

\* A handler that starts, with statements that are sound by then.
LEMMA StartSound ==
  ASSUME SoundInv, NEW w \in Workers, NEW todo, S!Start(w, todo), proven \subseteq proven',
         todo \in Seq(AccountStatements(proven'))
  PROVE  SoundInv'
<1>1. account \in AccountRows(proven') /\ account' = account
  BY StillSound DEF SoundInv, S!Start
<1>2. \A v \in Workers : login[v] \in Seq(AccountStatements(proven'))
  BY Zenon, StillSound DEF SoundInv
<1>3. login' = [login EXCEPT ![w] = todo]
  BY DEF S!Start
<1>4. login' \in [Workers -> Seq(AccountStatements(proven'))]
  BY <1>2, <1>3 DEF SoundInv
<1>5. QED
  BY <1>1, <1>4 DEF SoundInv

\* A login goes on with other sound statements.
LEMMA GoesOnSound ==
  ASSUME SoundInv, NEW w \in Workers, NEW todo \in Seq(AccountStatements(proven)),
         login' = [login EXCEPT ![w] = todo], proven' = proven,
         account' \in AccountRows(proven)
  PROVE  SoundInv'
BY DEF SoundInv

\* The statements that are left are sound, and so is the one that is run.
LEMMA HeadAndTailSound ==
  ASSUME SoundInv, NEW w \in Workers, login[w] # <<>>
  PROVE  /\ Head(login[w]) \in AccountStatements(proven)
         /\ Tail(login[w]) \in Seq(AccountStatements(proven))
BY DEF SoundInv

\* Starting a handler keeps the invariant.
LEMMA HandlersSound ==
  ASSUME SoundInv, Threshold \in Nat \ {0}, NEW w \in Workers,
         \/ S!LoginFails(w) \/ S!RevokeAllSessions(w) \/ S!ConfirmTOTP(w) \/ S!DisableTOTP(w)
         \/ \E s \in Sessions : S!Login(w, s) \/ S!ChangePassword(w, s) \/ S!RevokeSession(w, s)
         \/ \E k \in Secrets : S!BeginTOTP(w, k)
  PROVE  SoundInv'
<1> DEFINE q == proven'
<1>a. S!Blank \in Columns(q)
  BY Zenon, WrittenIsSound
<1>1. CASE S!LoginFails(w)
  <2>1. S!FailureAfter(account) \in Columns(q)
    <3>1. account \in AccountRows(q)
      BY <1>1 DEF S!LoginFails, SoundInv
    <3>2. QED
      BY Zenon, <3>1, WrittenIsSound
  <2>2. S!Put("failure", S!FailureAfter(account)) \in AccountStatements(q)
    BY <2>1, NamedIsSound
  <2>3. <<S!Put("failure", S!FailureAfter(account))>> \in Seq(AccountStatements(q))
    BY <2>2
  <2>4. QED
    BY Zenon, <1>1, <2>3, StartSound DEF S!LoginFails
<1>2. CASE S!RevokeAllSessions(w)
  <2>1. S!Do("endAll", {}) \in AccountStatements(q)
    BY <1>a, NamedIsSound
  <2>2. <<S!Do("endAll", {})>> \in Seq(AccountStatements(q))
    BY <2>1
  <2>3. QED
    BY Zenon, <1>2, <2>2, StartSound DEF S!RevokeAllSessions
<1>3. CASE S!ConfirmTOTP(w)
  <2> DEFINE r == [S!Blank EXCEPT !.secret = account.secret, !.totp = TRUE]
  <2>1. r \in Columns(q)
    <3>1. account.secret \in (Secrets \cup {NoSecret}) \cap q
      BY <1>3 DEF S!ConfirmTOTP, SoundInv, AccountRows
    <3>2. QED
      BY Zenon, <3>1, WrittenIsSound
  <2>2. S!Put("totp", r) \in AccountStatements(q)
    <3> HIDE DEF r
    <3> QED BY <2>1, NamedIsSound
  <2>3. <<S!Put("totp", r)>> \in Seq(AccountStatements(q))
    BY <2>2
  <2>4. proven \subseteq q /\ S!Start(w, <<S!Put("totp", r)>>)
    BY <1>3 DEF S!ConfirmTOTP
  <2>5. QED
    BY Zenon, <2>3, <2>4, StartSound
<1>4. CASE S!DisableTOTP(w)
  <2>1. S!Put("totp", S!Blank) \in AccountStatements(q)
    BY <1>a, NamedIsSound
  <2>2. <<S!Put("totp", S!Blank)>> \in Seq(AccountStatements(q))
    BY <2>1
  <2>3. QED
    BY Zenon, <1>4, <2>2, StartSound DEF S!DisableTOTP
<1>5. ASSUME NEW s \in Sessions, S!Login(w, s) \/ S!ChangePassword(w, s) \/ S!RevokeSession(w, s)
      PROVE  SoundInv'
  <2>1. /\ S!Do("session", {s}) \in AccountStatements(q)
        /\ S!Do("trim", {}) \in AccountStatements(q)
        /\ S!Do("success", {}) \in AccountStatements(q)
        /\ S!Do("endAll", {}) \in AccountStatements(q)
        /\ S!Do("end", {s}) \in AccountStatements(q)
    BY <1>a, NamedIsSound
  <2>2. /\ S!issueSession(s) \o <<S!Do("success", {})>> \in Seq(AccountStatements(q))
        /\ <<S!Do("endAll", {})>> \o S!issueSession(s) \in Seq(AccountStatements(q))
        /\ <<S!Do("end", {s})>> \in Seq(AccountStatements(q))
    BY <2>1 DEF S!issueSession
  <2>3. QED
    BY Zenon, <1>5, <2>2, StartSound DEF S!Login, S!ChangePassword, S!RevokeSession
<1>6. ASSUME NEW k \in Secrets, S!BeginTOTP(w, k) PROVE SoundInv'
  <2> DEFINE r == [S!Blank EXCEPT !.secret = k]
  <2>1. r \in Columns(q)
    BY Zenon, WrittenIsSound
  <2>2. S!Put("totp", r) \in AccountStatements(q)
    <3> HIDE DEF r
    <3> QED BY <2>1, NamedIsSound
  <2>3. <<S!Put("totp", r)>> \in Seq(AccountStatements(q))
    BY <2>2
  <2>4. S!Start(w, <<S!Put("totp", r)>>) /\ proven' = proven
    BY <1>6 DEF S!BeginTOTP
  <2>5. QED
    BY Zenon, <2>3, <2>4, StartSound
<1>7. QED
  BY <1>1, <1>2, <1>3, <1>4, <1>5, <1>6

\* Running a statement keeps the invariant.
LEMMA StatementsSound ==
  ASSUME SoundInv, Threshold \in Nat \ {0}, NEW w \in Workers,
         S!Statement(w) \/ S!TrimUserSessions(w) \/ S!DropOldest(w) \/ S!HandlerFails(w)
  PROVE  SoundInv'
<1>1. CASE S!Statement(w)
  <2>1. login[w] # <<>> /\ login' = [login EXCEPT ![w] = Tail(login[w])] /\ proven' = proven
    BY <1>1 DEF S!Statement
  <2>2. /\ Head(login[w]) \in AccountStatements(proven)
        /\ Tail(login[w]) \in Seq(AccountStatements(proven))
    BY <2>1, HeadAndTailSound
  <2>3. PICK r : r = Head(login[w]).row
    OBVIOUS
  <2>4. r \in Columns(proven)
    BY <2>2, <2>3 DEF AccountStatements
  <2>5. account' \in {account, [account EXCEPT !.secret = r.secret, !.totp = r.totp],
                      [account EXCEPT !.failed = r.failed, !.locked = r.locked],
                      [account EXCEPT !.failed = 0, !.locked = FALSE]}
    BY <1>1, <2>3 DEF S!Statement, S!SetUserTOTP, S!RecordLoginFailure, S!RecordLoginSuccess
  <2>6. account' \in AccountRows(proven)
    <3>1. PICK a : a = account
      OBVIOUS
    <3>2. /\ a \in [disabled : BOOLEAN, secret : Secrets \cup {NoSecret}, totp : BOOLEAN,
                   failed : Nat, locked : BOOLEAN]
          /\ a.failed < Threshold /\ (a.totp => a.secret \in proven)
      BY <3>1 DEF SoundInv, AccountRows, Sound
    <3>3. /\ r.failed \in Nat /\ r.locked \in BOOLEAN /\ r.totp \in BOOLEAN
          /\ r.secret \in Secrets \cup {NoSecret}
          /\ r.failed < Threshold /\ (r.totp => r.secret \in proven)
      BY <2>4 DEF Columns, Sound
    <3>4. [a EXCEPT !.secret = r.secret, !.totp = r.totp] \in AccountRows(proven)
      BY Zenon, <3>2, <3>3 DEF AccountRows, Sound
    <3>5. [a EXCEPT !.failed = r.failed, !.locked = r.locked] \in AccountRows(proven)
      BY Zenon, <3>2, <3>3 DEF AccountRows, Sound
    <3>6. [a EXCEPT !.failed = 0, !.locked = FALSE] \in AccountRows(proven)
      <4>1. PICK c : c = [a EXCEPT !.failed = 0, !.locked = FALSE]
        OBVIOUS
      <4>2. /\ c \in [disabled : BOOLEAN, secret : Secrets \cup {NoSecret}, totp : BOOLEAN,
                     failed : Nat, locked : BOOLEAN]
            /\ c.failed = 0 /\ c.totp = a.totp /\ c.secret = a.secret
        BY Zenon, <3>2, <4>1
      <4>3. c \in AccountRows(proven)
        BY <3>2, <4>2 DEF AccountRows, Sound
      <4>4. QED
        BY <4>1, <4>3
    <3>7. QED
      BY <2>5, <3>1, <3>4, <3>5, <3>6 DEF SoundInv
  <2>7. QED
    BY Zenon, <2>1, <2>2, <2>6, GoesOnSound
<1>2. CASE S!TrimUserSessions(w)
  <2>1. login[w] # <<>> /\ proven' = proven /\ account' = account
    BY <1>2 DEF S!TrimUserSessions
  <2>2. Tail(login[w]) \in Seq(AccountStatements(proven))
    BY <2>1, HeadAndTailSound
  <2>3. ASSUME NEW old \in S!Oldest
        PROVE  <<S!Do("drop", old)>> \o Tail(login[w]) \in Seq(AccountStatements(proven))
    <3>1. old \in SUBSET Sessions
      BY DEF S!Oldest, S!ListSessions
    <3>2. S!Do("drop", old) \in AccountStatements(proven)
      BY Zenon, <3>1, WrittenIsSound, NamedIsSound
    <3>3. QED
      BY <2>2, <3>2
  <2>4. \E todo \in Seq(AccountStatements(proven)) : login' = [login EXCEPT ![w] = todo]
    BY Zenon, <1>2, <2>2, <2>3 DEF S!TrimUserSessions
  <2>5. QED
    BY <2>1, <2>4, GoesOnSound DEF SoundInv
<1>3. CASE S!DropOldest(w)
  <2>1. login[w] # <<>> /\ proven' = proven /\ account' = account
    BY Zenon, <1>3 DEF S!DropOldest
  <2>2. /\ Head(login[w]) \in AccountStatements(proven)
        /\ Tail(login[w]) \in Seq(AccountStatements(proven))
    BY <2>1, HeadAndTailSound
  <2>3. ASSUME NEW s
        PROVE  <<S!Do("drop", Head(login[w]).on \ {s})>> \o Tail(login[w])
                 \in Seq(AccountStatements(proven))
    <3>1. Head(login[w]).on \ {s} \in SUBSET Sessions
      BY <2>2 DEF AccountStatements
    <3>2. S!Do("drop", Head(login[w]).on \ {s}) \in AccountStatements(proven)
      BY Zenon, <3>1, WrittenIsSound, NamedIsSound
    <3>3. QED
      BY <2>2, <3>2
  <2>4. \E todo \in Seq(AccountStatements(proven)) : login' = [login EXCEPT ![w] = todo]
    <3>1. PICK s : login' = [login EXCEPT ![w] =
               IF Head(login[w]).on = {s} THEN Tail(login[w])
               ELSE <<S!Do("drop", Head(login[w]).on \ {s})>> \o Tail(login[w])]
      BY Zenon, <1>3 DEF S!DropOldest
    <3>2. CASE Head(login[w]).on = {s}
      BY Zenon, <2>2, <3>1, <3>2
    <3>3. CASE Head(login[w]).on # {s}
      BY Zenon, <2>3, <3>1, <3>3
    <3>4. QED
      BY <3>2, <3>3
  <2>5. QED
    BY <2>1, <2>4, GoesOnSound DEF SoundInv
<1>4. CASE S!HandlerFails(w)
  <2>1. <<>> \in Seq(AccountStatements(proven))
    OBVIOUS
  <2>2. QED
    BY <1>4, <2>1, GoesOnSound DEF S!HandlerFails, SoundInv
<1>5. QED
  BY <1>1, <1>2, <1>3, <1>4

\* Every step keeps the invariant.
LEMMA CredentialsStep ==
  ASSUME SoundInv, Threshold \in Nat \ {0}, [S!Next]_(S!vars)
  PROVE  SoundInv'
<1>1. CASE S!Tick \/ S!SetUserFlags \/ S!PurgeExpiredSessions
  <2>1. login' = login /\ proven' = proven
    BY <1>1 DEF S!Tick, S!SetUserFlags, S!PurgeExpiredSessions
  <2>2. account' \in AccountRows(proven)
    BY Zenon, <1>1 DEF S!Tick, S!SetUserFlags, S!PurgeExpiredSessions, SoundInv, AccountRows, Sound
  <2>3. QED
    BY <2>1, <2>2 DEF SoundInv
<1>2. CASE UNCHANGED S!vars
  BY <1>2 DEF S!vars, SoundInv
<1>3. QED
  BY <1>1, <1>2, HandlersSound, StatementsSound DEF S!Next

\* The row and the statements under way stay sound.
LEMMA CredentialsSound ==
  ASSUME Threshold \in Nat \ {0}
  PROVE  S!Spec => []SoundInv
<1>1. S!Init => SoundInv
  BY DEF S!Init, SoundInv, AccountRows, Sound
<1>2. SoundInv /\ [S!Next]_(S!vars) => SoundInv'
  BY CredentialsStep
<1>3. QED
  BY <1>1, <1>2, PTL DEF S!Spec

\* However many requests begin, confirm or disable a second factor at once, the
\* factor that SetUserTOTP makes active is one whose owner has shown a code.
THEOREM FactorIsProven ==
  ASSUME Threshold \in Nat \ {0}
  PROVE  S!Spec => []S!ActiveFactorProven
<1>1. SoundInv => S!ActiveFactorProven
  BY DEF SoundInv, AccountRows, Sound, S!ActiveFactorProven
<1>2. QED
  BY <1>1, CredentialsSound, PTL

\* However many logins fail at once, the count that RecordLoginFailure writes
\* from its copy stays below LockoutThreshold.
THEOREM LockoutKept ==
  ASSUME Threshold \in Nat \ {0}
  PROVE  S!Spec => []S!LockoutApplied
<1>1. SoundInv => S!LockoutApplied
  BY DEF SoundInv, AccountRows, Sound, S!LockoutApplied
<1>2. QED
  BY <1>1, CredentialsSound, PTL

-----------------------------------------------------------------------------
(* Accounts, custom domains and credentials, side by side.                   *)

ofAccounts == <<user, org, seat, tomb, invite, registrar, overlap, doubled, seated>>
ofDomains == <<row, matched, cert, verifier, crossed>>
ofCredentials == <<loginNow, account, session, proven, login, cut>>
accessVars == <<part, ofAccounts, ofDomains, ofCredentials>>

NoAccounts ==
  /\ user = "-" /\ org = "-" /\ seat = "-" /\ tomb = "-" /\ invite = "-" /\ registrar = "-"
  /\ overlap = "-" /\ doubled = "-" /\ seated = "-"
NoDomains ==
  /\ row = "-" /\ matched = "-" /\ cert = "-" /\ verifier = "-" /\ crossed = "-"
NoCredentials ==
  /\ loginNow = "-" /\ account = "-" /\ session = "-" /\ proven = "-" /\ login = "-"
  /\ cut = "-"
NoAccess == NoAccounts /\ NoDomains /\ NoCredentials

AccessInit ==
  /\ part \in {"A", "D", "S"}
  /\ IF part = "A" THEN A!Init ELSE NoAccounts
  /\ IF part = "D" THEN D!Init ELSE NoDomains
  /\ IF part = "S" THEN S!Init ELSE NoCredentials

AccessNext ==
  \/ part = "A" /\ A!Next /\ UNCHANGED <<part, ofDomains, ofCredentials>>
  \/ part = "D" /\ D!Next /\ UNCHANGED <<part, ofAccounts, ofCredentials>>
  \/ part = "S" /\ S!Next /\ UNCHANGED <<part, ofAccounts, ofDomains>>

AccessSpec == AccessInit /\ [][AccessNext]_accessVars

\* What a row of an account claims was shown, however the handlers that wrote
\* it interleaved: an invitation was spent once, a domain that is served proved
\* its owner, a second factor that is asked for was confirmed, a full count of
\* failed logins locked the account.
ClaimsAreProven ==
  /\ part = "A" => A!InviteSpentOnce
  /\ part = "D" => D!ProvenBeforeServed
  /\ part = "S" => S!ActiveFactorProven
  /\ part = "S" => S!LockoutApplied

\* As long as no two handlers are under way at once, whichever of their
\* statements fails, the rules between rows hold: an organization has an owner
\* and its caps, a domain has one tenant and its checks, an account its cap of
\* sessions.
RulesKeptAlone ==
  /\ part = "A" => A!RulesKeptAlone
  /\ part = "D" => D!RulesKeptAlone
  /\ part = "S" => S!CapRestored

\* The empty id is no organization's, there are finitely many domains, and a
\* login may fail before the lockout.
ASSUME AccessAssumption ==
  NoId \notin Orgs /\ FinitelyManyDomains /\ Threshold \in Nat \ {0}

\* The part that runs takes its own steps; the part does not change.
LEMMA AccessParts ==
  AccessSpec => /\ part = "A" => A!Spec /\ [](part = "A")
                /\ ~ (part = "A") => []~ (part = "A")
                /\ part = "D" => D!Spec /\ [](part = "D")
                /\ ~ (part = "D") => []~ (part = "D")
                /\ part = "S" => S!Spec /\ [](part = "S")
                /\ ~ (part = "S") => []~ (part = "S")
<1>1. AccessInit => /\ part = "A" => A!Init
                    /\ part = "D" => D!Init
                    /\ part = "S" => S!Init
  BY Zenon DEF AccessInit
<1>2. [AccessNext]_accessVars => /\ part = "A" => [A!Next]_(A!vars)
                                 /\ part = "D" => [D!Next]_(D!vars)
                                 /\ part = "S" => [S!Next]_(S!vars)
  BY DEF AccessNext, accessVars, ofAccounts, ofDomains, ofCredentials, A!vars, D!vars, S!vars
<1>3. [AccessNext]_accessVars => /\ part = "A" <=> (part = "A")'
                                 /\ part = "D" <=> (part = "D")'
                                 /\ part = "S" <=> (part = "S")'
  BY DEF AccessNext, accessVars
<1>4. QED
  BY <1>1, <1>2, <1>3, PTL DEF AccessSpec, A!Spec, D!Spec, S!Spec

\* What a row of an account claims was shown, for every number of users,
\* domains, secrets and requests at once.
THEOREM ClaimsProven == AccessSpec => []ClaimsAreProven
<1>1. A!Spec => []A!InviteSpentOnce
  BY Zenon, AccessAssumption, InvitationSpentOnce
<1>2. D!Spec => []D!ProvenBeforeServed
  BY Zenon, AccessAssumption, ServedWasProven
<1>3. S!Spec => []S!ActiveFactorProven
  BY Zenon, AccessAssumption, FactorIsProven
<1>4. S!Spec => []S!LockoutApplied
  BY Zenon, AccessAssumption, LockoutKept
<1>5. QED
  BY <1>1, <1>2, <1>3, <1>4, AccessParts, PTL DEF ClaimsAreProven
===============================================================================
