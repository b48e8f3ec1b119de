------------------------------ MODULE Accounts ------------------------------
(***************************************************************************)
(* Users, organizations, their members and invitations (src/auth).         *)
(*                                                                         *)
(* No table of this package has a unique key: every rule about names,      *)
(* members and owners is a query that a handler makes before it writes.    *)
(* A handler is therefore its queries, in one step, and the statements it  *)
(* then runs one by one, any of which may fail.                            *)
(***************************************************************************)
EXTENDS Naturals, Sequences, FiniteSets

CONSTANTS
  Users,       \* ids of accounts
  Founders,    \* the accounts there are at the start, each named by its id
  Orgs,        \* ids of organizations
  Slugs,       \* names anyone may ask for
  Invites,     \* ids of invitations
  Grants,      \* roles a member can be given, of admin and member
  Workers,     \* requests being served at once
  Nobody,      \* no account
  MaxMembers,  \* MaxMembersPerOrg
  MaxOrgs      \* MaxOrgsPerUser

VARIABLES
  user,      \* name of an account; "new" before, "gone" after it exists
  org,       \* slug, state of the row, and owner_id
  seat,      \* org_members: the roles of the rows of a user in an organization
  tomb,      \* name_tombstones
  invite,    \* invites
  worker,    \* statements that handlers still have to run
  overlap,   \* whether two handlers were ever under way at once
  doubled,   \* whether a member was ever given a second row
  seated     \* number of rows inserted for an invitation

vars == <<user, org, seat, tomb, invite, worker, overlap, doubled, seated>>

Names == Slugs \cup Founders

NoOrg == [state |-> "new", slug |-> "", owner |-> Nobody]
NoInvite == [state |-> "new", kind |-> "user", org |-> "", uses |-> 0]

Init ==
  /\ user = [u \in Users |-> IF u \in Founders THEN u ELSE "new"]
  /\ org = [o \in Orgs |-> NoOrg]
  /\ seat = [o \in Orgs |-> [u \in Users |-> <<>>]]
  /\ tomb = {}
  /\ invite = [i \in Invites |-> NoInvite]
  /\ worker = [w \in Workers |-> <<>>]
  /\ overlap = FALSE /\ doubled = FALSE
  /\ seated = [i \in Invites |-> 0]

-----------------------------------------------------------------------------
(* Queries.                                                                 *)

Live == {o \in Orgs : org[o].state = "live"}
Registered == {u \in Users : user[u] \in Names}

NameTaken(n) == (\E u \in Users : user[u] = n) \/ (\E o \in Live : org[o].slug = n)
NameTombstoned(n) == n \in tomb
CheckName(n) == ~ NameTaken(n) /\ ~ NameTombstoned(n)

RowsOf(o) == {r \in Users \X (1..2) : r[2] <= Len(seat[o][r[1]])}
CountOrgMembers(o) == Cardinality(RowsOf(o))
CountOrgOwners(o) == Cardinality({r \in RowsOf(o) : seat[o][r[1]][r[2]] = "owner"})
CountOwnedOrgs(u) == Cardinality({o \in Live : org[o].owner = u})
checkMemberCap(o) == CountOrgMembers(o) < MaxMembers

\* The query names no order, so any row of the user may be the one it returns.
OrgRole(o, u) == {seat[o][u][k] : k \in 1..Len(seat[o][u])}

Usable(i) == invite[i].state = "live" /\ invite[i].uses < 1

roleAtLeast(o, u, least) ==
  /\ o \in Live
  /\ \E r \in OrgRole(o, u) : r \in least

-----------------------------------------------------------------------------
(* The handlers, up to the first statement that writes.                     *)

Start(w, statements) ==
  /\ worker[w] = <<>>
  /\ worker' = [worker EXCEPT ![w] = statements]
  /\ overlap' = (overlap \/ \E v \in Workers : worker[v] # <<>>)
  /\ UNCHANGED <<user, org, seat, tomb, invite, doubled, seated>>

Do(what, o, u, x) == [do |-> what, org |-> o, user |-> u, arg |-> x]

\* The id is the one the insert will return: no other insert has it.
Unused(id, field) ==
  \A w \in Workers : \A k \in 1..Len(worker[w]) :
    worker[w][k].do \in {"CreateUser", "CreateOrg", "CreateInvite"}
      => worker[w][k][field] # id

\* With registration by invitation, the account comes before the use is counted.
\* CreateUserInvite makes no invitation that names an organization, so Register
\* never adds a member; the session it issues is in Credentials.
Register(w, u, n) ==
  /\ user[u] = "new" /\ Unused(u, "user")
  /\ CheckName(n)
  /\ \/ Start(w, <<Do("CreateUser", "", u, n)>>)
     \/ \E i \in Invites :
          /\ Usable(i) /\ invite[i].kind = "user"
          /\ Start(w, <<Do("CreateUser", "", u, n), Do("ConsumeInvite", "", u, i)>>)

DeleteAccount(w, u) ==
  /\ u \in Registered
  /\ CountOwnedOrgs(u) = 0
  /\ Start(w, <<Do("DeleteUser", "", u, "")>>)

\* Mutant: the slug is not looked up among the names of the past.
CreateOrgReusing(w, o, u, n) ==
  /\ org[o].state = "new" /\ Unused(o, "org")
  /\ u \in Registered
  /\ ~ NameTaken(n)
  /\ CountOwnedOrgs(u) < MaxOrgs
  /\ Start(w, <<Do("CreateOrg", o, u, n)>>)

CreateOrg(w, o, u, n) ==
  /\ org[o].state = "new" /\ Unused(o, "org")
  /\ u \in Registered
  /\ CheckName(n)
  /\ CountOwnedOrgs(u) < MaxOrgs
  /\ Start(w, <<Do("CreateOrg", o, u, n)>>)

DeleteOrg(w, o, u) ==
  /\ roleAtLeast(o, u, {"owner"})
  /\ Start(w, <<Do("DeleteOrg", o, u, "")>>)

AddOrgMember(w, o, u) ==
  /\ o \in Live
  /\ checkMemberCap(o)
  /\ u \in Registered
  /\ OrgRole(o, u) = {}
  /\ \E r \in Grants : Start(w, <<Do("AddOrgMember", o, u, r)>>)

\* Mutant: whether the member is the last owner is not asked.
MayLoseRoleAlways(o, u) == o \in Live /\ OrgRole(o, u) # {}

MayLoseRole(o, u) ==
  /\ o \in Live
  /\ \E r \in OrgRole(o, u) : r = "owner" => CountOrgOwners(o) > 1

SetOrgMemberRole(w, o, u) ==
  /\ MayLoseRole(o, u)
  /\ \E r \in Grants : Start(w, <<Do("SetOrgMemberRole", o, u, r)>>)

RemoveOrgMember(w, o, u) ==
  /\ MayLoseRole(o, u)
  /\ Start(w, <<Do("RemoveOrgMember", o, u, "")>>)

TransferOrgOwnership(w, o, from, to) ==
  /\ from # to
  /\ roleAtLeast(o, from, {"owner"})
  /\ OrgRole(o, to) # {}
  /\ Start(w, <<Do("TransferOrgOwnership", o, from, to)>>)

InviteOrgMember(w, i, o, u) ==
  /\ invite[i].state = "new" /\ Unused(i, "arg")
  /\ roleAtLeast(o, u, {"owner", "admin"})
  /\ checkMemberCap(o)
  /\ Start(w, <<Do("CreateInvite", o, u, i)>>)

CreateUserInvite(w, i) ==
  /\ invite[i].state = "new" /\ Unused(i, "arg")
  /\ Start(w, <<Do("CreateInvite", "", Nobody, i)>>)

\* Whether the account is a member already is not asked.
AcceptOrgInvite(w, i, u) ==
  /\ Usable(i) /\ invite[i].kind = "org" /\ invite[i].org \in Live
  /\ u \in Registered
  /\ checkMemberCap(invite[i].org)
  /\ Start(w, <<Do("ConsumeInvite", invite[i].org, u, i), Do("Join", invite[i].org, u, i)>>)

-----------------------------------------------------------------------------
(* The statements.                                                          *)

Insert(o, u, r) ==
  /\ seat' = [seat EXCEPT ![o][u] = Append(@, r)]
  /\ doubled' = (doubled \/ seat[o][u] # <<>>)

SetRows(u, r, of) == [of EXCEPT ![u] = [k \in DOMAIN @ |-> r]]

CreateUserRow(s) ==
  /\ user' = [user EXCEPT ![s.user] = s.arg]
  /\ UNCHANGED <<org, seat, tomb, invite, doubled, seated>>

DeleteUserRow(s) ==
  /\ s.user \in Registered
  /\ tomb' = tomb \cup {user[s.user]}
  /\ user' = [user EXCEPT ![s.user] = "gone"]
  /\ seat' = [o \in Orgs |-> [seat[o] EXCEPT ![s.user] = <<>>]]
  /\ UNCHANGED <<org, invite, doubled, seated>>

\* One transaction: the organization and the seat of its owner.
CreateOrgRow(s) ==
  /\ org' = [org EXCEPT ![s.org] = [state |-> "live", slug |-> s.arg, owner |-> s.user]]
  /\ Insert(s.org, s.user, "owner")
  /\ UNCHANGED <<user, tomb, invite, seated>>

\* One transaction over the tombstone and every table that names the organization.
DeleteOrgRow(s) ==
  /\ s.org \in Live
  /\ tomb' = tomb \cup {org[s.org].slug}
  /\ org' = [org EXCEPT ![s.org].state = "gone"]
  /\ seat' = [seat EXCEPT ![s.org] = [u \in Users |-> <<>>]]
  /\ invite' = [i \in Invites |-> IF invite[i].org = s.org
                                  THEN [invite[i] EXCEPT !.state = "gone"] ELSE invite[i]]
  /\ UNCHANGED <<user, doubled, seated>>

InsertSeat(s) ==
  /\ Insert(s.org, s.user, s.arg)
  /\ UNCHANGED <<user, org, tomb, invite, seated>>

UpdateSeat(s) ==
  /\ seat' = [seat EXCEPT ![s.org] = SetRows(s.user, s.arg, @)]
  /\ UNCHANGED <<user, org, tomb, invite, doubled, seated>>

DeleteSeat(s) ==
  /\ seat' = [seat EXCEPT ![s.org][s.user] = <<>>]
  /\ UNCHANGED <<user, org, tomb, invite, doubled, seated>>

\* One transaction; a member who has left meanwhile has no row to raise.
TransferRows(s) ==
  /\ seat' = [seat EXCEPT ![s.org] =
                SetRows(s.user, "admin", SetRows(s.arg, "owner", @))]
  /\ org' = [org EXCEPT ![s.org].owner = s.arg]
  /\ UNCHANGED <<user, tomb, invite, doubled, seated>>

CreateInviteRow(s) ==
  /\ invite' = [invite EXCEPT ![s.arg] =
                  [state |-> "live", kind |-> IF s.org = "" THEN "user" ELSE "org",
                   org |-> s.org, uses |-> 0]]
  /\ UNCHANGED <<user, org, seat, tomb, doubled, seated>>

\* Mutant: the update does not ask again whether the invitation is usable.
ConsumeInviteBlind(s) ==
  /\ invite' = [invite EXCEPT ![s.arg].uses = @ + 1]
  /\ UNCHANGED <<user, org, seat, tomb, doubled, seated>>

\* The condition of the update decides between two redemptions.
ConsumeInvite(s) ==
  /\ Usable(s.arg)
  /\ invite' = [invite EXCEPT ![s.arg].uses = @ + 1]
  /\ UNCHANGED <<user, org, seat, tomb, doubled, seated>>

JoinRow(s) ==
  /\ \E r \in Grants : Insert(s.org, s.user, r)
  /\ seated' = [seated EXCEPT ![s.arg] = @ + 1]
  /\ UNCHANGED <<user, org, tomb, invite>>

Statement(w) ==
  LET s == Head(worker[w])
  IN /\ worker[w] # <<>>
     /\ worker' = [worker EXCEPT ![w] = Tail(@)]
     /\ UNCHANGED overlap
     /\ \/ s.do = "CreateUser" /\ CreateUserRow(s)
        \/ s.do = "DeleteUser" /\ DeleteUserRow(s)
        \/ s.do = "CreateOrg" /\ CreateOrgRow(s)
        \/ s.do = "DeleteOrg" /\ DeleteOrgRow(s)
        \/ s.do = "AddOrgMember" /\ InsertSeat(s)
        \/ s.do = "SetOrgMemberRole" /\ UpdateSeat(s)
        \/ s.do = "RemoveOrgMember" /\ DeleteSeat(s)
        \/ s.do = "TransferOrgOwnership" /\ TransferRows(s)
        \/ s.do = "CreateInvite" /\ CreateInviteRow(s)
        \/ s.do = "ConsumeInvite" /\ ConsumeInvite(s)
        \/ s.do = "Join" /\ JoinRow(s)

\* A statement that meets no row, or fails, ends its handler.
HandlerFails(w) ==
  /\ worker[w] # <<>>
  /\ worker' = [worker EXCEPT ![w] = <<>>]
  /\ UNCHANGED <<user, org, seat, tomb, invite, overlap, doubled, seated>>

\* Handlers of a single statement.
RevokeOrgInvite(i) ==
  /\ invite[i].state = "live"
  /\ invite' = [invite EXCEPT ![i].state = "revoked"]
  /\ UNCHANGED <<user, org, seat, tomb, worker, overlap, doubled, seated>>

PurgeExpiredInvites ==
  /\ \E i \in Invites :
       /\ invite[i].state = "revoked" \/ invite[i].uses >= 1
       /\ invite' = [invite EXCEPT ![i].state = "gone"]
  /\ UNCHANGED <<user, org, seat, tomb, worker, overlap, doubled, seated>>

Next ==
  \/ PurgeExpiredInvites
  \/ \E i \in Invites : RevokeOrgInvite(i)
  \/ \E w \in Workers :
       \/ Statement(w) \/ HandlerFails(w)
       \/ \E u \in Users, n \in Names : Register(w, u, n)
       \/ \E u \in Users : DeleteAccount(w, u)
       \/ \E o \in Orgs, u \in Users :
            \/ DeleteOrg(w, o, u) \/ AddOrgMember(w, o, u)
            \/ SetOrgMemberRole(w, o, u) \/ RemoveOrgMember(w, o, u)
            \/ \E n \in Names : CreateOrg(w, o, u, n)
            \/ \E to \in Users : TransferOrgOwnership(w, o, u, to)
       \/ \E i \in Invites :
            \/ CreateUserInvite(w, i)
            \/ \E u \in Users : AcceptOrgInvite(w, i, u)
            \/ \E u \in Users, o \in Orgs : InviteOrgMember(w, i, o, u)

Spec == Init /\ [][Next]_vars

-----------------------------------------------------------------------------
(* Properties.                                                              *)

\* Whatever overlaps and fails, an invitation seats nobody more often than it
\* allows: each seat it gave was counted as a use first.
InviteSpentOnce == \A i \in Invites : seated[i] <= invite[i].uses /\ invite[i].uses <= 1

\* As long as handlers do not overlap, and whichever of their statements fail,
\* the queries they make keep every rule: one holder of a name, no name of the
\* past, no seat without its organization and account, no more members than
\* allowed; and if nobody is seated twice, an owner who is the recorded one.
RulesKeptAlone ==
  ~ overlap =>
    /\ \A n \in Names :
         /\ Cardinality({u \in Users : user[u] = n})
              + Cardinality({o \in Live : org[o].slug = n}) <= 1
         /\ n \in tomb => ~ NameTaken(n)
    /\ \A o \in Orgs :
         /\ CountOrgMembers(o) <= MaxMembers
         /\ \A u \in Users : seat[o][u] # <<>> => o \in Live /\ u \in Registered
         /\ o \in Live /\ ~ doubled => \A u \in Users :
              org[o].owner = u <=> seat[o][u] = <<"owner">>

(* Statements of the source that TLC refutes; see the README.               *)

\* service_org.go: "an organization can never be left with nobody able to
\* administer it".
NeverOwnerless == \A o \in Live : CountOrgOwners(o) > 0
=============================================================================
