----------------------------- MODULE Credentials -----------------------------
(***************************************************************************)
(* The credentials of one account (src/auth): its browser sessions, its    *)
(* second factor and its lockout counter.                                  *)
(*                                                                         *)
(* Every statement the code runs is scoped by the user id, so one account  *)
(* stands for each of them.  A Server Admin's account follows the same     *)
(* code with its own tables, except that its sessions are not capped.      *)
(* Passwords and codes are right or wrong by choice; their values, and     *)
(* the hash upgrade of a successful login, are left out.                   *)
(***************************************************************************)
EXTENDS Naturals, Sequences, FiniteSets

CONSTANTS
  Sessions,     \* primary keys of user_sessions, reused once nothing names them
  Secrets,      \* what NewTOTPSecret can return
  NoSecret,     \* totp_secret = ''
  Workers,      \* requests being executed at once
  MaxSessions,  \* MaxSessionsPerUser
  Threshold,    \* LockoutThreshold
  SessionTTL,
  MaxNow        \* the clock stops here

VARIABLES
  now,        \* the clock, in seconds
  account,    \* the columns of the users row that the handlers touch
  session,    \* created_at of each session, 0 when there is no such row
  proven,     \* the secrets for which a valid code has been presented
  worker,     \* statements a handler still has to run
  cut         \* a statement has failed

vars == <<now, account, session, proven, worker, cut>>

Init ==
  /\ now = 1
  /\ account = [disabled |-> FALSE, secret |-> NoSecret, totp |-> FALSE,
                failed |-> 0, locked |-> FALSE]
  /\ session = [s \in Sessions |-> 0]
  /\ proven = {}
  /\ worker = [w \in Workers |-> <<>>]
  /\ cut = FALSE

ListSessions == {s \in Sessions : session[s] # 0}

Expired(s) == now > session[s] + SessionTTL

-----------------------------------------------------------------------------
(* The handlers, up to the first statement that writes.                     *)

Blank == [failed |-> 0, locked |-> FALSE, secret |-> NoSecret, totp |-> FALSE]

\* A statement on sessions, and one on the columns of the account it names.
Do(op, sessions) == [op |-> op, on |-> sessions, row |-> Blank]
Put(op, row) == [op |-> op, on |-> {}, row |-> row]

Start(w, statements) ==
  /\ worker[w] = <<>>
  /\ worker' = [worker EXCEPT ![w] = statements]
  /\ UNCHANGED <<now, account, session, cut>>

Named(s) == \E v \in Workers : \E i \in 1..Len(worker[v]) : s \in worker[v][i].on

\* Mutant: the account is locked one failure late.
FailureAfterLate(a) ==
  IF a.failed + 1 > Threshold THEN [Blank EXCEPT !.locked = TRUE]
  ELSE [Blank EXCEPT !.failed = a.failed + 1, !.locked = a.locked]

FailureAfter(a) ==
  IF a.failed + 1 >= Threshold THEN [Blank EXCEPT !.locked = TRUE]
  ELSE [Blank EXCEPT !.failed = a.failed + 1, !.locked = a.locked]

\* RecordLoginFailure reads the counter again and writes what it computed.
LoginFails(w) ==
  /\ Start(w, <<Put("failure", FailureAfter(account))>>)
  /\ UNCHANGED proven

\* Mutant: the cap is not enforced.
issueSessionUncapped(s) == <<Do("session", {s})>>

issueSession(s) == <<Do("session", {s}), Do("trim", {})>>

Fresh(s) == session[s] = 0 /\ ~ Named(s)

Login(w, s) ==
  /\ Fresh(s)
  /\ ~ account.locked /\ ~ account.disabled
  /\ Start(w, issueSession(s) \o <<Do("success", {})>>)
  /\ UNCHANGED proven

\* ChangePassword; the password itself is not modelled.
ChangePassword(w, s) ==
  /\ Fresh(s)
  /\ Start(w, <<Do("endAll", {})>> \o issueSession(s))
  /\ UNCHANGED proven

\* ConfirmPasswordReset and RevokeAllSessions.
RevokeAllSessions(w) ==
  /\ Start(w, <<Do("endAll", {})>>)
  /\ UNCHANGED proven

\* Logout, RevokeSession, and ResolveSession when it meets an expired session.
RevokeSession(w, s) ==
  /\ s \in ListSessions
  /\ Start(w, <<Do("end", {s})>>)
  /\ UNCHANGED proven

BeginTOTP(w, k) ==
  /\ k \notin proven \cup {account.secret}
  /\ Start(w, <<Put("totp", [Blank EXCEPT !.secret = k])>>)
  /\ UNCHANGED proven

ConfirmTOTP(w) ==
  /\ account.secret # NoSecret
  /\ proven' = proven \cup {account.secret}
  /\ Start(w, <<Put("totp", [Blank EXCEPT !.secret = account.secret, !.totp = TRUE])>>)

DisableTOTP(w) ==
  /\ Start(w, <<Put("totp", Blank)>>)
  /\ UNCHANGED proven

-----------------------------------------------------------------------------
(* The statements.                                                          *)

CreateSession(new) == session' = [s \in Sessions |-> IF s \in new THEN now ELSE session[s]]

DeleteSession(ended) == session' = [s \in Sessions |-> IF s \in ended THEN 0 ELSE session[s]]

DeleteUserSessions == session' = [s \in Sessions |-> 0]

\* All but the newest MaxSessions rows; rows of the same second are in any order.
Oldest ==
  {old \in SUBSET ListSessions :
     /\ Cardinality(old) = Cardinality(ListSessions) - MaxSessions
     /\ \A s \in old, k \in ListSessions \ old : session[s] <= session[k]}

\* Mutant: only the flag is written.
SetUserTOTPFlag(r) == account' = [account EXCEPT !.totp = r.totp,
                                                 !.secret = IF r.totp THEN @ ELSE r.secret]

SetUserTOTP(r) == account' = [account EXCEPT !.secret = r.secret, !.totp = r.totp]

RecordLoginFailure(r) == account' = [account EXCEPT !.failed = r.failed, !.locked = r.locked]

RecordLoginSuccess == account' = [account EXCEPT !.failed = 0, !.locked = FALSE]

\* The rest of the trim: the rows to delete, one statement each.
TrimUserSessions(w) ==
  /\ worker[w] # <<>>
  /\ Head(worker[w]).op = "trim"
  /\ \/ /\ Cardinality(ListSessions) <= MaxSessions
        /\ worker' = [worker EXCEPT ![w] = Tail(@)]
     \/ \E old \in Oldest :
          worker' = [worker EXCEPT ![w] = <<Do("drop", old)>> \o Tail(@)]
  /\ UNCHANGED <<now, account, session, proven, cut>>

DropOldest(w) ==
  LET old == Head(worker[w]).on
  IN /\ worker[w] # <<>>
     /\ Head(worker[w]).op = "drop"
     /\ \E s \in old :
          /\ DeleteSession({s})
          /\ worker' = [worker EXCEPT ![w] =
               IF old = {s} THEN Tail(@) ELSE <<Do("drop", old \ {s})>> \o Tail(@)]
     /\ UNCHANGED <<now, account, proven, cut>>

Statement(w) ==
  LET s == Head(worker[w])
  IN /\ worker[w] # <<>>
     /\ worker' = [worker EXCEPT ![w] = Tail(@)]
     /\ \/ s.op = "session" /\ CreateSession(s.on) /\ UNCHANGED account
        \/ s.op = "end" /\ DeleteSession(s.on) /\ UNCHANGED account
        \/ s.op = "endAll" /\ DeleteUserSessions /\ UNCHANGED account
        \/ s.op = "totp" /\ SetUserTOTP(s.row) /\ UNCHANGED session
        \/ s.op = "failure" /\ RecordLoginFailure(s.row) /\ UNCHANGED session
        \/ s.op = "success" /\ RecordLoginSuccess /\ UNCHANGED session
     /\ UNCHANGED <<now, proven, cut>>

HandlerFails(w) ==
  /\ worker[w] # <<>>
  /\ worker' = [worker EXCEPT ![w] = <<>>]
  /\ cut' = TRUE
  /\ UNCHANGED <<now, account, session, proven>>

\* Single statements of their own.
SetUserFlags ==
  /\ account' = [account EXCEPT !.disabled = ~ @]
  /\ UNCHANGED <<now, session, proven, worker, cut>>

PurgeExpiredSessions ==
  /\ \E s \in ListSessions : Expired(s)
  /\ session' = [s \in Sessions |-> IF s \in ListSessions /\ Expired(s) THEN 0 ELSE session[s]]
  /\ UNCHANGED <<now, account, proven, worker, cut>>

\* LockoutDuration is shorter than the step of the clock.
Tick ==
  /\ now < MaxNow
  /\ now' = now + 1
  /\ account' = [account EXCEPT !.locked = FALSE]
  /\ UNCHANGED <<session, proven, worker, cut>>

Next ==
  \/ Tick \/ SetUserFlags \/ PurgeExpiredSessions
  \/ \E w \in Workers :
       \/ Statement(w) \/ TrimUserSessions(w) \/ DropOldest(w) \/ HandlerFails(w)
       \/ LoginFails(w) \/ RevokeAllSessions(w) \/ ConfirmTOTP(w) \/ DisableTOTP(w)
       \/ \E s \in Sessions : Login(w, s) \/ ChangePassword(w, s) \/ RevokeSession(w, s)
       \/ \E k \in Secrets : BeginTOTP(w, k)

Spec == Init /\ [][Next]_vars

-----------------------------------------------------------------------------
(* Properties.                                                              *)

\* Logins that overlap may pass the session cap, but once they have run to
\* their ends the cap holds again: the last of them to list the sessions sees
\* them all.  Only a failed trim, which is logged, leaves more.
CapRestored ==
  ~ cut /\ (\A w \in Workers : worker[w] = <<>>)
    => Cardinality(ListSessions) <= MaxSessions

\* An active second factor is one whose owner has shown a valid code from its
\* secret, even when a new secret is requested while a code is being checked.
ActiveFactorProven == account.totp => account.secret \in proven

\* The failure counter is written from a copy, so failures may be lost, but it
\* never reaches the threshold without the lockout being applied.
LockoutApplied == account.failed < Threshold
==============================================================================
