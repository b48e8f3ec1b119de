------------------------------ MODULE Engines ------------------------------
(***************************************************************************)
(* The accounts and the named database inside one running instance, and    *)
(* the rows that record them (src/dbservice).                              *)
(*                                                                         *)
(* Every handler changes the engine first and the rows afterwards, from a  *)
(* copy of the row it read at the start; either call may fail.  One user   *)
(* name and one database name are enough: handlers of different names do   *)
(* not touch the same rows.                                                *)
(***************************************************************************)
EXTENDS Naturals, Sequences

CONSTANTS
  Rows,          \* identifiers newID() can return
  NoRow,
  Grants,        \* privilege levels
  IfNotExists,   \* CREATE USER on an account that exists succeeds, and does nothing
  MaxSecret,     \* passwords generatePassword() is asked for
  Workers        \* requests and sweeps being executed at once

VARIABLES
  account,   \* the account inside the engine
  base,      \* whether the engine has the database
  row,       \* db_credentials
  baseRow,   \* whether db_databases lists the database
  secrets,   \* passwords generated so far
  worker,    \* a handler's row, its copy of it and the statements left to run
  lost,      \* a statement has failed
  overlap    \* two handlers have been under way at once

vars == <<account, base, row, baseRow, secrets, worker, lost, overlap>>

NoAccount == [exists |-> FALSE, secret |-> 0, grant |-> ""]
Blank == [state |-> "none", secret |-> 0, grant |-> ""]
Idle == [row |-> NoRow, copy |-> Blank, todo |-> <<>>]

Init ==
  /\ account = NoAccount
  /\ base = FALSE
  /\ row = [r \in Rows |-> Blank]
  /\ baseRow = FALSE
  /\ secrets = 0
  /\ worker = [w \in Workers |-> Idle]
  /\ lost = FALSE
  /\ overlap = FALSE

-----------------------------------------------------------------------------
(* Reads.                                                                   *)

ListCredentials == {r \in Rows : row[r].state = "live"}

\* The query has no order: any live row of the name may be the one returned.
GetCredential(r) == r \in ListCredentials

resolveDatabase == baseRow

-----------------------------------------------------------------------------
(* The handlers.                                                            *)

Start(w, r, copy, statements) ==
  /\ worker[w] = Idle
  /\ worker' = [worker EXCEPT ![w] = [row |-> r, copy |-> copy, todo |-> statements]]
  /\ overlap' = (overlap \/ \E v \in Workers : worker[v] # Idle)
  /\ UNCHANGED <<account, base, row, baseRow, lost>>

generatePassword ==
  /\ secrets < MaxSecret
  /\ secrets' = secrets + 1

CreateUser(w, r, level) ==
  /\ resolveDatabase
  /\ ListCredentials = {}
  /\ row[r] = Blank /\ \A v \in Workers : worker[v].row # r
  /\ generatePassword
  /\ Start(w, r, [state |-> "live", secret |-> secrets + 1, grant |-> level],
           <<"createUser", "UpdateCredential">>)

\* Mutant: the stored password is replaced before the engine's.
RotateUserLate(w, r) ==
  /\ GetCredential(r)
  /\ generatePassword
  /\ Start(w, r, [row[r] EXCEPT !.secret = secrets + 1], <<"UpdateCredential">>)

RotateUser(w, r) ==
  /\ GetCredential(r)
  /\ generatePassword
  /\ Start(w, r, [row[r] EXCEPT !.secret = secrets + 1], <<"setPassword", "UpdateCredential">>)

DropUser(w, r) ==
  /\ GetCredential(r)
  /\ Start(w, r, [row[r] EXCEPT !.state = "revoked"], <<"dropUser", "UpdateCredential">>)
  /\ UNCHANGED secrets

Grant(w, r, level) ==
  /\ GetCredential(r) /\ resolveDatabase
  /\ Start(w, r, [row[r] EXCEPT !.grant = level], <<"grant", "UpdateCredential">>)
  /\ UNCHANGED secrets

Revoke(w, r) ==
  /\ GetCredential(r) /\ resolveDatabase
  /\ Start(w, r, [row[r] EXCEPT !.grant = ""], <<"grant", "UpdateCredential">>)
  /\ UNCHANGED secrets

CreateDatabase(w) ==
  /\ ~ baseRow
  /\ Start(w, NoRow, Blank, <<"createDatabase", "CreateDatabase">>)
  /\ UNCHANGED secrets

DropDatabase(w) ==
  /\ resolveDatabase
  /\ Start(w, NoRow, Blank, <<"dropDatabase", "MarkDatabaseDropped">>)
  /\ UNCHANGED secrets

-----------------------------------------------------------------------------
(* The statements: lower case in the engine, upper case in the store.       *)

\* An engine that knows the name refuses to create it, or leaves it as it is.
createUser(copy) ==
  IF account.exists THEN [account EXCEPT !.grant = copy.grant]
  ELSE [exists |-> TRUE, secret |-> copy.secret, grant |-> copy.grant]

Possible(s) ==
  CASE s = "createUser" -> (account.exists => IfNotExists) /\ base
    [] s = "setPassword" -> account.exists
    [] s = "grant" -> account.exists /\ base
    [] s = "createDatabase" -> base => IfNotExists
    [] OTHER -> TRUE

Engine(s, copy) ==
  /\ account' = CASE s = "createUser" -> createUser(copy)
                  [] s = "setPassword" -> [account EXCEPT !.secret = copy.secret]
                  [] s = "grant" -> [account EXCEPT !.grant = copy.grant]
                  [] s = "dropUser" -> NoAccount
                  [] s = "dropDatabase" -> [account EXCEPT !.grant = ""]
                  [] OTHER -> account
  /\ base' = IF s \in {"createDatabase", "dropDatabase"} THEN s = "createDatabase" ELSE base

\* CreateCredential inserts the row, UpdateCredential writes all of it by its id.
UpdateCredential(s, r, copy) ==
  row' = IF s = "UpdateCredential" THEN [row EXCEPT ![r] = copy] ELSE row

MarkDatabaseDropped(s) ==
  baseRow' = IF s \in {"CreateDatabase", "MarkDatabaseDropped"} THEN s = "CreateDatabase"
             ELSE baseRow

Finish(w, todo) ==
  worker' = [worker EXCEPT ![w] = IF todo = <<>> THEN Idle ELSE [@ EXCEPT !.todo = todo]]

Statement(w) ==
  LET s == Head(worker[w].todo)
  IN /\ worker[w] # Idle
     /\ Possible(s)
     /\ Engine(s, worker[w].copy)
     /\ UpdateCredential(s, worker[w].row, worker[w].copy)
     /\ MarkDatabaseDropped(s)
     /\ Finish(w, Tail(worker[w].todo))
     /\ UNCHANGED <<secrets, lost, overlap>>

HandlerFails(w) ==
  /\ worker[w] # Idle
  /\ lost' = TRUE
  /\ Finish(w, <<>>)
  /\ UNCHANGED <<account, base, row, baseRow, secrets, overlap>>

Next ==
  \E w \in Workers :
    \/ Statement(w) \/ HandlerFails(w) \/ CreateDatabase(w) \/ DropDatabase(w)
    \/ \E r \in Rows :
         \/ RotateUser(w, r) \/ DropUser(w, r) \/ Revoke(w, r)
         \/ \E g \in Grants : CreateUser(w, r, g) \/ Grant(w, r, g)

Spec == Init /\ [][Next]_vars

-----------------------------------------------------------------------------
(* Properties.                                                              *)

Quiet == \A w \in Workers : worker[w] = Idle

\* As long as handlers do not overlap and none has failed, what the rows list is
\* what the engine has once no handler is under way: the database, the account,
\* and the password that opens it.
RowsMatchEngine ==
  ~ overlap /\ ~ lost /\ Quiet =>
    /\ base = baseRow
    /\ account.exists <=> ListCredentials # {}
    /\ \A r \in ListCredentials : row[r].secret = account.secret

(* Statements of the source that TLC refutes; see the README.               *)

\* credentials.go: DropUser "revokes its record".
RevokedStays ==
  [][\A r \in Rows : row[r].state = "revoked" => row'[r].state = "revoked"]_vars

\* credentials.go: CreateUser "returns its credential exactly once"; the handler
\* that has just recorded an account returns a password that opens it.
IssuedOpens ==
  [][~ overlap =>
       \A r \in Rows : row[r].state = "none" /\ row'[r].state = "live"
         => row'[r].secret = account.secret]_vars

\* model.go: the level a row records is the one the account has.
GrantRecorded ==
  ~ overlap /\ ~ lost /\ Quiet => \A r \in ListCredentials : row[r].grant = account.grant
=============================================================================
