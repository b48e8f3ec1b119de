----------------------------- MODULE Instances -----------------------------
(***************************************************************************)
(* Managed database instances (src/dbservice): the stored record, and the  *)
(* container and volume the orchestrator holds for it.                     *)
(*                                                                         *)
(* A handler reads and checks the rows, then runs its statements one by    *)
(* one on its own copy of the row.  UpdateInstance writes the whole copy,  *)
(* so another handler may have written the row in between.  A statement    *)
(* that fails ends the handler the way the code says: it returns, marks    *)
(* the instance failed, rolls the instance back, or only logs.             *)
(*                                                                         *)
(* Names, limits, health and the other columns a handler carries along are *)
(* left out (a name that is taken refuses a request as a full port range   *)
(* does); the accounts and databases inside an engine are in Engines.      *)
(***************************************************************************)
EXTENDS Naturals, Sequences, FiniteSets, FiniteSetsExt

CONSTANTS
  Instances,     \* identifiers newID() can return
  NoInstance,    \* primary_id = ''
  Ports,         \* portFrom..portTo
  Versions,      \* indices of the versions the engine offers
  InPlace,       \* the adapter's upgradeStrategy() is StrategyInPlace
  MaxInstances,  \* the tenant's ceiling
  MayFail,       \* the store and the orchestrator may refuse a call
  Workers        \* requests and sweeps being executed at once

VARIABLES
  row,        \* db_instances
  container,  \* what the orchestrator runs for an instance
  volume,     \* whether it holds a volume for it
  cred,       \* whether a live administrative credential is stored
  worker,     \* a handler's copy of the row and the statements left to run
  lost,       \* a statement of a rollback has failed and was only logged
  overlap     \* two handlers have been under way at once

vars == <<row, container, volume, cred, worker, lost, overlap>>

NoRow == [state |-> "none", port |-> 0, primary |-> NoInstance,
          version |-> 0, container |-> FALSE]

\* Nothing reads the other columns of a destroyed record.
Destroyed == [NoRow EXCEPT !.state = "destroyed"]

Idle == [id |-> NoInstance, row |-> NoRow, todo |-> <<>>]

Init ==
  /\ row = [i \in Instances |-> NoRow]
  /\ container = [i \in Instances |-> "none"]
  /\ volume = [i \in Instances |-> FALSE]
  /\ cred = [i \in Instances |-> FALSE]
  /\ worker = [w \in Workers |-> Idle]
  /\ lost = FALSE
  /\ overlap = FALSE

-----------------------------------------------------------------------------
(* Reads.                                                                   *)

Alive(i) == row[i].state \notin {"none", "destroyed"}

running(i) == row[i].state = "running"

ListAllInstances == {i \in Instances : Alive(i)}

ListReplicas(i) == {r \in ListAllInstances : row[r].primary = i}

checkInstanceQuota == Cardinality(ListAllInstances) < MaxInstances

\* Mutant: the ports of instances that are not running are handed out again.
allocatePortRunning == Ports \ {row[i].port : i \in {j \in Instances : running(j)}}

\* The lowest free port is taken from this set.
allocatePort == Ports \ {row[i].port : i \in ListAllInstances}

-----------------------------------------------------------------------------
(* Statements, with what the code does when one fails.                      *)

Do(op, arg, orElse) == [op |-> op, arg |-> arg, orElse |-> orElse]

Start(w, i, r, statements) ==
  /\ worker[w] = Idle
  /\ worker' = [worker EXCEPT ![w] = [id |-> i, row |-> r, todo |-> statements]]
  /\ overlap' = (overlap \/ \E v \in Workers : worker[v] # Idle)
  /\ UNCHANGED <<row, container, volume, cred, lost>>

UpdateInstance(state, orElse) == Do("update", state, orElse)

createVolume(orElse) == <<Do("volume", 0, orElse)>>

\* Ready stands for the calls into the engine that change no stored row.
createContainer(orElse) ==
  <<Do("create", 0, orElse), Do("boot", 0, orElse),
    UpdateInstance("running", orElse), Do("ready", 0, orElse)>>

bringUp == createVolume("rollback") \o createContainer("rollback")

\* Mutant: a failed provisioning only drops the record.
rollbackRecord == <<UpdateInstance("destroyed", "log")>>

rollback ==
  <<Do("remove", 0, "log"), Do("drop", 0, "log"), UpdateInstance("destroyed", "log")>>

markFailed == <<UpdateInstance("failed", "return")>>

-----------------------------------------------------------------------------
(* The handlers.                                                            *)

Unused(i) == row[i] = NoRow /\ \A v \in Workers : worker[v].id # i

createInstance(w, i, version, primary, statements) ==
  /\ Unused(i)
  /\ checkInstanceQuota
  /\ allocatePort # {}
  /\ Start(w, i, [NoRow EXCEPT !.state = "pending", !.port = Min(allocatePort),
                               !.version = version, !.primary = primary],
           <<Do("insert", 0, "return"), Do("credential", 0, "return")>> \o bringUp
             \o statements)

\* The database and the account a request may name are created at the end.
Provision(w, i, version) ==
  createInstance(w, i, version, NoInstance, <<Do("ready", 0, "rollback")>>)

AddReplica(w, i, p) ==
  /\ running(p)
  /\ row[p].primary = NoInstance
  /\ createInstance(w, i, row[p].version, p, <<Do("ready", 0, "rollback")>>)

StartInstance(w, i) ==
  /\ Alive(i) /\ ~ running(i)
  /\ Start(w, i, row[i], <<Do("boot", 0, "fail"), UpdateInstance("running", "return")>>)

Stop(w, i) ==
  /\ Alive(i) /\ row[i].state # "stopped"
  /\ Start(w, i, row[i], <<Do("halt", 0, "fail"), UpdateInstance("stopped", "return")>>)

Restart(w, i) ==
  /\ Alive(i)
  /\ Start(w, i, row[i], <<Do("halt", 0, "fail"), Do("boot", 0, "fail"),
                           UpdateInstance("running", "return"), Do("ready", 0, "return")>>)

\* The record is written back as it was read, with other limits or health.
SetLimits(w, i) ==
  /\ Alive(i)
  /\ Start(w, i, row[i], (IF row[i].container THEN <<Do("ready", 0, "return")>> ELSE <<>>)
                           \o <<UpdateInstance(row[i].state, "return")>>)

refreshHealth(w, i) ==
  /\ Alive(i)
  /\ Start(w, i, row[i], <<UpdateInstance(row[i].state, "return")>>)

restoreOffline(w, i) ==
  /\ Alive(i)
  /\ Start(w, i, row[i], <<Do("halt", 0, "return"), Do("ready", 0, "return"),
                           Do("boot", 0, "return"), UpdateInstance("running", "return"),
                           Do("ready", 0, "return")>>)

Removal ==
  <<Do("remove", 0, "return"), Do("drop", 0, "return"), Do("revoke", 0, "return"),
    UpdateInstance("destroyed", "return")>>

\* Mutant: an instance goes although replicas still follow it.
DestroyFollowed(w, i) ==
  /\ Alive(i)
  /\ Start(w, i, row[i], Removal)

Destroy(w, i) ==
  /\ Alive(i)
  /\ ListReplicas(i) = {}
  /\ Start(w, i, row[i], Removal)

\* The record is cleared of its primary first; Destroy then reads it again,
\* which finds what this handler has just written or is out of order anyway.
RemoveReplica(w, i) ==
  /\ Alive(i) /\ row[i].primary # NoInstance
  /\ Alive(row[i].primary)
  /\ Start(w, i, [row[i] EXCEPT !.primary = NoInstance],
           <<Do("ready", 0, "return"), UpdateInstance(row[i].state, "return")>> \o Removal)

\* In place, the container is replaced and the volume kept.
upgradeInPlace(target) ==
  <<Do("halt", 0, "fail"), Do("replace", target, "fail")>> \o createContainer("fail")

\* The dump is asked of Backup, which reads the record again, finds it
\* upgrading and refuses: nothing after that call is reached.
upgradeByDump == markFailed

Upgrade(w, i, target) ==
  /\ running(i)
  /\ target > row[i].version
  /\ row[i].primary = NoInstance
  /\ ListReplicas(i) = {}
  /\ cred[i]
  /\ Start(w, i, row[i], <<UpdateInstance("upgrading", "return")>>
                           \o (IF InPlace THEN upgradeInPlace(target) ELSE upgradeByDump))

-----------------------------------------------------------------------------
(* Running a statement.                                                     *)

\* The orchestrator can start or stop only a container that is there.
Possible(w, s) ==
  s.op \in {"boot", "halt"} => worker[w].row.container /\ container[worker[w].id] # "none"

Finish(w, copy, todo) ==
  worker' = [worker EXCEPT ![w] = IF todo = <<>> THEN Idle
                                  ELSE [@ EXCEPT !.row = copy, !.todo = todo]]

\* The copy of the row after a statement.
Copy(w, s) ==
  LET r == worker[w].row
  IN CASE s.op = "create" -> [r EXCEPT !.container = TRUE]
       [] s.op = "replace" -> [r EXCEPT !.container = FALSE, !.version = s.arg]
       [] s.op = "remove" -> [r EXCEPT !.container = FALSE]
       [] s.op = "update" -> IF s.arg = "destroyed" THEN Destroyed ELSE [r EXCEPT !.state = s.arg]
       [] OTHER -> r

Statement(w) ==
  LET s == Head(worker[w].todo)
      i == worker[w].id
  IN /\ worker[w] # Idle
     /\ Possible(w, s)
     /\ row' = IF s.op \in {"insert", "update"} THEN [row EXCEPT ![i] = Copy(w, s)] ELSE row
     /\ container' = CASE s.op = "create" -> [container EXCEPT ![i] = "stopped"]
                       [] s.op = "boot" -> [container EXCEPT ![i] = "running"]
                       [] s.op = "halt" -> [container EXCEPT ![i] = "stopped"]
                       [] s.op \in {"remove", "replace"} -> [container EXCEPT ![i] = "none"]
                       [] OTHER -> container
     /\ volume' = IF s.op \in {"volume", "drop"} THEN [volume EXCEPT ![i] = s.op = "volume"]
                  ELSE volume
     /\ cred' = IF s.op \in {"credential", "revoke"}
                  THEN [cred EXCEPT ![i] = s.op = "credential"] ELSE cred
     /\ Finish(w, Copy(w, s), Tail(worker[w].todo))
     /\ UNCHANGED <<lost, overlap>>

\* What is left to do once a statement has failed.
OnFailure(w, s) ==
  CASE s.orElse = "return" -> <<>>
    [] s.orElse = "fail" -> markFailed
    [] s.orElse = "rollback" -> rollback
    [] s.orElse = "log" -> Tail(worker[w].todo)

StatementFails(w) ==
  LET s == Head(worker[w].todo)
  IN /\ worker[w] # Idle
     /\ MayFail \/ ~ Possible(w, s)
     /\ lost' = (lost \/ s.orElse = "log")
     /\ Finish(w, worker[w].row, OnFailure(w, s))
     /\ UNCHANGED <<row, container, volume, cred, overlap>>

Next ==
  \E w \in Workers :
    \/ Statement(w) \/ StatementFails(w)
    \/ \E i \in Instances :
         \/ StartInstance(w, i) \/ Stop(w, i) \/ Restart(w, i) \/ SetLimits(w, i)
         \/ refreshHealth(w, i) \/ restoreOffline(w, i)
         \/ Destroy(w, i) \/ RemoveReplica(w, i)
         \/ \E v \in Versions : Upgrade(w, i, v) \/ Provision(w, i, v)
         \/ \E p \in Instances : AddReplica(w, i, p)

Spec == Init /\ [][Next]_vars

-----------------------------------------------------------------------------
(* Properties.                                                              *)

Held(i) == container[i] # "none" \/ volume[i]

\* Whichever call fails, and however often: as long as handlers do not overlap
\* and no rollback was itself cut short, whatever the orchestrator holds belongs
\* to a record the tenant can still see, or to a handler that is under way.
NothingOrphaned ==
  ~ overlap /\ ~ lost =>
    \A i \in Instances :
      Held(i) => Alive(i) \/ \E w \in Workers : worker[w].id = i

\* Handlers that do not overlap keep the rules across records, whichever call
\* fails: ports are unique among live instances, the ceiling holds, and
\* a replica follows a live primary and runs its version.
RulesKeptAlone ==
  ~ overlap =>
    /\ Cardinality(ListAllInstances) <= MaxInstances
    /\ \A i, j \in ListAllInstances :
         i # j => row[i].port # row[j].port
    /\ \A i \in ListAllInstances :
         LET p == row[i].primary
         IN p # NoInstance => Alive(p) /\ row[i].version = row[p].version

(* Statements of the source that TLC refutes; see the README.               *)

\* model.go: RowVersion "backs optimistic locking on concurrent lifecycle writes".
DestroyedStays ==
  [][\A i \in Instances : row[i].state = "destroyed" => row'[i].state = "destroyed"]_vars

\* dbservice.go: "a failed Provision never leaves an orphaned container, volume
\* or half-usable record behind".
ProvisionLeavesNothing ==
  ~ overlap => \A i \in Instances :
    row[i].state = "pending" => \E w \in Workers : worker[w].id = i

\* upgrade.go: "Upgrade moves an instance to a newer engine version"; with
\* nothing failing, no instance ends up failed.
NeverFailed == \A i \in Instances : row[i].state # "failed"
=============================================================================
