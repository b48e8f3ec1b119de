------------------------------- MODULE TaskLock -------------------------------
(***************************************************************************)
(* The lock file that keeps a cluster-wide scheduler task on one node      *)
(* (FileLocker in src/scheduler/lock.go) and the part of the scheduler     *)
(* that takes and drops it (execute, RunNow, dispatchDue and Stop in       *)
(* src/scheduler/scheduler.go).  The nodes share the lock directory.       *)
(*                                                                         *)
(* Every system call on the file is a step of its own.  A file that was    *)
(* created or truncated and not yet written is "torn": read() cannot parse *)
(* it and reports an expired lock.  Of the age of a lock only the question *)
(* the code asks is kept: whether it has reached the TTL.                  *)
(***************************************************************************)
CONSTANTS
  Nodes,
  Workers,   \* goroutines of one node that may be inside execute()
  Nobody,    \* no owner
  LongRuns   \* whether a run may take longer than the TTL

VARIABLES
  file,      \* the lock file of the task
  pc,        \* where each goroutine is in execute()
  linked,    \* the goroutine's open file is still the one in the directory
  running,   \* taskEntry.running, per node
  up,        \* the process of the node is alive
  stop       \* progress of Scheduler.Stop

vars == <<file, pc, linked, running, up, stop>>

Absent == [kind |-> "absent", owner |-> Nobody, fresh |-> FALSE]
Torn == [kind |-> "torn", owner |-> Nobody, fresh |-> FALSE]
LockOf(n) == [kind |-> "lock", owner |-> n, fresh |-> TRUE]

Init ==
  /\ file = Absent
  /\ pc = [n \in Nodes |-> [w \in Workers |-> "idle"]]
  /\ linked = [n \in Nodes |-> [w \in Workers |-> FALSE]]
  /\ running = [n \in Nodes |-> FALSE]
  /\ up = [n \in Nodes |-> TRUE]
  /\ stop = [n \in Nodes |-> "no"]

Goto(n, w, l) == pc' = [pc EXCEPT ![n][w] = l]

\* finish() without a lock taken: the run is over for this goroutine.
Finish(n, w) ==
  /\ Goto(n, w, "idle")
  /\ running' = [running EXCEPT ![n] = FALSE]

-----------------------------------------------------------------------------
(* execute().                                                               *)

\* Mutant: the running flag is not consulted.
ClaimUnchecked(n, w) ==
  /\ up[n]
  /\ pc[n][w] = "idle"
  /\ Goto(n, w, "create")
  /\ running' = [running EXCEPT ![n] = TRUE]
  /\ UNCHANGED <<file, linked, up, stop>>

\* The running flag is tested and set under the mutex.
Claim(n, w) ==
  /\ up[n]
  /\ ~running[n]
  /\ pc[n][w] = "idle"
  /\ Goto(n, w, "create")
  /\ running' = [running EXCEPT ![n] = TRUE]
  /\ UNCHANGED <<file, linked, up, stop>>

\* dispatchDue or replayMissed: neither outlives the loop that Stop ends.
Begin(n, w) == stop[n] = "no" /\ Claim(n, w)

\* RunNow does not look whether the scheduler was stopped.
RunNow(n, w) == Claim(n, w)

\* os.OpenFile with O_CREATE|O_EXCL.
Create(n, w) ==
  /\ pc[n][w] = "create"
  /\ IF file = Absent
       THEN /\ file' = Torn
            /\ linked' = [linked EXCEPT ![n][w] = TRUE]
            /\ Goto(n, w, "write")
       ELSE /\ Goto(n, w, "read")
            /\ UNCHANGED <<file, linked>>
  /\ UNCHANGED <<running, up, stop>>

\* Mutant: a record that cannot be parsed counts as somebody's live lock.
ReadStrict(n, w) ==
  /\ pc[n][w] = "read"
  /\ IF \/ file.kind = "absent"
        \/ file.kind = "torn"
        \/ file.owner # n /\ file.fresh
       THEN Finish(n, w)
       ELSE Goto(n, w, "truncate") /\ UNCHANGED running
  /\ UNCHANGED <<file, linked, up, stop>>

\* The file exists: give up on a live lock of another node, or when the file
\* disappeared before it could be read; else take the lock over.
Read(n, w) ==
  /\ pc[n][w] = "read"
  /\ IF \/ file.kind = "absent"
        \/ file.owner # n /\ file.fresh
       THEN Finish(n, w)
       ELSE Goto(n, w, "truncate") /\ UNCHANGED running
  /\ UNCHANGED <<file, linked, up, stop>>

\* os.WriteFile opens with O_TRUNC|O_CREATE.
Truncate(n, w) ==
  /\ pc[n][w] = "truncate"
  /\ file' = Torn
  /\ linked' = [linked EXCEPT ![n][w] = TRUE]
  /\ Goto(n, w, "write")
  /\ UNCHANGED <<running, up, stop>>

\* Mutant: the record does not say whose lock it is.
WriteAnonymous(n, w) ==
  /\ pc[n][w] = "write"
  /\ file' = [kind |-> "lock", owner |-> Nobody, fresh |-> TRUE]
  /\ Goto(n, w, "run")
  /\ UNCHANGED <<linked, running, up, stop>>

\* The record is written at the start of the open file.  Over a longer record
\* of another node it leaves text behind that cannot be parsed; in a file that
\* has been removed it changes nothing.
Write(n, w) ==
  /\ pc[n][w] = "write"
  /\ file' \in IF ~linked[n][w] THEN {file}
               ELSE {LockOf(n)} \cup (IF file.kind = "lock" THEN {Torn} ELSE {})
  /\ Goto(n, w, "run")
  /\ UNCHANGED <<linked, running, up, stop>>

\* A system call of Acquire fails: StatusFailed, and no lock to release.
AcquireFail(n, w) ==
  /\ pc[n][w] \in {"create", "read", "truncate", "write"}
  /\ Finish(n, w)
  /\ UNCHANGED <<file, linked, up, stop>>

\* The task is over.  finish() clears the running flag; the deferred Release
\* comes after it.
RunEnd(n, w) ==
  /\ pc[n][w] = "run"
  /\ Goto(n, w, "release")
  /\ running' = [running EXCEPT ![n] = FALSE]
  /\ UNCHANGED <<file, linked, up, stop>>

ReleaseRead(n, w) ==
  /\ pc[n][w] = "release"
  /\ Goto(n, w, IF file.owner = n THEN "remove" ELSE "idle")
  /\ UNCHANGED <<file, linked, running, up, stop>>

Unlink ==
  /\ file' = Absent
  /\ linked' = [n \in Nodes |-> [w \in Workers |-> FALSE]]

ReleaseRemove(n, w) ==
  /\ pc[n][w] = "remove"
  /\ Unlink
  /\ Goto(n, w, "idle")
  /\ UNCHANGED <<running, up, stop>>

-----------------------------------------------------------------------------
(* Stop, the end of the process, and time.                                  *)

\* Stop has ended the loop; a task still runs when the timeout is over.
StopTimeout(n) ==
  /\ up[n]
  /\ stop[n] = "no"
  /\ \E w \in Workers : pc[n][w] = "run"
  /\ running' = [running EXCEPT ![n] = FALSE]
  /\ stop' = [stop EXCEPT ![n] = "release"]
  /\ UNCHANGED <<file, pc, linked, up>>

StopRead(n) ==
  /\ stop[n] = "release"
  /\ stop' = [stop EXCEPT ![n] = IF file.owner = n THEN "remove" ELSE "exit"]
  /\ UNCHANGED <<file, pc, linked, running, up>>

StopRemove(n) ==
  /\ stop[n] = "remove"
  /\ Unlink
  /\ stop' = [stop EXCEPT ![n] = "exit"]
  /\ UNCHANGED <<pc, running, up>>

\* Every orderly or disorderly end of the process.
Exit(n) ==
  /\ up[n]
  /\ up' = [up EXCEPT ![n] = FALSE]
  /\ pc' = [pc EXCEPT ![n] = [w \in Workers |-> "idle"]]
  /\ linked' = [linked EXCEPT ![n] = [w \in Workers |-> FALSE]]
  /\ running' = [running EXCEPT ![n] = FALSE]
  /\ stop' = [stop EXCEPT ![n] = "no"]
  /\ UNCHANGED file

Start(n) ==
  /\ ~up[n]
  /\ up' = [up EXCEPT ![n] = TRUE]
  /\ UNCHANGED <<file, pc, linked, running, stop>>

\* The lock reaches the TTL.  Nothing refreshes it while its task runs.
Expire ==
  /\ file.kind = "lock"
  /\ file.fresh
  /\ LongRuns \/ \A w \in Workers : pc[file.owner][w] # "run"
  /\ file' = [file EXCEPT !.fresh = FALSE]
  /\ UNCHANGED <<pc, linked, running, up, stop>>

-----------------------------------------------------------------------------
WorkerStep(n, w) ==
  \/ Begin(n, w) \/ RunNow(n, w)
  \/ Create(n, w) \/ Read(n, w) \/ Truncate(n, w) \/ Write(n, w)
  \/ AcquireFail(n, w)
  \/ RunEnd(n, w)
  \/ ReleaseRead(n, w) \/ ReleaseRemove(n, w)

ProcessStep(n) ==
  \/ StopTimeout(n) \/ StopRead(n) \/ StopRemove(n)
  \/ Exit(n)
  \/ Start(n)

Next ==
  \/ \E n \in Nodes, w \in Workers : WorkerStep(n, w)
  \/ \E n \in Nodes : ProcessStep(n)
  \/ Expire

Spec == Init /\ [][Next]_vars

\* A ticking loop, goroutines that are scheduled, a clock that advances, and
\* system calls that do not fail for ever.
LockFairness ==
  /\ WF_vars(Expire)
  /\ \A n \in Nodes, w \in Workers :
       /\ WF_vars(Begin(n, w))
       /\ SF_vars(Create(n, w))
       /\ SF_vars(Read(n, w))
       /\ SF_vars(Truncate(n, w))
       /\ SF_vars(Write(n, w))
       /\ WF_vars(RunEnd(n, w))
       /\ WF_vars(ReleaseRead(n, w))
       /\ WF_vars(ReleaseRemove(n, w))

LiveSpec == Spec /\ LockFairness

-----------------------------------------------------------------------------
(* Properties.                                                              *)

Labels == {"idle", "create", "read", "truncate", "write", "run", "release", "remove"}

\* Type correctness; a record that can be parsed names its node.
TypeOK ==
  /\ file \in {Absent, Torn} \cup
              [kind : {"lock"}, owner : Nodes, fresh : BOOLEAN]
  /\ pc \in [Nodes -> [Workers -> Labels]]
  /\ linked \in [Nodes -> [Workers -> BOOLEAN]]
  /\ running \in [Nodes -> BOOLEAN]
  /\ up \in [Nodes -> BOOLEAN]
  /\ stop \in [Nodes -> {"no", "release", "remove", "exit"}]

Acquiring(n, w) == pc[n][w] \in {"create", "read", "truncate", "write", "run"}

\* RunNow, the dispatch loop and the catch-up replay never execute the task
\* twice at once on one node, although the flag that keeps them apart is
\* cleared before the lock is released (taskEntry.running); until Stop gives
\* up on a run and clears the flag of a task that is still going.
OnePerNode ==
  \A n \in Nodes : \A v, w \in Workers :
    stop[n] = "no" /\ Acquiring(n, v) /\ Acquiring(n, w) => v = w

\* "a corrupt file cannot wedge a task forever", nor can the lock of a node
\* that died: as long as some node stays up, the task keeps being run.
NeverWedged ==
  \A n \in Nodes :
    <>[](up[n] /\ stop[n] = "no")
      => []<>(\E m \in Nodes, w \in Workers : pc[m][w] = "run")

\* Locker "guards cluster-wide tasks so exactly one node executes them".
ExactlyOneNode ==
  \A m, n \in Nodes : \A v, w \in Workers :
    pc[m][v] = "run" /\ pc[n][w] = "run" => m = n

\* "Releasing a lock owned by another node is a no-op": no release removes
\* the live lock of another node.
ReleasesOnlyOwn ==
  [][\A n \in Nodes, w \in Workers :
       ReleaseRemove(n, w) => file.owner \in {n, Nobody}]_vars
===============================================================================
