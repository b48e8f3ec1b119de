------------------------------- MODULE Scheduler -------------------------------
(***************************************************************************)
(* One task of the built-in scheduler on one node                          *)
(* (src/scheduler/scheduler.go, state.go): dispatch, retries with backoff, *)
(* persistence, shutdown, crash and restart with catch-up.  The cluster    *)
(* lock appears only as the outcomes "skipped" and "failed" it can give a  *)
(* run; TaskLock models the lock itself.                                   *)
(*                                                                         *)
(* Schedule.Next returns some time strictly after the one it is given and  *)
(* at most Period later, which covers intervals and cron expressions alike.*)
(* Time 0 is the zero time.Time.                                           *)
(***************************************************************************)
EXTENDS Integers

CONSTANTS
  Period,        \* longest distance between two scheduled runs
  RetryDelay,    \* base delay of the retry backoff
  MaxRetries,    \* retry budget, negative when retries are off
  CatchUp,       \* Task.CatchUp
  CatchUpWindow,
  MaxTime        \* bound on the clock

ASSUME SchedulerAssumption ==
  /\ Period \in Nat \ {0}
  /\ RetryDelay \in Nat \ {0}
  /\ MaxRetries \in Int
  /\ CatchUp \in BOOLEAN
  /\ CatchUpWindow \in Nat
  /\ MaxTime \in Nat \ {0}

\* A fact of arithmetic the proofs need and the provers do not know.
ASSUME BackoffPositive == \A k \in 0..MaxRetries : 2^k \in Nat \ {0}

VARIABLES
  now,
  up,           \* the process runs
  stopping,     \* Stop has cancelled the loop
  running,      \* taskEntry.running
  attempts,     \* taskEntry.attempts, in memory only
  mem,          \* TaskState in memory
  disk,         \* TaskState in the state file
  replay,       \* replayMissed still has the task to run
  saveFailed,   \* the last persistLocked failed (history)
  finished,     \* when the last run of this process ended (history)
  owed          \* a missed run was found at a start and has not begun since (history)

schedulerVars == <<now, up, stopping, running, attempts, mem, disk, replay,
          saveFailed, finished, owed>>

\* stateForLocked on first sight.
NewState == [next |-> 0, enabled |-> TRUE, status |-> "pending"]

\* Schedule.Next.
After(t) == t + 1 .. t + Period

SchedulerInit ==
  /\ now = 1
  /\ up = FALSE /\ stopping = FALSE /\ running = FALSE
  /\ attempts = 0
  /\ mem = NewState /\ disk = NewState
  /\ replay = FALSE
  /\ saveFailed = FALSE /\ finished = 0 /\ owed = FALSE

\* persistLocked: the file is replaced as a whole or left as it was.
Persist(st) ==
  \/ disk' = st /\ saveFailed' = FALSE
  \/ disk' = disk /\ saveFailed' = TRUE

-----------------------------------------------------------------------------
\* syncStateLocked: the run that came due while the process was down.
Missed ==
  /\ CatchUp
  /\ disk.enabled
  /\ disk.next # 0
  /\ disk.next <= now
  /\ now - disk.next <= CatchUpWindow

\* Start fails, and the process with it, when the state cannot be saved.
Start ==
  /\ ~up
  /\ up' = TRUE
  /\ \E next \in After(now) :
       mem' = [disk EXCEPT !.next = IF disk.enabled THEN next ELSE @]
  /\ disk' = mem'
  /\ saveFailed' = FALSE
  /\ attempts' = 0
  /\ finished' = 0
  /\ replay' = Missed
  /\ owed' = (owed \/ Missed)
  /\ UNCHANGED <<now, stopping, running>>

\* dispatchDue.
DispatchDue ==
  /\ up /\ ~stopping /\ ~running
  /\ mem.enabled
  /\ mem.next # 0
  /\ mem.next <= now
  /\ running' = TRUE
  /\ UNCHANGED <<now, up, stopping, attempts, mem, disk, replay, saveFailed,
                 finished, owed>>

\* replayMissed: skipped when the task runs already.
Replay ==
  /\ up /\ ~stopping
  /\ replay
  /\ running' = TRUE
  /\ replay' = FALSE
  /\ owed' = FALSE
  /\ UNCHANGED <<now, up, stopping, attempts, mem, disk, saveFailed, finished>>

RunNow ==
  /\ up /\ ~running
  /\ running' = TRUE
  /\ UNCHANGED <<now, up, stopping, attempts, mem, disk, replay, saveFailed,
                 finished, owed>>

\* Mutant: a failed task is due again at once, and again.
retryTimeImmediate(next) == IF attempts < MaxRetries THEN now ELSE next

\* Mutant: the backoff replaces the schedule even when it is later.
retryTimeUncapped(next) ==
  IF attempts < MaxRetries THEN now + RetryDelay * 2^attempts ELSE next

\* retryTimeLocked (its shift does not overflow for the budgets of the
\* built-in tasks), and finish()'s choice of the earlier of the two times.
retryTime(next) ==
  IF attempts < MaxRetries /\ now + RetryDelay * 2^attempts < next
    THEN now + RetryDelay * 2^attempts ELSE next

\* Mutant: one retry too many.
attemptsOffByOne(status) ==
  CASE status = "success" -> 0
    [] status = "failed" -> IF attempts <= MaxRetries THEN attempts + 1 ELSE 0
    [] status = "skipped" -> attempts

\* What finish() and retryTimeLocked make of the attempt counter.
attemptsAfter(status) ==
  CASE status = "success" -> 0
    [] status = "failed" -> IF attempts < MaxRetries THEN attempts + 1 ELSE 0
    [] status = "skipped" -> attempts

\* finish(), for every outcome execute() can come to.
Finish(status) ==
  /\ up /\ running
  /\ running' = FALSE
  /\ finished' = now
  /\ attempts' = attemptsAfter(status)
  /\ \E next \in After(now) :
       mem' = [mem EXCEPT !.status = status,
                          !.next = IF status = "failed" THEN retryTime(next) ELSE next]
  /\ Persist(mem')
  /\ UNCHANGED <<now, up, stopping, replay, owed>>

SetEnabled(enabled) ==
  /\ up
  /\ \E next \in After(now) :
       mem' = [mem EXCEPT !.enabled = enabled,
                          !.next = IF enabled THEN next ELSE mem.next]
  /\ Persist(mem')
  /\ UNCHANGED <<now, up, stopping, running, attempts, replay, finished, owed>>

\* Mutant: the change is applied in memory only.
SetScheduleUnsaved ==
  /\ up
  /\ \E next \in After(now) : mem' = [mem EXCEPT !.next = next]
  /\ UNCHANGED <<now, up, stopping, running, attempts, disk, replay, saveFailed,
                 finished, owed>>

SetSchedule ==
  /\ up
  /\ \E next \in After(now) : mem' = [mem EXCEPT !.next = next]
  /\ Persist(mem')
  /\ UNCHANGED <<now, up, stopping, running, attempts, replay, finished, owed>>

-----------------------------------------------------------------------------
StopBegin ==
  /\ up /\ ~stopping
  /\ stopping' = TRUE
  /\ UNCHANGED <<now, up, running, attempts, mem, disk, replay, saveFailed,
                 finished, owed>>

Exit ==
  /\ up' = FALSE
  /\ stopping' = FALSE
  /\ running' = FALSE
  /\ replay' = FALSE
  /\ UNCHANGED <<now, attempts, finished, owed>>

\* Every task ended in time.
StopDone ==
  /\ up /\ stopping /\ ~running
  /\ mem' = mem
  /\ Persist(mem)
  /\ Exit

\* ShutdownTimeout: "An interrupted task is marked for retry on the next start."
StopTimeout ==
  /\ up /\ stopping /\ running
  /\ mem' = [mem EXCEPT !.status = "interrupted", !.next = now]
  /\ Persist(mem')
  /\ Exit

Crash ==
  /\ up
  /\ Exit
  /\ UNCHANGED <<mem, disk, saveFailed>>

SchedulerTick ==
  /\ now < MaxTime
  /\ now' = now + 1
  /\ UNCHANGED <<up, stopping, running, attempts, mem, disk, replay, saveFailed,
                 finished, owed>>

SchedulerNext ==
  \/ Start \/ DispatchDue \/ Replay \/ RunNow
  \/ \E status \in {"success", "failed", "skipped"} : Finish(status)
  \/ \E enabled \in BOOLEAN : SetEnabled(enabled)
  \/ SetSchedule
  \/ StopBegin \/ StopDone \/ StopTimeout
  \/ Crash
  \/ SchedulerTick

SchedulerSpec == SchedulerInit /\ [][SchedulerNext]_schedulerVars

-----------------------------------------------------------------------------
(* Properties.                                                              *)

States == [next : Nat, enabled : BOOLEAN,
           status : {"pending", "success", "failed", "skipped", "interrupted"}]

\* Type correctness; the attempt counter stays within the retry budget.
SchedulerTypeOK ==
  /\ now \in 1..MaxTime
  /\ up \in BOOLEAN /\ stopping \in BOOLEAN /\ running \in BOOLEAN
  /\ attempts \in Nat /\ (attempts = 0 \/ attempts <= MaxRetries)
  /\ mem \in States /\ disk \in States
  /\ replay \in BOOLEAN /\ saveFailed \in BOOLEAN /\ owed \in BOOLEAN
  /\ finished \in 0..MaxTime

\* An enabled task always has a next run, at most one period away: neither
\* the retry backoff, a skip, a restart nor an operator can postpone it
\* further (finish, retryTimeLocked, Start, SetEnabled).
NextWithinPeriod ==
  up /\ mem.enabled => mem.next \in 1 .. now + Period

\* A task that ends, however fast and however often it fails, is not due
\* again at the instant it ended (the backoff of retryTimeLocked).
NoHotLoop ==
  up /\ mem.enabled => mem.next > finished

\* Whatever happened since the last save that succeeded was saved too: a crash
\* at any point restarts from the state the process had.
DiskCurrent ==
  up /\ ~saveFailed => disk = mem

\* "missed runs are replayed inside a catch-up window": a missed run that was
\* found at a start is still known after the next crash.
MissedIsKept ==
  up /\ owed => replay

\* "An interrupted task is marked for retry on the next start."
InterruptedIsRetried ==
  [][Start /\ disk.status = "interrupted" /\ disk.enabled
       => replay' \/ mem'.next <= now]_schedulerVars
===============================================================================
