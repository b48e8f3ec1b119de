----------------------------- MODULE ControlProofs -----------------------------
(***************************************************************************)
(* Why the leases of the cluster tables exclude each other, for any set of *)
(* nodes and of users and any ttl: a node (a user) is never told more than *)
(* its row says, and a transaction that may still write the lease has read *)
(* it lapsed, or its own.  And of the scheduler, for every period, delay,  *)
(* retry budget and catch-up window: the next run of a task is never       *)
(* further than a period away and never immediate, and the state file is   *)
(* current.                                                                *)
(*                                                                         *)
(* And of the lock file of a task, for any number of nodes and goroutines: *)
(* no node executes a task twice at once.  OnePerNode is not inductive:    *)
(* the running flag must be known to be set while a goroutine acquires or  *)
(* runs, as long as Stop has not given up on the run.                      *)
(***************************************************************************)
EXTENDS MCControl, MCTaskLock, TLAPS

-----------------------------------------------------------------------------
(* Cluster.                                                                   *)

\* What the row of the lock says covers what its users were told.
LockCovers == \A c \in Calls : sure[c] > 0 => lock.by = c /\ sure[c] <= lock.left

\* The same of the lease and the nodes.
LeaseCovers == \A n \in Nodes : won[n] > 0 => lease.by = n /\ won[n] <= lease.left

\* What a transaction has read of the lease still holds, unless it is outdated.
ReadHolds ==
  \A n \in Nodes : ~outdated[n] =>
    /\ stand[n] = "claim" => lease.left = 0
    /\ stand[n] = "renew" => lease.by = n

LockInv == TypeOK /\ LockCovers
IInv == TypeOK /\ LockCovers /\ ReadHolds /\ LeaseCovers

-----------------------------------------------------------------------------
\* The helpers of the model stay in their types.
LEMMA LessTyped ==
  ASSUME NEW t \in 0..TTL
  PROVE  /\ Less(t) \in 0..TTL
         /\ Less(t) <= t
         /\ t = 0 => Less(t) = 0
  BY ClusterAssumption DEF Less

\* Being less is monotone: a cover stays a cover when time passes.
LEMMA LessMonotone ==
  ASSUME NEW s \in 0..TTL, NEW t \in 0..TTL, s <= t
  PROVE  Less(s) <= Less(t) /\ (Less(s) > 0 => s > 0)
  BY ClusterAssumption DEF Less

\* A row of the table nodes stays one when time passes.
LEMMA AgedTyped ==
  ASSUME NEW row \in [known : BOOLEAN, age : 0..(DegradedAfter + 1), stale : BOOLEAN]
  PROVE  Aged(row) \in [known : BOOLEAN, age : 0..(DegradedAfter + 1), stale : BOOLEAN]
<1> DEFINE a == IF row.known /\ row.age <= DegradedAfter THEN row.age + 1 ELSE row.age
<1>1. a \in 0..(DegradedAfter + 1)
  BY ClusterAssumption
<1>2. Aged(row) = [row EXCEPT !.age = a]
  BY DEF Aged
<1> HIDE DEF a
<1> QED BY <1>1, <1>2

\* Every step of a node keeps the types.
LEMMA NodeTyped ==
  ASSUME TypeOK, NEW n \in Nodes, NodeStep(n)
  PROVE  TypeOK'
<1> USE ClusterAssumption DEF TypeOK, lockVars
<1>1. CASE Heartbeat(n)
  BY <1>1 DEF Heartbeat
<1>2. CASE RemoveNode(n)
  <2>1. CASE lease.by = n
    <3>1. outdated' = [m \in Nodes |-> stand[m] # "no"]
      BY <1>2, <2>1 DEF RemoveNode
    <3>2. outdated' \in [Nodes -> BOOLEAN]
      BY ONLY <3>1, ZenonT(40)
    <3> QED BY <1>2, <2>1, <3>2 DEF RemoveNode, NoMember, NoRow, Row
  <2>2. CASE lease.by # n
    BY <1>2, <2>2 DEF RemoveNode, NoMember
  <2> QED BY <2>1, <2>2
<1>3. ASSUME NEW stale \in BOOLEAN, MarkStale(n, stale) PROVE TypeOK'
  BY <1>3 DEF MarkStale
<1>4. CASE ElectClaimRead(n)
  BY <1>4 DEF ElectClaimRead, Reads
<1>5. CASE ElectRenewRead(n)
  BY <1>5 DEF ElectRenewRead, Reads
<1>6. CASE ElectClaim(n)
  <2>1. outdated' \in [Nodes -> BOOLEAN]
    BY <1>6, ZenonT(60) DEF ElectClaim, OutdatesOthers
  <2> QED BY Zenon, <1>6, <2>1 DEF ElectClaim, Wins, Row
<1>7. CASE ElectRenew(n)
  <2>1. CASE lease.by = n
    <3>1. outdated' \in [Nodes -> BOOLEAN]
      BY <1>7, <2>1, ZenonT(60) DEF ElectRenew, OutdatesOthers
    <3>2. lease' \in [by : Nodes \cup {Nobody}, left : 0..TTL]
      BY <1>7, <2>1 DEF ElectRenew, Row
    <3>3. won' \in [Nodes -> 0..TTL] /\ stand' \in [Nodes -> {"no", "claim", "renew"}]
      BY <1>7 DEF ElectRenew, Wins
    <3>4. UNCHANGED <<member, due, lockVars>>
      BY <1>7 DEF ElectRenew, Wins
    <3> QED BY <3>1, <3>2, <3>3, <3>4
  <2>2. CASE lease.by # n
    BY <1>7, <2>2 DEF ElectRenew, Wins
  <2> QED BY <2>1, <2>2
<1>8. CASE ElectFails(n)
  BY <1>8 DEF ElectFails
<1> QED BY <1>1, <1>2, <1>3, <1>4, <1>5, <1>6, <1>7, <1>8 DEF NodeStep

\* Every step of a user of the lock keeps the types.
LEMMA LockTyped ==
  ASSUME TypeOK, NEW c \in Calls, LockStep(c)
  PROVE  TypeOK'
<1> USE ClusterAssumption DEF TypeOK, electionVars
<1>1. ASSUME NEW t \in 0..TTL, AcquireLock(c, t) \/ Refresh(c, t) PROVE TypeOK'
  BY <1>1 DEF AcquireLock, Refresh, Holds, Row
<1>2. CASE RefreshFails(c)
  BY <1>2 DEF RefreshFails
<1>3. CASE Release(c) \/ Abandon(c)
  BY <1>3 DEF Release, Abandon, Leaves, NoRow, Row
<1> QED BY <1>1, <1>2, <1>3 DEF LockStep

\* Time keeps the types.
LEMMA TickTyped ==
  ASSUME TypeOK, Tick
  PROVE  TypeOK'
<1>1. member' \in [Nodes -> [known : BOOLEAN, age : 0..(DegradedAfter + 1), stale : BOOLEAN]]
  BY AgedTyped DEF TypeOK, Tick
<1>2. lease' \in [by : Nodes \cup {Nobody}, left : 0..TTL]
  BY LessTyped DEF TypeOK, Tick, Row
<1>3. lock' \in [by : Calls \cup {Nobody}, left : 0..TTL]
  BY LessTyped DEF TypeOK, Tick, Row
<1>4. due' \in [Nodes -> 0..TTL] /\ won' \in [Nodes -> 0..TTL] /\ sure' \in [Calls -> 0..TTL]
  BY LessTyped DEF TypeOK, Tick
<1> QED BY <1>1, <1>2, <1>3, <1>4 DEF TypeOK, Tick

\* The types are kept by every step.
LEMMA NextTyped == TypeOK /\ [Next]_vars => TypeOK'
<1> SUFFICES ASSUME TypeOK, [Next]_vars PROVE TypeOK'
  OBVIOUS
<1>1. CASE UNCHANGED vars
  BY <1>1 DEF TypeOK, vars
<1> QED BY <1>1, NodeTyped, LockTyped, TickTyped DEF Next

-----------------------------------------------------------------------------
\* Users are never told more of the lock than its row says.
LEMMA NextLockCovers == LockInv /\ [Next]_vars => LockCovers'
<1> SUFFICES ASSUME LockInv, [Next]_vars, NEW d \in Calls, sure'[d] > 0
             PROVE  lock'.by = d /\ sure'[d] <= lock'.left
  BY DEF LockCovers
<1> USE ClusterAssumption DEF LockInv, LockCovers
<1>1. CASE UNCHANGED lockVars
  BY <1>1 DEF lockVars
<1>2. ASSUME NEW n \in Nodes, NodeStep(n) PROVE UNCHANGED lockVars
  BY <1>2 DEF NodeStep, Heartbeat, RemoveNode, MarkStale, ElectClaimRead, ElectRenewRead,
              Reads, ElectClaim, ElectRenew, Wins, ElectFails, lockVars
<1>3. ASSUME NEW c \in Calls, NEW t \in 0..TTL, AcquireLock(c, t)
      PROVE  lock'.by = d /\ sure'[d] <= lock'.left
  BY <1>3 DEF AcquireLock, Holds, Row, TypeOK
<1>4. ASSUME NEW c \in Calls, NEW t \in 0..TTL, Refresh(c, t)
      PROVE  lock'.by = d /\ sure'[d] <= lock'.left
  BY <1>4 DEF Refresh, Holds, Row, TypeOK
<1>5. ASSUME NEW c \in Calls, RefreshFails(c)
      PROVE  lock'.by = d /\ sure'[d] <= lock'.left
  BY <1>5 DEF RefreshFails, TypeOK
<1>6. ASSUME NEW c \in Calls, Release(c) \/ Abandon(c)
      PROVE  lock'.by = d /\ sure'[d] <= lock'.left
  BY <1>6 DEF Release, Abandon, Leaves, NoRow, Row, TypeOK
<1>7. CASE Tick
  <2>1. sure[d] \in 0..TTL /\ lock.left \in 0..TTL /\ sure'[d] = Less(sure[d])
        /\ lock'.by = lock.by /\ lock'.left = Less(lock.left)
    BY <1>7 DEF Tick, Row, TypeOK
  <2>2. sure[d] > 0
    BY <2>1, LessTyped
  <2> QED BY <2>1, <2>2, LessMonotone
<1>8. CASE UNCHANGED vars
  BY <1>1, <1>8 DEF vars, lockVars
<1> QED BY <1>1, <1>2, <1>3, <1>4, <1>5, <1>6, <1>7, <1>8 DEF Next, LockStep

\* What a transaction has read holds as long as it is not outdated.
LEMMA NextReadHolds == IInv /\ [Next]_vars => ReadHolds'
<1> SUFFICES ASSUME IInv, [Next]_vars, NEW m \in Nodes, ~outdated'[m]
             PROVE  /\ stand'[m] = "claim" => lease'.left = 0
                    /\ stand'[m] = "renew" => lease'.by = m
  BY DEF ReadHolds
<1> DEFINE Goal == /\ stand'[m] = "claim" => lease'.left = 0
                   /\ stand'[m] = "renew" => lease'.by = m
<1> USE ClusterAssumption DEF IInv, ReadHolds
<1>1. CASE UNCHANGED <<lease, stand, outdated>>
  BY <1>1
<1>2. ASSUME NEW n \in Nodes, RemoveNode(n) PROVE Goal
  BY Zenon, <1>2 DEF RemoveNode, TypeOK
<1>3. ASSUME NEW n \in Nodes, ElectClaimRead(n) \/ ElectRenewRead(n) PROVE Goal
  BY <1>3 DEF ElectClaimRead, ElectRenewRead, Reads, TypeOK
<1>4. ASSUME NEW n \in Nodes, ElectClaim(n) PROVE Goal
  BY Zenon, <1>4 DEF ElectClaim, OutdatesOthers, Wins, TypeOK
<1>5. ASSUME NEW n \in Nodes, ElectRenew(n) PROVE Goal
  BY Zenon, <1>5 DEF ElectRenew, OutdatesOthers, Wins, TypeOK
<1>6. ASSUME NEW n \in Nodes, ElectFails(n) PROVE Goal
  BY <1>6 DEF ElectFails, TypeOK
<1>7. CASE Tick
  BY <1>7 DEF Tick, Row, Less, TypeOK
<1>8. ASSUME NEW n \in Nodes, Heartbeat(n) \/ \E stale \in BOOLEAN : MarkStale(n, stale)
      PROVE  UNCHANGED <<lease, stand, outdated>>
  BY <1>8 DEF Heartbeat, MarkStale
<1>9. ASSUME NEW c \in Calls, LockStep(c) PROVE UNCHANGED <<lease, stand, outdated>>
  BY <1>9 DEF LockStep, AcquireLock, Refresh, RefreshFails, Release, Abandon, Leaves, electionVars
<1>10. CASE UNCHANGED vars
  BY <1>1, <1>10 DEF vars
<1> QED BY <1>1, <1>2, <1>3, <1>4, <1>5, <1>6, <1>7, <1>8, <1>9, <1>10 DEF Next, NodeStep

\* Nodes are never told more of the lease than its row says, if the database
\* refuses the transactions whose read is outdated.
LEMMA NextLeaseCovers ==
  ASSUME Serial
  PROVE  IInv /\ [Next]_vars => LeaseCovers'
<1> SUFFICES ASSUME IInv, [Next]_vars, NEW m \in Nodes, won'[m] > 0
             PROVE  lease'.by = m /\ won'[m] <= lease'.left
  BY DEF LeaseCovers
<1> DEFINE Goal == lease'.by = m /\ won'[m] <= lease'.left
<1> USE ClusterAssumption DEF IInv, LeaseCovers
<1>1. CASE UNCHANGED <<lease, won>>
  BY <1>1
<1>2. ASSUME NEW n \in Nodes, RemoveNode(n) PROVE Goal
  BY <1>2 DEF RemoveNode, TypeOK
<1>3. ASSUME NEW n \in Nodes, ElectClaim(n) PROVE Goal
  <2>1. lease.left = 0
    BY <1>3 DEF ElectClaim, Commits, ReadHolds
  <2> QED BY <1>3, <2>1 DEF ElectClaim, Wins, Row, TypeOK
<1>4. ASSUME NEW n \in Nodes, ElectRenew(n) PROVE Goal
  <2>1. lease.by = n
    BY <1>4 DEF ElectRenew, Commits, ReadHolds
  <2> QED BY <1>4, <2>1 DEF ElectRenew, Wins, Row, TypeOK
<1>5. CASE Tick
  <2>1. won[m] \in 0..TTL /\ lease.left \in 0..TTL /\ won'[m] = Less(won[m])
        /\ lease'.by = lease.by /\ lease'.left = Less(lease.left)
    BY <1>5 DEF Tick, Row, TypeOK
  <2>2. won[m] > 0
    BY <2>1, LessTyped
  <2> QED BY <2>1, <2>2, LessMonotone
<1>6. ASSUME NEW n \in Nodes,
             \/ Heartbeat(n) \/ \E stale \in BOOLEAN : MarkStale(n, stale)
             \/ ElectClaimRead(n) \/ ElectRenewRead(n) \/ ElectFails(n)
      PROVE  UNCHANGED <<lease, won>>
  BY <1>6 DEF Heartbeat, MarkStale, ElectClaimRead, ElectRenewRead, Reads, ElectFails
<1>7. ASSUME NEW c \in Calls, LockStep(c) PROVE UNCHANGED <<lease, won>>
  BY <1>7 DEF LockStep, AcquireLock, Refresh, RefreshFails, Release, Abandon, Leaves, electionVars
<1>8. CASE UNCHANGED vars
  BY <1>1, <1>8 DEF vars
<1> QED BY <1>1, <1>2, <1>3, <1>4, <1>5, <1>6, <1>7, <1>8 DEF Next, NodeStep

\* The invariant holds at first.
LEMMA InitIInv == Init => IInv
  BY ClusterAssumption DEF Init, IInv, TypeOK, LockCovers, LeaseCovers, ReadHolds, NoRow, Row, NoMember

-----------------------------------------------------------------------------
\* Every variable stays in its type, with any database.
THEOREM TypeCorrect == Spec => []TypeOK
<1>1. Init => TypeOK
  BY InitIInv DEF IInv
<1> QED BY <1>1, NextTyped, PTL DEF Spec

\* The invariant of the lock needs nothing of the isolation of the database.
LEMMA LockInvariance == Spec => []LockInv
<1>1. Init => LockInv
  BY InitIInv DEF IInv, LockInv
<1>2. LockInv /\ [Next]_vars => LockInv'
  BY NextTyped, NextLockCovers DEF LockInv
<1> QED BY <1>1, <1>2, PTL DEF Spec

\* AcquireLock and Refresh never tell two users that they hold the lock for a
\* time that is not over, with any database.
THEOREM LockExcludes == Spec => []LockExclusive
<1>1. LockInv => LockExclusive
  BY DEF LockInv, LockCovers, LockExclusive
<1> QED BY <1>1, LockInvariance, PTL

\* Neither a late Release nor an AcquireLock ends a lock that has time left: only
\* its own user does, with any database.
THEOREM LateReleaseHarmless == Spec => LockEndedByUser
<1>1. LockInv /\ [Next]_vars
        => [\A c \in Calls : sure[c] > 0 /\ lock'.by # c => run'[c] = "no"]_vars
  <2> SUFFICES ASSUME LockInv, Next, NEW c \in Calls, sure[c] > 0, lock'.by # c
               PROVE  run'[c] = "no"
    OBVIOUS
  <2>1. lock.by = c /\ lock.left > 0
    BY ClusterAssumption DEF LockInv, LockCovers, TypeOK
  <2>2. ASSUME NEW d \in Calls, LockStep(d) PROVE run'[c] = "no"
    BY <2>1, <2>2 DEF LockStep, AcquireLock, Refresh, Holds, RefreshFails, Release, Abandon,
                      Leaves, Row, LockInv, TypeOK
  <2>3. ASSUME NEW n \in Nodes, NodeStep(n) PROVE FALSE
    BY <2>1, <2>3 DEF NodeStep, Heartbeat, RemoveNode, MarkStale, ElectClaimRead,
         ElectRenewRead, Reads, ElectClaim, ElectRenew, Wins, ElectFails, lockVars
  <2>4. CASE Tick
    BY <2>1, <2>4 DEF Tick, Row
  <2> QED BY <2>2, <2>3, <2>4 DEF Next
<1> QED BY <1>1, LockInvariance, PTL DEF Spec, LockEndedByUser

-----------------------------------------------------------------------------
\* The whole invariant, with a database that refuses outdated transactions.
LEMMA Invariance ==
  ASSUME Serial
  PROVE  Spec => []IInv
<1>1. IInv /\ [Next]_vars => IInv'
  BY NextTyped, NextLockCovers, NextReadHolds, NextLeaseCovers, Serial DEF IInv, LockInv
<1> QED BY <1>1, InitIInv, PTL DEF Spec

\* ElectPrimary never makes two nodes primary at a time, with such a database.
THEOREM PrimaryUnique ==
  ASSUME Serial
  PROVE  Spec => []OnePrimary
<1>1. IInv => OnePrimary
  BY DEF IInv, LeaseCovers, OnePrimary
<1> QED BY <1>1, Invariance, Serial, PTL

\* ElectPrimary never takes a live lease from its owner, with such a database.
THEOREM NoPreemption ==
  ASSUME Serial
  PROVE  Spec => LeaseNotPreempted
<1>1. IInv /\ [Next]_vars
        => [lease.left > 0 /\ lease'.by # lease.by => lease' = NoRow]_vars
  <2> SUFFICES ASSUME IInv, Next, lease.left > 0, lease'.by # lease.by
               PROVE  lease' = NoRow
    OBVIOUS
  <2>1. ASSUME NEW n \in Nodes, NodeStep(n) PROVE lease' = NoRow
    <3>1. ~ElectClaim(n)
      BY Serial DEF ElectClaim, Commits, IInv, ReadHolds
    <3>2. ~ElectRenew(n)
      BY DEF ElectRenew, Row
    <3> QED BY <2>1, <3>1, <3>2 DEF NodeStep, Heartbeat, RemoveNode, MarkStale,
               ElectClaimRead, ElectRenewRead, Reads, ElectFails
  <2>2. ASSUME NEW c \in Calls, LockStep(c) PROVE FALSE
    BY <2>2 DEF LockStep, AcquireLock, Refresh, RefreshFails, Release, Abandon, Leaves, electionVars
  <2>3. CASE Tick
    BY <2>3 DEF Tick, Row
  <2> QED BY <2>1, <2>2, <2>3 DEF Next
<1> QED BY <1>1, Invariance, Serial, PTL DEF Spec, LeaseNotPreempted

-----------------------------------------------------------------------------
(* Scheduler.                                                                 *)


ScheduleInv ==
  /\ SchedulerTypeOK
  /\ NextWithinPeriod
  /\ NoHotLoop
  /\ DiskCurrent
  /\ finished <= now

\* finish() never postpones a run beyond its schedule nor makes it immediate.
LEMMA RetryTimeBounds ==
  ASSUME SchedulerTypeOK, NEW next \in After(now)
  PROVE  retryTime(next) \in Nat /\ retryTime(next) > now /\ retryTime(next) <= next
<1>1. /\ now \in Nat /\ next \in Nat /\ next > now
      /\ attempts \in Nat /\ MaxRetries \in Int /\ RetryDelay \in Nat \ {0}
  BY SchedulerAssumption DEF SchedulerTypeOK, After
<1>2. CASE attempts < MaxRetries
  <2>1. 2^attempts \in Nat \ {0}
    BY <1>1, <1>2, BackoffPositive
  <2> DEFINE p == 2^attempts
  <2>2. RetryDelay * p \in Nat /\ RetryDelay * p > 0
    <3>1. p \in Nat \ {0}
      BY <2>1
    <3> HIDE DEF p
    <3>2. QED
      BY <1>1, <3>1
  <2> DEFINE d == RetryDelay * p
  <2>3. retryTime(next) = IF now + d < next THEN now + d ELSE next
    BY <1>2 DEF retryTime
  <2>4. d \in Nat /\ d > 0
    BY <2>2
  <2> HIDE DEF d
  <2>5. QED
    BY <1>1, <2>3, <2>4
<1>3. CASE ~(attempts < MaxRetries)
  BY <1>1, <1>3 DEF retryTime
<1>4. QED
  BY <1>2, <1>3

\* The inductive invariant holds before the first start.
LEMMA InitScheduled == SchedulerInit => ScheduleInv
<1> SUFFICES ASSUME SchedulerInit PROVE ScheduleInv
  OBVIOUS
<1>1. NewState \in States
  BY DEF NewState, States
<1>2. now \in 1..MaxTime /\ finished \in 0..MaxTime /\ finished <= now
  BY SchedulerAssumption DEF SchedulerInit
<1>3. SchedulerTypeOK
  BY Zenon, <1>1, <1>2 DEF SchedulerInit, SchedulerTypeOK
<1>4. NextWithinPeriod /\ NoHotLoop /\ DiskCurrent
  BY DEF SchedulerInit, NextWithinPeriod, NoHotLoop, DiskCurrent
<1>5. QED
  BY <1>2, <1>3, <1>4 DEF ScheduleInv

\* The invariant is inductive.
LEMMA NextScheduled == ScheduleInv /\ [SchedulerNext]_schedulerVars => ScheduleInv'
<1> SUFFICES ASSUME ScheduleInv, [SchedulerNext]_schedulerVars PROVE ScheduleInv'
  OBVIOUS
<1> USE SchedulerAssumption DEF ScheduleInv
<1>a. now \in Nat /\ now >= 1 /\ finished \in Nat /\ Period \in Nat \ {0}
  BY DEF SchedulerTypeOK
<1>1. CASE Start
  <2>1. PICK next \in After(now) :
          mem' = [disk EXCEPT !.next = IF disk.enabled THEN next ELSE @]
    BY <1>1 DEF Start
  <2>2. mem' \in States /\ (mem'.enabled => mem'.next = next)
    BY <1>a, <2>1 DEF SchedulerTypeOK, States, After
  <2>3. SchedulerTypeOK'
    <3>1. replay' \in BOOLEAN /\ owed' \in BOOLEAN
      BY <1>1 DEF Start, Missed
    <3>2. attempts' = 0 /\ finished' = 0 /\ 0 \in 0..MaxTime
      BY <1>1 DEF Start
    <3>3. now' \in 1..MaxTime /\ disk' \in States
      BY <1>1, <2>2 DEF Start, SchedulerTypeOK
    <3>4. /\ up' \in BOOLEAN /\ stopping' \in BOOLEAN
          /\ running' \in BOOLEAN /\ saveFailed' \in BOOLEAN
      BY Zenon, <1>1 DEF Start, SchedulerTypeOK
    <3>5. attempts' \in Nat /\ (attempts' = 0 \/ attempts' <= MaxRetries)
      BY <3>2
    <3>6. QED
      BY <2>2, <3>1, <3>2, <3>3, <3>4, <3>5 DEF SchedulerTypeOK
  <2>4. NextWithinPeriod' /\ NoHotLoop' /\ DiskCurrent' /\ finished' <= now'
    BY <1>1, <1>a, <2>2 DEF Start, NextWithinPeriod, NoHotLoop, DiskCurrent, After
  <2>5. QED
    BY <2>3, <2>4
<1>2. CASE DispatchDue \/ RunNow \/ Replay \/ StopBegin
  <2>1. SchedulerTypeOK' /\ finished' <= now'
    BY Zenon, <1>2 DEF DispatchDue, RunNow, Replay, StopBegin, SchedulerTypeOK
  <2>2. NextWithinPeriod' /\ NoHotLoop' /\ DiskCurrent'
    BY <1>2 DEF DispatchDue, RunNow, Replay, StopBegin, NextWithinPeriod, NoHotLoop,
                DiskCurrent
  <2>3. QED
    BY <2>1, <2>2
<1>3. ASSUME NEW status \in {"success", "failed", "skipped"}, Finish(status)
      PROVE  ScheduleInv'
  <2>1. PICK next \in After(now) :
          mem' = [mem EXCEPT !.status = status,
                    !.next = IF status = "failed" THEN retryTime(next) ELSE next]
    BY Zenon, <1>3 DEF Finish
  <2> DEFINE t == IF status = "failed" THEN retryTime(next) ELSE next
  <2>2. t \in Nat /\ t > now /\ t <= now + Period
    BY <1>a, RetryTimeBounds DEF After
  <2>3. mem' \in States /\ mem'.next = t
    <3> HIDE DEF t
    <3>1. QED
      BY Zenon, <2>1, <2>2 DEF SchedulerTypeOK, States, t
  <2>4. attempts' \in Nat /\ (attempts' = 0 \/ attempts' <= MaxRetries)
    BY <1>3 DEF Finish, attemptsAfter, SchedulerTypeOK
  <2>5. disk' \in States /\ saveFailed' \in BOOLEAN /\ (~saveFailed' => disk' = mem')
    BY Zenon, <1>3, <2>3 DEF Finish, Persist, SchedulerTypeOK
  <2>6. SchedulerTypeOK'
    <3>1. now' \in 1..MaxTime /\ finished' \in 0..MaxTime
      BY <1>3 DEF Finish, SchedulerTypeOK
    <3>2. QED
      BY Zenon, <1>3, <2>3, <2>4, <2>5, <3>1 DEF Finish, SchedulerTypeOK
  <2>7. NextWithinPeriod' /\ NoHotLoop' /\ DiskCurrent' /\ finished' <= now'
    <3> HIDE DEF t
    <3>1. QED
      BY <1>3, <1>a, <2>2, <2>3, <2>5
         DEF Finish, NextWithinPeriod, NoHotLoop, DiskCurrent
  <2>8. QED
    BY <2>6, <2>7
<1>4. CASE SetSchedule \/ \E enabled \in BOOLEAN : SetEnabled(enabled)
  <2>1. PICK next \in After(now) : /\ mem' \in States
                                   /\ mem'.enabled => mem'.next = next
    <3>1. CASE SetSchedule
      <4>1. PICK next \in After(now) : mem' = [mem EXCEPT !.next = next]
        BY <3>1 DEF SetSchedule
      <4>2. mem' \in States /\ mem'.next = next
        BY <1>a, <4>1 DEF SchedulerTypeOK, States, After
      <4>3. QED
        BY <4>2
    <3>2. ASSUME NEW enabled \in BOOLEAN, SetEnabled(enabled)
          PROVE  \E next \in After(now) : mem' \in States /\ (mem'.enabled => mem'.next = next)
      <4>1. PICK next \in After(now) :
              mem' = [mem EXCEPT !.enabled = enabled,
                                 !.next = IF enabled THEN next ELSE mem.next]
        BY Zenon, <3>2 DEF SetEnabled
      <4>2. next \in Nat /\ mem \in States
        BY <1>a DEF After, SchedulerTypeOK
      <4>3. (IF enabled THEN next ELSE mem.next) \in Nat
        BY <4>2 DEF States
      <4>4. \A n \in Nat : /\ [mem EXCEPT !.enabled = enabled, !.next = n] \in States
                           /\ [mem EXCEPT !.enabled = enabled, !.next = n].next = n
                           /\ [mem EXCEPT !.enabled = enabled, !.next = n].enabled = enabled
        BY Zenon, <4>2 DEF States
      <4>5. mem' \in States /\ (mem'.enabled => mem'.next = next)
        BY Zenon, <4>1, <4>3, <4>4
      <4>6. QED
        BY <4>5
    <3>3. QED
      BY <1>4, <3>1, <3>2
  <2>2. disk' \in States /\ saveFailed' \in BOOLEAN /\ (~saveFailed' => disk' = mem')
    BY Zenon, <1>4, <2>1 DEF SetSchedule, SetEnabled, Persist, SchedulerTypeOK
  <2>3. SchedulerTypeOK'
    BY Zenon, <1>4, <2>1, <2>2 DEF SetSchedule, SetEnabled, SchedulerTypeOK
  <2>4. NextWithinPeriod' /\ NoHotLoop' /\ DiskCurrent' /\ finished' <= now'
    <3>1. now' = now /\ finished' = finished /\ up' = up
      BY Zenon, <1>4 DEF SetSchedule, SetEnabled
    <3>2. next \in Nat /\ next > now /\ next <= now + Period /\ next >= 1
      BY <1>a DEF After
    <3>3. QED
      BY <1>a, <2>1, <2>2, <3>1, <3>2 DEF NextWithinPeriod, NoHotLoop, DiskCurrent
  <2>5. QED
    BY <2>3, <2>4
<1>5. CASE StopDone \/ StopTimeout \/ Crash
  <2>1. mem' \in States
    BY Zenon, <1>5, <1>a DEF StopDone, StopTimeout, Crash, SchedulerTypeOK, States
  <2>2. disk' \in States /\ saveFailed' \in BOOLEAN
    BY Zenon, <1>5, <2>1 DEF StopDone, StopTimeout, Crash, Persist, SchedulerTypeOK
  <2>3. SchedulerTypeOK' /\ finished' <= now'
    BY Zenon, <1>5, <2>1, <2>2 DEF StopDone, StopTimeout, Crash, Exit, SchedulerTypeOK
  <2>4. NextWithinPeriod' /\ NoHotLoop' /\ DiskCurrent'
    BY <1>5 DEF StopDone, StopTimeout, Crash, Exit, NextWithinPeriod, NoHotLoop,
                DiskCurrent
  <2>5. QED
    BY <2>3, <2>4
<1>6. CASE SchedulerTick
  BY <1>6, <1>a DEF SchedulerTick, SchedulerTypeOK, States, NextWithinPeriod, NoHotLoop, DiskCurrent
<1>7. CASE UNCHANGED schedulerVars
  BY <1>7 DEF schedulerVars, SchedulerTypeOK, NextWithinPeriod, NoHotLoop, DiskCurrent
<1>8. QED
  BY <1>1, <1>2, <1>3, <1>4, <1>5, <1>6, <1>7 DEF SchedulerNext

\* Type correctness, the retry budget included.
THEOREM SchedulerTypeCorrect == SchedulerSpec => []SchedulerTypeOK
<1>1. ScheduleInv => SchedulerTypeOK
  BY DEF ScheduleInv
<1>2. QED
  BY <1>1, InitScheduled, NextScheduled, PTL DEF SchedulerSpec

\* The next run of an enabled task is never more than a period away.
THEOREM NeverPostponed == SchedulerSpec => []NextWithinPeriod
<1>1. ScheduleInv => NextWithinPeriod
  BY DEF ScheduleInv
<1>2. QED
  BY <1>1, InitScheduled, NextScheduled, PTL DEF SchedulerSpec

\* A task is never due again at the instant it ended.
THEOREM BackoffAlways == SchedulerSpec => []NoHotLoop
<1>1. ScheduleInv => NoHotLoop
  BY DEF ScheduleInv
<1>2. QED
  BY <1>1, InitScheduled, NextScheduled, PTL DEF SchedulerSpec

\* A crash restarts from the state the process had, unless a save failed.
THEOREM CrashSafe == SchedulerSpec => []DiskCurrent
<1>1. ScheduleInv => DiskCurrent
  BY DEF ScheduleInv
<1>2. QED
  BY <1>1, InitScheduled, NextScheduled, PTL DEF SchedulerSpec

-----------------------------------------------------------------------------
(* Both.                                                                      *)

\* The cluster tables and the state of a task hold only what the code stores in
\* them, whichever of the two runs; the retry counter stays within its budget.
THEOREM TypesKept == MCSpec => []TypesOK
<1> DEFINE Inv == TypeOK /\ ScheduleInv
<1>1. MCInit => Inv
  BY InitIInv, InitScheduled DEF MCInit, IInv
<1>2. Inv /\ [MCNext]_<<part, vars, schedulerVars>> => Inv'
  <2> SUFFICES ASSUME Inv, [MCNext]_<<part, vars, schedulerVars>> PROVE Inv'
    OBVIOUS
  <2>1. [Next]_vars /\ [SchedulerNext]_schedulerVars
    BY DEF MCNext
  <2>2. QED
    BY <2>1, NextTyped, NextScheduled
<1>3. Inv => TypesOK
  BY DEF ScheduleInv, TypesOK
<1>4. QED
  BY <1>1, <1>2, <1>3, PTL DEF MCSpec

-----------------------------------------------------------------------------
(* The lock of a task.                                                       *)

\* The flag stands for the goroutine.
Flagged ==
  \A n \in Peers, w \in Workers : stop[n] = "no" /\ Lk!Acquiring(n, w) => busy[n]

LockFlagInv == Lk!TypeOK /\ Lk!OnePerNode /\ Flagged

\* What the lock file can hold.
Files == {Lk!Absent, Lk!Torn} \cup [kind : {"lock"}, owner : Peers, fresh : BOOLEAN]

\* Nothing runs at first.
LEMMA LockFlagInit == Lk!Init => LockFlagInv
BY DEF Lk!Init, LockFlagInv, Lk!TypeOK, Lk!OnePerNode, Flagged, Lk!Acquiring, Lk!Labels

\* Only a goroutine that begins can be a second one.
LEMMA WorkerSafe ==
  ASSUME LockFlagInv, NEW n \in Peers, NEW w \in Workers, Lk!WorkerStep(n, w)
  PROVE  LockFlagInv'
<1> USE DEF LockFlagInv
<1>1. /\ pc \in [Peers -> [Workers -> Lk!Labels]]
      /\ busy \in [Peers -> BOOLEAN]
  BY DEF Lk!TypeOK
<1>2. PICK l \in Lk!Labels : Lk!Goto(n, w, l)
  BY DEF Lk!WorkerStep, Lk!Begin, Lk!RunNow, Lk!Claim, Lk!Create, Lk!Read, Lk!Truncate, Lk!Write, Lk!AcquireFail, Lk!Finish,
         Lk!RunEnd, Lk!ReleaseRead, Lk!ReleaseRemove, Lk!Goto, Lk!Labels
<1>3. /\ pc' \in [Peers -> [Workers -> Lk!Labels]]
      /\ pc'[n][w] = l
      /\ \A m \in Peers, v \in Workers : m # n \/ v # w => pc'[m][v] = pc[m][v]
  BY <1>1, <1>2 DEF Lk!Goto
<1>4. /\ alive' = alive /\ stop' = stop
      /\ busy' \in [Peers -> BOOLEAN]
      /\ \A m \in Peers : m # n => busy'[m] = busy[m]
  BY Zenon, <1>1 DEF Lk!WorkerStep, Lk!Begin, Lk!RunNow, Lk!Claim, Lk!Create, Lk!Read, Lk!Truncate, Lk!Write, Lk!AcquireFail, Lk!Finish,
              Lk!RunEnd, Lk!ReleaseRead, Lk!ReleaseRemove
<1>5. file' \in Files
  <2>1. file \in Files
    BY DEF Lk!TypeOK, Files
  <2>2. Lk!LockOf(n) \in Files /\ Lk!Absent \in Files /\ Lk!Torn \in Files
    BY DEF Files, Lk!LockOf
  <2>3. QED
    BY <2>1, <2>2 DEF Lk!WorkerStep, Lk!Begin, Lk!RunNow, Lk!Claim, Lk!Create, Lk!Read, Lk!Truncate, Lk!Write, Lk!AcquireFail,
                      Lk!RunEnd, Lk!ReleaseRead, Lk!ReleaseRemove, Lk!Unlink
<1>6. linked' \in [Peers -> [Workers -> BOOLEAN]]
  <2>1. linked \in [Peers -> [Workers -> BOOLEAN]]
    BY DEF Lk!TypeOK
  <2>2. [linked EXCEPT ![n][w] = TRUE] \in [Peers -> [Workers -> BOOLEAN]]
    BY <2>1
  <2>3. [m \in Peers |-> [v \in Workers |-> FALSE]] \in [Peers -> [Workers -> BOOLEAN]]
    OBVIOUS
  <2>4. \/ linked' = linked
        \/ linked' = [linked EXCEPT ![n][w] = TRUE]
        \/ linked' = [m \in Peers |-> [v \in Workers |-> FALSE]]
    BY DEF Lk!WorkerStep, Lk!Begin, Lk!RunNow, Lk!Claim, Lk!Create, Lk!Read, Lk!Truncate, Lk!Write, Lk!AcquireFail,
           Lk!RunEnd, Lk!ReleaseRead, Lk!ReleaseRemove, Lk!Unlink
  <2>5. QED
    BY Zenon, <2>1, <2>2, <2>3, <2>4
<1>7. Lk!TypeOK'
  BY <1>3, <1>4, <1>5, <1>6 DEF Lk!TypeOK, Files
<1>8. CASE Lk!Claim(n, w)
  <2>1. \A v \in Workers : stop[n] = "no" => ~Lk!Acquiring(n, v)
    BY <1>8 DEF Lk!Claim, Flagged
  <2>2. busy'[n]
    BY <1>1, <1>8 DEF Lk!Claim
  <2>3. \A v \in Workers : stop[n] = "no" /\ Lk!Acquiring(n, v)' => v = w
    BY <1>3, <2>1 DEF Lk!Acquiring
  <2>4. \A m \in Peers, v \in Workers : m # n => (Lk!Acquiring(m, v)' <=> Lk!Acquiring(m, v))
    BY <1>3 DEF Lk!Acquiring
  <2>5. Lk!OnePerNode'
    BY <1>4, <2>3, <2>4 DEF Lk!OnePerNode
  <2>6. Flagged'
    BY <1>4, <2>2, <2>4 DEF Flagged
  <2>7. QED
    BY <1>7, <2>5, <2>6
<1>9. CASE ~Lk!Claim(n, w)
  <2>1. Lk!Acquiring(n, w)' => Lk!Acquiring(n, w) /\ busy'[n] = busy[n]
    BY <1>1, <1>3, <1>9
       DEF Lk!WorkerStep, Lk!Begin, Lk!RunNow, Lk!Create, Lk!Read, Lk!Truncate, Lk!Write, Lk!AcquireFail, Lk!Finish, Lk!RunEnd,
           Lk!ReleaseRead, Lk!ReleaseRemove, Lk!Goto, Lk!Acquiring
  <2>2. \A v \in Workers :
          stop[n] = "no" /\ v # w /\ Lk!Acquiring(n, v) => busy'[n] = busy[n]
    <3>1. Lk!Acquiring(n, w) \/ busy' = busy
      BY <1>9 DEF Lk!WorkerStep, Lk!Begin, Lk!RunNow, Lk!Create, Lk!Read, Lk!Truncate, Lk!Write, Lk!AcquireFail, Lk!RunEnd,
                  Lk!ReleaseRead, Lk!ReleaseRemove, Lk!Acquiring
    <3>2. QED
      BY <3>1 DEF Lk!OnePerNode
  <2>3. \A m \in Peers, v \in Workers : Lk!Acquiring(m, v)' => Lk!Acquiring(m, v)
    BY <1>3, <2>1 DEF Lk!Acquiring
  <2>4. Lk!OnePerNode'
    BY <1>4, <2>3 DEF Lk!OnePerNode
  <2>5. Flagged'
    BY <1>4, <2>1, <2>2, <2>3 DEF Flagged
  <2>6. QED
    BY <1>7, <2>4, <2>5
<1>10. QED
  BY <1>8, <1>9

\* Stop clears the flag only when it has given up on the run, and only the end
\* of the process undoes that.
LEMMA ProcessSafe ==
  ASSUME LockFlagInv, NEW n \in Peers, Lk!ProcessStep(n)
  PROVE  LockFlagInv'
<1> USE DEF LockFlagInv
<1>1. /\ pc \in [Peers -> [Workers -> Lk!Labels]]
      /\ busy \in [Peers -> BOOLEAN]
      /\ stop \in [Peers -> {"no", "release", "remove", "exit"}]
      /\ alive \in [Peers -> BOOLEAN]
  BY DEF Lk!TypeOK
<1>2. CASE Lk!StopTimeout(n) \/ Lk!StopRead(n) \/ Lk!StopRemove(n) \/ Lk!Start(n)
  <2>1. Lk!TypeOK'
    <3>1. linked' \in [Peers -> [Workers -> BOOLEAN]]
      <4>1. linked \in [Peers -> [Workers -> BOOLEAN]]
        BY DEF Lk!TypeOK
      <4>2. [m \in Peers |-> [v \in Workers |-> FALSE]] \in [Peers -> [Workers -> BOOLEAN]]
        OBVIOUS
      <4>3. linked' = linked \/ linked' = [m \in Peers |-> [v \in Workers |-> FALSE]]
        BY <1>2 DEF Lk!StopTimeout, Lk!StopRead, Lk!StopRemove, Lk!Start, Lk!Unlink
      <4>4. QED
        BY Zenon, <4>1, <4>2, <4>3
    <3>2. file' \in Files
      BY <1>2 DEF Lk!TypeOK, Files, Lk!StopTimeout, Lk!StopRead, Lk!StopRemove, Lk!Start, Lk!Unlink
    <3>3. /\ busy' \in [Peers -> BOOLEAN]
          /\ alive' \in [Peers -> BOOLEAN]
          /\ stop' \in [Peers -> {"no", "release", "remove", "exit"}]
      BY Zenon, <1>1, <1>2 DEF Lk!StopTimeout, Lk!StopRead, Lk!StopRemove, Lk!Start
    <3>4. pc' \in [Peers -> [Workers -> Lk!Labels]]
      BY <1>1, <1>2 DEF Lk!StopTimeout, Lk!StopRead, Lk!StopRemove, Lk!Start
    <3>5. QED
      BY <3>1, <3>2, <3>3, <3>4 DEF Lk!TypeOK, Files
  <2>2. pc' = pc
    BY <1>2 DEF Lk!StopTimeout, Lk!StopRead, Lk!StopRemove, Lk!Start
  <2>3. \A m \in Peers : stop'[m] = "no" => stop[m] = "no" /\ busy'[m] = busy[m]
    BY <1>1, <1>2 DEF Lk!StopTimeout, Lk!StopRead, Lk!StopRemove, Lk!Start
  <2>4. QED
    BY <2>1, <2>2, <2>3 DEF Lk!OnePerNode, Flagged, Lk!Acquiring
<1>3. CASE Lk!Exit(n)
  <2>1. Lk!TypeOK'
    BY <1>3 DEF Lk!TypeOK, Lk!Exit, Lk!Labels
  <2>2. /\ \A w \in Workers : pc'[n][w] = "idle"
        /\ \A m \in Peers : m # n => /\ pc'[m] = pc[m]
                                     /\ busy'[m] = busy[m]
                                     /\ stop'[m] = stop[m]
    BY <1>1, <1>3 DEF Lk!Exit
  <2>3. QED
    BY <2>1, <2>2 DEF Lk!OnePerNode, Flagged, Lk!Acquiring
<1>4. QED
  BY <1>2, <1>3 DEF Lk!ProcessStep

\* The invariant is inductive.
LEMMA LockFlagNext == LockFlagInv /\ [Lk!Next]_(Lk!vars) => LockFlagInv'
<1> SUFFICES ASSUME LockFlagInv, [Lk!Next]_(Lk!vars) PROVE LockFlagInv'
  OBVIOUS
<1>1. CASE Lk!Expire
  <2>1. file.kind = "lock" /\ file \in Files
    BY <1>1 DEF Lk!Expire, LockFlagInv, Lk!TypeOK, Files
  <2>2. file \in [kind : {"lock"}, owner : Peers, fresh : BOOLEAN]
    BY <2>1 DEF Files, Lk!Absent, Lk!Torn
  <2>3. file' \in Files
    BY Zenon, <1>1, <2>2 DEF Lk!Expire, Files
  <2>4. QED
    BY <1>1, <2>3 DEF Lk!Expire, LockFlagInv, Lk!TypeOK, Lk!OnePerNode, Flagged, Lk!Acquiring, Files
<1>2. CASE UNCHANGED Lk!vars
  BY <1>2 DEF Lk!vars, LockFlagInv, Lk!TypeOK, Lk!OnePerNode, Flagged, Lk!Acquiring
<1>3. QED
  BY <1>1, <1>2, WorkerSafe, ProcessSafe DEF Lk!Next

\* Type correctness: a record that can be parsed names a node.
THEOREM LockTypeCorrect == Lk!Spec => []Lk!TypeOK
<1>1. LockFlagInv => Lk!TypeOK
  BY DEF LockFlagInv
<1>2. QED
  BY <1>1, LockFlagInit, LockFlagNext, PTL DEF Lk!Spec

\* RunNow, the dispatch loop and the catch-up replay never run the task twice
\* at once on one node, until Stop has given up on a run.
THEOREM OneRunPerNode == LockSpec => []OnePerNode
<1>1. LockFlagInv => OnePerNode
  BY DEF LockFlagInv, OnePerNode
<1>2. QED
  BY <1>1, LockFlagInit, LockFlagNext, PTL DEF LockSpec, Lk!Spec
===============================================================================
