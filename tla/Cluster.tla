------------------------------- MODULE Cluster -------------------------------
(***************************************************************************)
(* Panel processes that share a database (src/database/cluster.go, reached *)
(* through src/nodes/cluster.go): membership by heartbeat, the lease of    *)
(* the primary and named locks with an expiry.                             *)
(*                                                                         *)
(* The clocks of the nodes agree.  Instead of dates the rows hold what is  *)
(* left of a lease and how old a heartbeat is; a unit is the heartbeat     *)
(* interval.                                                               *)
(***************************************************************************)
EXTENDS Integers

CONSTANTS
  Nodes,         \* node ids, which are ordered
  Calls,         \* users of one lock, each with the token of its Lock
  Nobody,        \* no row
  TTL,           \* PrimaryLeaseTTL, and the ttl of the lock
  DegradedAfter, \* age up to which a heartbeat is fresh
  Serial         \* the database refuses a transaction whose read is outdated

ASSUME ClusterAssumption ==
  /\ Nodes \subseteq Nat
  /\ TTL \in Nat \ {0}
  /\ DegradedAfter \in Nat
  /\ Nobody \notin Nodes \cup Calls
  /\ Serial \in BOOLEAN

VARIABLES
  member,   \* the table nodes
  lease,    \* the row cluster.primary of cluster_locks
  lock,     \* the row of the named lock
  stand,    \* how far ElectPrimary of a node is
  outdated, \* the lease was written since that transaction read it
  due,      \* the lease that transaction would write
  won,      \* what is left of the lease a node was told it has (history)
  run,      \* what the user of the lock is doing
  sure      \* what is left of the lock it was told it has (history)

electionVars == <<member, lease, stand, outdated, due, won>>
lockVars == <<lock, run, sure>>
vars == <<member, lease, lock, stand, outdated, due, won, run, sure>>

Row(x, t) == [by |-> x, left |-> t]
NoRow == Row(Nobody, 0)
NoMember == [known |-> FALSE, age |-> 0, stale |-> FALSE]

Init ==
  /\ member = [n \in Nodes |-> NoMember]
  /\ lease = NoRow
  /\ lock = NoRow
  /\ stand = [n \in Nodes |-> "no"]
  /\ outdated = [n \in Nodes |-> FALSE]
  /\ due = [n \in Nodes |-> 0]
  /\ won = [n \in Nodes |-> 0]
  /\ run = [c \in Calls |-> "no"]
  /\ sure = [c \in Calls |-> 0]

-----------------------------------------------------------------------------
(* Membership.                                                              *)

\* A heartbeat inserts the row or refreshes it; the stale flag stays.
Heartbeat(n) ==
  /\ member' = [member EXCEPT ![n] = [known |-> TRUE, age |-> 0, stale |-> member[n].stale]]
  /\ UNCHANGED <<lease, stand, outdated, due, won, lockVars>>

MarkStale(n, stale) ==
  /\ member[n].known
  /\ member' = [member EXCEPT ![n] = [known |-> TRUE, age |-> member[n].age, stale |-> stale]]
  /\ UNCHANGED <<lease, stand, outdated, due, won, lockVars>>

\* The transactions that are under way have read an older lease.
OutdatesOthers(n) ==
  outdated' = [m \in Nodes |-> (m # n /\ stand[m] # "no") \/ outdated[m]]

\* What a removed node still takes for its lease is not counted.
RemoveNode(n) ==
  /\ member' = [member EXCEPT ![n] = NoMember]
  /\ IF lease.by = n
       THEN lease' = NoRow /\ outdated' = [m \in Nodes |-> stand[m] # "no"]
       ELSE UNCHANGED <<lease, outdated>>
  /\ won' = [won EXCEPT ![n] = 0]
  /\ UNCHANGED <<stand, due, lockVars>>

\* lowestHealthyNode: the lowest healthy node may claim the lease; when no
\* heartbeat is fresh, any node may.
Healthy == {n \in Nodes : member[n].known /\ member[n].age <= DegradedAfter /\ ~member[n].stale}
Eligible(n) == Healthy = {} \/ (n \in Healthy /\ \A m \in Healthy : n <= m)

-----------------------------------------------------------------------------
(* ElectPrimary: a transaction at the default isolation of the database.    *)
(* What it will write counts from the time it took before it began.         *)

Reads(n, next) ==
  /\ stand' = [stand EXCEPT ![n] = next]
  /\ outdated' = [outdated EXCEPT ![n] = FALSE]
  /\ due' = [due EXCEPT ![n] = TTL]
  /\ UNCHANGED <<member, lease, won, lockVars>>

\* Mutant: a live lease is no obstacle.
ElectClaimReadAnyway(n) == stand[n] = "no" /\ Eligible(n) /\ Reads(n, "claim")

\* There is no lease or it lapsed, and this node may claim it.
ElectClaimRead(n) ==
  /\ stand[n] = "no"
  /\ lease.left = 0
  /\ Eligible(n)
  /\ Reads(n, "claim")

\* Mutant: whoever owns the live lease.
ElectRenewReadAny(n) == stand[n] = "no" /\ lease.left > 0 /\ Reads(n, "renew")

\* This node owns the live lease.
ElectRenewRead(n) ==
  /\ stand[n] = "no"
  /\ lease.left > 0
  /\ lease.by = n
  /\ Reads(n, "renew")

Commits(n) == ~(Serial /\ outdated[n])

Wins(n) ==
  /\ won' = [won EXCEPT ![n] = due[n]]
  /\ stand' = [stand EXCEPT ![n] = "no"]
  /\ UNCHANGED <<member, due, lockVars>>

\* The row is deleted, whatever it holds by now, and a new one inserted.
ElectClaim(n) ==
  /\ stand[n] = "claim" /\ Commits(n)
  /\ lease' = Row(n, due[n])
  /\ OutdatesOthers(n)
  /\ Wins(n)

\* The update names the owner; how many rows it met is not looked at.
ElectRenew(n) ==
  /\ stand[n] = "renew" /\ Commits(n)
  /\ IF lease.by = n
       THEN lease' = Row(n, due[n]) /\ OutdatesOthers(n)
       ELSE UNCHANGED <<lease, outdated>>
  /\ Wins(n)

\* The transaction is refused, its insert meets the row of another node, or the
\* process ends.
ElectFails(n) ==
  /\ stand[n] # "no"
  /\ stand' = [stand EXCEPT ![n] = "no"]
  /\ UNCHANGED <<member, lease, outdated, due, won, lockVars>>

-----------------------------------------------------------------------------
(* AcquireLock, Refresh and Release, and WithLock around a function.  The   *)
(* time is taken before the statement: t is what is left when it takes      *)
(* effect.                                                                  *)

Holds(c, t) ==
  /\ lock' = Row(c, t)
  /\ run' = [run EXCEPT ![c] = "runs"]
  /\ sure' = [sure EXCEPT ![c] = t]

\* Mutant: the row is replaced whether it has expired or not.
AcquireLockReplacing(c, t) == run[c] = "no" /\ Holds(c, t) /\ UNCHANGED electionVars

\* An expired row is deleted, and the insert succeeds if there is no other.
AcquireLock(c, t) ==
  /\ run[c] = "no"
  /\ lock.left = 0
  /\ Holds(c, t)
  /\ UNCHANGED electionVars

\* A lock that lapsed is not revived, except one that lapsed between the reading
\* of the clock and the update.
Refresh(c, t) ==
  /\ run[c] = "runs"
  /\ lock.by = c /\ (lock.left > 0 \/ t < TTL)
  /\ Holds(c, t)
  /\ UNCHANGED electionVars

\* The user is told ErrLockHeld.
RefreshFails(c) ==
  /\ run[c] = "runs"
  /\ lock.by # c \/ lock.left = 0
  /\ run' = [run EXCEPT ![c] = "lost"]
  /\ UNCHANGED <<lock, sure, electionVars>>

Leaves(c) ==
  /\ run[c] # "no"
  /\ run' = [run EXCEPT ![c] = "no"]
  /\ sure' = [sure EXCEPT ![c] = 0]
  /\ UNCHANGED electionVars

\* Mutant: the row is deleted by its name only.
ReleaseByName(c) == Leaves(c) /\ lock' = NoRow

\* The row is deleted by its token.
Release(c) == Leaves(c) /\ lock' = IF lock.by = c THEN NoRow ELSE lock

\* The release fails and WithLock ignores that, or the process ends.
Abandon(c) == Leaves(c) /\ UNCHANGED lock

-----------------------------------------------------------------------------
\* Mutant: below zero.
LessUnbounded(t) == t - 1

Less(t) == IF t = 0 THEN 0 ELSE t - 1

Aged(row) ==
  [row EXCEPT !.age = IF row.known /\ row.age <= DegradedAfter THEN row.age + 1 ELSE row.age]

Tick ==
  /\ member' = [n \in Nodes |-> Aged(member[n])]
  /\ lease' = Row(lease.by, Less(lease.left))
  /\ lock' = Row(lock.by, Less(lock.left))
  /\ due' = [n \in Nodes |-> Less(due[n])]
  /\ won' = [n \in Nodes |-> Less(won[n])]
  /\ sure' = [c \in Calls |-> Less(sure[c])]
  /\ UNCHANGED <<stand, outdated, run>>

NodeStep(n) ==
  \/ Heartbeat(n) \/ RemoveNode(n)
  \/ \E stale \in BOOLEAN : MarkStale(n, stale)
  \/ ElectClaimRead(n) \/ ElectRenewRead(n)
  \/ ElectClaim(n) \/ ElectRenew(n) \/ ElectFails(n)

LockStep(c) ==
  \/ \E t \in 0..TTL : AcquireLock(c, t) \/ Refresh(c, t)
  \/ RefreshFails(c) \/ Release(c) \/ Abandon(c)

Next == (\E n \in Nodes : NodeStep(n)) \/ (\E c \in Calls : LockStep(c)) \/ Tick

Spec == Init /\ [][Next]_vars

-----------------------------------------------------------------------------
(* Properties.                                                              *)

\* Type correctness; a heartbeat is not aged further once it is not fresh.
TypeOK ==
  /\ member \in [Nodes -> [known : BOOLEAN, age : 0..(DegradedAfter + 1), stale : BOOLEAN]]
  /\ lease \in [by : Nodes \cup {Nobody}, left : 0..TTL]
  /\ lock \in [by : Calls \cup {Nobody}, left : 0..TTL]
  /\ stand \in [Nodes -> {"no", "claim", "renew"}]
  /\ outdated \in [Nodes -> BOOLEAN]
  /\ due \in [Nodes -> 0..TTL]
  /\ won \in [Nodes -> 0..TTL]
  /\ run \in [Calls -> {"no", "runs", "lost"}]
  /\ sure \in [Calls -> 0..TTL]

\* ElectPrimary "reports whether this node is the primary": no two nodes are told
\* so of leases that both have time left.
OnePrimary == \A m, n \in Nodes : won[m] > 0 /\ won[n] > 0 => m = n

\* "A live lease is never preempted" (ElectPrimary): it changes its owner only
\* once it lapsed, or goes with the removal of its owner.
LeaseNotPreempted == [][lease.left > 0 /\ lease'.by # lease.by => lease' = NoRow]_vars

\* No two users of a lock were told that they hold it, by AcquireLock or Refresh,
\* and both have time left.
LockExclusive == \A c, d \in Calls : sure[c] > 0 /\ sure[d] > 0 => c = d

\* "a stale holder cannot release a lock that has since been taken over" (Token):
\* the row of a lock with time left goes only when its own user leaves.
LockEndedByUser ==
  [][\A c \in Calls : sure[c] > 0 /\ lock'.by # c => run'[c] = "no"]_vars

\* WithLock does not run fn while another node holds the lock, "which is how
\* duplicate scheduled-task execution is prevented".
NoDuplicateExecution == \A c, d \in Calls : run[c] = "runs" /\ run[d] = "runs" => c = d
==============================================================================
