------------------------------ MODULE MCTaskLock ------------------------------
(* TaskLock under names that the tables of Cluster do not use, with the nodes *)
(* and the goroutines of a node interchangeable.                              *)
EXTENDS TLC

CONSTANTS Peers, Workers, NoOwner, LongRuns

ASSUME LockAssumption == NoOwner \notin Peers /\ LongRuns \in BOOLEAN

VARIABLES file, pc, linked, busy, alive, stop

Lk == INSTANCE TaskLock WITH
  Nodes <- Peers, Nobody <- NoOwner, running <- busy, up <- alive

LockSpec == Lk!Spec

\* No node executes the task twice at once, until Stop gives up on a run.
OnePerNode == Lk!OnePerNode

Interchangeable == Permutations(Peers) \cup Permutations(Workers)
===============================================================================
