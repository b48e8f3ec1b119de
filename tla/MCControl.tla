------------------------------ MODULE MCControl ------------------------------
(***************************************************************************)
(* The cluster tables, and a task of the scheduler.  The two share no      *)
(* state: part chooses the one that is explored, and the other rests.      *)
(***************************************************************************)
EXTENDS Cluster, Scheduler

VARIABLE part  \* the component that is explored

MCInit ==
  /\ part \in {"cluster", "scheduler"}
  /\ Init
  /\ SchedulerInit

MCNext ==
  /\ UNCHANGED part
  /\ \/ part = "cluster" /\ Next /\ UNCHANGED schedulerVars
     \/ part = "scheduler" /\ SchedulerNext /\ UNCHANGED vars

MCSpec == MCInit /\ [][MCNext]_<<part, vars, schedulerVars>>

\* Type correctness of both; among other things the retry counter of a task
\* stays within its budget.
TypesOK == TypeOK /\ SchedulerTypeOK
==============================================================================
