------------------------------- MODULE NodeView -------------------------------
(***************************************************************************)
(* What the rest of src/nodes needs to know about a node: whether it takes *)
(* new work (Schedulable), whether it was drained or removed, whether it   *)
(* still has a live credential, and how far a drain or a removal of it has *)
(* got.  NodeRegistry is the detailed machine and implements this one;     *)
(* NodeTasks builds the task queue on top of it.                           *)
(***************************************************************************)
CONSTANT Nodes

VARIABLES
  view,        \* "open": Schedulable(); "closed": not, but still a member
  credential,  \* the node has a credential that is not revoked
  drain,       \* progress of Service.Drain
  removal      \* progress of Service.Remove

viewVars == <<view, credential, drain, removal>>

ViewInit ==
  /\ view = [n \in Nodes |-> "open"]
  /\ credential = [n \in Nodes |-> TRUE]
  /\ drain = [n \in Nodes |-> "idle"]
  /\ removal = [n \in Nodes |-> "idle"]

ViewTypeOK ==
  /\ view \in [Nodes -> {"open", "closed", "drained", "removed"}]
  /\ credential \in [Nodes -> BOOLEAN]
  /\ drain \in [Nodes -> {"idle", "cordon", "cancel", "finish"}]
  /\ removal \in [Nodes -> {"idle", "revoke", "cancel", "finish"}]

\* Flags, sweeps, contacts, operator transitions and rejoins: every way in
\* which a node becomes or stops being schedulable, leaving drained included.
Reclassify(n, v) ==
  /\ view[n] # "removed"
  /\ v \in {"open", "closed", "drained"}
  /\ v = "drained" => view[n] \in {"open", "closed"}
  /\ view' = [view EXCEPT ![n] = v]
  /\ UNCHANGED <<credential, drain, removal>>

\* A token bound to the node is redeemed.
Rejoin(n) ==
  /\ view[n] # "removed"
  /\ \E v \in {"open", "closed"} : view' = [view EXCEPT ![n] = v]
  /\ credential' = [credential EXCEPT ![n] = TRUE]
  /\ UNCHANGED <<drain, removal>>

RevokeCredentials(n) ==
  /\ credential' = [credential EXCEPT ![n] = FALSE]
  /\ UNCHANGED <<view, drain, removal>>

DrainStart(n) ==
  /\ drain[n] = "idle"
  /\ view[n] \in {"open", "closed"}
  /\ drain' = [drain EXCEPT ![n] = "cordon"]
  /\ UNCHANGED <<view, credential, removal>>

DrainCordon(n) ==
  /\ drain[n] = "cordon"
  /\ view[n] # "removed"
  /\ view' = [view EXCEPT ![n] = IF @ = "open" THEN "closed" ELSE @]
  /\ drain' = [drain EXCEPT ![n] = "cancel"]
  /\ UNCHANGED <<credential, removal>>

\* The statement that withdraws the queued tasks of the node.
DrainCancel(n) ==
  /\ drain[n] = "cancel"
  /\ drain' = [drain EXCEPT ![n] = "finish"]
  /\ UNCHANGED <<view, credential, removal>>

DrainFinish(n) ==
  /\ drain[n] = "finish"
  /\ view[n] \in {"open", "closed"}
  /\ view' = [view EXCEPT ![n] = "drained"]
  /\ drain' = [drain EXCEPT ![n] = "idle"]
  /\ UNCHANGED <<credential, removal>>

\* A refused or conflicting statement ends the call where it is.
DrainFail(n) ==
  /\ drain[n] # "idle"
  /\ drain' = [drain EXCEPT ![n] = "idle"]
  /\ UNCHANGED <<view, credential, removal>>

RemoveStart(n) ==
  /\ removal[n] = "idle"
  /\ view[n] # "removed"
  /\ removal' = [removal EXCEPT ![n] = "revoke"]
  /\ UNCHANGED <<view, credential, drain>>

RemoveRevoke(n) ==
  /\ removal[n] = "revoke"
  /\ credential' = [credential EXCEPT ![n] = FALSE]
  /\ removal' = [removal EXCEPT ![n] = "cancel"]
  /\ UNCHANGED <<view, drain>>

RemoveCancel(n) ==
  /\ removal[n] = "cancel"
  /\ removal' = [removal EXCEPT ![n] = "finish"]
  /\ UNCHANGED <<view, credential, drain>>

RemoveFinish(n) ==
  /\ removal[n] = "finish"
  /\ view[n] # "removed"
  /\ view' = [view EXCEPT ![n] = "removed"]
  /\ removal' = [removal EXCEPT ![n] = "idle"]
  /\ UNCHANGED <<credential, drain>>

RemoveFail(n) ==
  /\ removal[n] # "idle"
  /\ removal' = [removal EXCEPT ![n] = "idle"]
  /\ UNCHANGED <<view, credential, drain>>

\* The steps of a view that leave the task table alone.
ViewOnlyStep(n) ==
  \/ \E v \in {"open", "closed", "drained"} : Reclassify(n, v)
  \/ Rejoin(n)
  \/ RevokeCredentials(n)
  \/ DrainStart(n) \/ DrainCordon(n) \/ DrainFinish(n) \/ DrainFail(n)
  \/ RemoveStart(n) \/ RemoveRevoke(n) \/ RemoveFinish(n) \/ RemoveFail(n)

ViewNext ==
  \E n \in Nodes : ViewOnlyStep(n) \/ DrainCancel(n) \/ RemoveCancel(n)

ViewSpec == ViewInit /\ [][ViewNext]_viewVars
===============================================================================
