----------------------------- MODULE NodeRegistry -----------------------------
(***************************************************************************)
(* The fleet registry of src/nodes: the lifecycle state machine of a node, *)
(* its scheduling flags, contacts, the liveness sweep, drain and removal.  *)
(*                                                                         *)
(* A row that is read and then written with UpdateVersioned is one atomic  *)
(* step: when another writer came in between, the write affects no row and *)
(* the handler returns an error.  Handlers that write several times are    *)
(* split at every write and may stop after any of them.  Timestamps are    *)
(* replaced by what the code asks of them: how long a node has been silent *)
(* compared with DegradedAfter and OfflineAfter.                           *)
(***************************************************************************)
CONSTANTS
  Nodes,     \* node identifiers
  Contacts   \* contact requests that can be in progress at once

VARIABLES
  node,      \* node_registry row: state, cordoned, maintenance, silence
  credential,\* the node has a credential that is not revoked
  token,     \* a live enrollment token is bound to the node
  contact,   \* RecordContact calls, each with the Identity it authenticated
  drain,     \* progress of Service.Drain, per node
  removal,   \* progress of Service.Remove, per node
  sweep      \* where a running SweepLiveness still wants to move a node

vars == <<node, credential, token, contact, drain, removal, sweep>>

NodeStates == {"pending", "enrolled", "online", "degraded", "offline",
               "drained", "removed"}

\* Mutant: the sweep may also move a drained node.
SweepableDrained ==
  [pending  |-> {"enrolled", "removed"},
   enrolled |-> {"online", "degraded", "offline", "drained", "enrolled", "removed"},
   online   |-> {"degraded", "offline", "drained", "enrolled", "removed"},
   degraded |-> {"online", "offline", "drained", "enrolled", "removed"},
   offline  |-> {"online", "degraded", "drained", "enrolled", "removed"},
   drained  |-> {"enrolled", "online", "offline", "removed"},
   removed  |-> {}]

allowedTransitions ==
  [pending  |-> {"enrolled", "removed"},
   enrolled |-> {"online", "degraded", "offline", "drained", "enrolled", "removed"},
   online   |-> {"degraded", "offline", "drained", "enrolled", "removed"},
   degraded |-> {"online", "offline", "drained", "enrolled", "removed"},
   offline  |-> {"online", "degraded", "drained", "enrolled", "removed"},
   drained  |-> {"enrolled", "online", "removed"},
   removed  |-> {}]

CanTransition(from, to) == to \in allowedTransitions[from]

Schedulable(n) ==
  /\ ~node[n].cordoned
  /\ ~node[n].maintenance
  /\ node[n].state \in {"enrolled", "online", "degraded"}

NoContact == [pc |-> "idle"]

Init ==
  /\ node = [n \in Nodes |-> [state |-> "enrolled", cordoned |-> FALSE,
                              maintenance |-> FALSE, silence |-> "fresh"]]
  /\ credential = [n \in Nodes |-> TRUE]
  /\ token = [n \in Nodes |-> FALSE]
  /\ contact = [c \in Contacts |-> NoContact]
  /\ drain = [n \in Nodes |-> "idle"]
  /\ removal = [n \in Nodes |-> "idle"]
  /\ sweep = [n \in Nodes |-> "none"]

-----------------------------------------------------------------------------
(* Contacts.                                                                *)

\* Authenticate: the Identity handed to RecordContact carries the row it read.
Authenticate(c, n) ==
  /\ contact[c].pc = "idle"
  /\ credential[n]
  /\ node[n].state # "removed"
  /\ contact' = [contact EXCEPT ![c] = [pc |-> "seen", node |-> n,
                   state |-> node[n].state, maintenance |-> node[n].maintenance]]
  /\ UNCHANGED <<node, credential, drain, removal, sweep, token>>

\* First statement of RecordContact, and the early returns that follow it.
ContactSeen(c) ==
  /\ contact[c].pc = "seen"
  /\ node' = [node EXCEPT ![contact[c].node].silence = "fresh"]
  /\ contact' = [contact EXCEPT ![c] =
       IF \/ @.maintenance
          \/ @.state \in {"drained", "online"}
          \/ ~CanTransition(@.state, "online")
         THEN NoContact ELSE [@ EXCEPT !.pc = "online"]]
  /\ UNCHANGED <<credential, drain, removal, sweep, token>>

\* Last statement of RecordContact: transition() decides on a fresh read.
ContactOnline(c) ==
  LET n == contact[c].node IN
  /\ contact[c].pc = "online"
  /\ node' = IF CanTransition(node[n].state, "online")
               THEN [node EXCEPT ![n].state = "online"] ELSE node
  /\ contact' = [contact EXCEPT ![c] = NoContact]
  /\ UNCHANGED <<credential, drain, removal, sweep, token>>

\* A failing or conflicting statement: the rest of the call is not run.
ContactFail(c) ==
  /\ contact[c].pc # "idle"
  /\ contact' = [contact EXCEPT ![c] = NoContact]
  /\ UNCHANGED <<node, credential, drain, removal, sweep, token>>

-----------------------------------------------------------------------------
(* Operator calls.                                                          *)

\* Cordon, Uncordon and SetMaintenance, through setFlags.
setFlags(n, cordoned, maintenance) ==
  /\ node[n].state # "removed"
  /\ cordoned = node[n].cordoned \/ maintenance = node[n].maintenance
  /\ node' = [node EXCEPT ![n].cordoned = cordoned, ![n].maintenance = maintenance]
  /\ UNCHANGED <<credential, contact, drain, removal, sweep, token>>

\* Transition: any move of the table but removal.
Transition(n, to) ==
  /\ to # "removed"
  /\ CanTransition(node[n].state, to)
  /\ node' = [node EXCEPT ![n].state = to]
  /\ UNCHANGED <<credential, contact, drain, removal, sweep, token>>

Rekey(n) ==
  /\ node[n].state # "removed"
  /\ token' = [token EXCEPT ![n] = TRUE]
  /\ UNCHANGED <<node, credential, contact, drain, removal, sweep>>

\* Mutant: a rejoin that does not consult the transition table.
RejoinUnchecked(n) ==
  /\ token[n]
  /\ token' = [token EXCEPT ![n] = FALSE]
  /\ node' = [node EXCEPT ![n].state = "enrolled", ![n].silence = "fresh"]
  /\ credential' = [credential EXCEPT ![n] = TRUE]
  /\ UNCHANGED <<contact, drain, removal, sweep>>

\* Enroll with the single-use token Rekey bound to the node.
Rejoin(n) ==
  /\ token[n]
  /\ CanTransition(node[n].state, "enrolled")
  /\ token' = [token EXCEPT ![n] = FALSE]
  /\ node' = [node EXCEPT ![n].state = "enrolled", ![n].silence = "fresh"]
  /\ credential' = [credential EXCEPT ![n] = TRUE]
  /\ UNCHANGED <<contact, drain, removal, sweep>>

RevokeCredentials(n) ==
  /\ credential' = [credential EXCEPT ![n] = FALSE]
  /\ UNCHANGED <<node, contact, drain, removal, sweep, token>>

DrainStart(n) ==
  /\ drain[n] = "idle"
  /\ CanTransition(node[n].state, "drained")
  /\ drain' = [drain EXCEPT ![n] = "cordon"]
  /\ UNCHANGED <<node, credential, contact, removal, sweep, token>>

DrainCordon(n) ==
  /\ drain[n] = "cordon"
  /\ node[n].state # "removed"
  /\ node' = [node EXCEPT ![n].cordoned = TRUE]
  /\ drain' = [drain EXCEPT ![n] = "cancel"]
  /\ UNCHANGED <<credential, contact, removal, sweep, token>>

\* cancelQueued: its effect on the task table is in NodeTasks.
DrainCancel(n) ==
  /\ drain[n] = "cancel"
  /\ drain' = [drain EXCEPT ![n] = "finish"]
  /\ UNCHANGED <<node, credential, contact, removal, sweep, token>>

DrainFinish(n) ==
  /\ drain[n] = "finish"
  /\ CanTransition(node[n].state, "drained")
  /\ node' = [node EXCEPT ![n].state = "drained"]
  /\ drain' = [drain EXCEPT ![n] = "idle"]
  /\ UNCHANGED <<credential, contact, removal, sweep, token>>

\* A refused or conflicting statement ends the call where it is.
DrainFail(n) ==
  /\ drain[n] # "idle"
  /\ drain' = [drain EXCEPT ![n] = "idle"]
  /\ UNCHANGED <<node, credential, contact, removal, sweep, token>>

RemoveStart(n) ==
  /\ removal[n] = "idle"
  /\ CanTransition(node[n].state, "removed")
  /\ removal' = [removal EXCEPT ![n] = "revoke"]
  /\ UNCHANGED <<node, credential, contact, drain, sweep, token>>

RemoveRevoke(n) ==
  /\ removal[n] = "revoke"
  /\ credential' = [credential EXCEPT ![n] = FALSE]
  /\ token' = [token EXCEPT ![n] = FALSE]
  /\ removal' = [removal EXCEPT ![n] = "cancel"]
  /\ UNCHANGED <<node, contact, drain, sweep>>

RemoveCancel(n) ==
  /\ removal[n] = "cancel"
  /\ removal' = [removal EXCEPT ![n] = "finish"]
  /\ UNCHANGED <<node, credential, contact, drain, sweep, token>>

RemoveFinish(n) ==
  /\ removal[n] = "finish"
  /\ CanTransition(node[n].state, "removed")
  /\ node' = [node EXCEPT ![n].state = "removed"]
  /\ removal' = [removal EXCEPT ![n] = "idle"]
  /\ UNCHANGED <<credential, contact, drain, sweep, token>>

RemoveFail(n) ==
  /\ removal[n] # "idle"
  /\ removal' = [removal EXCEPT ![n] = "idle"]
  /\ UNCHANGED <<node, credential, contact, drain, sweep, token>>

-----------------------------------------------------------------------------
(* SweepLiveness: List() first, then one transition per stale node; the    *)
(* first refused transition ends the pass.                                 *)

\* Mutant: the sweep forgets to skip the nodes heard from recently.
SweepWantFresh(n) ==
  IF \/ node[n].maintenance
     \/ node[n].state \notin {"online", "degraded", "enrolled"}
     \/ node[n].silence = node[n].state
    THEN "none" ELSE node[n].silence

SweepWant(n) ==
  IF \/ node[n].maintenance
     \/ node[n].state \notin {"online", "degraded", "enrolled"}
     \/ node[n].silence \in {"fresh", node[n].state}
    THEN "none" ELSE node[n].silence

SweepList ==
  /\ \A n \in Nodes : sweep[n] = "none"
  /\ sweep' = [n \in Nodes |-> SweepWant(n)]
  /\ UNCHANGED <<node, credential, contact, drain, removal, token>>

SweepApply(n) ==
  /\ sweep[n] # "none"
  /\ IF CanTransition(node[n].state, sweep[n])
       THEN /\ node' = [node EXCEPT ![n].state = sweep[n]]
            /\ sweep' = [sweep EXCEPT ![n] = "none"]
       ELSE /\ sweep' = [m \in Nodes |-> "none"]
            /\ UNCHANGED node
  /\ UNCHANGED <<credential, contact, drain, removal, token>>

\* The passage of time since last_seen.
Silence(n) ==
  /\ node[n].silence # "offline"
  /\ node' = [node EXCEPT ![n].silence = IF @ = "fresh" THEN "degraded" ELSE "offline"]
  /\ UNCHANGED <<credential, contact, drain, removal, sweep, token>>

-----------------------------------------------------------------------------
Contacting(c) ==
  \/ \E n \in Nodes : Authenticate(c, n)
  \/ ContactSeen(c)
  \/ ContactOnline(c)
  \/ ContactFail(c)

Operating(n) ==
  \/ \E c, m \in BOOLEAN : setFlags(n, c, m)
  \/ \E to \in NodeStates : Transition(n, to)
  \/ Rekey(n)
  \/ Rejoin(n)
  \/ RevokeCredentials(n)
  \/ DrainStart(n)
  \/ DrainCordon(n)
  \/ DrainCancel(n)
  \/ DrainFinish(n)
  \/ DrainFail(n)
  \/ RemoveStart(n)
  \/ RemoveRevoke(n)
  \/ RemoveCancel(n)
  \/ RemoveFinish(n)
  \/ RemoveFail(n)

Next ==
  \/ \E c \in Contacts : Contacting(c)
  \/ \E n \in Nodes : Operating(n)
  \/ SweepList
  \/ \E n \in Nodes : SweepApply(n)
  \/ \E n \in Nodes : Silence(n)

Spec == Init /\ [][Next]_vars

-----------------------------------------------------------------------------
(* Properties.                                                              *)

\* Type correctness of the registry rows and of the calls in progress.
TypeOK ==
  /\ node \in [Nodes -> [state : NodeStates, cordoned : BOOLEAN,
                         maintenance : BOOLEAN,
                         silence : {"fresh", "degraded", "offline"}]]
  /\ credential \in [Nodes -> BOOLEAN]
  /\ token \in [Nodes -> BOOLEAN]
  /\ contact \in [Contacts -> {NoContact} \cup
                    [pc : {"seen", "online"}, node : Nodes, state : NodeStates,
                     maintenance : BOOLEAN]]
  /\ drain \in [Nodes -> {"idle", "cordon", "cancel", "finish"}]
  /\ removal \in [Nodes -> {"idle", "revoke", "cancel", "finish"}]
  /\ sweep \in [Nodes -> {"none", "degraded", "offline"}]

\* What the task queue sees of a node.
ViewOf(n) ==
  CASE node[n].state \in {"drained", "removed"} -> node[n].state
    [] Schedulable(n) -> "open"
    [] OTHER -> "closed"

View == INSTANCE NodeView WITH view <- [n \in Nodes |-> ViewOf(n)]

\* The registry implements the view of it that the task queue is built on:
\* removal is final whatever contact, sweep, drain or rejoin was under way,
\* a node is removed only by the last statement of Remove, and a drain that
\* cordons, cancels and finishes does so in that order.
ImplementsView == View!ViewSpec

\* A step of the registry, seen through the view.
ViewStep == View!ViewNext \/ UNCHANGED View!viewVars

\* The sweep never touches a drained or removed node, even when it listed the
\* node before the drain or the removal (SweepLiveness).
SweepSparesWithdrawn ==
  [][\A n \in Nodes : SweepApply(n) /\ node[n].state \in {"drained", "removed"}
                        => node'[n].state = node[n].state]_vars

\* RecordContact brings a node online "unless the node is in maintenance or
\* drained": the contact of a drained node leaves it drained.
ContactKeepsDrained ==
  [][\A c \in Contacts : ContactOnline(c) =>
        \A n \in Nodes : node[n].state = "drained" => node'[n].state = "drained"]_vars

\* SetMaintenance: a node in maintenance has "its liveness transitions ...
\* suppressed, so a planned reboot does not raise a false alarm".
MaintenanceSuppressesSweep ==
  [][\A n \in Nodes : SweepApply(n) /\ node[n].maintenance
                        => node'[n].state = node[n].state]_vars

\* StateRemoved: the record is retained "and its credentials are revoked".
RemovedIsRevoked ==
  \A n \in Nodes : node[n].state = "removed" => ~credential[n]
===============================================================================
