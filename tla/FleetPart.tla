------------------------------ MODULE FleetPart ------------------------------
(***************************************************************************)
(* The registry of nodes as a part of larger modules: under names that the *)
(* view of it in NodeTasks does not use.                                   *)
(***************************************************************************)
CONSTANTS Fleet, Contacts

VARIABLES node, access, token, contact, draining, removing, sweep

fleetVars == <<node, access, token, contact, draining, removing, sweep>>

R == INSTANCE NodeRegistry WITH
  Nodes <- Fleet, credential <- access, drain <- draining, removal <- removing

\* Every step of the registry is a step of the view the task queue builds on,
\* or no step at all: removal is final whatever contact, sweep, drain or rejoin
\* was under way, and a drain cordons, cancels and finishes in that order.
ImplementsView == R!View!ViewInit /\ [][R!ViewStep]_fleetVars

\* The sweep never touches a drained or removed node, even when it listed the
\* node before the drain or the removal.
SweepSparesWithdrawn == R!SweepSparesWithdrawn
==============================================================================
