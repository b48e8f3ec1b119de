----------------------------- MODULE MCNodeTasks -----------------------------
(* Symmetry of the requests, which are interchangeable, for safety runs.    *)
EXTENDS NodeTasks, TLC

ReqSymmetry == Permutations(Reqs)
==============================================================================
