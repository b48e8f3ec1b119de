---------------------------- MODULE MCSubscriptions ----------------------------
(* Subscriptions with one retry of a failed charge, a day after its date, and *)
(* the nodes that renew interchangeable.                                      *)
EXTENDS Subscriptions, TLC

MCRetrySchedule == <<1>>

Interchangeable == Permutations(Renewers)
===============================================================================
