------------------------------- MODULE MCCharges -------------------------------
(* Charges with interchangeable callers, deliveries and providers.           *)
EXTENDS Charges, TLC

Interchangeable ==
  Permutations(Callers) \cup Permutations(Deliveries) \cup Permutations(Providers)
===============================================================================
