----------------------------- MODULE MCDocuments -----------------------------
EXTENDS Documents, TLC

\* The calls differ in nothing but their names.
Interchangeable == Permutations(Calls)
==============================================================================
