--------------------------------- MODULE Parts ---------------------------------
(***************************************************************************)
(* The components that a tenant meets share no state.  They are explored   *)
(* one at a time: part names the one that runs, and the variables of the   *)
(* others are "-".                                                         *)
(***************************************************************************)
CONSTANTS Workers, MaxNow

VARIABLE part
================================================================================
