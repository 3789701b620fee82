------------------------------- MODULE Calls -------------------------------
(***************************************************************************)
(* A pure function under a check: one call, picked at the start, and what  *)
(* the function returns.                                                   *)
(***************************************************************************)
VARIABLES call, result

vars == <<call, result>>
=============================================================================
