------------------------------ MODULE Verdict ------------------------------
(***************************************************************************)
(* How a handler fails: require! conditions evaluated in order, the first  *)
(* one that does not hold giving the error code of the instruction.        *)
(***************************************************************************)
Ok == "Ok"

(* require!(cond, error) *)
Check(cond, error) == IF cond THEN Ok ELSE error

(* Rust's `?`: the first error ends the handler. *)
verdict ?? rest == IF verdict = Ok THEN rest ELSE verdict
=============================================================================
