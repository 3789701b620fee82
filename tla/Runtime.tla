------------------------------ MODULE Runtime ------------------------------
(***************************************************************************)
(* What the splitter program takes from the Solana runtime and from        *)
(* Anchor: public keys, the clock sysvar and the way an instruction fails. *)
(*                                                                         *)
(* A transaction is atomic.  A handler that returns an error leaves every  *)
(* account as it was, so a failed instruction is no step of the model at   *)
(* all; its error code is the value of the handler's verdict operator, in  *)
(* the order in which the code evaluates its require! conditions.          *)
(***************************************************************************)
EXTENDS Integers, Sequences, FiniteSets, Verdict

CONSTANTS
  Pubkeys,    \* every address that plays a part
  DEFAULT,    \* Pubkey::default(), the all-zero key
  Callers,    \* the addresses that sign administrative instructions
  MAX_TIME    \* bound: the clock stops here

ASSUME RuntimeAssumption ==
  /\ DEFAULT \in Pubkeys
  /\ Callers \subseteq Pubkeys \ {DEFAULT}   \* nobody holds the zero key
  /\ MAX_TIME \in Nat

VARIABLE now   \* Clock::get()?.unix_timestamp

(* The cluster's clock never runs backwards. *)
Tick == now < MAX_TIME /\ now' = now + 1
=============================================================================
