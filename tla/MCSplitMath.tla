---------------------------- MODULE MCSplitMath ----------------------------
(***************************************************************************)
(* split_gross evaluated on every input of a scaled-down word: all gross   *)
(* amounts of a U64_SIZE-valued integer, all rates up to MaxBps, which     *)
(* lies beyond 100%, with and without an IP creator.                       *)
(***************************************************************************)
EXTENDS SplitMath, Calls

CONSTANT MaxBps  \* bound: the largest rate tried

ASSUME MaxBpsAssumption == MaxBps \in Nat

SplitCalls ==
  [gross : U64, has_ip_creator : BOOLEAN,
   profile : [treasury_bps : 0 .. MaxBps, ip_creator_bps : 0 .. MaxBps]]

Pending == [verdict |-> "Pending"]

SplitInit == call \in SplitCalls /\ result = Pending

Return ==
  /\ result = Pending
  /\ result' =
       LET verdict == SplitVerdict(call.gross, call.profile, call.has_ip_creator)
       IN  IF verdict = Ok
           THEN [verdict |-> Ok, legs |-> Split(call.gross, call.profile)]
           ELSE [verdict |-> verdict]
  /\ UNCHANGED call

SplitSpec == SplitInit /\ [][Return]_vars

-----------------------------------------------------------------------------
WithinCaps ==
  CapsVerdict(call.profile.treasury_bps, call.profile.ip_creator_bps) = Ok

(* The fee that bps basis points of gross ought to be: the largest whole   *)
(* amount that does not exceed the exact rational share.                   *)
ExactFee(gross, bps) ==
  CHOOSE fee \in 0 .. gross :
    /\ fee * BPS_DENOMINATOR <= gross * bps
    /\ (fee + 1) * BPS_DENOMINATOR > gross * bps

(* Once a profile has passed the caps, the amounts split_gross returns are *)
(* the floors of the exact shares, they add up to the gross amount, and    *)
(* the merchant gets something: rounding and the `as u64` cut lose nothing. *)
SplitIsExact ==
  result.verdict = Ok /\ WithinCaps =>
    LET legs == result.legs
    IN  /\ legs.treasury = ExactFee(call.gross, call.profile.treasury_bps)
        /\ legs.ip_creator = ExactFee(call.gross, call.profile.ip_creator_bps)
        /\ legs.merchant + legs.treasury + legs.ip_creator = call.gross
        /\ legs.merchant > 0

(* Under the caps a split is refused for exactly three reasons: nothing to *)
(* pay, a fee that rounds down to zero, or a royalty with nobody to take   *)
(* it.  FeeExceedsGross and an empty merchant leg cannot happen.           *)
RefusalsAreExactlyThese ==
  result # Pending /\ WithinCaps =>
    (result.verdict = Ok <=>
       /\ call.gross > 0
       /\ \A bps \in {call.profile.treasury_bps, call.profile.ip_creator_bps} :
            bps > 0 => call.gross * bps >= BPS_DENOMINATOR
       /\ call.profile.ip_creator_bps > 0 => call.has_ip_creator)

(* Whatever the rates, even rates no route can hold, no leg is negative    *)
(* or larger than the gross amount, so no transfer moves more than was     *)
(* quoted.                                                                 *)
LegsStayWithinGross ==
  result.verdict = Ok =>
    \A leg \in {result.legs.merchant, result.legs.treasury, result.legs.ip_creator} :
      leg \in 0 .. call.gross
=============================================================================
