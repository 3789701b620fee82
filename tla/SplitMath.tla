----------------------------- MODULE SplitMath -----------------------------
(***************************************************************************)
(* split_gross and the fee caps: how a gross amount becomes a merchant, a  *)
(* treasury and an IP-creator leg.  The product is taken in u128, where    *)
(* u64 * u16 always fits; the quotient is cut back to u64 with `as u64`.   *)
(***************************************************************************)
EXTENDS Integers, Verdict

CONSTANTS
  BPS_DENOMINATOR,     \* 10_000
  MAX_TREASURY_BPS,    \* 500
  MAX_IP_CREATOR_BPS,  \* 100
  MAX_AGGREGATE_BPS,   \* 1_000
  U64_SIZE             \* 2^64, the number of values of a u64

ASSUME SplitAssumption ==
  /\ BPS_DENOMINATOR \in Nat \ {0}
  /\ MAX_TREASURY_BPS \in Nat
  /\ MAX_IP_CREATOR_BPS \in Nat
  /\ MAX_AGGREGATE_BPS \in Nat
  /\ MAX_AGGREGATE_BPS < BPS_DENOMINATOR
  /\ U64_SIZE \in Nat \ {0}

U64 == 0 .. U64_SIZE - 1

(* The checks initialize and configure_route make before storing fees. *)
CapsVerdict(treasury_bps, ip_creator_bps) ==
     Check(treasury_bps <= MAX_TREASURY_BPS, "TreasuryFeeTooHigh")
  ?? Check(ip_creator_bps <= MAX_IP_CREATOR_BPS, "IPCreatorFeeTooHigh")
  ?? Check(treasury_bps + ip_creator_bps <= MAX_AGGREGATE_BPS, "AggregateFeeTooHigh")

(* Mutant: the product taken in u64, where it wraps around. *)
Fee_WrappingProduct(gross, bps) == ((gross * bps) % U64_SIZE) \div BPS_DENOMINATOR

Fee(gross, bps) == ((gross * bps) \div BPS_DENOMINATOR) % U64_SIZE

TreasuryLeg(gross, profile) ==
  IF profile.treasury_bps > 0 THEN Fee(gross, profile.treasury_bps) ELSE 0

IPLeg(gross, profile) ==
  IF profile.ip_creator_bps > 0 THEN Fee(gross, profile.ip_creator_bps) ELSE 0

MerchantLeg(gross, profile) ==
  gross - TreasuryLeg(gross, profile) - IPLeg(gross, profile)

(* Mutant: a fee may round down to zero. *)
SplitVerdict_AllowsZeroFee(gross, profile, has_ip_creator) ==
     Check(gross > 0, "ZeroAmount")
  ?? Check(profile.ip_creator_bps > 0 => has_ip_creator, "MissingIPCreator")
  ?? Check(MerchantLeg(gross, profile) >= 0, "FeeExceedsGross")
  ?? Check(MerchantLeg(gross, profile) > 0, "ZeroAmount")

(* Mutant: the subtractions are not checked. *)
SplitVerdict_UncheckedSub(gross, profile, has_ip_creator) ==
     Check(gross > 0, "ZeroAmount")
  ?? Check(profile.treasury_bps > 0 => TreasuryLeg(gross, profile) > 0,
           "PaymentTooSmallForTreasury")
  ?? Check(profile.ip_creator_bps > 0 => has_ip_creator, "MissingIPCreator")
  ?? Check(profile.ip_creator_bps > 0 => IPLeg(gross, profile) > 0,
           "PaymentTooSmallForRoyalty")

(* The error split_gross returns, Ok when it returns amounts. *)
SplitVerdict(gross, profile, has_ip_creator) ==
     Check(gross > 0, "ZeroAmount")
  ?? Check(profile.treasury_bps > 0 => TreasuryLeg(gross, profile) > 0,
           "PaymentTooSmallForTreasury")
  ?? Check(profile.ip_creator_bps > 0 => has_ip_creator, "MissingIPCreator")
  ?? Check(profile.ip_creator_bps > 0 => IPLeg(gross, profile) > 0,
           "PaymentTooSmallForRoyalty")
  ?? Check(MerchantLeg(gross, profile) >= 0, "FeeExceedsGross")
  ?? Check(MerchantLeg(gross, profile) > 0, "ZeroAmount")

Split(gross, profile) ==
  [merchant |-> MerchantLeg(gross, profile),
   treasury |-> TreasuryLeg(gross, profile),
   ip_creator |-> IPLeg(gross, profile)]
=============================================================================
