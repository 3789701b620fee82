-------------------------- MODULE SplitMathProofs --------------------------
(***************************************************************************)
(* What split_gross returns for every amount, every pair of rates and      *)
(* every width of the integers.                                            *)
(***************************************************************************)
EXTENDS SplitMath, BasicLemmas

(* A rate of at most 100% takes the floor of the exact share: the quotient *)
(* is at most gross, so cutting it back to u64 changes nothing.            *)
LEMMA FeeIsFloor ==
  ASSUME NEW gross \in U64, NEW bps \in 0 .. BPS_DENOMINATOR
  PROVE  /\ Fee(gross, bps) \in 0 .. gross
         /\ Fee(gross, bps) * BPS_DENOMINATOR <= gross * bps
         /\ gross * bps < (Fee(gross, bps) + 1) * BPS_DENOMINATOR
<1> DEFINE share == gross * bps
           fee == share \div BPS_DENOMINATOR
<1>1. gross \in Nat /\ gross < U64_SIZE /\ bps \in Nat /\ U64_SIZE \in Nat \ {0}
      /\ BPS_DENOMINATOR \in Nat \ {0}
  BY SplitAssumption DEF U64
<1>2. share \in Nat /\ share <= gross * BPS_DENOMINATOR
  BY <1>1
<1>3. fee \in Nat /\ fee * BPS_DENOMINATOR <= share /\ share < (fee + 1) * BPS_DENOMINATOR
  <2> HIDE DEF share
  <2> QED BY <1>1, <1>2, Quotient
<1>4. fee <= gross
  <2> SUFFICES ASSUME gross + 1 <= fee PROVE FALSE
    BY <1>1, <1>3
  <2> HIDE DEF fee, share
  <2>1. (gross + 1) * BPS_DENOMINATOR <= fee * BPS_DENOMINATOR
    BY <1>1, <1>3, ProductMonotone
  <2> QED BY <2>1, <1>1, <1>2, <1>3
<1>5. Fee(gross, bps) = fee
  <2>1. Fee(gross, bps) = fee % U64_SIZE
    BY DEF Fee
  <2> HIDE DEF fee
  <2> QED BY <2>1, <1>1, <1>3, <1>4
<1> QED BY <1>1, <1>3, <1>4, <1>5

(* The only number with the property of a floor is the floor.              *)
LEMMA FloorIsUnique ==
  ASSUME NEW n \in Nat, NEW d \in Nat \ {0}, NEW q \in Nat, NEW r \in Nat,
         q * d <= n, n < (q + 1) * d, r * d <= n, n < (r + 1) * d
  PROVE  q = r
<1>1. ASSUME NEW x \in Nat, NEW y \in Nat, x < y, x * d <= n, n < (x + 1) * d,
             y * d <= n
      PROVE FALSE
  <2>1. (x + 1) * d <= y * d
    BY <1>1, ProductMonotone
  <2> QED BY <2>1, <1>1
<1> QED BY <1>1

-----------------------------------------------------------------------------
(* Rates that have passed the caps, and the call that uses them. *)
LEMMA CapsBound ==
  ASSUME NEW t \in Nat, NEW i \in Nat, CapsVerdict(t, i) = Ok
  PROVE  /\ t + i < BPS_DENOMINATOR
         /\ t \in 0 .. BPS_DENOMINATOR /\ i \in 0 .. BPS_DENOMINATOR
<1>1. t + i <= MAX_AGGREGATE_BPS
  BY BothSucceed DEF CapsVerdict, Check, Ok
<1> QED BY <1>1, SplitAssumption

HasRates(profile) == profile.treasury_bps \in Nat /\ profile.ip_creator_bps \in Nat

(* A leg is the fee of its rate; a rate of zero has a fee of zero.         *)
LEMMA LegIsFee ==
  ASSUME NEW gross \in U64, NEW profile, HasRates(profile)
  PROVE  /\ TreasuryLeg(gross, profile) = Fee(gross, profile.treasury_bps)
         /\ IPLeg(gross, profile) = Fee(gross, profile.ip_creator_bps)
<1>1. BPS_DENOMINATOR \in Nat \ {0} /\ U64_SIZE \in Nat \ {0} /\ gross \in Nat
  BY SplitAssumption DEF U64
<1>2. Fee(gross, 0) = 0
  BY <1>1 DEF Fee
<1> QED BY <1>2 DEF TreasuryLeg, IPLeg, HasRates

(* Under the caps the two fees together leave the merchant something, so   *)
(* checked_sub never fails and a payment never settles with an empty leg.  *)
LEMMA MerchantKeepsSome ==
  ASSUME NEW gross \in U64, NEW profile, HasRates(profile),
         CapsVerdict(profile.treasury_bps, profile.ip_creator_bps) = Ok,
         gross > 0
  PROVE  /\ TreasuryLeg(gross, profile) \in Nat /\ IPLeg(gross, profile) \in Nat
         /\ MerchantLeg(gross, profile) \in 1 .. gross
<1> DEFINE t == profile.treasury_bps
           i == profile.ip_creator_bps
           ft == Fee(gross, t)
           fi == Fee(gross, i)
<1>1. t \in Nat /\ i \in Nat /\ gross \in Nat /\ BPS_DENOMINATOR \in Nat \ {0}
  BY SplitAssumption DEF HasRates, U64
<1>2. t + i < BPS_DENOMINATOR /\ t \in 0 .. BPS_DENOMINATOR /\ i \in 0 .. BPS_DENOMINATOR
  BY <1>1, CapsBound
<1>3. ft \in Nat /\ fi \in Nat /\ ft * BPS_DENOMINATOR <= gross * t
      /\ fi * BPS_DENOMINATOR <= gross * i
  <2>1. ft \in 0 .. gross /\ fi \in 0 .. gross
        /\ ft * BPS_DENOMINATOR <= gross * t /\ fi * BPS_DENOMINATOR <= gross * i
    BY <1>2, FeeIsFloor
  <2> QED BY <2>1, <1>1
<1>4. ft + fi < gross
  <2> SUFFICES ASSUME gross <= ft + fi PROVE FALSE
    BY <1>1, <1>3
  <2> HIDE DEF ft, fi, t, i
  <2>1. gross * BPS_DENOMINATOR <= (ft + fi) * BPS_DENOMINATOR
    BY <1>1, <1>3, ProductMonotone
  <2>2. (t + i + 1) * gross <= BPS_DENOMINATOR * gross
    BY <1>1, <1>2, ProductMonotone
  <2> QED BY <2>1, <2>2, <1>1, <1>3
<1>5. TreasuryLeg(gross, profile) = ft /\ IPLeg(gross, profile) = fi
  BY LegIsFee
<1> QED BY <1>1, <1>3, <1>4, <1>5 DEF MerchantLeg

(* A fee is positive exactly from the smallest amount whose share is one.  *)
LEMMA FeePositive ==
  ASSUME NEW gross \in U64, NEW bps \in 0 .. BPS_DENOMINATOR
  PROVE  Fee(gross, bps) > 0 <=> gross * bps >= BPS_DENOMINATOR
<1>1. gross \in Nat /\ bps \in Nat /\ BPS_DENOMINATOR \in Nat \ {0}
      /\ gross * bps \in Nat
  BY SplitAssumption DEF U64
<1>2. Fee(gross, bps) \in Nat /\ Fee(gross, bps) * BPS_DENOMINATOR <= gross * bps
      /\ gross * bps < (Fee(gross, bps) + 1) * BPS_DENOMINATOR
  BY <1>1, FeeIsFloor
<1>3. CASE Fee(gross, bps) = 0
  BY <1>1, <1>2, <1>3
<1>4. CASE Fee(gross, bps) > 0
  <2>1. 1 * BPS_DENOMINATOR <= Fee(gross, bps) * BPS_DENOMINATOR
    BY <1>1, <1>2, <1>4, ProductMonotone
  <2> QED BY <2>1, <1>1, <1>2, <1>4
<1> QED BY <1>2, <1>3, <1>4

(* Every step of split_gross that can refuse, read off its verdict.        *)
LEMMA SplitSucceeds ==
  ASSUME NEW gross \in U64, NEW profile, HasRates(profile), NEW has_ip_creator \in BOOLEAN
  PROVE  SplitVerdict(gross, profile, has_ip_creator) = Ok <=>
           /\ gross > 0
           /\ profile.treasury_bps > 0 => TreasuryLeg(gross, profile) > 0
           /\ profile.ip_creator_bps > 0 => has_ip_creator
           /\ profile.ip_creator_bps > 0 => IPLeg(gross, profile) > 0
           /\ MerchantLeg(gross, profile) >= 0
           /\ MerchantLeg(gross, profile) > 0
  BY BothSucceed DEF SplitVerdict, Check, Ok

(* The caps bound what each fee takes of the gross amount.                 *)
LEMMA LegsWithinCaps ==
  ASSUME NEW gross \in U64, NEW profile, HasRates(profile),
         CapsVerdict(profile.treasury_bps, profile.ip_creator_bps) = Ok, gross > 0
  PROVE  /\ Split(gross, profile) \in [merchant : Nat, treasury : Nat, ip_creator : Nat]
         /\ Split(gross, profile).merchant + Split(gross, profile).treasury
              + Split(gross, profile).ip_creator = gross
         /\ Split(gross, profile).treasury * BPS_DENOMINATOR <= gross * MAX_TREASURY_BPS
         /\ Split(gross, profile).ip_creator * BPS_DENOMINATOR <= gross * MAX_IP_CREATOR_BPS
<1> DEFINE t == profile.treasury_bps
           i == profile.ip_creator_bps
           ft == TreasuryLeg(gross, profile)
           fi == IPLeg(gross, profile)
<1>1. /\ t \in Nat /\ i \in Nat /\ gross \in Nat /\ BPS_DENOMINATOR \in Nat \ {0}
      /\ MAX_TREASURY_BPS \in Nat /\ MAX_IP_CREATOR_BPS \in Nat
  BY SplitAssumption DEF HasRates, U64
<1>2. t <= MAX_TREASURY_BPS /\ i <= MAX_IP_CREATOR_BPS
  BY BothSucceed DEF CapsVerdict, Check, Ok
<1>3. t \in 0 .. BPS_DENOMINATOR /\ i \in 0 .. BPS_DENOMINATOR
  BY <1>1, CapsBound
<1>4. ft * BPS_DENOMINATOR <= gross * t /\ fi * BPS_DENOMINATOR <= gross * i
  BY <1>3, LegIsFee, FeeIsFloor
<1>5. ft \in Nat /\ fi \in Nat /\ MerchantLeg(gross, profile) \in 1 .. gross
  BY MerchantKeepsSome
<1>6. MerchantLeg(gross, profile) = gross - ft - fi
  BY DEF MerchantLeg
<1> HIDE DEF t, i, ft, fi
<1>7. gross * t <= gross * MAX_TREASURY_BPS /\ gross * i <= gross * MAX_IP_CREATOR_BPS
  BY <1>1, <1>2, ProductMonotone
<1>8. ft * BPS_DENOMINATOR \in Nat /\ fi * BPS_DENOMINATOR \in Nat
      /\ gross * t \in Nat /\ gross * i \in Nat
      /\ gross * MAX_TREASURY_BPS \in Nat /\ gross * MAX_IP_CREATOR_BPS \in Nat
  BY <1>1, <1>5
<1>9. /\ ft * BPS_DENOMINATOR <= gross * MAX_TREASURY_BPS
      /\ fi * BPS_DENOMINATOR <= gross * MAX_IP_CREATOR_BPS
  BY <1>4, <1>7, <1>8
<1>10. Split(gross, profile) =
         [merchant |-> gross - ft - fi, treasury |-> ft, ip_creator |-> fi]
  BY <1>6 DEF Split, ft, fi
<1> QED BY <1>1, <1>5, <1>6, <1>9, <1>10
=============================================================================
