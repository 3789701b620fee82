----------------------------- MODULE CallProofs -----------------------------
(***************************************************************************)
(* What the runs of MCSplitMath and MCQuoteCodec show of scaled-down words *)
(* and a small group, for every width, denominator, caps, base, key length *)
(* and prime: what split_gross returns and when it refuses; that the two   *)
(* encoders agree and their bytes can be read back; that what is signed    *)
(* verifies, once.                                                         *)
(***************************************************************************)
EXTENDS MCSplitMath, MCQuoteCodec, SplitMathProofs

(* split_gross: amounts, refusals and the wrapping cast.                   *)

(* The inductive invariant: the call is one of those enumerated, and once  *)
(* the function has returned the result is what its operators say.         *)
Returned ==
  /\ call \in SplitCalls
  /\ result # Pending =>
       /\ result.verdict = SplitVerdict(call.gross, call.profile, call.has_ip_creator)
       /\ result.verdict = Ok => result.legs = Split(call.gross, call.profile)

LEMMA ReturnedInvariant == SplitSpec => []Returned
<1>1. SplitInit => Returned
  BY DEF SplitInit, Returned
<1>2. Returned /\ [Return]_vars => Returned'
  BY DEF Returned, Return, vars, Pending
<1> QED BY <1>1, <1>2, PTL DEF SplitSpec

LEMMA CallTypes ==
  ASSUME call \in SplitCalls
  PROVE  /\ call.gross \in U64 /\ HasRates(call.profile)
         /\ call.has_ip_creator \in BOOLEAN
  BY MaxBpsAssumption DEF SplitCalls, HasRates

(* What FeeIsFloor promises is what ExactFee chooses.                      *)
LEMMA FeeIsExact ==
  ASSUME NEW gross \in U64, NEW bps \in 0 .. BPS_DENOMINATOR
  PROVE  Fee(gross, bps) = ExactFee(gross, bps)
<1>1. gross \in Nat /\ bps \in Nat /\ BPS_DENOMINATOR \in Nat \ {0}
      /\ gross * bps \in Nat
  BY SplitAssumption DEF U64
<1>2. /\ Fee(gross, bps) \in 0 .. gross
      /\ Fee(gross, bps) * BPS_DENOMINATOR <= gross * bps
      /\ (Fee(gross, bps) + 1) * BPS_DENOMINATOR > gross * bps
  BY <1>1, FeeIsFloor
<1>3. /\ ExactFee(gross, bps) \in 0 .. gross
      /\ ExactFee(gross, bps) * BPS_DENOMINATOR <= gross * bps
      /\ (ExactFee(gross, bps) + 1) * BPS_DENOMINATOR > gross * bps
  <2> DEFINE IsFloor(fee) == /\ fee * BPS_DENOMINATOR <= gross * bps
                             /\ (fee + 1) * BPS_DENOMINATOR > gross * bps
  <2>1. ExactFee(gross, bps) = CHOOSE fee \in 0 .. gross : IsFloor(fee)
    BY DEF ExactFee
  <2>2. \E fee \in 0 .. gross : IsFloor(fee)
    BY <1>2
  <2> HIDE DEF IsFloor
  <2>3. ExactFee(gross, bps) \in 0 .. gross /\ IsFloor(ExactFee(gross, bps))
    BY <2>1, <2>2
  <2> QED BY <2>3 DEF IsFloor
<1>4. Fee(gross, bps) \in Nat /\ ExactFee(gross, bps) \in Nat
  BY <1>1, <1>2, <1>3
<1> QED BY <1>1, <1>2, <1>3, <1>4, FloorIsUnique

(* For every width, every denominator and every cap below it: the amounts  *)
(* split_gross returns are the floors of the exact shares and add up to    *)
(* the gross amount, with something left for the merchant.                 *)
THEOREM SplitExactness == SplitSpec => []SplitIsExact
<1>1. Returned => SplitIsExact
  <2> SUFFICES ASSUME Returned, result.verdict = Ok, WithinCaps, result # Pending
               PROVE  SplitIsExact
    BY DEF SplitIsExact, Pending, Ok
  <2> DEFINE t == call.profile.treasury_bps
             i == call.profile.ip_creator_bps
  <2>1. call.gross \in U64 /\ HasRates(call.profile) /\ call.has_ip_creator \in BOOLEAN
    BY CallTypes DEF Returned
  <2>2. SplitVerdict(call.gross, call.profile, call.has_ip_creator) = Ok
        /\ result.legs = Split(call.gross, call.profile)
    BY DEF Returned
  <2>3. call.gross > 0
    BY <2>1, <2>2, SplitSucceeds
  <2>4. t \in 0 .. BPS_DENOMINATOR /\ i \in 0 .. BPS_DENOMINATOR
    BY <2>1, CapsBound DEF WithinCaps, HasRates
  <2>5. /\ TreasuryLeg(call.gross, call.profile) = ExactFee(call.gross, t)
        /\ IPLeg(call.gross, call.profile) = ExactFee(call.gross, i)
    BY <2>1, <2>4, LegIsFee, FeeIsExact
  <2>6. /\ TreasuryLeg(call.gross, call.profile) \in Nat
        /\ IPLeg(call.gross, call.profile) \in Nat
        /\ MerchantLeg(call.gross, call.profile) \in 1 .. call.gross
        /\ call.gross \in Nat
    BY <2>1, <2>3, MerchantKeepsSome DEF WithinCaps, U64
  <2> QED BY <2>2, <2>5, <2>6 DEF SplitIsExact, Split, MerchantLeg
<1> QED BY <1>1, ReturnedInvariant, PTL

(* Under the caps a payment is refused for exactly the three reasons the   *)
(* property lists: the two FeeExceedsGross and the empty merchant leg that *)
(* split_gross also looks for cannot happen, whatever the caps are.        *)
THEOREM SplitRefusals == SplitSpec => []RefusalsAreExactlyThese
<1>1. Returned => RefusalsAreExactlyThese
  <2> SUFFICES ASSUME Returned, result # Pending, WithinCaps
               PROVE  RefusalsAreExactlyThese
    BY DEF RefusalsAreExactlyThese
  <2> DEFINE gross == call.gross
             t == call.profile.treasury_bps
             i == call.profile.ip_creator_bps
  <2>1. gross \in U64 /\ gross \in Nat /\ HasRates(call.profile)
        /\ call.has_ip_creator \in BOOLEAN
    BY CallTypes DEF Returned, U64
  <2>2. t \in 0 .. BPS_DENOMINATOR /\ i \in 0 .. BPS_DENOMINATOR
    BY <2>1, CapsBound DEF WithinCaps, HasRates
  <2>3. /\ TreasuryLeg(gross, call.profile) > 0 <=> gross * t >= BPS_DENOMINATOR
        /\ IPLeg(gross, call.profile) > 0 <=> gross * i >= BPS_DENOMINATOR
    BY <2>1, <2>2, LegIsFee, FeePositive
  <2>4. gross > 0 => /\ MerchantLeg(gross, call.profile) >= 0
                     /\ MerchantLeg(gross, call.profile) > 0
    BY <2>1, MerchantKeepsSome DEF WithinCaps
  <2>5. result.verdict = Ok <=>
           /\ gross > 0
           /\ t > 0 => gross * t >= BPS_DENOMINATOR
           /\ i > 0 => gross * i >= BPS_DENOMINATOR
           /\ i > 0 => call.has_ip_creator
    BY <2>1, <2>3, <2>4, SplitSucceeds DEF Returned
  <2> QED BY <2>5 DEF RefusalsAreExactlyThese
<1> QED BY <1>1, ReturnedInvariant, PTL

(* Whatever the rates, and wherever `as u64` has cut a fee, a split that   *)
(* succeeds moves no more than the gross amount: it is checked_sub that    *)
(* guarantees it, not the caps.                                            *)
THEOREM SplitStaysWithinGross == SplitSpec => []LegsStayWithinGross
<1>1. Returned => LegsStayWithinGross
  <2> SUFFICES ASSUME Returned, result.verdict = Ok, result # Pending
               PROVE  LegsStayWithinGross
    BY DEF LegsStayWithinGross, Pending, Ok
  <2> DEFINE t == TreasuryLeg(call.gross, call.profile)
             i == IPLeg(call.gross, call.profile)
  <2>1. call.gross \in U64 /\ call.gross \in Nat /\ HasRates(call.profile)
        /\ call.has_ip_creator \in BOOLEAN
        /\ call.profile.treasury_bps \in Nat /\ call.profile.ip_creator_bps \in Nat
    BY CallTypes DEF Returned, U64, HasRates
  <2>2. MerchantLeg(call.gross, call.profile) >= 0 /\ result.legs = Split(call.gross, call.profile)
    BY <2>1, SplitSucceeds DEF Returned
  <2>3. \A bps \in Nat : Fee(call.gross, bps) \in Nat
    BY <2>1, SplitAssumption DEF Fee
  <2>4. t \in Nat /\ i \in Nat
    BY <2>1, <2>3, LegIsFee
  <2>5. MerchantLeg(call.gross, call.profile) = call.gross - t - i
    BY DEF MerchantLeg
  <2> HIDE DEF t, i
  <2>6. MerchantLeg(call.gross, call.profile) \in 0 .. call.gross
        /\ t \in 0 .. call.gross /\ i \in 0 .. call.gross
    BY <2>1, <2>2, <2>4, <2>5
  <2> QED BY <2>2, <2>6 DEF LegsStayWithinGross, Split, t, i
<1> QED BY <1>1, ReturnedInvariant, PTL

-----------------------------------------------------------------------------
(* Bytes of s: the comparison of is_high_s.                                *)

LEMMA HalfFits ==
  /\ HALF_N \in Nat /\ 2 * HALF_N + 1 = N
  /\ N \div 2 = HALF_N
  /\ Power(BASE)[S_LEN] \in Nat /\ HALF_N < Power(BASE)[S_LEN]
<1>1. Power(BASE)[S_LEN] \in Nat
  BY SignatureAssumption, Powers
<1> QED BY <1>1, SignatureAssumption DEF HALF_N

(* The loop over the bytes of is_high_s compares the two numbers.          *)
LEMMA BytewiseIsNumeric ==
  ASSUME NEW s \in 0 .. Power(BASE)[S_LEN] - 1
  PROVE  IsHighS(ToBeBytes(s)) <=> s > HALF_N
<1> DEFINE H == HALF_N
           Lead(n, k) == n \div Power(BASE)[S_LEN - k]
           A == ToBeBytes(s)
           B == ToBeBytes(H)
           Above(k) == \E i \in 1 .. k : A[i] > B[i] /\ \A j \in 1 .. i - 1 : A[j] = B[j]
           Equal(k) == \A j \in 1 .. k : A[j] = B[j]
           Agrees(k) == /\ Above(k) <=> Lead(s, k) > Lead(H, k)
                        /\ Equal(k) <=> Lead(s, k) = Lead(H, k)
           S == {k \in Nat : k <= S_LEN => Agrees(k)}
<1>1. /\ BASE \in Nat \ {0} /\ S_LEN \in Nat /\ s \in Nat /\ H \in Nat
      /\ s < Power(BASE)[S_LEN] /\ H < Power(BASE)[S_LEN] /\ Power(BASE)[S_LEN] \in Nat
      /\ Power(BASE)[0] = 1
  BY SignatureAssumption, HalfFits, Powers
<1>2. \A n \in Nat, k \in 0 .. S_LEN : Lead(n, k) \in Nat
  <2> SUFFICES ASSUME NEW n \in Nat, NEW k \in 0 .. S_LEN PROVE Lead(n, k) \in Nat
    OBVIOUS
  <2>1. S_LEN - k \in Nat
    BY <1>1
  <2> QED BY <1>1, <2>1, NextDigit
<1>3. \A n \in Nat : Lead(n, S_LEN) = n /\ (n < Power(BASE)[S_LEN] => Lead(n, 0) = 0)
  <2> SUFFICES ASSUME NEW n \in Nat
               PROVE  Lead(n, S_LEN) = n /\ (n < Power(BASE)[S_LEN] => Lead(n, 0) = 0)
    OBVIOUS
  <2> DEFINE P == Power(BASE)[S_LEN]
  <2>1. S_LEN - S_LEN = 0 /\ S_LEN - 0 = S_LEN
    BY <1>1
  <2>2. Lead(n, S_LEN) = n \div 1
    BY <1>1, <2>1
  <2>3. Lead(n, 0) = n \div P
    BY <2>1
  <2>4. P \in Nat /\ (n < P => n \div P = 0)
    <3>1. P \in Nat
      BY <1>1
    <3> HIDE DEF P
    <3> QED BY <3>1
  <2> QED BY <2>2, <2>3, <2>4
<1>4. \A n \in Nat, k \in 1 .. S_LEN :
        /\ Digit(n, BASE, S_LEN - k) \in 0 .. BASE - 1
        /\ Lead(n, k) = Lead(n, k - 1) * BASE + Digit(n, BASE, S_LEN - k)
  <2> SUFFICES ASSUME NEW n \in Nat, NEW k \in 1 .. S_LEN
               PROVE  /\ Digit(n, BASE, S_LEN - k) \in 0 .. BASE - 1
                      /\ Lead(n, k) = Lead(n, k - 1) * BASE + Digit(n, BASE, S_LEN - k)
    OBVIOUS
  <2>1. S_LEN - k \in Nat /\ (S_LEN - k) + 1 = S_LEN - (k - 1)
    BY <1>1
  <2>2. /\ Digit(n, BASE, S_LEN - k) \in 0 .. BASE - 1
        /\ n \div Power(BASE)[S_LEN - k]
             = (n \div Power(BASE)[(S_LEN - k) + 1]) * BASE + Digit(n, BASE, S_LEN - k)
    BY <1>1, <2>1, NextDigit
  <2> QED BY <2>1, <2>2
<1>5. \A k \in 1 .. S_LEN : /\ A[k] = Digit(s, BASE, S_LEN - k)
                            /\ B[k] = Digit(H, BASE, S_LEN - k)
  BY DEF ToBeBytes
<1>6. IsHighS(A) <=> Above(S_LEN)
  BY DEF IsHighS
<1> HIDE DEF A, B, H, Lead
<1>7. 0 \in S
  <2>1. Lead(s, 0) = 0 /\ Lead(H, 0) = 0
    BY <1>1, <1>3
  <2> QED BY <2>1
<1>8. ASSUME NEW k \in S \cap Nat PROVE k + 1 \in S
  <2> SUFFICES ASSUME k + 1 <= S_LEN PROVE Agrees(k + 1)
    OBVIOUS
  <2>1. /\ k \in 0 .. S_LEN /\ k + 1 \in 1 .. S_LEN /\ (k + 1) - 1 = k
        /\ Lead(s, k) \in Nat /\ Lead(H, k) \in Nat
    BY <1>1, <1>2
  <2>8. Agrees(k)
    BY <2>1
  <2>2. /\ A[k + 1] \in 0 .. BASE - 1 /\ B[k + 1] \in 0 .. BASE - 1
        /\ Lead(s, k + 1) = Lead(s, k) * BASE + A[k + 1]
        /\ Lead(H, k + 1) = Lead(H, k) * BASE + B[k + 1]
    BY <1>1, <1>4, <1>5, <2>1
  <2>3. /\ Lead(s, k + 1) > Lead(H, k + 1)
             <=> Lead(s, k) > Lead(H, k) \/ (Lead(s, k) = Lead(H, k) /\ A[k + 1] > B[k + 1])
        /\ Lead(s, k + 1) = Lead(H, k + 1)
             <=> Lead(s, k) = Lead(H, k) /\ A[k + 1] = B[k + 1]
    <3> DEFINE x == Lead(s, k)
               y == Lead(H, k)
               d == A[k + 1]
               e == B[k + 1]
    <3>1. x \in Nat /\ y \in Nat /\ d \in 0 .. BASE - 1 /\ e \in 0 .. BASE - 1
      BY <2>1, <2>2
    <3>2. Lead(s, k + 1) = x * BASE + d /\ Lead(H, k + 1) = y * BASE + e
      BY <2>2
    <3> HIDE DEF x, y, d, e
    <3>3. /\ x * BASE + d > y * BASE + e <=> x > y \/ (x = y /\ d > e)
          /\ x * BASE + d = y * BASE + e <=> x = y /\ d = e
      BY <1>1, <3>1, CompareDigits
    <3> QED BY <3>2, <3>3 DEF x, y, d, e
  <2>4. \A i \in 1 .. k + 1 : i \in 1 .. k \/ i = k + 1
    OBVIOUS
  <2>5. 1 .. k \subseteq 1 .. k + 1 /\ k + 1 \in 1 .. k + 1
    OBVIOUS
  <2>6. Above(k + 1) <=> Above(k) \/ (Equal(k) /\ A[k + 1] > B[k + 1])
    <3>1. Above(k) => Above(k + 1)
      BY <2>5
    <3>2. Equal(k) /\ A[k + 1] > B[k + 1] => Above(k + 1)
      BY <2>1, <2>5
    <3>3. Above(k + 1) => Above(k) \/ (Equal(k) /\ A[k + 1] > B[k + 1])
      BY <2>1, <2>4
    <3> QED BY <3>1, <3>2, <3>3
  <2>7. Equal(k + 1) <=> Equal(k) /\ A[k + 1] = B[k + 1]
    BY <2>4, <2>5
  <2> HIDE DEF Above, Equal
  <2> QED BY <2>8, <2>3, <2>6, <2>7
<1> HIDE DEF S
<1>9. S_LEN \in S
  BY <1>1, <1>7, <1>8, SetInduction
<1>10. Agrees(S_LEN)
  BY <1>1, <1>9 DEF S
<1>11. Lead(s, S_LEN) = s /\ Lead(H, S_LEN) = H
  BY <1>1, <1>3
<1> HIDE DEF Above, Equal
<1> QED BY <1>6, <1>10, <1>11 DEF A, H

-----------------------------------------------------------------------------
(* Bytes of integers: what is written is read back.                        *)

LEMMA CodecConstants ==
  /\ BYTE \in Nat \ {0} /\ KEY_LEN \in Nat \ {0} /\ INT_LEN \in Nat \ {0}
  /\ WORD \in Nat \ {0} /\ Power(BYTE) \in [Nat -> Nat \ {0}]
  /\ MESSAGE_DOMAIN_TAG \in Seq(Bytes) /\ 0 \in Bytes
<1>1. BYTE \in Nat \ {0} /\ KEY_LEN \in Nat \ {0} /\ INT_LEN \in Nat \ {0}
  BY CodecAssumption
<1>2. Power(BYTE) \in [Nat -> Nat \ {0}]
  BY <1>1, Powers
<1>3. WORD \in Nat \ {0}
  BY <1>1, <1>2 DEF WORD
<1>4. MESSAGE_DOMAIN_TAG \in Seq(Bytes) /\ 0 \in Bytes
  BY <1>1, CodecAssumption DEF Bytes
<1> QED BY <1>1, <1>2, <1>3, <1>4

LEMMA LeBytesType ==
  ASSUME NEW n \in Int
  PROVE  ToLeBytes(n) \in Seq(Bytes) /\ Len(ToLeBytes(n)) = INT_LEN
<1>1. \A i \in 1 .. INT_LEN : Digit(n, BYTE, i - 1) \in Bytes
  <2> SUFFICES ASSUME NEW i \in 1 .. INT_LEN PROVE Digit(n, BYTE, i - 1) \in Bytes
    OBVIOUS
  <2> DEFINE c == Power(BYTE)[i - 1]
  <2>1. i - 1 \in Nat
    BY CodecConstants
  <2>2. c \in Nat \ {0}
    BY <2>1, CodecConstants
  <2>3. Digit(n, BYTE, i - 1) = (n \div c) % BYTE
    BY DEF Digit
  <2> HIDE DEF c
  <2>4. n \div c \in Int
    BY <2>2, Remainder
  <2>5. BYTE \in Nat \ {0}
    BY CodecConstants
  <2>6. (n \div c) % BYTE \in 0 .. BYTE - 1
    BY <2>4, <2>5, Remainder
  <2> QED BY <2>3, <2>6 DEF Bytes
<1>2. ToLeBytes(n) \in [1 .. INT_LEN -> Bytes]
  BY <1>1 DEF ToLeBytes
<1> QED BY <1>2, CodecConstants

(* Adding up the bytes of n gives n, but for a multiple of WORD.           *)
LEMMA WordOfBytes ==
  ASSUME NEW n \in Int
  PROVE  Word(ToLeBytes(n)) = n % WORD
<1> DEFINE bytes == ToLeBytes(n)
           L == INT_LEN
           P == Power(BYTE)
           rec(w) == [i \in 0 .. Len(bytes) |->
                        IF i = 0 THEN 0 ELSE w[i - 1] + bytes[i] * P[i - 1]]
           word == CHOOSE w : w = rec(w)
           low == [i \in 0 .. Len(bytes) |-> n % P[i]]
           S == {i \in Nat : i <= L => word[i] = n % P[i]}
<1>1. Len(bytes) = L /\ L \in Nat
  BY LeBytesType, CodecConstants
<1>2. P[0] = 1 /\ n % P[0] = 0
  <2>1. P[0] = 1
    BY Powers, CodecConstants
  <2> HIDE DEF P
  <2> QED BY <2>1
<1>3. ASSUME NEW i \in 1 .. L PROVE n % P[i] = (n % P[i - 1]) + bytes[i] * P[i - 1]
  <2>1. i - 1 \in Nat /\ (i - 1) + 1 = i
    BY <1>1
  <2> DEFINE c == P[i - 1]
  <2>2. c \in Nat \ {0} /\ P[i] = BYTE * c
    BY <2>1, Powers, CodecConstants
  <2>3. bytes[i] = (n \div c) % BYTE
    BY DEF ToLeBytes, Digit
  <2> HIDE DEF c, P, bytes
  <2>4. n % (BYTE * c) = (n % c) + ((n \div c) % BYTE) * c
    BY <2>2, ModDigit, CodecConstants
  <2> QED BY <2>2, <2>3, <2>4 DEF c
<1>4. Word(bytes) = word[Len(bytes)]
  BY DEF Word
<1> HIDE DEF P, bytes
<1>5. low = rec(low)
  <2>1. ASSUME NEW i \in 0 .. L PROVE low[i] = rec(low)[i]
    <3>1. CASE i = 0
      BY <1>1, <1>2, <3>1
    <3>2. CASE i # 0
      <4>1. i \in 1 .. L /\ i - 1 \in 0 .. L
        BY <1>1, <3>2
      <4>2. low[i] = n % P[i] /\ low[i - 1] = n % P[i - 1]
        BY <1>1, <4>1
      <4>3. rec(low)[i] = low[i - 1] + bytes[i] * P[i - 1]
        BY <1>1, <3>2
      <4> HIDE DEF low, rec
      <4> QED BY <1>3, <4>1, <4>2, <4>3
    <3> QED BY <3>1, <3>2
  <2> QED BY <1>1, <2>1
<1>6. word = rec(word)
  <2> HIDE DEF low, rec
  <2> QED BY <1>5
<1> HIDE DEF word
<1>7. 0 \in S
  <2>1. word[0] = 0
    BY <1>1, <1>6
  <2> QED BY <1>2, <2>1
<1>8. ASSUME NEW i \in S \cap Nat PROVE i + 1 \in S
  <2> SUFFICES ASSUME i + 1 <= L PROVE word[i + 1] = n % P[i + 1]
    OBVIOUS
  <2>1. i + 1 \in 1 .. L /\ (i + 1) - 1 = i /\ i + 1 \in 0 .. Len(bytes) /\ i + 1 # 0
    BY <1>1
  <2>2. word[i + 1] = word[i] + bytes[i + 1] * P[i]
    BY <1>6, <2>1
  <2>3. word[i] = n % P[i]
    BY <1>1
  <2>4. n % P[i + 1] = (n % P[i]) + bytes[i + 1] * P[i]
    BY <1>3, <2>1
  <2> QED BY <2>2, <2>3, <2>4
<1> HIDE DEF S
<1>9. L \in S
  BY <1>1, <1>7, <1>8, SetInduction
<1> QED BY <1>1, <1>4, <1>9 DEF S, P, bytes, WORD

LEMMA IntegersComeBack ==
  /\ \A n \in Unsigned : Word(ToLeBytes(n)) = n
  /\ \A n \in Signed : SignedWord(ToLeBytes(n)) = n
<1>1. WORD \in Nat \ {0}
  BY CodecConstants
<1>2. \A n \in Unsigned : n \in Int /\ n % WORD = n
  BY <1>1 DEF Unsigned
<1>3. WORD \div 2 \in Nat /\ 2 * (WORD \div 2) <= WORD /\ WORD < 2 * (WORD \div 2) + 2
  BY <1>1
<1>4. ASSUME NEW n \in Signed PROVE n \in Int /\ n % WORD = IF n < 0 THEN n + WORD ELSE n
  <2>1. n \in Int /\ -WORD <= n /\ n < WORD
    BY <1>1, <1>3, <1>4 DEF Signed
  <2> QED BY <1>1, <2>1
<1>5. ASSUME NEW n \in Signed PROVE SignedWord(ToLeBytes(n)) = n
  <2>1. n \in Int /\ Word(ToLeBytes(n)) = IF n < 0 THEN n + WORD ELSE n
    BY <1>4, WordOfBytes
  <2>2. n < 0 => n + WORD \notin Signed /\ (n + WORD) - WORD = n
    BY <1>1, <1>3, <1>5, <2>1 DEF Signed
  <2> QED BY <1>5, <2>1, <2>2 DEF SignedWord
<1> QED BY <1>2, <1>5, WordOfBytes

-----------------------------------------------------------------------------
(* Fields: where the encoders put them.                                    *)

(* A buffer under way, filled up to o; and one whose bytes behind off are  *)
(* these.                                                                  *)
IsCursor(c) == c.o \in Nat /\ c.out \in [1 .. QUOTE_ENCODED_LEN -> Bytes]

Holds(c, off, bytes) ==
  /\ off + Len(bytes) <= c.o
  /\ \A i \in 1 .. Len(bytes) : c.out[off + i] = bytes[i]

(* Writing a field puts it behind o and leaves what is there already.      *)
LEMMA FieldIsWritten ==
  ASSUME NEW c, IsCursor(c), NEW bytes \in Seq(Bytes), NEW width \in Nat, Len(bytes) = width,
         c.o + width <= QUOTE_ENCODED_LEN
  PROVE  /\ IsCursor(c ++ Field(bytes, width))
         /\ (c ++ Field(bytes, width)).o = c.o + width
         /\ Holds(c ++ Field(bytes, width), c.o, bytes)
         /\ \A off \in Nat, old \in Seq(Bytes) :
              Holds(c, off, old) => Holds(c ++ Field(bytes, width), off, old)
<1> DEFINE d == c ++ Field(bytes, width)
           L == QUOTE_ENCODED_LEN
<1>1. /\ DOMAIN bytes = 1 .. width /\ \A i \in 1 .. width : bytes[i] \in Bytes
      /\ c.o \in Nat /\ L \in Nat /\ c.out \in [1 .. L -> Bytes] /\ DOMAIN c.out = 1 .. L
  <2>1. L \in Nat
    BY CodecConstants DEF QUOTE_ENCODED_LEN
  <2>2. DOMAIN bytes = 1 .. width /\ \A i \in 1 .. width : bytes[i] \in Bytes
    OBVIOUS
  <2> QED BY <2>1, <2>2 DEF IsCursor
<1>2. /\ d.o = c.o + width
      /\ d.out = [i \in 1 .. L |-> IF i - c.o \in 1 .. width THEN bytes[i - c.o] ELSE c.out[i]]
  <2>1. d = [o |-> c.o + width, out |-> Put(c.out, c.o, bytes)]
    BY DEF ++, Field
  <2> QED BY <1>1, <2>1 DEF Put
<1> HIDE DEF d, L
<1>3. \A i \in 1 .. L : d.out[i] \in Bytes
  BY <1>1, <1>2
<1>4. d.out \in [1 .. L -> Bytes] /\ d.o \in Nat
  BY <1>1, <1>2, <1>3
<1>5. Holds(d, c.o, bytes)
  <2>1. ASSUME NEW i \in 1 .. width PROVE d.out[c.o + i] = bytes[i]
    <3>1. c.o + i \in 1 .. L /\ (c.o + i) - c.o = i
      BY <1>1 DEF L
    <3> QED BY <1>2, <3>1
  <2>2. c.o + Len(bytes) <= d.o /\ Len(bytes) = width
    BY <1>1, <1>2
  <2> QED BY <2>1, <2>2 DEF Holds
<1>6. ASSUME NEW off \in Nat, NEW old \in Seq(Bytes), Holds(c, off, old)
      PROVE  Holds(d, off, old)
  <2>1. Len(old) \in Nat /\ off + Len(old) <= c.o
    BY <1>6 DEF Holds
  <2>2. ASSUME NEW i \in 1 .. Len(old) PROVE d.out[off + i] = old[i]
    <3>1. off + i \in 1 .. L /\ (off + i) - c.o \notin 1 .. width
      BY <1>1, <2>1 DEF L
    <3>2. d.out[off + i] = c.out[off + i]
      BY <1>2, <3>1
    <3> QED BY <1>6, <3>2 DEF Holds
  <2> QED BY <1>1, <1>2, <2>1, <2>2 DEF Holds
<1> QED BY <1>2, <1>4, <1>5, <1>6 DEF d, L, IsCursor

(* Where each field of a quote ends up.                                    *)
LEMMA EncodingLayout ==
  ASSUME NEW q \in Quote
  PROVE  LET c == [o |-> QUOTE_ENCODED_LEN, out |-> RustEncoding(q)]
             K == KEY_LEN
             I == INT_LEN
         IN  /\ IsCursor(c)
             /\ Holds(c, 0, q.payer) /\ Holds(c, K, q.merchant) /\ Holds(c, 2 * K, q.token)
             /\ Holds(c, 3 * K, ToLeBytes(q.gross_amount))
             /\ Holds(c, 3 * K + I, q.ip_creator)
             /\ Holds(c, 4 * K + I, ToLeBytes(q.valid_until))
             /\ Holds(c, 4 * K + 2 * I, q.order_id_hash)
             /\ Holds(c, 5 * K + 2 * I, ToLeBytes(q.nonce))
             /\ Holds(c, 5 * K + 3 * I, q.route_id)
<1> DEFINE K == KEY_LEN
           I == INT_LEN
           L == QUOTE_ENCODED_LEN
           f1 == q.payer
           f2 == q.merchant
           f3 == q.token
           f4 == ToLeBytes(q.gross_amount)
           f5 == q.ip_creator
           f6 == ToLeBytes(q.valid_until)
           f7 == q.order_id_hash
           f8 == ToLeBytes(q.nonce)
           f9 == q.route_id
           c1 == Blank ++ Field(f1, K)
           c2 == c1 ++ Field(f2, K)
           c3 == c2 ++ Field(f3, K)
           c4 == c3 ++ Field(f4, I)
           c5 == c4 ++ Field(f5, K)
           c6 == c5 ++ Field(f6, I)
           c7 == c6 ++ Field(f7, K)
           c8 == c7 ++ Field(f8, I)
           c9 == c8 ++ Field(f9, K)
<1>1. K \in Nat /\ I \in Nat /\ L = 6 * K + 3 * I
  BY CodecConstants DEF QUOTE_ENCODED_LEN
<1>2. \A key \in Keys : key \in Seq(Bytes) /\ Len(key) = K
  BY CodecConstants DEF Keys
<1>3. /\ f1 \in Seq(Bytes) /\ f2 \in Seq(Bytes) /\ f3 \in Seq(Bytes) /\ f5 \in Seq(Bytes)
      /\ f7 \in Seq(Bytes) /\ f9 \in Seq(Bytes)
      /\ Len(f1) = K /\ Len(f2) = K /\ Len(f3) = K /\ Len(f5) = K /\ Len(f7) = K /\ Len(f9) = K
  BY <1>2 DEF Quote
<1>4. /\ f4 \in Seq(Bytes) /\ f6 \in Seq(Bytes) /\ f8 \in Seq(Bytes)
      /\ Len(f4) = I /\ Len(f6) = I /\ Len(f8) = I
  <2>1. q.gross_amount \in Int /\ q.valid_until \in Int /\ q.nonce \in Int
    BY CodecConstants DEF Quote, Unsigned, Signed
  <2> QED BY <2>1, LeBytesType
<1>5. RustEncoding(q) = c9.out
  BY DEF RustEncoding
<1>6. IsCursor(Blank) /\ Blank.o = 0
  BY CodecConstants DEF IsCursor, Blank
<1> HIDE DEF f1, f2, f3, f4, f5, f6, f7, f8, f9, K, I, L
<1>11. /\ IsCursor(c1) /\ c1.o = K /\ Holds(c1, 0, f1)
  BY <1>1, <1>3, <1>6, FieldIsWritten DEF L
<1> HIDE DEF c1
<1>12. /\ IsCursor(c2) /\ c2.o = 2 * K /\ Holds(c2, 0, f1) /\ Holds(c2, K, f2)
  BY <1>1, <1>3, <1>11, FieldIsWritten DEF L
<1> HIDE DEF c2
<1>13. /\ IsCursor(c3) /\ c3.o = 3 * K
       /\ Holds(c3, 0, f1) /\ Holds(c3, K, f2) /\ Holds(c3, 2 * K, f3)
  BY <1>1, <1>3, <1>12, FieldIsWritten DEF L
<1> HIDE DEF c3
<1>14. /\ IsCursor(c4) /\ c4.o = 3 * K + I
       /\ Holds(c4, 0, f1) /\ Holds(c4, K, f2) /\ Holds(c4, 2 * K, f3) /\ Holds(c4, 3 * K, f4)
  BY <1>1, <1>3, <1>4, <1>13, FieldIsWritten DEF L
<1> HIDE DEF c4
<1>15. /\ IsCursor(c5) /\ c5.o = 4 * K + I
       /\ Holds(c5, 0, f1) /\ Holds(c5, K, f2) /\ Holds(c5, 2 * K, f3) /\ Holds(c5, 3 * K, f4)
       /\ Holds(c5, 3 * K + I, f5)
  BY <1>1, <1>3, <1>4, <1>14, FieldIsWritten DEF L
<1> HIDE DEF c5
<1>16. /\ IsCursor(c6) /\ c6.o = 4 * K + 2 * I
       /\ Holds(c6, 0, f1) /\ Holds(c6, K, f2) /\ Holds(c6, 2 * K, f3) /\ Holds(c6, 3 * K, f4)
       /\ Holds(c6, 3 * K + I, f5) /\ Holds(c6, 4 * K + I, f6)
  BY <1>1, <1>3, <1>4, <1>15, FieldIsWritten DEF L
<1> HIDE DEF c6
<1>17. /\ IsCursor(c7) /\ c7.o = 5 * K + 2 * I
       /\ Holds(c7, 0, f1) /\ Holds(c7, K, f2) /\ Holds(c7, 2 * K, f3) /\ Holds(c7, 3 * K, f4)
       /\ Holds(c7, 3 * K + I, f5) /\ Holds(c7, 4 * K + I, f6) /\ Holds(c7, 4 * K + 2 * I, f7)
  BY <1>1, <1>3, <1>4, <1>16, FieldIsWritten DEF L
<1> HIDE DEF c7
<1>18. /\ IsCursor(c8) /\ c8.o = 5 * K + 3 * I
       /\ Holds(c8, 0, f1) /\ Holds(c8, K, f2) /\ Holds(c8, 2 * K, f3) /\ Holds(c8, 3 * K, f4)
       /\ Holds(c8, 3 * K + I, f5) /\ Holds(c8, 4 * K + I, f6) /\ Holds(c8, 4 * K + 2 * I, f7)
       /\ Holds(c8, 5 * K + 2 * I, f8)
  BY <1>1, <1>3, <1>4, <1>17, FieldIsWritten DEF L
<1> HIDE DEF c8
<1>19. /\ IsCursor(c9) /\ c9.o = L
       /\ Holds(c9, 0, f1) /\ Holds(c9, K, f2) /\ Holds(c9, 2 * K, f3) /\ Holds(c9, 3 * K, f4)
       /\ Holds(c9, 3 * K + I, f5) /\ Holds(c9, 4 * K + I, f6) /\ Holds(c9, 4 * K + 2 * I, f7)
       /\ Holds(c9, 5 * K + 2 * I, f8) /\ Holds(c9, 5 * K + 3 * I, f9)
  BY <1>1, <1>3, <1>4, <1>18, FieldIsWritten DEF L
<1> HIDE DEF c9
<1> DEFINE c == [o |-> QUOTE_ENCODED_LEN, out |-> RustEncoding(q)]
<1>20. c.o = c9.o /\ c.out = c9.out
  BY <1>5, <1>19 DEF L
<1> HIDE DEF c
<1>21. IsCursor(c) /\ \A off, bytes : Holds(c9, off, bytes) => Holds(c, off, bytes)
  BY <1>19, <1>20 DEF IsCursor, Holds
<1> QED BY <1>19, <1>21 DEF c, K, I, f1, f2, f3, f4, f5, f6, f7, f8, f9

-----------------------------------------------------------------------------
(* Messages: the two encoders, and reading the bytes back.                 *)

(* The inductive invariant: the call is one of those enumerated, and once  *)
(* it has been made the result is what the operators say.                  *)
Answered ==
  /\ call \in EncodeCalls \cup SignCalls \cup VerifyCalls
  /\ result.kind = "encode" =>
       /\ call \in EncodeCalls
       /\ result.verdict = ComputeDigestVerdict(call.program_id, call.quote)
       /\ result.ts = TsMessage(call.program_id, call.quote)
       /\ TypedCall => result.rust = RustMessage(call.program_id, call.quote)
  /\ result.kind = "sign" =>
       /\ call \in SignCalls /\ RawS(call.d, call.digest, call.k) # 0
       /\ result.verdict = SignDigestVerdict(call.d, call.digest, call.k)
       /\ result.signature = SignDigest(call.d, call.digest, call.k)
  /\ result.kind = "verify" =>
       /\ call \in VerifyCalls
       /\ result.ts = AcceptedOffChain(call.digest, call.signature, call.signer)
       /\ result.rust = AcceptedOnChain(call.digest, call.signature, call.signer)

LEMMA AnsweredInvariant == CodecSpec => []Answered
<1>1. CodecInit => Answered
  BY DEF CodecInit, NotCalled, Answered
<1>2. Answered /\ [CodecNext]_vars => Answered'
  <2> SUFFICES ASSUME Answered, [CodecNext]_vars PROVE Answered'
    OBVIOUS
  <2>1. CASE Encode
    <3>1. call \in EncodeCalls
      BY <2>1 DEF Answered, Encode, SignCalls, VerifyCalls
    <3> QED BY <2>1, <3>1 DEF Encode, Answered, TypedCall
  <2>2. CASE Sign
    <3>1. call \in SignCalls
      BY <2>2 DEF Answered, Sign, EncodeCalls, VerifyCalls
    <3> QED BY <2>2, <3>1 DEF Sign, Answered
  <2>3. CASE Verify
    <3>1. call \in VerifyCalls
      BY <2>3 DEF Answered, Verify, EncodeCalls, SignCalls
    <3> QED BY <2>3, <3>1 DEF Verify, Answered
  <2>4. CASE UNCHANGED vars
    BY <2>4 DEF vars, Answered, TypedCall
  <2> QED BY <2>1, <2>2, <2>3, <2>4 DEF CodecNext
<1> QED BY <1>1, <1>2, PTL DEF CodecSpec

LEMMA KeysAreSequences ==
  ASSUME NEW bytes \in Seq(Bytes)
  PROVE  RequireLen(bytes) = Ok <=> bytes \in Keys
<1>1. RequireLen(bytes) = Ok <=> Len(bytes) = KEY_LEN
  BY DEF RequireLen, Check, Ok
<1>2. KEY_LEN \in Nat
  BY CodecConstants
<1> QED BY <1>1, <1>2 DEF Keys

(* What the signer takes is what the program's types admit.                *)
LEMMA RefusalsAreMisfits ==
  ASSUME call \in EncodeCalls
  PROVE  ComputeDigestVerdict(call.program_id, call.quote) = Ok <=> TypedCall
<1> DEFINE q == call.quote
<1>1. /\ call.program_id \in Seq(Bytes)
      /\ q \in [payer : Seq(Bytes), merchant : Seq(Bytes), token : Seq(Bytes),
                gross_amount : Int, ip_creator : Seq(Bytes), valid_until : Int,
                order_id_hash : Seq(Bytes), nonce : Int, route_id : Seq(Bytes)]
  BY CodecCallsAssumption DEF EncodeCalls
<1>2. \A n, range : RequireRange(n, range) = Ok <=> n \in range
  BY DEF RequireRange, Check, Ok
<1> HIDE DEF q
<1>3. \A bytes \in Seq(Bytes) : RequireLen(bytes) = Ok <=> bytes \in Keys
  BY KeysAreSequences
<1>4. EncodeQuoteVerdict(q) = Ok <=>
        /\ RequireLen(q.payer) = Ok /\ RequireLen(q.merchant) = Ok /\ RequireLen(q.token) = Ok
        /\ RequireLen(q.ip_creator) = Ok /\ RequireLen(q.order_id_hash) = Ok
        /\ RequireLen(q.route_id) = Ok /\ RequireRange(q.gross_amount, Unsigned) = Ok
        /\ RequireRange(q.valid_until, Signed) = Ok /\ RequireRange(q.nonce, Unsigned) = Ok
  BY BothSucceed DEF EncodeQuoteVerdict
<1>5. q \in Quote <=>
        /\ q.payer \in Keys /\ q.merchant \in Keys /\ q.token \in Keys
        /\ q.ip_creator \in Keys /\ q.order_id_hash \in Keys /\ q.route_id \in Keys
        /\ q.gross_amount \in Unsigned /\ q.valid_until \in Signed /\ q.nonce \in Unsigned
  BY <1>1 DEF Quote
<1>6. EncodeQuoteVerdict(q) = Ok <=> q \in Quote
  <2>1. /\ q.payer \in Seq(Bytes) /\ q.merchant \in Seq(Bytes) /\ q.token \in Seq(Bytes)
        /\ q.ip_creator \in Seq(Bytes) /\ q.order_id_hash \in Seq(Bytes)
        /\ q.route_id \in Seq(Bytes)
    BY <1>1
  <2> QED BY <1>2, <1>3, <1>4, <1>5, <2>1
<1>7. ComputeDigestVerdict(call.program_id, q) = Ok
        <=> RequireLen(call.program_id) = Ok /\ EncodeQuoteVerdict(q) = Ok
  BY BothSucceed DEF ComputeDigestVerdict
<1> QED BY <1>1, <1>3, <1>6, <1>7 DEF TypedCall, q

(* For every width of bytes, keys and integers and whatever the caller     *)
(* puts into a quote: the signer refuses what the program has no value     *)
(* for, and the two encoders write the same bytes for everything else.     *)
THEOREM EncodersWriteTheSame == CodecSpec => []EncodersAgree
<1>1. Answered => EncodersAgree
  <2> SUFFICES ASSUME Answered, result.kind = "encode"
               PROVE  /\ result.verdict = Ok <=> TypedCall
                      /\ TypedCall => result.ts = result.rust
    BY DEF EncodersAgree
  <2>1. result.verdict = Ok <=> TypedCall
    BY RefusalsAreMisfits DEF Answered
  <2>2. TsMessage(call.program_id, call.quote) = RustMessage(call.program_id, call.quote)
    BY DEF TsMessage, RustMessage, TsEncoding, RustEncoding
  <2> QED BY <2>1, <2>2 DEF Answered
<1> QED BY <1>1, AnsweredInvariant, PTL

-----------------------------------------------------------------------------
(* The tag, the program id and the encoding, one behind the other.         *)
LEMMA MessageParts ==
  ASSUME NEW p \in Keys, NEW q \in Quote
  PROVE  LET m == RustMessage(p, q)
             T == Len(MESSAGE_DOMAIN_TAG)
             start == T + KEY_LEN
         IN  /\ T \in Nat /\ QUOTE_ENCODED_LEN \in Nat
             /\ p \in Seq(Bytes) /\ Len(p) = KEY_LEN
             /\ m \in Seq(Bytes) /\ Len(m) = start + QUOTE_ENCODED_LEN
             /\ \A i \in 1 .. KEY_LEN : m[T + i] = p[i]
             /\ \A i \in 1 .. QUOTE_ENCODED_LEN : m[start + i] = RustEncoding(q)[i]
<1> DEFINE tag == MESSAGE_DOMAIN_TAG
           T == Len(tag)
           enc == RustEncoding(q)
           K == KEY_LEN
           L == QUOTE_ENCODED_LEN
           head == tag \o p
           m == head \o enc
<1>1. tag \in Seq(Bytes) /\ T \in Nat /\ K \in Nat /\ L \in Nat
  BY CodecConstants DEF QUOTE_ENCODED_LEN
<1>2. p \in Seq(Bytes) /\ Len(p) = K
  BY <1>1 DEF Keys
<1>3. enc \in Seq(Bytes) /\ Len(enc) = L
  <2>1. enc \in [1 .. L -> Bytes]
    BY EncodingLayout DEF IsCursor
  <2> QED BY <1>1, <2>1
<1>4. RustMessage(p, q) = m
  BY DEF RustMessage
<1> HIDE DEF enc, K, L
<1>5. head \in Seq(Bytes) /\ Len(head) = T + K /\ \A i \in 1 .. K : head[T + i] = p[i]
  <2> HIDE DEF tag
  <2> QED BY <1>1, <1>2
<1> HIDE DEF T, head
<1>6. /\ m \in Seq(Bytes) /\ Len(m) = (T + K) + L
      /\ \A i \in 1 .. T + K : m[i] = head[i]
      /\ \A i \in 1 .. L : m[(T + K) + i] = enc[i]
  BY <1>1, <1>3, <1>5
<1> HIDE DEF m
<1>7. \A i \in 1 .. K : T + i \in 1 .. T + K
  BY <1>1
<1> QED BY <1>1, <1>2, <1>4, <1>5, <1>6, <1>7 DEF T, tag, K, L, enc

(* Reading a field back out of the message.                                *)
LEMMA FieldIsRead ==
  ASSUME NEW p \in Keys, NEW q \in Quote, NEW off \in Nat, NEW bytes \in Seq(Bytes),
         Holds([o |-> QUOTE_ENCODED_LEN, out |-> RustEncoding(q)], off, bytes)
  PROVE  LET start == Len(MESSAGE_DOMAIN_TAG) + KEY_LEN
         IN  SubSeq(RustMessage(p, q), start + off + 1, start + off + Len(bytes)) = bytes
<1> DEFINE m == RustMessage(p, q)
           enc == RustEncoding(q)
           start == Len(MESSAGE_DOMAIN_TAG) + KEY_LEN
           L == QUOTE_ENCODED_LEN
           cut == SubSeq(m, start + off + 1, start + off + Len(bytes))
<1>1. /\ start \in Nat /\ L \in Nat /\ m \in Seq(Bytes) /\ Len(m) = start + L
      /\ \A i \in 1 .. L : m[start + i] = enc[i]
  <2>1. start \in Nat
    BY MessageParts, CodecConstants
  <2>2. L \in Nat /\ m \in Seq(Bytes) /\ Len(m) = start + L
    BY MessageParts
  <2>3. \A i \in 1 .. L : m[start + i] = enc[i]
    BY MessageParts
  <2> QED BY <2>1, <2>2, <2>3
<1>2. /\ Len(bytes) \in Nat /\ off + Len(bytes) <= L
      /\ \A i \in 1 .. Len(bytes) : enc[off + i] = bytes[i]
  BY DEF Holds
<1> HIDE DEF m, enc, start, L
<1>3. /\ cut \in Seq(Bytes) /\ Len(cut) = Len(bytes)
      /\ \A i \in 1 .. Len(bytes) : cut[i] = m[start + (off + i)]
  BY <1>1, <1>2
<1> HIDE DEF cut
<1>4. \A i \in 1 .. Len(bytes) : off + i \in 1 .. L
  BY <1>1, <1>2
<1>5. \A i \in 1 .. Len(bytes) : cut[i] = bytes[i]
  BY <1>1, <1>2, <1>3, <1>4
<1>6. cut = bytes
  BY <1>3, <1>5
<1> QED BY <1>6 DEF cut, start, m

LEMMA ProgramIsRead ==
  ASSUME NEW p \in Keys, NEW q \in Quote
  PROVE  SubSeq(RustMessage(p, q), Len(MESSAGE_DOMAIN_TAG) + 1, Len(MESSAGE_DOMAIN_TAG) + KEY_LEN)
           = p
<1> DEFINE m == RustMessage(p, q)
           T == Len(MESSAGE_DOMAIN_TAG)
           K == KEY_LEN
           L == QUOTE_ENCODED_LEN
           cut == SubSeq(m, T + 1, T + K)
<1>1. /\ T \in Nat /\ K \in Nat /\ L \in Nat /\ p \in Seq(Bytes) /\ Len(p) = K
      /\ m \in Seq(Bytes) /\ Len(m) = T + K + L
      /\ \A i \in 1 .. K : m[T + i] = p[i]
  BY MessageParts, CodecConstants
<1> HIDE DEF m, T, K, L
<1>2. cut \in Seq(Bytes) /\ Len(cut) = K /\ \A i \in 1 .. K : cut[i] = m[T + i]
  BY <1>1
<1> HIDE DEF cut
<1>3. cut = p
  BY <1>1, <1>2
<1> QED BY <1>3 DEF cut, m, T, K

LEMMA QuoteIsRead ==
  ASSUME NEW p \in Keys, NEW q \in Quote
  PROVE  Decoded(RustMessage(p, q)) = q
<1> DEFINE m == RustMessage(p, q)
           K == KEY_LEN
           I == INT_LEN
           start == Len(MESSAGE_DOMAIN_TAG) + K
           c == [o |-> QUOTE_ENCODED_LEN, out |-> RustEncoding(q)]
           At(keys, ints, length) ==
             SubSeq(m, start + keys * K + ints * I + 1, start + keys * K + ints * I + length)
<1>1. K \in Nat /\ I \in Nat /\ Len(MESSAGE_DOMAIN_TAG) \in Nat
  BY CodecConstants
<1>2. \A key \in Keys : key \in Seq(Bytes) /\ Len(key) = K
  BY CodecConstants DEF Keys
<1>3. \A n \in Int : ToLeBytes(n) \in Seq(Bytes) /\ Len(ToLeBytes(n)) = I
  BY LeBytesType
<1>4. /\ q.payer \in Keys /\ q.merchant \in Keys /\ q.token \in Keys
      /\ q.ip_creator \in Keys /\ q.order_id_hash \in Keys /\ q.route_id \in Keys
      /\ q.gross_amount \in Unsigned /\ q.valid_until \in Signed /\ q.nonce \in Unsigned
      /\ q.gross_amount \in Int /\ q.valid_until \in Int /\ q.nonce \in Int
  BY CodecConstants DEF Quote, Unsigned, Signed
<1>5. /\ Holds(c, 0, q.payer) /\ Holds(c, K, q.merchant) /\ Holds(c, 2 * K, q.token)
      /\ Holds(c, 3 * K, ToLeBytes(q.gross_amount))
      /\ Holds(c, 3 * K + I, q.ip_creator)
      /\ Holds(c, 4 * K + I, ToLeBytes(q.valid_until))
      /\ Holds(c, 4 * K + 2 * I, q.order_id_hash)
      /\ Holds(c, 5 * K + 2 * I, ToLeBytes(q.nonce))
      /\ Holds(c, 5 * K + 3 * I, q.route_id)
  BY EncodingLayout
<1>6. \A off \in Nat, bytes \in Seq(Bytes) :
        Holds(c, off, bytes) => SubSeq(m, start + off + 1, start + off + Len(bytes)) = bytes
  BY FieldIsRead
<1>7. Decoded(m) =
        [payer |-> At(0, 0, K), merchant |-> At(1, 0, K), token |-> At(2, 0, K),
         gross_amount |-> Word(At(3, 0, I)), ip_creator |-> At(3, 1, K),
         valid_until |-> SignedWord(At(4, 1, I)), order_id_hash |-> At(4, 2, K),
         nonce |-> Word(At(5, 2, I)), route_id |-> At(5, 3, K)]
  BY DEF Decoded
<1>8. q = [payer |-> q.payer, merchant |-> q.merchant, token |-> q.token,
           gross_amount |-> q.gross_amount, ip_creator |-> q.ip_creator,
           valid_until |-> q.valid_until, order_id_hash |-> q.order_id_hash,
           nonce |-> q.nonce, route_id |-> q.route_id]
  BY DEF Quote
<1> HIDE DEF m, K, I, c
<1>11. At(0, 0, K) = q.payer
  <2>1. start + 0 * K + 0 * I = start + 0
    BY <1>1
  <2> QED BY <1>2, <1>4, <1>5, <1>6, <2>1
<1>12. At(1, 0, K) = q.merchant
  <2>1. start + 1 * K + 0 * I = start + K
    BY <1>1
  <2> QED BY <1>1, <1>2, <1>4, <1>5, <1>6, <2>1
<1>13. At(2, 0, K) = q.token
  <2>1. start + 2 * K + 0 * I = start + 2 * K /\ 2 * K \in Nat
    BY <1>1
  <2> QED BY <1>2, <1>4, <1>5, <1>6, <2>1
<1>14. At(3, 0, I) = ToLeBytes(q.gross_amount)
  <2>1. start + 3 * K + 0 * I = start + 3 * K /\ 3 * K \in Nat
    BY <1>1
  <2> QED BY <1>3, <1>4, <1>5, <1>6, <2>1
<1>15. At(3, 1, K) = q.ip_creator
  <2>1. start + 3 * K + 1 * I = start + (3 * K + I) /\ 3 * K + I \in Nat
    BY <1>1
  <2>2. q.ip_creator \in Seq(Bytes) /\ Len(q.ip_creator) = K
    BY <1>2, <1>4
  <2>3. SubSeq(m, start + (3 * K + I) + 1, start + (3 * K + I) + Len(q.ip_creator)) = q.ip_creator
    BY <1>5, <1>6, <2>1, <2>2
  <2> QED BY <2>1, <2>2, <2>3
<1>16. At(4, 1, I) = ToLeBytes(q.valid_until)
  <2>1. start + 4 * K + 1 * I = start + (4 * K + I) /\ 4 * K + I \in Nat
    BY <1>1
  <2> QED BY <1>3, <1>4, <1>5, <1>6, <2>1
<1>17. At(4, 2, K) = q.order_id_hash
  <2>1. start + 4 * K + 2 * I = start + (4 * K + 2 * I) /\ 4 * K + 2 * I \in Nat
    BY <1>1
  <2> QED BY <1>2, <1>4, <1>5, <1>6, <2>1
<1>18. At(5, 2, I) = ToLeBytes(q.nonce)
  <2>1. start + 5 * K + 2 * I = start + (5 * K + 2 * I) /\ 5 * K + 2 * I \in Nat
    BY <1>1
  <2> QED BY <1>3, <1>4, <1>5, <1>6, <2>1
<1>19. At(5, 3, K) = q.route_id
  <2>1. start + 5 * K + 3 * I = start + (5 * K + 3 * I) /\ 5 * K + 3 * I \in Nat
    BY <1>1
  <2> QED BY <1>2, <1>4, <1>5, <1>6, <2>1
<1>20. /\ Word(ToLeBytes(q.gross_amount)) = q.gross_amount
       /\ SignedWord(ToLeBytes(q.valid_until)) = q.valid_until
       /\ Word(ToLeBytes(q.nonce)) = q.nonce
  BY <1>4, IntegersComeBack
<1> HIDE DEF At
<1> QED BY <1>7, <1>8, <1>11, <1>12, <1>13, <1>14, <1>15, <1>16, <1>17, <1>18, <1>19, <1>20 DEF m

(* Whatever the quote and the program id, the signed bytes are read back   *)
(* as exactly that quote for exactly that program: the fields have fixed   *)
(* widths, so nothing can move from one into the next.                     *)
THEOREM SignedBytesDetermineQuote == CodecSpec => []MessageDeterminesQuote
<1>1. Answered => MessageDeterminesQuote
  <2> SUFFICES ASSUME Answered, result.kind = "encode", TypedCall PROVE MessageDeterminesQuote
    BY DEF MessageDeterminesQuote
  <2>1. call.program_id \in Keys /\ call.quote \in Quote
    BY DEF TypedCall
  <2>2. result.rust = RustMessage(call.program_id, call.quote)
    BY DEF Answered
  <2> QED BY <2>1, <2>2, ProgramIsRead, QuoteIsRead DEF MessageDeterminesQuote
<1> QED BY <1>1, AnsweredInvariant, PTL

-----------------------------------------------------------------------------
(* Signatures: the two verifiers, the two forms of s, the signer.          *)

LEMMA GroupConstants ==
  /\ N \in Nat /\ N > 2 /\ HALF_N \in Nat /\ N = 2 * HALF_N + 1 /\ N \div 2 = HALF_N
  /\ \A n \in 0 .. N : n \in 0 .. Power(BASE)[S_LEN]
  /\ \A n \in 0 .. N - 1 : n \in 0 .. Power(BASE)[S_LEN] - 1
BY HalfFits, SignatureAssumption

(* The check of the program, one condition after the other.                *)
LEMMA ProgramAccepts ==
  ASSUME NEW signature, signature.s \in 0 .. Power(BASE)[S_LEN] - 1, signature.v \in Nat,
         NEW digest, NEW signer
  PROVE  AcceptedOnChain(digest, signature, signer) <=>
           /\ signature.v \in {27, 28} /\ signature.s <= HALF_N
           /\ Recovered(digest, signature.r, signature.s, signature.v - 27) = signer
           /\ signer # NoKey
<1> DEFINE rec == Recovered(digest, signature.r, signature.s, signature.v - 27)
           high == IsHighS(ToBeBytes(signature.s))
<1>1. high <=> signature.s > HALF_N
  BY BytewiseIsNumeric
<1>2. HALF_N \in Nat /\ signature.s \in Nat
  BY HalfFits
<1>3. signature.v \in {27, 28} <=> signature.v >= 27 /\ signature.v - 27 <= 1
  OBVIOUS
<1>4. RecoverSignerVerdict(digest, signature) = Ok <=>
        signature.v >= 27 /\ signature.v - 27 <= 1 /\ ~high /\ rec # NoKey
  <2>1. \A cond, error \in {"InvalidSignature", "InvalidRecoveryId"} :
          Check(cond, error) = Ok <=> cond = TRUE
    BY DEF Check, Ok
  <2> HIDE DEF rec, high
  <2>2. RecoverSignerVerdict(digest, signature) = Ok <=>
          /\ Check(signature.v >= 27, "InvalidSignature") = Ok
          /\ Check(signature.v - 27 <= 1, "InvalidRecoveryId") = Ok
          /\ Check(~high, "InvalidSignature") = Ok
          /\ Check(rec # NoKey, "InvalidSignature") = Ok
    BY BothSucceed DEF RecoverSignerVerdict, rec, high
  <2> QED BY <2>2 DEF Check, Ok
<1>5. AcceptedOnChain(digest, signature, signer)
        <=> RecoverSignerVerdict(digest, signature) = Ok /\ rec = signer
  BY DEF AcceptedOnChain
<1> HIDE DEF rec, high
<1> QED BY <1>1, <1>2, <1>3, <1>4, <1>5 DEF rec

(* For every group of odd prime order and every size of s: the program     *)
(* compares the bytes of s and the signer's backend the number, and both   *)
(* accept the same signatures, whatever the signature.                     *)
THEOREM SameVerdictOnChain == CodecSpec => []VerifiersAgree
<1>1. Answered => VerifiersAgree
  <2> SUFFICES ASSUME Answered, result.kind = "verify" PROVE result.ts = result.rust
    BY DEF VerifiersAgree
  <2> DEFINE g == call.signature
             rec == Recovered(call.digest, g.r, g.s, g.v - 27)
  <2>1. /\ call.signer \in Scalars /\ g.s \in 0 .. Power(BASE)[S_LEN] - 1 /\ g.v \in Nat
    BY CodecCallsAssumption DEF Answered, VerifyCalls
  <2>2. g.s \in Nat /\ HALF_N \in Nat /\ call.signer # NoKey
    BY <2>1, HalfFits DEF Scalars, NoKey
  <2>3. AcceptedOnChain(call.digest, g, call.signer) <=>
          g.v \in {27, 28} /\ g.s <= HALF_N /\ rec = call.signer /\ call.signer # NoKey
    BY <2>1, ProgramAccepts
  <2>4. AcceptedOffChain(call.digest, g, call.signer) <=>
          g.v - 27 \in {0, 1} /\ ~(g.s > HALF_N) /\ rec # NoKey /\ rec = call.signer
    BY DEF AcceptedOffChain, TsIsHighS
  <2>5. g.v \in {27, 28} <=> g.v - 27 \in {0, 1}
    BY <2>1
  <2>6. g.s <= HALF_N <=> ~(g.s > HALF_N)
    BY <2>2
  <2>7. AcceptedOnChain(call.digest, g, call.signer) <=> AcceptedOffChain(call.digest, g, call.signer)
    <3> HIDE DEF g, rec
    <3> QED BY <2>2, <2>3, <2>4, <2>5, <2>6
  <2>8. AcceptedOnChain(call.digest, g, call.signer) = AcceptedOffChain(call.digest, g, call.signer)
    BY <2>7 DEF AcceptedOnChain, AcceptedOffChain
  <2> QED BY <2>8 DEF Answered
<1> QED BY <1>1, AnsweredInvariant, PTL

-----------------------------------------------------------------------------
(* Arithmetic modulo N.                                                    *)
LEMMA SameRest ==
  ASSUME NEW a \in Int, NEW k \in Int
  PROVE  (a + k * N) % N = a % N
<1> DEFINE q == a \div N
<1>1. N \in Nat \ {0}
  BY GroupConstants
<1>2. q \in Int /\ q * N <= a /\ a < (q + 1) * N /\ a % N = a - q * N
  BY <1>1
<1> HIDE DEF q
<1> DEFINE x == k * N
           y == q * N
           b == a + x
<1>3. x \in Int /\ y \in Int /\ (q + k) * N = y + x /\ (q + 1) * N = y + N
  BY <1>1, <1>2
<1>4. ((q + k) + 1) * N = y + x + N
  BY <1>1, <1>2
<1>5. y <= a /\ a < y + N /\ a % N = a - y
  BY <1>2, <1>3
<1> HIDE DEF x, y
<1>6. b \in Int /\ (q + k) * N <= b /\ b < ((q + k) + 1) * N /\ b - (q + k) * N = a - y
  BY <1>1, <1>3, <1>4, <1>5
<1> HIDE DEF b
<1>7. b \div N = q + k
  BY <1>1, <1>2, <1>6
<1>8. b % N = b - (b \div N) * N
  BY <1>1, <1>6
<1> QED BY <1>5, <1>6, <1>7, <1>8 DEF b, x

LEMMA RestsCombine ==
  ASSUME NEW a \in Int, NEW b \in Int, a % N = b % N, NEW c \in Int
  PROVE  /\ (a * c) % N = (b * c) % N
         /\ (c * a) % N = (c * b) % N
         /\ (a - c) % N = (b - c) % N
<1>1. N \in Nat \ {0}
  BY GroupConstants
<1> DEFINE k == (a \div N) - (b \div N)
<1>2. k \in Int /\ a = b + k * N
  <2> DEFINE p == a \div N
             q == b \div N
  <2>1. p \in Int /\ q \in Int /\ a % N = a - p * N /\ b % N = b - q * N
    BY <1>1
  <2> HIDE DEF p, q
  <2>2. (p - q) * N = p * N - q * N
    BY <1>1, <2>1
  <2>3. p * N \in Int /\ q * N \in Int
    BY <1>1, <2>1
  <2> QED BY <2>1, <2>2, <2>3 DEF p, q
<1> HIDE DEF k
<1>3. a * c = b * c + (k * c) * N /\ k * c \in Int /\ b * c \in Int
  BY <1>1, <1>2
<1>4. c * a = a * c /\ c * b = b * c
  OBVIOUS
<1>5. a - c = (b - c) + k * N /\ b - c \in Int
  BY <1>1, <1>2
<1> QED BY <1>2, <1>3, <1>4, <1>5, SameRest

LEMMA Inverses ==
  ASSUME NEW a \in Scalars
  PROVE  InverseOf(a) \in Scalars /\ (a * InverseOf(a)) % N = 1
BY SignatureAssumption DEF InverseOf

(* The two points of an x coordinate are r and N - r.                      *)
LEMMA PointOfX ==
  ASSUME NEW digest, NEW r \in Int, NEW s, NEW id \in {0, 1}
  PROVE  Recovered(digest, r, s, id) =
           IF r \in 1 .. HALF_N /\ s \in Scalars
           THEN (InverseOf(r) * (s * (IF id = 0 THEN r ELSE N - r) - digest)) % N
           ELSE NoKey
<1> DEFINE point == IF id = 0 THEN r ELSE N - r
           IsPoint(p) == XCoordinate(p) = r /\ Parity(p) = id
<1>1. /\ N \in Nat /\ HALF_N \in Nat /\ N = 2 * HALF_N + 1 /\ N \div 2 = HALF_N
  BY GroupConstants
<1>2. \A p \in Scalars : XCoordinate(p) = r => r \in 1 .. HALF_N
  BY <1>1 DEF XCoordinate, Scalars
<1>3. ASSUME r \in 1 .. HALF_N
      PROVE  /\ r \in Scalars /\ point \in Scalars /\ IsPoint(point)
             /\ \A p \in Scalars : IsPoint(p) => p = point
  BY <1>1, <1>3 DEF XCoordinate, Parity, Scalars
<1>4. CASE r \in 1 .. HALF_N /\ s \in Scalars
  <2>1. (CHOOSE p \in Scalars : IsPoint(p)) = point
    <3> HIDE DEF point, IsPoint
    <3> QED BY <1>3, <1>4
  <2>2. \E p \in Scalars : XCoordinate(p) = r
    BY <1>3, <1>4
  <2>3. r \in Scalars
    BY <1>3, <1>4
  <2> DEFINE chosen == CHOOSE p \in Scalars : IsPoint(p)
  <2>4. Recovered(digest, r, s, id) = (InverseOf(r) * (s * chosen - digest)) % N
    <3> HIDE DEF point
    <3> QED BY <1>4, <2>2, <2>3 DEF Recovered
  <2> HIDE DEF chosen, IsPoint, point
  <2>5. Recovered(digest, r, s, id) = (InverseOf(r) * (s * point - digest)) % N
    BY <2>1, <2>4 DEF chosen
  <2> QED BY <1>4, <2>5 DEF point
<1>5. CASE ~(r \in 1 .. HALF_N /\ s \in Scalars)
  BY <1>2, <1>5 DEF Recovered
<1> QED BY <1>4, <1>5

(* Mirroring s and taking the other point recovers the same key.           *)
LEMMA TwinsRecoverTheSame ==
  ASSUME NEW digest \in Digests, NEW r \in Int, NEW s \in Scalars, NEW id \in {0, 1}
  PROVE  Recovered(digest, r, N - s, 1 - id) = Recovered(digest, r, s, id)
<1>1. N \in Nat /\ N > 2 /\ HALF_N \in Nat /\ N = 2 * HALF_N + 1
  BY GroupConstants
<1>2. s \in Int /\ digest \in Int /\ N - s \in Scalars /\ 1 - id \in {0, 1}
  BY <1>1 DEF Scalars, Digests
<1>3. CASE r \in 1 .. HALF_N
  <2> DEFINE p == IF id = 0 THEN r ELSE N - r
             w == InverseOf(r)
  <2>1. p \in Int /\ (IF 1 - id = 0 THEN r ELSE N - r) = N - p
    BY <1>1
  <2>2. w \in Int
    BY <1>1, <1>3, Inverses DEF Scalars
  <2>3. Recovered(digest, r, s, id) = (w * (s * p - digest)) % N
    BY <1>3, PointOfX
  <2>4. Recovered(digest, r, N - s, 1 - id) = (w * ((N - s) * (N - p) - digest)) % N
    BY <1>2, <1>3, <2>1, PointOfX
  <2> HIDE DEF p, w
  <2>5. (N - s) * (N - p) = s * p + (N - s - p) * N
    BY <1>1, <1>2, <2>1
  <2> DEFINE k == N - s - p
             e == s * p - digest
  <2>6. k \in Int /\ e \in Int /\ (N - s) * (N - p) - digest = e + k * N
    BY <1>1, <1>2, <2>1, <2>5
  <2> HIDE DEF k, e
  <2>7. (e + k * N) % N = e % N /\ e + k * N \in Int
    <3>1. k * N \in Int
      BY <1>1, <2>6
    <3> QED BY <2>6, <3>1, SameRest
  <2>8. (w * (e + k * N)) % N = (w * e) % N
    BY <2>2, <2>6, <2>7, RestsCombine
  <2> QED BY <2>3, <2>4, <2>6, <2>8 DEF e
<1>4. CASE ~(r \in 1 .. HALF_N)
  BY <1>2, <1>4, PointOfX
<1> QED BY <1>3, <1>4

(* For every group of odd prime order: mirroring s never makes a second    *)
(* accepted signature of an accepted one, and of any signature that        *)
(* recovers to the signer one of the two forms is accepted, since HALF_N   *)
(* lies between s and N - s.                                               *)
THEOREM NoSecondSignature == CodecSpec => []OneOfTwinsIsAccepted
<1>1. Answered => OneOfTwinsIsAccepted
  <2> SUFFICES ASSUME Answered, result.kind = "verify", call.signature.s \in Scalars,
                      call.signature.v \in {27, 28}
               PROVE  OneOfTwinsIsAccepted
    BY DEF OneOfTwinsIsAccepted
  <2> DEFINE g == call.signature
             twin == [g EXCEPT !.s = N - @, !.v = 55 - @]
             rec == Recovered(call.digest, g.r, g.s, g.v - 27)
             c == call.signer
  <2>1. /\ c \in Scalars /\ call.digest \in Digests
        /\ g \in [r : 0 .. N, s : 0 .. Power(BASE)[S_LEN] - 1, v : RecoveryBytes]
    BY DEF Answered, VerifyCalls
  <2>2. /\ N \in Nat /\ HALF_N \in Nat /\ N = 2 * HALF_N + 1
        /\ g.s \in 1 .. N - 1 /\ g.v \in {27, 28} /\ g.r \in Int /\ c # NoKey
    BY <2>1, GroupConstants DEF Scalars, NoKey
  <2>3. twin.r = g.r /\ twin.s = N - g.s /\ twin.v = 55 - g.v
    BY <2>1
  <2> HIDE DEF g, c
  <2>4. /\ g.s \in 0 .. Power(BASE)[S_LEN] - 1 /\ twin.s \in 0 .. Power(BASE)[S_LEN] - 1
        /\ g.v \in Nat /\ twin.v \in Nat
    BY <2>2, <2>3, GroupConstants
  <2>5. AcceptedOnChain(call.digest, g, c) <=>
          g.v \in {27, 28} /\ g.s <= HALF_N /\ rec = c /\ c # NoKey
    BY <2>4, ProgramAccepts
  <2>6. AcceptedOnChain(call.digest, twin, c) <=>
          /\ twin.v \in {27, 28} /\ twin.s <= HALF_N
          /\ Recovered(call.digest, twin.r, twin.s, twin.v - 27) = c /\ c # NoKey
    <3> HIDE DEF twin
    <3> QED BY <2>4, ProgramAccepts
  <2>7. Recovered(call.digest, twin.r, twin.s, twin.v - 27) = rec
    <3>1. g.v - 27 \in {0, 1} /\ twin.v - 27 = 1 - (g.v - 27) /\ g.s \in Scalars
      BY <2>2, <2>3 DEF Scalars
    <3> HIDE DEF twin
    <3> QED BY <2>1, <2>2, <2>3, <3>1, TwinsRecoverTheSame
  <2>8. twin.v \in {27, 28}
    BY <2>2, <2>3
  <2> HIDE DEF rec
  <2>9. /\ ~(g.s <= HALF_N /\ twin.s <= HALF_N)
        /\ g.s <= HALF_N \/ twin.s <= HALF_N
    BY <2>2, <2>3
  <2> QED BY <2>2, <2>5, <2>6, <2>7, <2>8, <2>9 DEF OneOfTwinsIsAccepted, g, c, rec
<1> QED BY <1>1, AnsweredInvariant, PTL

-----------------------------------------------------------------------------
(* The signature as ECDSA makes it recovers to the public key with the     *)
(* point of the nonce.                                                     *)
LEMMA RawSignatureRecovers ==
  ASSUME NEW d \in Scalars, NEW digest \in Digests, NEW k \in Scalars, RawS(d, digest, k) # 0
  PROVE  /\ RawS(d, digest, k) \in Scalars
         /\ XCoordinate(k) \in 1 .. HALF_N /\ Parity(k) \in {0, 1}
         /\ Recovered(digest, XCoordinate(k), RawS(d, digest, k), Parity(k)) = d
<1> DEFINE r == XCoordinate(k)
           u == InverseOf(k)
           w == InverseOf(r)
           E == digest + r * d
           A == u * E
           raw == RawS(d, digest, k)
<1>1. /\ N \in Nat /\ N > 2 /\ HALF_N \in Nat /\ N = 2 * HALF_N + 1 /\ N \div 2 = HALF_N
  BY GroupConstants
<1>2. d \in 1 .. N - 1 /\ k \in 1 .. N - 1 /\ digest \in 0 .. N - 1
  BY DEF Scalars, Digests
<1>3. r \in 1 .. HALF_N /\ Parity(k) \in {0, 1} /\ (IF Parity(k) = 0 THEN r ELSE N - r) = k
  BY <1>1, <1>2 DEF XCoordinate, Parity
<1>4. u \in Int /\ (k * u) % N = 1
  BY <1>1, Inverses DEF Scalars
<1>5. w \in Int /\ (r * w) % N = 1
  <2>1. r \in Scalars
    BY <1>1, <1>3 DEF Scalars
  <2> HIDE DEF r
  <2> QED BY <1>1, <2>1, Inverses DEF Scalars
<1>6. raw = A % N
  BY DEF RawS
<1> HIDE DEF r, u, w
<1>7. r * d \in Int /\ E \in Int
  BY <1>1, <1>2, <1>3
<1> HIDE DEF E
<1>8. A \in Int
  BY <1>4, <1>7
<1> HIDE DEF A
<1>9. raw \in 1 .. N - 1 /\ raw % N = A % N
  <2>1. A % N \in 0 .. N - 1
    BY <1>1, <1>8
  <2>2. \A n \in 0 .. N - 1 : n % N = n
    BY <1>1
  <2>3. raw # 0
    OBVIOUS
  <2> HIDE DEF raw
  <2> QED BY <1>1, <1>6, <2>1, <2>2, <2>3
<1> HIDE DEF raw
<1>10. (raw * k) % N = (A * k) % N
  BY <1>2, <1>8, <1>9, RestsCombine
<1>11. A * k = (k * u) * E /\ k * u \in Int
  BY <1>2, <1>4, <1>7 DEF A
<1>12. ((k * u) * E) % N = (1 * E) % N
  <2>1. (k * u) % N = 1 % N
    BY <1>1, <1>4
  <2> QED BY <1>7, <1>11, <2>1, RestsCombine
<1>13. (raw * k - digest) % N = (r * d) % N
  <2>1. (raw * k) % N = E % N /\ raw * k \in Int
    BY <1>2, <1>7, <1>9, <1>10, <1>11, <1>12
  <2>2. (raw * k - digest) % N = (E - digest) % N
    BY <1>2, <1>7, <2>1, RestsCombine
  <2>3. E - digest = r * d
    BY <1>2, <1>7 DEF E
  <2> QED BY <2>2, <2>3
<1>14. (w * (raw * k - digest)) % N = (w * (r * d)) % N
  <2>1. raw * k - digest \in Int
    BY <1>2, <1>9
  <2> QED BY <1>5, <1>7, <1>13, <2>1, RestsCombine
<1>15. w * (r * d) = (r * w) * d /\ r * w \in Int
  BY <1>2, <1>3, <1>5
<1>16. ((r * w) * d) % N = d
  <2>1. (r * w) % N = 1 % N /\ (1 * d) % N = d
    BY <1>1, <1>2, <1>5
  <2>2. ((r * w) * d) % N = (1 * d) % N
    BY <1>2, <1>15, <2>1, RestsCombine
  <2> QED BY <2>1, <2>2
<1>17. Recovered(digest, r, raw, Parity(k)) = (w * (raw * k - digest)) % N
  <2>1. raw \in Scalars
    BY <1>9 DEF Scalars
  <2> QED BY <1>1, <1>3, <2>1, PointOfX DEF w
<1>18. raw \in Scalars
  BY <1>9 DEF Scalars
<1> QED BY <1>3, <1>14, <1>15, <1>16, <1>17, <1>18 DEF r, raw

(* One of the two trials of attachRecoveryId finds the key.                *)
LEMMA LowSignatureRecovers ==
  ASSUME NEW d \in Scalars, NEW digest \in Digests, NEW k \in Scalars, RawS(d, digest, k) # 0
  PROVE  LET compact == Compact(d, digest, k)
         IN  /\ compact.s \in 1 .. HALF_N /\ compact.s \in Scalars
             /\ \E id \in {0, 1} : Recovered(digest, compact.r, compact.s, id) = d
<1> DEFINE raw == RawS(d, digest, k)
           r == XCoordinate(k)
           id == Parity(k)
           compact == Compact(d, digest, k)
<1>1. /\ N \in Nat /\ HALF_N \in Nat /\ N = 2 * HALF_N + 1
  BY GroupConstants
<1>2. /\ raw \in Scalars /\ r \in 1 .. HALF_N /\ id \in {0, 1}
      /\ Recovered(digest, r, raw, id) = d
  BY RawSignatureRecovers
<1>3. compact.r = r /\ compact.s = IF raw > HALF_N THEN N - raw ELSE raw
  BY DEF Compact, TsIsHighS
<1> HIDE DEF raw, r, id, compact
<1>4. raw \in 1 .. N - 1
  BY <1>2 DEF Scalars
<1>5. compact.s \in 1 .. HALF_N /\ compact.s \in Scalars
  BY <1>1, <1>3, <1>4 DEF Scalars
<1>6. CASE raw > HALF_N
  <2>1. Recovered(digest, r, N - raw, 1 - id) = d
    BY <1>2, TwinsRecoverTheSame
  <2>2. 1 - id \in {0, 1}
    BY <1>2
  <2> QED BY <1>3, <1>5, <1>6, <2>1, <2>2 DEF compact
<1>7. CASE ~(raw > HALF_N)
  BY <1>2, <1>3, <1>5, <1>7 DEF compact
<1> QED BY <1>6, <1>7

(* For every group of odd prime order, every key, digest and nonce: what   *)
(* signDigest returns is accepted by the program as the signature of that  *)
(* key; it fails only where its first trial recovers the point at          *)
(* infinity, never for want of a recovery id.                              *)
THEOREM EverySignatureIsAccepted == CodecSpec => []SignedQuotesVerify
<1>1. Answered => SignedQuotesVerify
  <2> SUFFICES ASSUME Answered, result.kind = "sign" PROVE SignedQuotesVerify
    BY DEF SignedQuotesVerify
  <2> DEFINE d == call.d
             digest == call.digest
             k == call.k
             compact == Compact(d, digest, k)
             id == RecoveryId(d, digest, compact)
             trial(n) == Recovered(digest, compact.r, compact.s, n)
             g == SignDigest(d, digest, k)
  <2>1. d \in Scalars /\ digest \in Digests /\ k \in Scalars /\ RawS(d, digest, k) # 0
    BY DEF Answered, SignCalls
  <2>2. /\ result.verdict = SignDigestVerdict(d, digest, k)
        /\ result.signature = g
    BY DEF Answered
  <2>3. /\ compact.s \in 1 .. HALF_N /\ compact.s \in Scalars
        /\ \E n \in {0, 1} : trial(n) = d
    BY <2>1, LowSignatureRecovers
  <2>4. id = IF trial(0) = d THEN 0 ELSE 1
    BY DEF RecoveryId
  <2>5. SignDigestVerdict(d, digest, k)
          = (Check(trial(0) # NoKey, "InvalidPoint") ?? Check(trial(id) = d, "RecoveryIdNotFound"))
    BY DEF SignDigestVerdict
  <2>6. g = [r |-> compact.r, s |-> compact.s, v |-> 27 + id]
    BY DEF SignDigest
  <2> HIDE DEF id, g, compact
  <2>7. trial(id) = d /\ id \in {0, 1}
    BY <2>3, <2>4
  <2>8. result.verdict = Ok <=> trial(0) # NoKey
    <3> HIDE DEF trial, d, digest, k
    <3> QED BY <2>2, <2>5, <2>7, BothSucceed DEF Check, Ok
  <2>9. /\ g.r = compact.r /\ g.s = compact.s /\ g.v = 27 + id /\ g.v - 27 = id
        /\ g.v \in {27, 28}
    BY <2>6, <2>7
  <2>10. d # NoKey /\ HALF_N \in Nat /\ N \in Nat
    BY <2>1, GroupConstants DEF Scalars, NoKey
  <2>11. g.s \in 0 .. Power(BASE)[S_LEN] - 1 /\ g.v \in Nat /\ g.s <= HALF_N
    BY <2>3, <2>9, <2>10, GroupConstants DEF Scalars
  <2>12. Recovered(digest, g.r, g.s, g.v - 27) = d
    BY <2>7, <2>9
  <2>13. AcceptedOnChain(digest, g, d)
    BY <2>9, <2>10, <2>11, <2>12, ProgramAccepts
  <2>14. ~(result.verdict = Ok) => Recovered(digest, g.r, g.s, 0) = NoKey
    BY <2>8, <2>9
  <2> QED BY <2>2, <2>13, <2>14 DEF SignedQuotesVerify
<1> QED BY <1>1, AnsweredInvariant, PTL
=============================================================================
