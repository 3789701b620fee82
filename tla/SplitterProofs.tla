-------------------------- MODULE SplitterProofs --------------------------
(***************************************************************************)
(* For every set of keys, routes, payers and transactions, every bound and *)
(* every interleaving: the program's invariants, from one inductive        *)
(* invariant that joins those of its components.                           *)
(***************************************************************************)
EXTENDS Splitter, RegistryProofs

-----------------------------------------------------------------------------
(* Settlement: what one that succeeds has checked, and what its writes do  *)
(* to the payer's nonce, the markers, the events and the balances.         *)

SettleType ==
  /\ payer_nonce \in [Payers -> [payer : Pubkeys, nonce : 0 .. MAX_NONCE]]
  /\ consumed \in [Payers -> SUBSET (0 .. MAX_NONCE)]
  /\ payments \in [Payers -> Seq(PaymentType)]
  /\ balance \in [Accounts -> Nat]

(* The nonce accounts are addresses the program derives: nobody signs for  *)
(* them, and they hold no tokens.                                          *)
LEMMA NonceAccountsAreNobodys ==
  ASSUME NEW p \in Payers, NEW n \in 0 .. MAX_NONCE
  PROVE  /\ NONCE_PDA[p] \in Accounts /\ MARKER_PDA[p][n] \in Accounts
         /\ NONCE_PDA[p] \notin Payers \cup DOMAIN TOKEN
         /\ MARKER_PDA[p][n] \notin Payers \cup DOMAIN TOKEN
         /\ NONCE_PDA[p] # MARKER_PDA[p][n]
<1>1. MARKER_PDA[p] \in [0 .. MAX_NONCE -> NobodysWallet] /\ NONCE_PDA[p] \in NobodysWallet
  BY SettlementAssumption
<1> QED BY <1>1, SettlementAssumption DEF NobodysWallet

-----------------------------------------------------------------------------
(* A quote verify_quote_core has accepted.                                 *)
Verified(quote, recovered, payer) ==
  /\ recovered # ZERO_KEY /\ recovered = config.signer
  /\ Fresh(quote)
  /\ quote.payer = payer
  /\ RouteExists(quote.route_id) /\ Profile(quote.route_id).enabled
  /\ quote.nonce = payer_nonce[payer].nonce
  /\ quote.nonce \notin consumed[payer]
  /\ quote.nonce < MAX_NONCE

LEMMA VerifiedQuote ==
  ASSUME NEW quote, NEW recovered, NEW payer, VerifyQuote(quote, recovered, payer) = Ok
  PROVE  Verified(quote, recovered, payer)
<1>1. NonceVerdict(quote, payer) = Ok /\ FindRoute(quote.route_id) = Ok
  BY BothSucceed DEF VerifyQuote, QuoteVerdict
<1>2. /\ recovered # ZERO_KEY /\ recovered = config.signer /\ Fresh(quote)
      /\ quote.payer = payer /\ Profile(quote.route_id).enabled
  BY BothSucceed DEF VerifyQuote, QuoteVerdict, Check, Ok
<1>3. RouteExists(quote.route_id)
  BY <1>1 DEF FindRoute, Check, Ok
<1>4. /\ quote.nonce = payer_nonce[payer].nonce /\ quote.nonce \notin consumed[payer]
      /\ quote.nonce < MAX_NONCE
  BY <1>1, BothSucceed DEF NonceVerdict, Check, Ok
<1> QED BY <1>2, <1>3, <1>4 DEF Verified

(* A payment that is about to be written: its quote is verified, its legs  *)
(* are those of the route in force, and the accounts it takes from hold    *)
(* enough for the gross amount and for the rent of the nonce accounts.     *)
Payable(payment, recovered, payer) ==
  /\ ~config.is_paused
  /\ Verified(payment.quote, recovered, payer)
  /\ SplitQuote(payment.quote) = Ok
  /\ payment.legs = Legs(payment.quote)
  /\ payment.quote \in Quotes /\ payment.from \in Accounts
  /\ payment.merchant \in Accounts /\ payment.treasury \in Accounts
  /\ payment.ip_creator \in Accounts \cup {NONE}
  /\ payment.rent = Rent(payer, payment.quote.nonce)
  /\ balance[payer] >= Total(payment.rent)
  /\ IF payment.from = payer
     THEN balance[payer] - Total(payment.rent) >= payment.quote.gross_amount
     ELSE balance[payment.from] >= payment.quote.gross_amount

LEMMA NativeIsPayable ==
  ASSUME NEW tx \in NativeTxs, NativeVerdict(tx) = Ok
  PROVE  Payable(NativePayment(tx), tx.recovered, tx.payer)
<1>1. tx \in NativeTxType /\ Payers \subseteq Accounts
  BY SettlementAssumption
<1>2. /\ NonceAccounts(tx.payer, tx.nonce) = Ok /\ NativeAccountsVerdict(tx) = Ok
      /\ VerifyQuote(tx.quote, tx.recovered, tx.payer) = Ok
      /\ NativeTransfersVerdict(tx) = Ok
  BY BothSucceed DEF NativeVerdict
<1>3. ~config.is_paused /\ tx.quote.nonce = tx.nonce
  BY <1>2, BothSucceed DEF NativeAccountsVerdict, Check, Ok
<1>4. balance[tx.payer] >= Total(Rent(tx.payer, tx.nonce))
  BY <1>2 DEF NonceAccounts, Check, Ok
<1>5. /\ balance[tx.payer] - Total(Rent(tx.payer, tx.nonce)) >= tx.quote.gross_amount
      /\ SplitQuote(tx.quote) = Ok
  BY <1>2, BothSucceed DEF NativeTransfersVerdict, Check, Ok
<1>6. Verified(tx.quote, tx.recovered, tx.payer)
  BY <1>2, VerifiedQuote
<1>7. /\ tx.quote \in Quotes /\ tx.payer \in Accounts /\ tx.merchant \in Accounts
      /\ tx.treasury \in Accounts /\ tx.ip_creator \in Accounts
  BY <1>1 DEF NativeTxType
<1> QED BY <1>3, <1>4, <1>5, <1>6, <1>7 DEF Payable, NativePayment

LEMMA StableIsPayable ==
  ASSUME NEW tx \in StableTxs, StableVerdict(tx) = Ok
  PROVE  Payable(StablePayment(tx), tx.recovered, tx.payer)
<1>1. tx \in StableTxType /\ Payers \subseteq Accounts
  BY SettlementAssumption
<1>2. /\ NonceAccounts(tx.payer, tx.nonce) = Ok /\ StableAccountsVerdict(tx) = Ok
      /\ VerifyQuote(tx.quote, tx.recovered, tx.payer) = Ok
      /\ StableTransfersVerdict(tx) = Ok
  BY BothSucceed DEF StableVerdict
<1>3. /\ ~config.is_paused /\ tx.quote.nonce = tx.nonce /\ Len(tx.remaining) >= 3
      /\ \A i \in DOMAIN tx.remaining : tx.remaining[i] # tx.payer
  BY <1>2, BothSucceed DEF StableAccountsVerdict, Check, Ok
<1>4. balance[tx.payer] >= Total(Rent(tx.payer, tx.nonce))
  BY <1>2 DEF NonceAccounts, Check, Ok
<1>5. /\ balance[tx.remaining[1]] >= tx.quote.gross_amount
      /\ SplitQuote(tx.quote) = Ok
  BY <1>2, BothSucceed DEF StableTransfersVerdict, Check, Ok
<1>6. Verified(tx.quote, tx.recovered, tx.payer)
  BY <1>2, VerifiedQuote
<1>7. tx.remaining \in Seq(Accounts) /\ tx.quote \in Quotes
  BY <1>1 DEF StableTxType
<1>8. /\ tx.remaining[1] \in Accounts /\ tx.remaining[1] # tx.payer
      /\ tx.remaining[2] \in Accounts /\ tx.remaining[3] \in Accounts
      /\ IpAta(tx) \in Accounts \cup {NONE}
  BY <1>3, <1>7, LenProperties, ElementOfSeq DEF IpAta
<1> QED BY <1>3, <1>4, <1>5, <1>6, <1>7, <1>8 DEF Payable, StablePayment

(* A payment whose accounts are those its quote and the config in force    *)
(* call for, each holding the quote's asset.                               *)
Addressed(payment) ==
  LET quote == payment.quote
      token == payment.quote.token
  IN  /\ Holds(payment.from, quote.payer, token)
      /\ Holds(payment.merchant, quote.merchant, token)
      /\ Holds(payment.treasury, EffectiveTreasury(quote.route_id), token)
      /\ payment.legs.ip_creator > 0 => Holds(payment.ip_creator, quote.ip_creator, token)
      /\ token # DEFAULT => IsAllowed(token)

LEMMA NativeIsAddressed ==
  ASSUME NEW tx \in NativeTxs, NativeVerdict(tx) = Ok
  PROVE  Addressed(NativePayment(tx))
<1>1. /\ NativeAccountsVerdict(tx) = Ok
      /\ VerifyQuote(tx.quote, tx.recovered, tx.payer) = Ok
      /\ NativeTransfersVerdict(tx) = Ok
  BY BothSucceed DEF NativeVerdict
<1>2. tx.quote.token = DEFAULT /\ tx.merchant = tx.quote.merchant
  BY <1>1, BothSucceed DEF NativeAccountsVerdict, Check, Ok
<1>3. /\ tx.treasury = EffectiveTreasury(tx.quote.route_id)
      /\ Legs(tx.quote).ip_creator > 0 => tx.ip_creator = tx.quote.ip_creator
  BY <1>1, BothSucceed DEF NativeTransfersVerdict, Check, Ok
<1>4. tx.quote.payer = tx.payer
  BY <1>1, VerifiedQuote DEF Verified
<1> QED BY <1>2, <1>3, <1>4 DEF Addressed, NativePayment, Holds

LEMMA TokenAccountHolds ==
  ASSUME NEW a, NEW token, NEW owner, TokenAccount(a, token, owner) = Ok, token # DEFAULT
  PROVE  Holds(a, owner, token)
  BY BothSucceed DEF TokenAccount, Holds, Check, Ok

LEMMA StableIsAddressed ==
  ASSUME NEW tx \in StableTxs, StableVerdict(tx) = Ok
  PROVE  Addressed(StablePayment(tx))
<1>1. /\ StableAccountsVerdict(tx) = Ok
      /\ VerifyQuote(tx.quote, tx.recovered, tx.payer) = Ok
      /\ StableTransfersVerdict(tx) = Ok
  BY BothSucceed DEF StableVerdict
<1>2. /\ IsAllowed(tx.mint) /\ tx.quote.token # DEFAULT /\ tx.quote.token = tx.mint
  BY <1>1, BothSucceed DEF StableAccountsVerdict, Check, Ok
<1>3. /\ TokenAccount(tx.remaining[1], tx.mint, tx.payer) = Ok
      /\ TokenAccount(tx.remaining[2], tx.mint, tx.quote.merchant) = Ok
      /\ TokenAccount(tx.remaining[3], tx.mint, EffectiveTreasury(tx.quote.route_id)) = Ok
  BY <1>1, BothSucceed DEF StableAccountsVerdict, Check, Ok
<1>4. Legs(tx.quote).ip_creator > 0 => TokenAccount(IpAta(tx), tx.mint, tx.quote.ip_creator) = Ok
  <2>1. (IF Legs(tx.quote).ip_creator = 0 THEN Ok
         ELSE    Check(Len(tx.remaining) >= 4, "MissingIPCreator")
              ?? TokenAccount(IpAta(tx), tx.mint, tx.quote.ip_creator)
              ?? Unfrozen(tx, {IpAta(tx)})) = Ok
    BY <1>1, BothSucceed DEF StableTransfersVerdict
  <2> QED BY <2>1, BothSucceed
<1>5. tx.quote.payer = tx.payer
  BY <1>1, VerifiedQuote DEF Verified
<1> QED BY <1>2, <1>3, <1>4, <1>5, TokenAccountHolds DEF Addressed, StablePayment

-----------------------------------------------------------------------------
(* A payment whose four parties are four different accounts, the royalty   *)
(* possibly due to nobody.                                                 *)
Apart(payment) ==
  /\ payment.from # payment.merchant /\ payment.from # payment.treasury
  /\ payment.merchant # payment.treasury
  /\ payment.ip_creator \notin {payment.from, payment.merchant, payment.treasury}

Separate(payment) ==
  /\ Apart(payment)
  /\ payment.ip_creator = NONE => payment.legs.ip_creator = 0

(* settle_native counts the distinct recipients; three of three means that *)
(* no two are the same.                                                    *)
LEMMA ThreeAreDistinct ==
  ASSUME NEW a, NEW b, NEW c, Cardinality({a, b, c}) = 3
  PROVE  a # b /\ b # c /\ a # c
<1>1. \A x, y : Cardinality({x, y}) # 3
  <2> SUFFICES ASSUME NEW x, NEW y PROVE Cardinality({x, y}) # 3
    OBVIOUS
  <2>1. IsFiniteSet({x}) /\ Cardinality({x}) = 1
    BY FS_Singleton
  <2>2. Cardinality({x} \cup {y}) = IF y \in {x} THEN Cardinality({x}) ELSE Cardinality({x}) + 1
    BY <2>1, FS_AddElement
  <2>3. {x} \cup {y} = {x, y}
    OBVIOUS
  <2> QED BY <2>1, <2>2, <2>3
<1>2. /\ a = b => {a, b, c} = {a, c}
      /\ b = c => {a, b, c} = {a, b}
      /\ a = c => {a, b, c} = {a, b}
  OBVIOUS
<1> QED BY <1>1, <1>2

(* The accounts a settlement names are settled before the quote is looked  *)
(* at, and the nonce accounts are not among those that pay.                *)
LEMMA NativeIsApart ==
  ASSUME NEW tx \in NativeTxs, NativeAccountsVerdict(tx) = Ok
  PROVE  /\ Apart(NativePayment(tx))
         /\ tx.payer \in Payers /\ tx.quote \in Quotes /\ tx.quote.nonce = tx.nonce
         /\ {tx.payer, tx.merchant, tx.treasury, tx.ip_creator} \subseteq Accounts
         /\ tx.nonce \in 0 .. MAX_NONCE
         /\ tx.payer \notin {NONCE_PDA[tx.payer], MARKER_PDA[tx.payer][tx.nonce]}
<1>1. /\ tx.payer \notin {tx.merchant, tx.treasury, tx.ip_creator}
      /\ Cardinality({tx.merchant, tx.treasury, tx.ip_creator}) = 3
      /\ tx.quote.nonce = tx.nonce
  BY BothSucceed DEF NativeAccountsVerdict, Check, Ok
<1>2. /\ tx.payer \in Payers /\ tx.quote \in Quotes
      /\ {tx.payer, tx.merchant, tx.treasury, tx.ip_creator} \subseteq Accounts
      /\ tx.nonce \in 0 .. MAX_NONCE
  BY SettlementAssumption DEF NativeTxType
<1>3. tx.payer \notin {NONCE_PDA[tx.payer], MARKER_PDA[tx.payer][tx.nonce]}
  BY <1>2, NonceAccountsAreNobodys
<1> QED BY <1>1, <1>2, <1>3, ThreeAreDistinct DEF Apart, NativePayment

LEMMA StableIsApart ==
  ASSUME NEW tx \in StableTxs, StableAccountsVerdict(tx) = Ok
  PROVE  /\ Apart(StablePayment(tx))
         /\ tx.payer \in Payers /\ tx.quote \in Quotes /\ tx.quote.nonce = tx.nonce
         /\ {tx.payer, tx.remaining[1], tx.remaining[2], tx.remaining[3]} \subseteq Accounts
         /\ IF Len(tx.remaining) >= 4 THEN IpAta(tx) \in Accounts ELSE IpAta(tx) = NONE
         /\ tx.nonce \in 0 .. MAX_NONCE
         /\ {tx.remaining[1], tx.payer}
              \cap {NONCE_PDA[tx.payer], MARKER_PDA[tx.payer][tx.nonce]} = {}
         /\ tx.remaining[1] # tx.payer
<1>1. /\ Len(tx.remaining) >= 3 /\ tx.quote.nonce = tx.nonce
      /\ \A i \in DOMAIN tx.remaining :
           /\ tx.remaining[i] # tx.payer
           /\ \A j \in DOMAIN tx.remaining : tx.remaining[i] = tx.remaining[j] => i = j
      /\ TokenAccount(tx.remaining[1], tx.mint, tx.payer) = Ok
  BY BothSucceed DEF StableAccountsVerdict, Check, Ok
<1>2. /\ tx.remaining \in Seq(Accounts) /\ tx.payer \in Payers /\ tx.quote \in Quotes
      /\ tx.payer \in Accounts /\ NONE \notin Accounts /\ tx.nonce \in 0 .. MAX_NONCE
  BY SettlementAssumption DEF StableTxType
<1>3. /\ DOMAIN tx.remaining = 1 .. Len(tx.remaining) /\ Len(tx.remaining) \in Nat
      /\ \A i \in DOMAIN tx.remaining : tx.remaining[i] \in Accounts
  BY <1>2, LenProperties, ElementOfSeq
<1>4. 1 \in DOMAIN tx.remaining /\ 2 \in DOMAIN tx.remaining /\ 3 \in DOMAIN tx.remaining
  BY <1>1, <1>3
<1>5. tx.remaining[1] \in DOMAIN TOKEN
  BY <1>1, BothSucceed DEF TokenAccount, Check, Ok
<1>6. {tx.remaining[1], tx.payer}
        \cap {NONCE_PDA[tx.payer], MARKER_PDA[tx.payer][tx.nonce]} = {}
  BY <1>2, <1>5, NonceAccountsAreNobodys
<1>7. CASE Len(tx.remaining) >= 4
  <2>1. 4 \in DOMAIN tx.remaining /\ IpAta(tx) = tx.remaining[4]
    BY <1>3, <1>7 DEF IpAta
  <2> QED BY <2>1, <1>1, <1>2, <1>3, <1>4, <1>6, <1>7 DEF Apart, StablePayment
<1>8. CASE ~(Len(tx.remaining) >= 4)
  <2>1. IpAta(tx) = NONE
    BY <1>8 DEF IpAta
  <2> QED BY <2>1, <1>1, <1>2, <1>3, <1>4, <1>6, <1>8 DEF Apart, StablePayment
<1> QED BY <1>7, <1>8

LEMMA NativeIsSeparate ==
  ASSUME NEW tx \in NativeTxs, NativeVerdict(tx) = Ok
  PROVE  Separate(NativePayment(tx))
<1>1. NativeAccountsVerdict(tx) = Ok
  BY BothSucceed DEF NativeVerdict
<1>2. Apart(NativePayment(tx)) /\ tx.ip_creator # NONE
  BY <1>1, NativeIsApart, SettlementAssumption
<1> QED BY <1>2 DEF Separate, NativePayment

LEMMA StableIsSeparate ==
  ASSUME NEW tx \in StableTxs, StableVerdict(tx) = Ok
  PROVE  Separate(StablePayment(tx))
<1>1. StableAccountsVerdict(tx) = Ok /\ StableTransfersVerdict(tx) = Ok
  BY BothSucceed DEF StableVerdict
<1>2. (IF Legs(tx.quote).ip_creator = 0 THEN Ok
       ELSE    Check(Len(tx.remaining) >= 4, "MissingIPCreator")
            ?? TokenAccount(IpAta(tx), tx.mint, tx.quote.ip_creator)
            ?? Unfrozen(tx, {IpAta(tx)})) = Ok
  BY <1>1, BothSucceed DEF StableTransfersVerdict
<1>3. ~(Len(tx.remaining) >= 4) => Legs(tx.quote).ip_creator = 0
  BY <1>2, BothSucceed DEF Check, Ok
<1>4. Apart(StablePayment(tx)) /\ (IpAta(tx) = NONE => ~(Len(tx.remaining) >= 4))
  BY <1>1, StableIsApart, SettlementAssumption
<1> QED BY <1>3, <1>4 DEF Separate, StablePayment

-----------------------------------------------------------------------------
LegsType == [merchant : Nat, treasury : Nat, ip_creator : Nat]

(* The legs are the whole gross amount and no more than the caps allow,    *)
(* however badly the payment may be addressed.                             *)
CappedLegs(payment) ==
  LET gross == payment.quote.gross_amount
      legs == payment.legs
  IN  /\ legs.merchant + legs.treasury + legs.ip_creator = gross
      /\ legs.treasury * BPS_DENOMINATOR <= gross * MAX_TREASURY_BPS
      /\ legs.ip_creator * BPS_DENOMINATOR <= gross * MAX_IP_CREATOR_BPS

(* The route table holds capped rates, so a split that succeeds is capped. *)
LEMMA LegsOfSplit ==
  ASSUME RoutesType, RouteTable, NEW quote \in Quotes,
         RouteExists(quote.route_id), SplitQuote(quote) = Ok
  PROVE  LET gross == quote.gross_amount
             legs == Legs(quote)
         IN  /\ gross \in Nat /\ legs \in LegsType /\ legs.merchant > 0
             /\ legs.merchant + legs.treasury + legs.ip_creator = gross
             /\ legs.treasury * BPS_DENOMINATOR <= gross * MAX_TREASURY_BPS
             /\ legs.ip_creator * BPS_DENOMINATOR <= gross * MAX_IP_CREATOR_BPS
<1> DEFINE profile == Profile(quote.route_id)
           gross == quote.gross_amount
           legs == Legs(quote)
<1>1. gross \in U64 /\ gross \in Nat
  BY DEF Quotes, U64
<1>2. RouteIndex(quote.route_id) \in DOMAIN profiles
  BY RouteIndexIsFirst
<1>3. CapsVerdict(profile.treasury_bps, profile.ip_creator_bps) = Ok
  BY <1>2 DEF RouteTable, Profile
<1>4. HasRates(profile)
  BY ProfileType_Found DEF ProfileType, HasRates
<1>5. gross > 0 /\ MerchantLeg(gross, profile) > 0
  BY BothSucceed DEF SplitQuote, SplitVerdict, Check, Ok
<1>6. legs = Split(gross, profile) /\ legs.merchant = MerchantLeg(gross, profile)
  BY DEF Legs, Split
<1> HIDE DEF legs, gross, profile
<1>7. /\ legs \in LegsType
      /\ legs.merchant + legs.treasury + legs.ip_creator = gross
      /\ legs.treasury * BPS_DENOMINATOR <= gross * MAX_TREASURY_BPS
      /\ legs.ip_creator * BPS_DENOMINATOR <= gross * MAX_IP_CREATOR_BPS
  BY <1>1, <1>3, <1>4, <1>5, <1>6, LegsWithinCaps DEF LegsType
<1> QED BY <1>1, <1>5, <1>6, <1>7 DEF gross, legs

LEMMA PayableLegs ==
  ASSUME RoutesType, RouteTable,
         NEW payment, NEW recovered, NEW payer, Payable(payment, recovered, payer)
  PROVE  /\ payment.legs \in LegsType /\ payment.legs.merchant > 0
         /\ payment.quote.gross_amount \in Nat
         /\ CappedLegs(payment)
<1>1. /\ payment.quote \in Quotes /\ RouteExists(payment.quote.route_id)
      /\ SplitQuote(payment.quote) = Ok /\ payment.legs = Legs(payment.quote)
  BY DEF Payable, Verified
<1> QED BY <1>1, LegsOfSplit DEF CappedLegs

(* Rent is an amount for each of the two nonce accounts.                   *)
LEMMA RentIsRent ==
  ASSUME SettleType, NEW p \in Payers, NEW n \in 0 .. MAX_NONCE
  PROVE  Rent(p, n) \in RentType
<1>1. /\ balance[NONCE_PDA[p]] \in Nat /\ balance[MARKER_PDA[p][n]] \in Nat
      /\ COUNTER_RENT \in Nat /\ MARKER_RENT \in Nat
  BY NonceAccountsAreNobodys, SettlementAssumption DEF SettleType
<1>2. \A held, rent \in Nat : Shortfall(held, rent) \in Nat
  BY DEF Shortfall
<1> QED BY <1>1, <1>2 DEF Rent, RentType

(* No account is overdrawn: the payer holds the rent and, when the gross   *)
(* amount is its own, both together; everybody else only receives.         *)
LEMMA MovedType ==
  ASSUME SettleType, NEW payer \in Payers, NEW payment,
         payment.legs \in LegsType, payment.from \in Accounts, payment.rent \in RentType,
         NEW gross \in Nat,
         payment.legs.merchant + payment.legs.treasury + payment.legs.ip_creator = gross,
         balance[payer] >= Total(payment.rent),
         IF payment.from = payer THEN balance[payer] - Total(payment.rent) >= gross
                                 ELSE balance[payment.from] >= gross
  PROVE  Moved(payment, payer) \in [Accounts -> Nat]
<1> SUFFICES ASSUME NEW a \in Accounts
             PROVE  Moved(payment, payer)[a] \in Nat
  <2>1. \A a \in Accounts : Moved(payment, payer)[a] \in Nat
    OBVIOUS
  <2>2. Moved(payment, payer) = [a \in Accounts |-> Moved(payment, payer)[a]]
    BY DEF Moved
  <2> HIDE DEF Moved
  <2> QED BY <2>1, <2>2
<1> DEFINE got == Received(payment, a)
           spent == Spent(payment, a)
           rentOut == RentSpent(payment, payer, a)
           rentIn == RentReceived(payment, payer, a)
<1>1. balance[a] \in Nat /\ balance[payer] \in Nat
  BY SettlementAssumption DEF SettleType
<1>2. got \in Nat
  BY DEF Received, LegsType
<1>3. spent = IF a = payment.from THEN gross ELSE 0
  BY DEF Spent
<1>4. rentOut \in Nat /\ rentIn \in Nat
  BY DEF RentSpent, RentReceived, Total, RentType
<1>5. spent \in Nat /\ spent + rentOut <= balance[a]
  <2>1. rentOut = (IF a = payer THEN Total(payment.rent) ELSE 0) /\ Total(payment.rent) \in Nat
    BY DEF RentSpent, Total, RentType
  <2> QED BY <2>1, <1>1, <1>3
<1>6. Moved(payment, payer)[a] = balance[a] - spent - rentOut + got + rentIn
  BY DEF Moved
<1> HIDE DEF got, spent, rentOut, rentIn
<1> QED BY <1>1, <1>2, <1>4, <1>5, <1>6

-----------------------------------------------------------------------------
(* The ledger of a payer, and of all.                                      *)
Ledger(p) ==
  /\ payer_nonce[p].nonce = Len(payments[p])
  /\ payer_nonce[p].payer = (IF payments[p] = <<>> THEN DEFAULT ELSE p)
  /\ consumed[p] = 0 .. Len(payments[p]) - 1
  /\ \A i \in DOMAIN payments[p] :
       /\ payments[p][i].quote.payer = p
       /\ payments[p][i].quote.nonce = i - 1

AllCapped == \A p \in Payers : \A i \in DOMAIN payments[p] : CappedLegs(payments[p][i])

(* A settlement appends one payment to one payer's ledger and leaves the   *)
(* ledgers of the others alone.                                            *)
LEMMA CompleteAppends ==
  ASSUME SettleType, NEW payer \in Payers, NEW payment \in PaymentType,
         Complete(payment, payer)
  PROVE  /\ payments' \in [Payers -> Seq(PaymentType)]
         /\ \A p \in Payers \ {payer} : payments'[p] = payments[p]
         /\ Len(payments'[payer]) = Len(payments[payer]) + 1
         /\ \A i \in DOMAIN payments'[payer] :
              payments'[payer][i] =
                IF i = Len(payments[payer]) + 1 THEN payment ELSE payments[payer][i]
         /\ Len(payments[payer]) \in Nat
         /\ DOMAIN payments[payer] = 1 .. Len(payments[payer])
         /\ DOMAIN payments'[payer] = 1 .. Len(payments[payer]) + 1
<1>1. payments \in [Payers -> Seq(PaymentType)]
      /\ payments' = [payments EXCEPT ![payer] = Append(@, payment)]
  BY DEF SettleType, Complete
<1>2. payments[payer] \in Seq(PaymentType) /\ payments'[payer] = Append(payments[payer], payment)
  BY <1>1
<1>3. \A p \in Payers \ {payer} : payments'[p] = payments[p]
  BY <1>1
<1>4. payments' \in [Payers -> Seq(PaymentType)]
  BY <1>1, <1>2
<1> DEFINE old == payments[payer]
           new == payments'[payer]
<1>5. old \in Seq(PaymentType) /\ new = Append(old, payment)
  BY <1>2
<1> HIDE DEF old, new
<1>6. /\ Len(new) = Len(old) + 1 /\ Len(old) \in Nat
      /\ DOMAIN old = 1 .. Len(old) /\ DOMAIN new = 1 .. Len(old) + 1
      /\ \A i \in DOMAIN new : new[i] = IF i = Len(old) + 1 THEN payment ELSE old[i]
  BY <1>5, LenProperties
<1> QED BY <1>3, <1>4, <1>6 DEF old, new

LEMMA CompleteKeeps ==
  ASSUME SettleType, RoutesType, RouteTable, NonceLedger, AllCapped,
         NEW payer \in Payers, NEW payment, NEW recovered,
         payment \in PaymentType,
         Payable(payment, recovered, payer), Complete(payment, payer)
  PROVE  SettleType' /\ NonceLedger' /\ AllCapped'
<1> DEFINE quote == payment.quote
           n == payer_nonce[payer].nonce
<1>1. /\ quote \in Quotes /\ quote.payer = payer /\ quote.nonce = n /\ n < MAX_NONCE
      /\ n \in 0 .. MAX_NONCE /\ MAX_NONCE \in Nat /\ quote.payer \in Pubkeys
  BY SettlementAssumption DEF Payable, Verified, SettleType, Quotes
<1>2. n = Len(payments[payer]) /\ consumed[payer] = 0 .. n - 1
  BY DEF NonceLedger
<1>3. /\ payer_nonce' = [payer_nonce EXCEPT ![payer] = [payer |-> payer, nonce |-> n + 1]]
      /\ consumed' = [consumed EXCEPT ![payer] = @ \cup {n}]
  BY <1>1 DEF Complete, AdvanceNonce
<1>4. /\ payer_nonce' \in [Payers -> [payer : Pubkeys, nonce : 0 .. MAX_NONCE]]
      /\ payer_nonce'[payer] = [payer |-> payer, nonce |-> n + 1]
      /\ \A p \in Payers \ {payer} : payer_nonce'[p] = payer_nonce[p]
  BY <1>1, <1>3 DEF SettleType
<1>5. /\ consumed' \in [Payers -> SUBSET (0 .. MAX_NONCE)]
      /\ consumed'[payer] = 0 .. n
      /\ \A p \in Payers \ {payer} : consumed'[p] = consumed[p]
  <2>1. consumed \in [Payers -> SUBSET (0 .. MAX_NONCE)]
    BY DEF SettleType
  <2>2. (0 .. n - 1) \cup {n} = 0 .. n /\ 0 .. n \subseteq 0 .. MAX_NONCE
    BY <1>1
  <2> QED BY <2>1, <2>2, <1>1, <1>2, <1>3
<1>6. balance' \in [Accounts -> Nat]
  <2> DEFINE gross == quote.gross_amount
  <2>1. /\ payment.legs \in LegsType /\ gross \in Nat
        /\ payment.legs.merchant + payment.legs.treasury + payment.legs.ip_creator = gross
    BY PayableLegs DEF CappedLegs
  <2>2. /\ payment.from \in Accounts /\ balance[payer] >= Total(payment.rent)
        /\ IF payment.from = payer THEN balance[payer] - Total(payment.rent) >= gross
                                   ELSE balance[payment.from] >= gross
    BY DEF Payable
  <2>3. balance' = Moved(payment, payer)
    BY DEF Complete
  <2>4. payment.rent \in RentType
    BY DEF PaymentType
  <2> HIDE DEF gross
  <2> QED BY <2>1, <2>2, <2>3, <2>4, MovedType
<1>7. SettleType'
  BY <1>4, <1>5, <1>6, CompleteAppends DEF SettleType
<1>8. CappedLegs(payment)
  BY PayableLegs
<1>9. ASSUME NEW p \in Payers
      PROVE  Ledger(p)' /\ \A i \in DOMAIN payments'[p] : CappedLegs(payments'[p][i])
  <2>1. Ledger(p) /\ \A i \in DOMAIN payments[p] : CappedLegs(payments[p][i])
    BY DEF NonceLedger, Ledger, AllCapped
  <2>2. CASE p # payer
    BY <2>1, <2>2, <1>4, <1>5, CompleteAppends DEF Ledger
  <2>3. CASE p = payer
    <3>1. /\ Len(payments'[p]) = n + 1 /\ DOMAIN payments'[p] = 1 .. n + 1
          /\ DOMAIN payments[p] = 1 .. n
          /\ \A i \in DOMAIN payments'[p] :
               payments'[p][i] = IF i = n + 1 THEN payment ELSE payments[p][i]
      BY <2>3, <1>2, CompleteAppends
    <3>2. \A i \in DOMAIN payments'[p] :
            /\ payments'[p][i].quote.payer = p
            /\ payments'[p][i].quote.nonce = i - 1
            /\ CappedLegs(payments'[p][i])
      <4> SUFFICES ASSUME NEW i \in DOMAIN payments'[p]
                   PROVE  /\ payments'[p][i].quote.payer = p
                          /\ payments'[p][i].quote.nonce = i - 1
                          /\ CappedLegs(payments'[p][i])
        OBVIOUS
      <4>1. CASE i = n + 1
        <5>1. payments'[p][i] = payment
          BY <3>1, <4>1
        <5> QED BY <5>1, <4>1, <2>3, <1>1, <1>8
      <4>2. CASE i # n + 1
        <5>1. i \in DOMAIN payments[p] /\ payments'[p][i] = payments[p][i]
          BY <3>1, <4>2, <1>1
        <5> QED BY <5>1, <2>1 DEF Ledger
      <4> QED BY <4>1, <4>2
    <3>3. payments'[p] # <<>>
      BY <3>1, <1>1
    <3>4. /\ payer_nonce'[p].nonce = n + 1 /\ payer_nonce'[p].payer = p
          /\ consumed'[p] = 0 .. n + 1 - 1
      BY <2>3, <1>1, <1>4, <1>5
    <3>5. consumed'[p] = 0 .. Len(payments'[p]) - 1
      <4> HIDE DEF n
      <4> QED BY <3>1, <3>4, <1>1
    <3>6. Ledger(p)'
      BY <3>1, <3>2, <3>3, <3>4, <3>5 DEF Ledger
    <3> QED BY <3>2, <3>6
  <2> QED BY <2>2, <2>3
<1>10. NonceLedger'
  BY <1>9 DEF NonceLedger, Ledger
<1>11. AllCapped'
  BY <1>9 DEF AllCapped, CappedLegs
<1> QED BY <1>7, <1>10, <1>11

-----------------------------------------------------------------------------
(* The program.                                                            *)

(* The route table bounds the fees a settlement can take, the type of the  *)
(* balances rests on those fees, and the ledger on the types: none of the  *)
(* parts is inductive without the others.                                  *)
IInv ==
  /\ TypeOK
  /\ RouteTable
  /\ WhitelistFits
  /\ NonceLedger
  /\ AllCapped
  /\ RolesFilled
  /\ EmptyBeforeInitialize

LEMMA TypeParts ==
  TypeOK <=> /\ now \in 0 .. MAX_TIME
             /\ config \in ConfigType
             /\ RoutesType
             /\ token_list \in Seq(Pubkeys)
             /\ SettleType
  BY DEF TypeOK, RoutesType, SettleType

LEMMA InitEstablishes == Init => IInv
<1> SUFFICES ASSUME Init PROVE IInv
  OBVIOUS
<1>1. /\ now \in 0 .. MAX_TIME /\ config \in ConfigType
      /\ profiles \in Seq(ProfileType) /\ count \in Nat /\ token_list \in Seq(Pubkeys)
  BY RuntimeAssumption, RolesAssumption DEF Init, ConfigType, NoConfig
<1>2. SettleType
  <2>1. DEFAULT \in Pubkeys /\ 0 \in 0 .. MAX_NONCE
    BY RuntimeAssumption, SettlementAssumption
  <2> QED BY <2>1, SettlementAssumption DEF Init, SettleInit, SettleType
<1>3. RouteTable
  BY RoutesAssumption DEF Init, RouteTable
<1>4. WhitelistFits
  BY WhitelistAssumption DEF Init, WhitelistFits
<1>5. NonceLedger
  BY DEF Init, SettleInit, NonceLedger
<1>6. AllCapped
  BY DEF Init, SettleInit, AllCapped
<1>7. RolesFilled /\ EmptyBeforeInitialize
  BY DEF Init, NoConfig, RolesFilled, EmptyBeforeInitialize
<1> QED BY <1>1, <1>2, <1>3, <1>4, <1>5, <1>6, <1>7, TypeParts DEF RoutesType, IInv

-----------------------------------------------------------------------------
(* One lemma per component: what its steps keep of the invariant.          *)

LEMMA TickKeeps ==
  ASSUME IInv, Tick, UNCHANGED <<config, profiles, count, token_list, settleVars>>
  PROVE  IInv'
<1>1. now \in 0 .. MAX_TIME /\ now' = now + 1 /\ now < MAX_TIME /\ MAX_TIME \in Nat
  BY RuntimeAssumption DEF IInv, TypeOK, Tick
<1>2. now \in Nat /\ now' \in Nat /\ now <= now' /\ now' \in 0 .. MAX_TIME
  BY <1>1
<1>3. RoutesType' /\ RouteTable'
  BY <1>2, TickKeepsTable, TypeParts DEF IInv
<1>4. config' \in ConfigType /\ token_list' \in Seq(Pubkeys) /\ SettleType'
  BY DEF IInv, TypeOK, SettleType, settleVars
<1>5. /\ WhitelistFits' /\ NonceLedger' /\ AllCapped' /\ RolesFilled'
      /\ EmptyBeforeInitialize'
  BY DEF IInv, WhitelistFits, NonceLedger, AllCapped, CappedLegs, RolesFilled,
         EmptyBeforeInitialize, settleVars
<1>6. TypeOK'
  BY <1>2, <1>3, <1>4 DEF TypeOK, RoutesType, SettleType
<1> QED BY <1>3, <1>5, <1>6 DEF IInv

LEMMA InitializeKeeps ==
  ASSUME IInv, NEW caller \in Callers, NEW params \in InitParams, Initialize(caller, params)
  PROVE  IInv'
<1>1. now \in Nat /\ now' = now /\ now' \in 0 .. MAX_TIME
  BY RuntimeAssumption DEF IInv, TypeOK, Initialize
<1>2. /\ config' \in ConfigType /\ config'.exists /\ RolesFilled'
      /\ RoutesType' /\ RouteTable'
      /\ token_list' \in Seq(Pubkeys) /\ WhitelistFits'
  BY <1>1, InitializeMakes, SplitterAssumption DEF Initialize
<1>3. EmptyBeforeInitialize'
  BY <1>2 DEF EmptyBeforeInitialize
<1>4. SettleType' /\ NonceLedger' /\ AllCapped'
  BY DEF IInv, TypeOK, SettleType, NonceLedger, AllCapped, CappedLegs,
         Initialize, settleVars
<1>5. TypeOK'
  BY <1>1, <1>2, <1>4 DEF TypeOK, RoutesType, SettleType
<1> QED BY <1>2, <1>3, <1>4, <1>5 DEF IInv

(* A settlement that succeeds writes a payable payment of its payer.       *)
LEMMA SettleStepCompletes ==
  ASSUME SettleType, RoutesType, RouteTable, SettleStep
  PROVE  \E tx \in NativeTxs \cup StableTxs, payment \in PaymentType :
           /\ tx.payer \in Payers /\ payment.quote = tx.quote
           /\ Payable(payment, tx.recovered, tx.payer)
           /\ Addressed(payment) /\ Separate(payment)
           /\ Complete(payment, tx.payer)
<1>1. ASSUME NEW tx \in NativeTxs, SettleNative(tx)
      PROVE  /\ NativePayment(tx) \in PaymentType /\ tx.payer \in Payers
             /\ NativePayment(tx).quote = tx.quote
             /\ Payable(NativePayment(tx), tx.recovered, tx.payer)
             /\ Addressed(NativePayment(tx)) /\ Separate(NativePayment(tx))
             /\ Complete(NativePayment(tx), tx.payer)
  <2>1. /\ Payable(NativePayment(tx), tx.recovered, tx.payer)
        /\ Addressed(NativePayment(tx)) /\ Separate(NativePayment(tx))
    BY <1>1, NativeIsPayable, NativeIsAddressed, NativeIsSeparate DEF SettleNative
  <2>2. tx.payer \in Payers
    BY SettlementAssumption DEF NativeTxType
  <2>3. NativePayment(tx).legs \in LegsType
    BY <2>1, PayableLegs
  <2>4. NativePayment(tx) \in PaymentType
    <3>1. NativePayment(tx).rent \in RentType
      BY <2>2, RentIsRent, SettlementAssumption DEF NativeTxType, NativePayment
    <3> QED BY <2>1, <2>3, <3>1 DEF Payable, NativePayment, PaymentType, LegsType
  <2> QED BY <1>1, <2>1, <2>2, <2>4 DEF SettleNative, NativePayment
<1>2. ASSUME NEW tx \in StableTxs, SettleStable(tx)
      PROVE  /\ StablePayment(tx) \in PaymentType /\ tx.payer \in Payers
             /\ StablePayment(tx).quote = tx.quote
             /\ Payable(StablePayment(tx), tx.recovered, tx.payer)
             /\ Addressed(StablePayment(tx)) /\ Separate(StablePayment(tx))
             /\ Complete(StablePayment(tx), tx.payer)
  <2>1. /\ Payable(StablePayment(tx), tx.recovered, tx.payer)
        /\ Addressed(StablePayment(tx)) /\ Separate(StablePayment(tx))
    BY <1>2, StableIsPayable, StableIsAddressed, StableIsSeparate DEF SettleStable
  <2>2. tx.payer \in Payers
    BY SettlementAssumption DEF StableTxType
  <2>3. StablePayment(tx).legs \in LegsType
    BY <2>1, PayableLegs
  <2>4. StablePayment(tx) \in PaymentType
    <3>1. StablePayment(tx).rent \in RentType
      BY <2>2, RentIsRent, SettlementAssumption DEF StableTxType, StablePayment
    <3> QED BY <2>1, <2>3, <3>1 DEF Payable, StablePayment, PaymentType, LegsType
  <2> QED BY <1>2, <2>1, <2>2, <2>4 DEF SettleStable, StablePayment
<1>3. CASE \E tx \in NativeTxs : SettleNative(tx)
  BY <1>1, <1>3
<1>4. CASE \E tx \in StableTxs : SettleStable(tx)
  BY <1>2, <1>4
<1> QED BY <1>3, <1>4 DEF SettleStep

LEMMA NextKeeps == IInv /\ [Next]_vars => IInv'
<1> SUFFICES ASSUME IInv, [Next]_vars PROVE IInv'
  OBVIOUS
<1>1. CASE Tick /\ UNCHANGED <<config, profiles, count, token_list, settleVars>>
  BY <1>1, TickKeeps
<1>2. CASE \E caller \in Callers, params \in InitParams : Initialize(caller, params)
  BY <1>2, InitializeKeeps
<1>3. CASE RolesStep /\ UNCHANGED <<now, profiles, count, token_list, settleVars>>
  <2>1. config' \in ConfigType /\ RolesFilled' /\ config'.exists = config.exists
    BY <1>3, RolesKeep DEF IInv, TypeOK
  <2> QED BY <1>3, <2>1
          DEF IInv, TypeOK, RouteTable, WhitelistFits, NonceLedger, AllCapped,
              CappedLegs, EmptyBeforeInitialize, settleVars
<1>4. CASE RoutesStep /\ UNCHANGED <<now, config, token_list, settleVars>>
  <2>1. RoutesType' /\ RouteTable'
    <3>1. now \in Nat
      BY RuntimeAssumption DEF IInv, TypeOK
    <3> QED BY <1>4, <3>1, RoutesStepKeepsTable, TypeParts DEF IInv
  <2>2. TypeOK'
    BY <1>4, <2>1 DEF IInv, TypeOK, RoutesType, settleVars
  <2>3. config.exists
    BY <1>4, RoutesStepEffect, TypeParts DEF IInv
  <2> QED BY <1>4, <2>1, <2>2, <2>3
          DEF IInv, WhitelistFits, NonceLedger, AllCapped, CappedLegs, RolesFilled,
              EmptyBeforeInitialize, settleVars
<1>5. CASE WhitelistStep /\ UNCHANGED <<now, config, profiles, count, settleVars>>
  <2>1. token_list' \in Seq(Pubkeys) /\ WhitelistFits'
    <3>1. PICK caller \in Callers, update \in TokenUpdates : SetWhitelistedTokens(caller, update)
      BY <1>5 DEF WhitelistStep
    <3> QED BY <3>1, WhitelistUpdateType DEF IInv, TypeOK, WhitelistFits
  <2> QED BY <1>5, <2>1
          DEF IInv, TypeOK, RouteTable, NonceLedger, AllCapped, CappedLegs,
              RolesFilled, EmptyBeforeInitialize, settleVars
<1>6. CASE SettleStep /\ UNCHANGED <<now, config, profiles, count, token_list>>
  <2>1. RoutesType /\ RouteTable /\ SettleType /\ NonceLedger /\ AllCapped
    BY TypeParts DEF IInv
  <2>2. PICK tx \in NativeTxs \cup StableTxs, payment \in PaymentType :
          /\ tx.payer \in Payers /\ payment.quote = tx.quote
          /\ Payable(payment, tx.recovered, tx.payer)
          /\ Addressed(payment)
          /\ Complete(payment, tx.payer)
    BY <1>6, <2>1, SettleStepCompletes
  <2>3. SettleType' /\ NonceLedger' /\ AllCapped'
    BY <2>1, <2>2, CompleteKeeps
  <2>4. TypeOK'
    BY <1>6, <2>3 DEF IInv, TypeOK, SettleType
  <2> QED BY <1>6, <2>3, <2>4 DEF IInv, RouteTable, WhitelistFits, RolesFilled,
                                         EmptyBeforeInitialize
<1>7. CASE UNCHANGED vars
  BY <1>7 DEF IInv, TypeOK, RouteTable, WhitelistFits, NonceLedger, AllCapped,
              CappedLegs, RolesFilled, EmptyBeforeInitialize, vars, settleVars
<1> QED BY <1>1, <1>2, <1>3, <1>4, <1>5, <1>6, <1>7 DEF Next

LEMMA Invariance == Spec => []IInv
  BY InitEstablishes, NextKeeps, PTL DEF Spec

-----------------------------------------------------------------------------
(* Every account always holds data of its type: in particular no balance   *)
(* goes below zero, no nonce beyond the last, and no stored payment has a  *)
(* leg that is not an amount.                                              *)
THEOREM TypeCorrectness == Spec => []TypeOK
  BY Invariance, PTL DEF IInv

(* The route table never outgrows its account, its count is its length and *)
(* no stored fee exceeds a cap.                                            *)
THEOREM RouteTableSound == Spec => []RouteTable
  BY Invariance, PTL DEF IInv

(* The token list never outgrows its account, whatever updates are made.   *)
THEOREM WhitelistNeverOverflows == Spec => []WhitelistFits
  BY Invariance, PTL DEF IInv

(* Counter, markers and events of every payer agree, for any number of     *)
(* payers, quotes and settlements through both instructions.               *)
THEOREM NonceLedgerHolds == Spec => []NonceLedger
  BY Invariance, PTL DEF IInv

(* No payment ever made takes more fees than the caps allow.               *)
THEOREM FeesNeverExceedCaps == Spec => []FeesWithinCaps
<1>1. IInv => FeesWithinCaps
  <2> SUFFICES ASSUME IInv, NEW pi \in AllPayments
               PROVE  CappedLegs(payments[pi[1]][pi[2]])
    BY DEF FeesWithinCaps, CappedLegs
  <2>1. PICK p \in Payers : pi \in {<<p, i>> : i \in DOMAIN payments[p]}
    BY DEF AllPayments
  <2>2. PICK i \in DOMAIN payments[p] : pi = <<p, i>>
    BY <2>1
  <2> QED BY <2>1, <2>2 DEF IInv, AllCapped
<1> QED BY <1>1, Invariance, PTL

(* A settled quote is refused by both instructions, in every later state.  *)
THEOREM NoReplay == Spec => []SettledQuotesAreDead
<1>1. ASSUME IInv, NEW tx, tx.payer \in Payers, Settled(tx.quote),
             VerifyQuote(tx.quote, tx.recovered, tx.payer) = Ok
      PROVE  FALSE
  <2>1. PICK p \in Payers : \E i \in DOMAIN payments[p] : payments[p][i].quote = tx.quote
    BY <1>1 DEF Settled
  <2>2. PICK i \in DOMAIN payments[p] : payments[p][i].quote = tx.quote
    BY <2>1
  <2>3. tx.quote.payer = p /\ tx.quote.nonce = i - 1
    BY <1>1, <2>2 DEF IInv, NonceLedger
  <2>4. tx.quote.payer = tx.payer /\ tx.quote.nonce = payer_nonce[tx.payer].nonce
    BY <1>1, VerifiedQuote DEF Verified
  <2>5. tx.quote.nonce = Len(payments[p])
    BY <1>1, <2>3, <2>4 DEF IInv, NonceLedger
  <2>6. DOMAIN payments[p] = 1 .. Len(payments[p]) /\ Len(payments[p]) \in Nat
    BY <1>1, LenProperties DEF IInv, TypeOK
  <2> QED BY <2>2, <2>3, <2>5, <2>6
<1>2. IInv => SettledQuotesAreDead
  <2> SUFFICES ASSUME IInv PROVE SettledQuotesAreDead
    OBVIOUS
  <2>1. \A tx \in NativeTxs \cup StableTxs : tx.payer \in Payers
    BY SettlementAssumption DEF NativeTxType, StableTxType
  <2>2. \A tx \in NativeTxs : Settled(tx.quote) => NativeVerdict(tx) # Ok
    BY <1>1, <2>1, BothSucceed DEF NativeVerdict
  <2>3. \A tx \in StableTxs : Settled(tx.quote) => StableVerdict(tx) # Ok
    BY <1>1, <2>1, BothSucceed DEF StableVerdict
  <2> QED BY <2>2, <2>3 DEF SettledQuotesAreDead
<1> QED BY <1>2, Invariance, PTL

(* The next nonce is accepted and every other is InvalidNonce: no history  *)
(* of settlements locks a payer out, and two of the four errors that the   *)
(* nonce checks can return are never returned for a payer's own quote.     *)
THEOREM NextNonceAccepted == Spec => []NextNonceIsTheKey
<1>1. ASSUME IInv, NEW tx \in NativeTxs \cup StableTxs, tx.quote.payer = tx.payer
      PROVE  NonceVerdict(tx.quote, tx.payer) =
               IF tx.quote.nonce # Len(payments[tx.payer]) THEN "InvalidNonce"
               ELSE IF tx.quote.nonce = MAX_NONCE THEN "NonceOverflow" ELSE Ok
  <2> DEFINE n == Len(payments[tx.payer])
  <2>1. /\ tx.payer \in Payers /\ tx.quote \in Quotes /\ MAX_NONCE \in Nat
    BY SettlementAssumption DEF NativeTxType, StableTxType
  <2>2. /\ payer_nonce[tx.payer].payer \in {DEFAULT, tx.quote.payer}
        /\ payer_nonce[tx.payer].nonce = n
        /\ consumed[tx.payer] = 0 .. n - 1
    BY <1>1, <2>1 DEF IInv, NonceLedger
  <2>3. tx.quote.nonce \in 0 .. MAX_NONCE /\ n \in Nat
    BY <1>1, <2>1, LenProperties DEF IInv, TypeOK, Quotes
  <2> HIDE DEF n
  <2>4. tx.quote.nonce = n => tx.quote.nonce \notin consumed[tx.payer]
    BY <2>2, <2>3
  <2>5. ~(tx.quote.nonce < MAX_NONCE) <=> tx.quote.nonce = MAX_NONCE
    BY <2>1, <2>3
  <2>6. NonceVerdict(tx.quote, tx.payer) =
          IF tx.quote.nonce # n THEN "InvalidNonce"
          ELSE IF tx.quote.nonce = MAX_NONCE THEN "NonceOverflow" ELSE Ok
    BY <2>2, <2>4, <2>5 DEF NonceVerdict, ??, Check, Ok
  <2> QED BY <2>6 DEF n
<1>2. IInv => NextNonceIsTheKey
  BY <1>1 DEF NextNonceIsTheKey
<1> QED BY <1>2, Invariance, PTL

(* Nobody can empty a role, the treasury of any route, or the signer.      *)
THEOREM RolesNeverVacant == Spec => []NoRoleIsVacant
<1>1. ASSUME IInv, config.exists PROVE NoRoleIsVacant
  <2>1. /\ DEFAULT \notin {config.admin, config.pauser, config.treasury}
        /\ config.signer # ZERO_KEY
    BY <1>1 DEF IInv, RolesFilled
  <2>2. \A route_id : EffectiveTreasury(route_id) # DEFAULT
    BY <2>1 DEF EffectiveTreasury
  <2>3. \A tx \in NativeTxs : tx.recovered = ZERO_KEY => NativeVerdict(tx) # Ok
    <3> SUFFICES ASSUME NEW tx \in NativeTxs, NativeVerdict(tx) = Ok
                 PROVE  tx.recovered # ZERO_KEY
      OBVIOUS
    <3>1. VerifyQuote(tx.quote, tx.recovered, tx.payer) = Ok
      BY BothSucceed DEF NativeVerdict
    <3> QED BY <3>1, VerifiedQuote DEF Verified
  <2> QED BY <2>1, <2>2, <2>3 DEF NoRoleIsVacant
<1> QED BY <1>1, Invariance, PTL DEF NoRoleIsVacant

(* A payment that would go through is never refused a preview, whatever    *)
(* the routes, the roles and the clock have become.                        *)
THEOREM PreviewNeverRefuses == Spec => []PreviewCoversSettlement
<1>1. ASSUME NEW tx \in NativeTxs, NativeVerdict(tx) = Ok
      PROVE  QuoteTotalVerdict(tx.quote.gross_amount, tx.quote.route_id,
                               tx.quote.ip_creator) = Ok
  <2>1. ConfigExists = Ok /\ Payable(NativePayment(tx), tx.recovered, tx.payer)
    BY <1>1, NativeIsPayable, BothSucceed DEF NativeVerdict
  <2>2. /\ ~config.is_paused /\ RouteExists(tx.quote.route_id)
        /\ Profile(tx.quote.route_id).enabled /\ SplitQuote(tx.quote) = Ok
    BY <2>1 DEF Payable, Verified, NativePayment
  <2> QED BY <2>1, <2>2, BothSucceed
          DEF QuoteTotalVerdict, SplitQuote, FindRoute, Check, Ok
<1>2. PreviewCoversSettlement
  BY <1>1 DEF PreviewCoversSettlement
<1> QED BY <1>2, PTL

(* What initialize does not check and MCRepeatedMint shows to matter: no   *)
(* stablecoin is given twice.                                              *)
StablecoinsGivenOnce == \A params \in InitParams : Distinct(params.stablecoins)

LEMMA TokenListStaysDistinct ==
  ASSUME StablecoinsGivenOnce, IInv, Distinct(token_list), [Next]_vars
  PROVE  Distinct(token_list)'
<1>1. ASSUME NEW caller \in Callers, NEW params \in InitParams, Initialize(caller, params)
      PROVE  Distinct(token_list)'
  <2>1. Distinct(params.stablecoins)
    BY DEF StablecoinsGivenOnce
  <2> QED BY <1>1, <2>1 DEF Initialize, CreateSingletons, Distinct
<1>2. ASSUME NEW caller \in Callers, NEW update \in TokenUpdates,
             SetWhitelistedTokens(caller, update)
      PROVE  Distinct(token_list)'
  <2>1. Distinct(NewList(update))
    BY <1>2, UpdateDoesAsAsked DEF SetWhitelistedTokens, IInv, TypeOK
  <2> QED BY <1>2, <2>1 DEF SetWhitelistedTokens, Distinct
<1>3. CASE token_list' = token_list
  BY <1>3 DEF Distinct
<1> QED BY <1>1, <1>2, <1>3 DEF Next, WhitelistStep, vars

(* Unless initialize was given a stablecoin twice, every update of the     *)
(* token list that succeeds lists and delists exactly what it names, after *)
(* any number of earlier updates.                                          *)
THEOREM UpdatesAreHonoured ==
  ASSUME StablecoinsGivenOnce
  PROVE  Spec => []UpdatesTakeEffect
<1>1. Init => Distinct(token_list)
  BY DEF Init, Distinct
<1>2. IInv /\ Distinct(token_list) /\ [Next]_vars => Distinct(token_list)'
  BY TokenListStaysDistinct
<1>3. IInv /\ Distinct(token_list) => UpdatesTakeEffect
  BY UpdateDoesAsAsked DEF IInv, TypeOK, UpdatesTakeEffect
<1> QED BY <1>1, <1>2, <1>3, Invariance, PTL DEF Spec

-----------------------------------------------------------------------------
(* Which steps write events, and what such a step has checked.             *)
LEMMA OnlySettlementPays ==
  ASSUME IInv, [Next]_vars, NEW p \in Payers, payments'[p] # payments[p]
  PROVE  \E tx \in NativeTxs \cup StableTxs, payment \in PaymentType :
           /\ tx.payer = p /\ payment.quote = tx.quote
           /\ Payable(payment, tx.recovered, p)
           /\ Addressed(payment)
           /\ payments'[p] = Append(payments[p], payment)
           /\ payments'[p][Len(payments'[p])] = payment
<1>1. SettleStep
  <2> SUFFICES ASSUME ~SettleStep PROVE payments' = payments
    OBVIOUS
  <2> QED BY DEF Next, Initialize, vars, settleVars
<1>2. RoutesType /\ RouteTable /\ SettleType
  BY TypeParts DEF IInv
<1>3. PICK tx \in NativeTxs \cup StableTxs, payment \in PaymentType :
        /\ tx.payer \in Payers /\ payment.quote = tx.quote
        /\ Payable(payment, tx.recovered, tx.payer)
        /\ Addressed(payment)
        /\ Complete(payment, tx.payer)
  BY <1>1, <1>2, SettleStepCompletes
<1>4. tx.payer = p
  BY <1>2, <1>3, CompleteAppends
<1>5. /\ payments[p] \in Seq(PaymentType)
      /\ payments'[p] = Append(payments[p], payment)
  BY <1>2, <1>3, <1>4 DEF Complete, SettleType
<1>6. payments'[p][Len(payments'[p])] = payment
  BY <1>5
<1> QED BY <1>3, <1>4, <1>5, <1>6

(* A quote never settles before or after its window, whatever else happens. *)
THEOREM WindowIsKept == Spec => SettlementWindow
<1>1. ASSUME IInv, [Next]_vars, NEW p \in Payers, payments'[p] # payments[p]
      PROVE  payments'[p][Len(payments'[p])].quote.valid_until - now
               \in 0 .. MAX_QUOTE_LIFETIME_SECONDS
  <2>1. PICK tx \in NativeTxs \cup StableTxs, payment \in PaymentType :
          /\ Payable(payment, tx.recovered, p)
          /\ payments'[p][Len(payments'[p])] = payment
    BY <1>1, OnlySettlementPays
  <2>2. Fresh(payment.quote) /\ payment.quote \in Quotes
    BY <2>1 DEF Payable, Verified
  <2>3. now \in Int /\ payment.quote.valid_until \in Int /\ MAX_QUOTE_LIFETIME_SECONDS \in Nat
    BY <1>1, <2>2, RuntimeAssumption, SettlementAssumption DEF IInv, TypeOK, Quotes
  <2>4. payment.quote.valid_until - now \in 0 .. MAX_QUOTE_LIFETIME_SECONDS
    BY <2>2, <2>3 DEF Fresh
  <2> QED BY <2>1, <2>4
<1>2. IInv /\ [Next]_vars =>
        [\A p \in Payers :
           payments'[p] # payments[p] =>
             LET quote == payments'[p][Len(payments'[p])].quote
             IN  quote.valid_until - now \in 0 .. MAX_QUOTE_LIFETIME_SECONDS]_vars
  BY <1>1
<1> QED BY <1>2, Invariance, PTL DEF Spec, SettlementWindow

(* Every payment follows the signer, the route, the treasury and the list  *)
(* as they stand when it executes, whatever they were when it was signed.  *)
THEOREM PaymentsFollowConfig == Spec => PaymentsFollowTheConfigInForce
<1> DEFINE Follows(p) ==
         LET payment == payments'[p][Len(payments'[p])]
             quote == payment.quote
         IN  /\ payments'[p] = Append(payments[p], payment)
             /\ ~config.is_paused
             /\ \E tx \in NativeTxs \cup StableTxs :
                  tx.quote = quote /\ tx.recovered = config.signer
             /\ \E i \in DOMAIN profiles :
                  /\ InForce(i, quote.route_id)
                  /\ Holds(payment.treasury,
                           IF profiles[i].route_treasury = DEFAULT THEN config.treasury
                           ELSE profiles[i].route_treasury, quote.token)
             /\ Holds(payment.from, p, quote.token)
             /\ Holds(payment.merchant, quote.merchant, quote.token)
             /\ payment.legs.ip_creator > 0 =>
                  Holds(payment.ip_creator, quote.ip_creator, quote.token)
             /\ quote.token # DEFAULT => IsAllowed(quote.token)
<1>1. ASSUME IInv, [Next]_vars, NEW p \in Payers, payments'[p] # payments[p]
      PROVE  Follows(p)
  <2>1. PICK tx \in NativeTxs \cup StableTxs, payment \in PaymentType :
          /\ payment.quote = tx.quote
          /\ Payable(payment, tx.recovered, p)
          /\ Addressed(payment)
          /\ payments'[p] = Append(payments[p], payment)
          /\ payments'[p][Len(payments'[p])] = payment
    BY <1>1, OnlySettlementPays
  <2> DEFINE quote == payment.quote
             i == RouteIndex(quote.route_id)
  <2>2. /\ ~config.is_paused /\ tx.recovered = config.signer /\ quote.payer = p
        /\ RouteExists(quote.route_id) /\ Profile(quote.route_id).enabled
    BY <2>1 DEF Payable, Verified
  <2>3. i \in DOMAIN profiles /\ InForce(i, quote.route_id)
    <3>1. RoutesType
      BY <1>1, TypeParts DEF IInv
    <3>2. /\ i \in DOMAIN profiles /\ profiles[i].route_id = quote.route_id
          /\ \A j \in DOMAIN profiles : j < i => profiles[j].route_id # quote.route_id
          /\ DOMAIN profiles = 1 .. Len(profiles) /\ Len(profiles) \in Nat
      BY <2>2, <3>1, RouteIndexIsFirst, ProfileAt
    <3>3. profiles[i].enabled
      BY <2>2 DEF Profile
    <3> HIDE DEF i
    <3>4. \A j \in 1 .. i - 1 : j \in DOMAIN profiles /\ j < i
      BY <3>2
    <3> QED BY <3>2, <3>3, <3>4 DEF InForce
  <2>4. EffectiveTreasury(quote.route_id) =
          IF profiles[i].route_treasury = DEFAULT THEN config.treasury
          ELSE profiles[i].route_treasury
    BY DEF EffectiveTreasury, Profile
  <2> HIDE DEF i
  <2>5. /\ Holds(payment.from, quote.payer, quote.token)
        /\ Holds(payment.merchant, quote.merchant, quote.token)
        /\ Holds(payment.treasury, EffectiveTreasury(quote.route_id), quote.token)
        /\ payment.legs.ip_creator > 0 =>
             Holds(payment.ip_creator, quote.ip_creator, quote.token)
        /\ quote.token # DEFAULT => IsAllowed(quote.token)
    BY <2>1 DEF Addressed
  <2> QED BY <2>1, <2>2, <2>3, <2>4, <2>5
<1>2. IInv /\ [Next]_vars =>
        [\A p \in Payers : payments'[p] # payments[p] => Follows(p)]_vars
  <2> HIDE DEF Follows
  <2> QED BY <1>1
<1> QED BY <1>2, Invariance, PTL DEF Spec, PaymentsFollowTheConfigInForce

-----------------------------------------------------------------------------
(* Which steps write the route table once it exists.                       *)
LEMMA OnlyRouteStepsWriteProfiles ==
  ASSUME IInv, [Next]_vars, NEW i \in DOMAIN profiles
  PROVE  \/ RoutesStep /\ RoutesType
         \/ profiles' = profiles
<1>1. config.exists
  BY DEF IInv, EmptyBeforeInitialize
<1>2. ~ \E caller \in Callers, params \in InitParams : Initialize(caller, params)
  BY <1>1, BothSucceed DEF Initialize, InitializeVerdict, Check, Ok
<1> QED BY <1>2, TypeParts DEF Next, vars, IInv

(* A profile shadowed by an earlier one of its id is never written.        *)
THEOREM ShadowsStayInert == Spec => ShadowedProfilesAreInert
<1>1. ASSUME IInv, [Next]_vars, NEW i \in DOMAIN profiles,
             NEW j \in 1 .. i - 1, profiles[j].route_id = profiles[i].route_id
      PROVE  profiles'[i] = profiles[i]
  <2>1. RoutesType
    BY <1>1, TypeParts DEF IInv
  <2>2. j \in DOMAIN profiles /\ j < i
    BY <2>1, ProfileAt
  <2>3. ~IsFirst(i)
    BY <1>1, <2>2 DEF IsFirst
  <2> QED BY <1>1, <2>1, <2>3, OnlyRouteStepsWriteProfiles, RoutesStepIsLocal
<1>2. IInv /\ [Next]_vars =>
        [\A i \in DOMAIN profiles :
           (\E j \in 1 .. i - 1 : profiles[j].route_id = profiles[i].route_id) =>
             profiles'[i] = profiles[i]]_vars
  BY <1>1
<1> QED BY <1>2, Invariance, PTL DEF Spec, ShadowedProfilesAreInert

(* A step that changes whether a route is enabled changes nothing else.    *)
THEOREM TogglesOnlyToggle == Spec => OnlyTogglesFlipEnabled
<1>1. ASSUME IInv, [Next]_vars, NEW i \in DOMAIN profiles,
             profiles'[i].enabled # profiles[i].enabled
      PROVE  profiles' = [profiles EXCEPT ![i].enabled = ~@]
  BY <1>1, OnlyRouteStepsWriteProfiles, RoutesStepIsLocal
<1>2. IInv /\ [Next]_vars =>
        [\A i \in DOMAIN profiles :
           profiles'[i].enabled # profiles[i].enabled =>
             profiles' = [profiles EXCEPT ![i].enabled = ~@]]_vars
  BY <1>1
<1> QED BY <1>2, Invariance, PTL DEF Spec, OnlyTogglesFlipEnabled

(* Profiles are never removed or renamed and never change unstamped.       *)
THEOREM HistoryIsKept == Spec => ProfilesKeepTheirHistory
<1>1. ASSUME IInv, [Next]_vars, NEW i \in DOMAIN profiles
      PROVE  /\ i \in DOMAIN profiles'
             /\ profiles'[i].route_id = profiles[i].route_id
             /\ \/ profiles'[i].configured_at = now
                \/ profiles'[i] = [profiles[i] EXCEPT !.enabled = profiles'[i].enabled]
  <2>1. CASE profiles' = profiles
    <3>1. profiles[i] \in ProfileType
      BY <1>1, TypeParts, ProfileAt DEF IInv
    <3>2. profiles[i] = [profiles[i] EXCEPT !.enabled = profiles[i].enabled]
      BY <3>1 DEF ProfileType
    <3> QED BY <2>1, <3>2
  <2>2. CASE RoutesStep /\ RoutesType
    BY <2>2, RoutesStepIsLocal
  <2> QED BY <1>1, <2>1, <2>2, OnlyRouteStepsWriteProfiles
<1>2. IInv /\ [Next]_vars =>
        [config.exists =>
           \A i \in DOMAIN profiles :
             /\ i \in DOMAIN profiles'
             /\ profiles'[i].route_id = profiles[i].route_id
             /\ \/ profiles'[i].configured_at = now
                \/ profiles'[i] = [profiles[i] EXCEPT !.enabled = profiles'[i].enabled]]_vars
  BY <1>1
<1> QED BY <1>2, Invariance, PTL DEF Spec, ProfilesKeepTheirHistory
-----------------------------------------------------------------------------
(* The events and the balances.                                            *)

(* The events are finitely many, so that their sums mean something, and    *)
(* account for what everybody holds.                                       *)
EventsAddUp == IsFiniteSet(AllPayments) /\ EventsExplainBalances

(* What one payment moves.                                                 *)
LEMMA PaymentMoves ==
  ASSUME NEW payment \in PaymentType, NEW p, NEW a
  PROVE  /\ Received(payment, a) \in Nat /\ Spent(payment, a) \in Nat
         /\ RentReceived(payment, p, a) \in Nat /\ RentSpent(payment, p, a) \in Nat
<1>1. /\ payment.legs.merchant \in Nat /\ payment.legs.treasury \in Nat
      /\ payment.legs.ip_creator \in Nat
      /\ payment.rent.payer_nonce \in Nat /\ payment.rent.consumed_nonce \in Nat
  BY DEF PaymentType, RentType
<1>2. Received(payment, a) \in Nat /\ Spent(payment, a) \in Nat
  BY <1>1 DEF Received, Spent
<1>3. RentReceived(payment, p, a) \in Nat /\ RentSpent(payment, p, a) \in Nat
  BY <1>1 DEF RentReceived, RentSpent, Total
<1> QED BY <1>2, <1>3

LEMMA GainsType ==
  ASSUME SettleType, NEW a
  PROVE  Gains(a) \in [AllPayments -> Int] /\ RentGains(a) \in [AllPayments -> Int]
<1>1. ASSUME NEW pi \in AllPayments PROVE Gains(a)[pi] \in Int /\ RentGains(a)[pi] \in Int
  <2>1. PICK p \in Payers : pi \in {<<p, i>> : i \in DOMAIN payments[p]}
    BY DEF AllPayments
  <2>2. PICK i \in DOMAIN payments[p] : pi = <<p, i>>
    BY <2>1
  <2> DEFINE payment == payments[pi[1]][pi[2]]
  <2>3. payment \in PaymentType
    BY <2>2, ElementOfSeq DEF SettleType
  <2>4. /\ Gains(a)[pi] = Received(payment, a) - Spent(payment, a)
        /\ RentGains(a)[pi] = RentReceived(payment, pi[1], a) - RentSpent(payment, pi[1], a)
    BY DEF Gains, RentGains
  <2> HIDE DEF payment
  <2> QED BY <2>3, <2>4, PaymentMoves
<1> QED BY <1>1 DEF Gains, RentGains

(* A settlement adds one event to the set, behind the payer's others.      *)
LEMMA EventIsAdded ==
  ASSUME SettleType, NEW payer \in Payers, NEW payment \in PaymentType,
         Complete(payment, payer)
  PROVE  LET new == <<payer, Len(payments[payer]) + 1>>
         IN  /\ new \notin AllPayments /\ AllPayments' = AllPayments \cup {new}
             /\ payments'[payer][Len(payments[payer]) + 1] = payment
             /\ \A pi \in AllPayments : payments'[pi[1]][pi[2]] = payments[pi[1]][pi[2]]
<1> DEFINE n == Len(payments[payer])
           new == <<payer, n + 1>>
<1>1. /\ \A p \in Payers \ {payer} : payments'[p] = payments[p]
      /\ n \in Nat /\ DOMAIN payments[payer] = 1 .. n /\ DOMAIN payments'[payer] = 1 .. n + 1
      /\ \A i \in 1 .. n + 1 :
           payments'[payer][i] = IF i = n + 1 THEN payment ELSE payments[payer][i]
  BY CompleteAppends
<1> HIDE DEF n
<1>2. \A p \in Payers : \A i \in DOMAIN payments'[p] :
        i \in DOMAIN payments[p] \/ <<p, i>> = new
  BY <1>1
<1>3. \A p \in Payers : \A i \in DOMAIN payments[p] :
        i \in DOMAIN payments'[p] /\ payments'[p][i] = payments[p][i]
  BY <1>1
<1>4. n + 1 \in DOMAIN payments'[payer] /\ n + 1 \notin DOMAIN payments[payer]
  BY <1>1
<1>5. \A x : x \in AllPayments <=> \E p \in Payers : \E i \in DOMAIN payments[p] : x = <<p, i>>
  BY DEF AllPayments
<1>6. \A x : x \in AllPayments' <=> \E p \in Payers : \E i \in DOMAIN payments'[p] : x = <<p, i>>
  BY DEF AllPayments
<1>7. new \notin AllPayments
  BY <1>4, <1>5
<1>8. AllPayments' = AllPayments \cup {new}
  <2>1. ASSUME NEW x \in AllPayments' PROVE x \in AllPayments \/ x = new
    BY <1>2, <1>5, <1>6
  <2>2. ASSUME NEW x \in AllPayments PROVE x \in AllPayments'
    BY <1>3, <1>5, <1>6
  <2>3. new \in AllPayments'
    BY <1>4, <1>6
  <2> QED BY <2>1, <2>2, <2>3
<1>9. \A pi \in AllPayments : payments'[pi[1]][pi[2]] = payments[pi[1]][pi[2]]
  BY <1>3, <1>5
<1>10. payments'[payer][n + 1] = payment
  BY <1>1
<1> QED BY <1>7, <1>8, <1>9, <1>10 DEF n

(* Both sums of an account grow by what the new payment moves.             *)
LEMMA SumsGrow ==
  ASSUME SettleType, IsFiniteSet(AllPayments),
         NEW payer \in Payers, NEW payment \in PaymentType, Complete(payment, payer), NEW a
  PROVE  /\ IsFiniteSet(AllPayments)'
         /\ SumFunction(Gains(a)) \in Int /\ SumFunction(RentGains(a)) \in Int
         /\ SumFunction(Gains(a))' =
              SumFunction(Gains(a)) + (Received(payment, a) - Spent(payment, a))
         /\ SumFunction(RentGains(a))' =
              SumFunction(RentGains(a))
                + (RentReceived(payment, payer, a) - RentSpent(payment, payer, a))
<1> DEFINE new == <<payer, Len(payments[payer]) + 1>>
           D == AllPayments
           gain == Received(payment, a) - Spent(payment, a)
           rent == RentReceived(payment, payer, a) - RentSpent(payment, payer, a)
<1>1. /\ new \notin D /\ AllPayments' = D \cup {new} /\ new[1] = payer
      /\ payments'[new[1]][new[2]] = payment
      /\ \A pi \in D : payments'[pi[1]][pi[2]] = payments[pi[1]][pi[2]]
  BY EventIsAdded
<1>2. IsFiniteSet(D) /\ IsFiniteSet(AllPayments')
  BY <1>1, FS_AddElement
<1>3. gain \in Int /\ rent \in Int
  BY PaymentMoves
<1>4. Gains(a) \in [D -> Int] /\ RentGains(a) \in [D -> Int]
  BY GainsType
<1> HIDE DEF new
<1>5. /\ DOMAIN Gains(a)' = D \cup {new} /\ Gains(a)'[new] = gain
      /\ Gains(a)' = [pi \in D \cup {new} |-> Gains(a)'[pi]]
      /\ \A x \in D : Gains(a)'[x] = Gains(a)[x]
  BY <1>1 DEF Gains
<1>6. /\ DOMAIN RentGains(a)' = D \cup {new} /\ RentGains(a)'[new] = rent
      /\ RentGains(a)' = [pi \in D \cup {new} |-> RentGains(a)'[pi]]
      /\ \A x \in D : RentGains(a)'[x] = RentGains(a)[x]
  BY <1>1 DEF RentGains
<1>7. /\ SumFunction(Gains(a)) \in Int
      /\ SumFunction(Gains(a)') = SumFunction(Gains(a)) + gain
  <2> DEFINE f == Gains(a)
             e == Gains(a)'
  <2>1. f \in [D -> Int] /\ e \in [D \cup {new} -> Int] /\ e[new] = gain
    <3> HIDE DEF gain, D
    <3> QED BY <1>3, <1>4, <1>5
  <2>2. \A x \in D : e[x] = f[x]
    BY <1>5
  <2> HIDE DEF f, e, D, gain
  <2>3. IsFiniteSet(D) /\ new \notin D
    BY <1>1, <1>2
  <2>4. HasOneMore(e, f, D, new)
    BY <2>1, <2>2, <2>3 DEF HasOneMore
  <2>5. SumFunction(f) \in Int /\ SumFunction(e) = SumFunction(f) + e[new]
    BY <2>4, SumFunctionGrows
  <2> QED BY <2>1, <2>5 DEF f, e
<1>8. /\ SumFunction(RentGains(a)) \in Int
      /\ SumFunction(RentGains(a)') = SumFunction(RentGains(a)) + rent
  <2> DEFINE f == RentGains(a)
             e == RentGains(a)'
  <2>1. f \in [D -> Int] /\ e \in [D \cup {new} -> Int] /\ e[new] = rent
    <3> HIDE DEF rent, D
    <3> QED BY <1>3, <1>4, <1>6
  <2>2. \A x \in D : e[x] = f[x]
    BY <1>6
  <2> HIDE DEF f, e, D, rent
  <2>3. IsFiniteSet(D) /\ new \notin D
    BY <1>1, <1>2
  <2>4. HasOneMore(e, f, D, new)
    BY <2>1, <2>2, <2>3 DEF HasOneMore
  <2>5. SumFunction(f) \in Int /\ SumFunction(e) = SumFunction(f) + e[new]
    BY <2>4, SumFunctionGrows
  <2> QED BY <2>1, <2>5 DEF f, e
<1>9. /\ SumFunction(Gains(a))' = SumFunction(Gains(a)')
      /\ SumFunction(RentGains(a))' = SumFunction(RentGains(a)')
  BY DEF SumFunction
<1> HIDE DEF gain, rent
<1>10. IsFiniteSet(AllPayments)'
  BY <1>2 DEF IsFiniteSet
<1> QED BY <1>7, <1>8, <1>9, <1>10 DEF gain, rent

LEMMA SettlementIsBooked ==
  ASSUME SettleType, EventsAddUp,
         NEW payer \in Payers, NEW payment \in PaymentType, Complete(payment, payer)
  PROVE  EventsAddUp'
<1>1. IsFiniteSet(AllPayments)'
  BY SumsGrow DEF EventsAddUp
<1>2. ASSUME NEW a \in Accounts PROVE balance'[a] = Booked(a)'
  <2>1. balance'[a] = balance[a] - Spent(payment, a) - RentSpent(payment, payer, a)
                        + Received(payment, a) + RentReceived(payment, payer, a)
    BY DEF Complete, Moved
  <2>2. balance[a] = FUNDS[a] + SumFunction(Gains(a)) + SumFunction(RentGains(a))
    BY DEF EventsAddUp, EventsExplainBalances, Booked
  <2>3. Booked(a)' = FUNDS[a] + SumFunction(Gains(a))' + SumFunction(RentGains(a))'
    BY DEF Booked
  <2>4. /\ SumFunction(Gains(a)) \in Int /\ SumFunction(RentGains(a)) \in Int
        /\ SumFunction(Gains(a))' =
             SumFunction(Gains(a)) + (Received(payment, a) - Spent(payment, a))
        /\ SumFunction(RentGains(a))' =
             SumFunction(RentGains(a))
               + (RentReceived(payment, payer, a) - RentSpent(payment, payer, a))
    BY SumsGrow DEF EventsAddUp
  <2>5. /\ Received(payment, a) \in Nat /\ Spent(payment, a) \in Nat
        /\ RentReceived(payment, payer, a) \in Nat /\ RentSpent(payment, payer, a) \in Nat
    BY PaymentMoves
  <2>6. FUNDS[a] \in Int
    BY SettlementAssumption
  <2> QED BY <2>1, <2>2, <2>3, <2>4, <2>5, <2>6
<1> QED BY <1>1, <1>2 DEF EventsAddUp, EventsExplainBalances

(* Before the first payment there is nothing to add up.                    *)
LEMMA NothingBooked ==
  ASSUME Init, NEW a \in Accounts
  PROVE  /\ IsFiniteSet(AllPayments)
         /\ SumFunction(Gains(a)) = 0 /\ SumFunction(RentGains(a)) = 0
         /\ balance[a] = FUNDS[a] /\ FUNDS[a] \in Nat
<1>1. AllPayments = {}
  BY DEF Init, SettleInit, AllPayments
<1>2. DOMAIN Gains(a) = {} /\ DOMAIN RentGains(a) = {}
  BY <1>1 DEF Gains, RentGains
<1>3. SumFunction(Gains(a)) = 0 /\ SumFunction(RentGains(a)) = 0
  BY <1>2, SumFunctionEmpty
<1>4. balance[a] = FUNDS[a] /\ FUNDS[a] \in Nat
  BY SettlementAssumption DEF Init, SettleInit
<1> QED BY <1>1, <1>3, <1>4, FS_EmptySet

LEMMA EventsAlwaysAddUp == Spec => []EventsAddUp
<1>1. Init => EventsAddUp
  <2> SUFFICES ASSUME Init PROVE EventsAddUp
    OBVIOUS
  <2>1. IsFiniteSet(AllPayments)
    <3>1. AllPayments = {}
      BY DEF Init, SettleInit, AllPayments
    <3> QED BY <3>1, FS_EmptySet
  <2>2. ASSUME NEW a \in Accounts PROVE balance[a] = Booked(a)
    BY NothingBooked DEF Booked
  <2> QED BY <2>1, <2>2 DEF EventsAddUp, EventsExplainBalances
<1>2. IInv /\ EventsAddUp /\ [Next]_vars => EventsAddUp'
  <2> SUFFICES ASSUME IInv, EventsAddUp, [Next]_vars PROVE EventsAddUp'
    OBVIOUS
  <2>1. CASE SettleStep
    <3>1. SettleType /\ RoutesType /\ RouteTable
      BY TypeParts DEF IInv
    <3>2. PICK tx \in NativeTxs \cup StableTxs, payment \in PaymentType :
            tx.payer \in Payers /\ Complete(payment, tx.payer)
      BY <2>1, <3>1, SettleStepCompletes
    <3> QED BY <3>1, <3>2, SettlementIsBooked
  <2>2. CASE ~SettleStep
    <3>1. UNCHANGED <<payments, balance>>
      BY <2>2 DEF Next, Initialize, vars, settleVars
    <3>2. AllPayments' = AllPayments /\ \A a : Booked(a)' = Booked(a)
      BY <3>1 DEF AllPayments, Booked, Gains, RentGains
    <3> QED BY <3>1, <3>2 DEF EventsAddUp, EventsExplainBalances
  <2> QED BY <2>1, <2>2
<1> QED BY <1>1, <1>2, Invariance, PTL DEF Spec

(* For any number of payers, quotes and settlements: what the Payment      *)
(* events say each account has received and spent, and the rent paid with  *)
(* them, is exactly what it holds.                                         *)
THEOREM EventsExplain == Spec => []EventsExplainBalances
  BY EventsAlwaysAddUp, PTL DEF EventsAddUp

(* Every nonce account in use holds its rent: a settlement pays what its   *)
(* two accounts lack, and takes nothing from any nonce account.            *)
LEMMA SettlementFundsNonceAccounts ==
  ASSUME SettleType, NonceAccountsKeepTheirRent,
         NEW payer \in Payers, NEW payment \in PaymentType, NEW recovered,
         Payable(payment, recovered, payer), Addressed(payment), Complete(payment, payer)
  PROVE  NonceAccountsKeepTheirRent'
<1> DEFINE n == payment.quote.nonce
<1>1. /\ n \in 0 .. MAX_NONCE /\ payment.quote.payer = payer
      /\ payment.rent = Rent(payer, n) /\ payment.rent \in RentType /\ n \notin consumed[payer]
  BY DEF PaymentType, Quotes, Payable, Verified
<1>2. ASSUME NEW a \in Accounts, a \notin Payers \cup DOMAIN TOKEN
      PROVE  /\ balance[a] \in Nat /\ balance'[a] \in Nat
             /\ balance'[a] >= balance[a] + RentReceived(payment, payer, a)
             /\ RentReceived(payment, payer, a) \in Nat
  <2>1. balance'[a] = balance[a] - Spent(payment, a) - RentSpent(payment, payer, a)
                        + Received(payment, a) + RentReceived(payment, payer, a)
    BY DEF Complete, Moved
  <2>2. payment.from # a
    BY <1>1, <1>2 DEF Addressed, Holds
  <2>3. Spent(payment, a) = 0 /\ RentSpent(payment, payer, a) = 0
    BY <1>2, <2>2 DEF Spent, RentSpent
  <2>4. Received(payment, a) \in Nat /\ RentReceived(payment, payer, a) \in Nat
    BY PaymentMoves
  <2>5. balance[a] \in Nat
    BY DEF SettleType
  <2> QED BY <2>1, <2>3, <2>4, <2>5
<1>3. ASSUME NEW a \in Accounts, a \notin Payers \cup DOMAIN TOKEN, NEW minimum \in Nat,
             \/ balance[a] >= minimum
             \/ RentReceived(payment, payer, a) >= Shortfall(balance[a], minimum)
      PROVE  balance'[a] >= minimum
  BY <1>2, <1>3 DEF Shortfall
<1>4. ASSUME NEW p \in Payers, payer_nonce'[p].payer # DEFAULT
      PROVE  balance'[NONCE_PDA[p]] >= COUNTER_RENT
  <2> DEFINE pda == NONCE_PDA[p]
  <2>1. pda \in Accounts /\ pda \notin Payers \cup DOMAIN TOKEN /\ COUNTER_RENT \in Nat
    BY SettlementAssumption DEF NobodysWallet
  <2>2. CASE payer_nonce[p].payer # DEFAULT
    <3>1. balance[pda] >= COUNTER_RENT
      BY <2>2 DEF NonceAccountsKeepTheirRent
    <3> QED BY <2>1, <3>1, <1>3
  <2>3. CASE payer_nonce[p].payer = DEFAULT
    <3>1. p = payer
      BY <1>4, <2>3 DEF Complete, AdvanceNonce, SettleType
    <3>2. payment.rent.payer_nonce = Shortfall(balance[pda], COUNTER_RENT)
      BY <1>1, <2>3, <3>1 DEF Rent
    <3>3. RentReceived(payment, payer, pda) >= Shortfall(balance[pda], COUNTER_RENT)
      BY <1>1, <3>1, <3>2 DEF RentReceived, RentType
    <3> QED BY <2>1, <3>3, <1>3
  <2> QED BY <2>2, <2>3
<1>5. ASSUME NEW p \in Payers, NEW m \in consumed'[p]
      PROVE  balance'[MARKER_PDA[p][m]] >= MARKER_RENT
  <2> DEFINE pda == MARKER_PDA[p][m]
  <2>1. \/ m \in consumed[p]
        \/ p = payer /\ m = n /\ m \notin consumed[p]
    BY <1>1 DEF Complete, AdvanceNonce, SettleType
  <2>2. m \in 0 .. MAX_NONCE
    BY <1>1, <2>1 DEF SettleType
  <2>3. pda \in Accounts /\ pda \notin Payers \cup DOMAIN TOKEN /\ MARKER_RENT \in Nat
    BY <2>2, NonceAccountsAreNobodys, SettlementAssumption
  <2>4. CASE m \in consumed[p]
    <3>1. balance[pda] >= MARKER_RENT
      BY <2>4 DEF NonceAccountsKeepTheirRent
    <3> QED BY <2>3, <3>1, <1>3
  <2>5. CASE p = payer /\ m = n /\ m \notin consumed[p]
    <3>1. payment.rent.consumed_nonce = Shortfall(balance[pda], MARKER_RENT)
      BY <1>1, <2>5 DEF Rent
    <3>2. RentReceived(payment, payer, pda) >= Shortfall(balance[pda], MARKER_RENT)
      BY <1>1, <2>5, <3>1 DEF RentReceived, RentType
    <3> QED BY <2>3, <3>2, <1>3
  <2> QED BY <2>1, <2>4, <2>5
<1> QED BY <1>4, <1>5 DEF NonceAccountsKeepTheirRent

(* No nonce account in use ever holds less than its rent, for any number   *)
(* of payers and whatever was at its address before.                       *)
THEOREM NonceAccountsStayRentExempt == Spec => []NonceAccountsKeepTheirRent
<1>1. Init => NonceAccountsKeepTheirRent
  BY DEF Init, SettleInit, NonceAccountsKeepTheirRent
<1>2. IInv /\ NonceAccountsKeepTheirRent /\ [Next]_vars => NonceAccountsKeepTheirRent'
  <2> SUFFICES ASSUME IInv, NonceAccountsKeepTheirRent, [Next]_vars
               PROVE  NonceAccountsKeepTheirRent'
    OBVIOUS
  <2>1. CASE SettleStep
    <3>1. SettleType /\ RoutesType /\ RouteTable
      BY TypeParts DEF IInv
    <3>2. PICK tx \in NativeTxs \cup StableTxs, payment \in PaymentType :
            /\ tx.payer \in Payers
            /\ Payable(payment, tx.recovered, tx.payer)
            /\ Addressed(payment)
            /\ Complete(payment, tx.payer)
      BY <2>1, <3>1, SettleStepCompletes
    <3> QED BY <3>1, <3>2, SettlementFundsNonceAccounts
  <2>2. CASE ~SettleStep
    <3>1. UNCHANGED settleVars
      BY <2>2 DEF Next, Initialize, vars, settleVars
    <3> QED BY <3>1 DEF NonceAccountsKeepTheirRent, settleVars
  <2> QED BY <2>1, <2>2
<1> QED BY <1>1, <1>2, Invariance, PTL DEF Spec

-----------------------------------------------------------------------------
(* The program implements the promise: a settlement is a payment that the  *)
(* promise allows, and every other step leaves events and holdings alone.  *)

(* What a settlement changes in anybody's holdings is what its payment     *)
(* says: what goes into the nonce accounts still counts as the payer's.    *)
LEMMA HoldingsFollowPayments ==
  ASSUME SettleType, IsFiniteSet(AllPayments),
         NEW payer \in Payers, NEW payment \in PaymentType, Complete(payment, payer),
         NEW a \in Accounts
  PROVE  Held(a)' - Held(a) = Received(payment, a) - Spent(payment, a)
<1>1. balance'[a] = balance[a] - Spent(payment, a) - RentSpent(payment, payer, a)
                      + Received(payment, a) + RentReceived(payment, payer, a)
  BY DEF Complete, Moved
<1>2. /\ SumFunction(RentGains(a)) \in Int
      /\ SumFunction(RentGains(a))' =
           SumFunction(RentGains(a))
             + (RentReceived(payment, payer, a) - RentSpent(payment, payer, a))
  BY SumsGrow
<1>3. /\ Received(payment, a) \in Nat /\ Spent(payment, a) \in Nat
      /\ RentReceived(payment, payer, a) \in Nat /\ RentSpent(payment, payer, a) \in Nat
  BY PaymentMoves
<1>4. balance[a] \in Nat
  BY DEF SettleType
<1>5. /\ Held(a) = balance[a] - SumFunction(RentGains(a))
      /\ Held(a)' = balance'[a] - SumFunction(RentGains(a))'
  BY DEF Held, PaidQuotes
<1> QED BY <1>1, <1>2, <1>3, <1>4, <1>5

(* Seen from outside: one account gives the gross amount, the merchant     *)
(* gains, and so do those of the other two that get anything; the shares   *)
(* are the legs.                                                           *)
LEMMA SettlementIsWhole ==
  ASSUME SettleType, RoutesType, RouteTable, IsFiniteSet(AllPayments),
         NEW payer \in Payers, NEW payment \in PaymentType,
         NEW recovered, Payable(payment, recovered, payer), Separate(payment),
         Complete(payment, payer)
  PROVE  Promise!Transferred(payment.quote.gross_amount)
<1> DEFINE gross == payment.quote.gross_amount
           legs == payment.legs
           receivers == {a \in Accounts : Promise!Gain(a) > 0}
           treasury == IF legs.treasury = 0 THEN NONE ELSE payment.treasury
           ip_creator == IF legs.ip_creator = 0 THEN NONE ELSE payment.ip_creator
<1> HIDE DEF receivers
<1>1. \A a \in Accounts : Promise!Gain(a) = Received(payment, a) - Spent(payment, a)
  <2> SUFFICES ASSUME NEW a \in Accounts
               PROVE  Promise!Gain(a) = Received(payment, a) - Spent(payment, a)
    OBVIOUS
  <2>1. Held(a)' - Held(a) = Received(payment, a) - Spent(payment, a)
    BY HoldingsFollowPayments
  <2>2. a # NONE
    BY SettlementAssumption
  <2>3. Promise!Gain(a) = Held(a)' - Held(a)
    BY <2>2 DEF Promise!Gain, PaidQuotes
  <2> QED BY <2>1, <2>3
<1>2. Promise!Gain(NONE) = 0
  BY DEF Promise!Gain, PaidQuotes
<1>3. /\ legs \in LegsType /\ gross \in Nat /\ CappedLegs(payment)
      /\ legs.merchant > 0
  BY PayableLegs
<1>4. /\ legs.merchant \in Nat /\ legs.treasury \in Nat /\ legs.ip_creator \in Nat
      /\ legs.merchant + legs.treasury + legs.ip_creator = gross
      /\ Promise!WithinCap(legs.treasury, gross, MAX_TREASURY_BPS)
      /\ Promise!WithinCap(legs.ip_creator, gross, MAX_IP_CREATOR_BPS)
  BY <1>3 DEF LegsType, CappedLegs, Promise!WithinCap, PaidQuotes
<1>5. /\ payment.from \in Accounts /\ payment.merchant \in Accounts
      /\ payment.treasury \in Accounts /\ payment.ip_creator \in Accounts \cup {NONE}
      /\ NONE \notin Accounts
  BY SettlementAssumption DEF PaymentType
<1> HIDE DEF gross, legs
<1>6. /\ Promise!Gain(payment.from) = -gross
      /\ Promise!Gain(payment.merchant) = legs.merchant
      /\ Promise!Gain(payment.treasury) = legs.treasury
      /\ Promise!Gain(payment.ip_creator) = legs.ip_creator
  <2>1. /\ Spent(payment, payment.from) = gross
        /\ Received(payment, payment.from) = 0
        /\ Spent(payment, payment.merchant) = 0
        /\ Received(payment, payment.merchant) = legs.merchant
        /\ Spent(payment, payment.treasury) = 0
        /\ Received(payment, payment.treasury) = legs.treasury
    BY <1>4 DEF Separate, Apart, Spent, Received, legs
  <2>2. payment.ip_creator # NONE =>
          /\ Spent(payment, payment.ip_creator) = 0
          /\ Received(payment, payment.ip_creator) = legs.ip_creator
    BY <1>4 DEF Separate, Apart, Spent, Received, legs
  <2>3. payment.ip_creator = NONE => legs.ip_creator = 0
    BY DEF Separate, legs
  <2> QED BY <2>1, <2>2, <2>3, <1>1, <1>2, <1>3, <1>4, <1>5
<1>7. \A a \in Accounts \ {payment.from, payment.merchant, payment.treasury, payment.ip_creator} :
        Promise!Gain(a) = 0
  <2> SUFFICES ASSUME NEW a \in Accounts \ {payment.from, payment.merchant,
                                            payment.treasury, payment.ip_creator}
               PROVE  Promise!Gain(a) = 0
    OBVIOUS
  <2>1. Spent(payment, a) = 0 /\ Received(payment, a) = 0
    BY DEF Spent, Received
  <2> QED BY <2>1, <1>1
<1>8. /\ payment.from # payment.merchant /\ payment.from # payment.treasury
      /\ payment.merchant # payment.treasury
      /\ payment.ip_creator \notin {payment.from, payment.merchant, payment.treasury}
      /\ payment.ip_creator = NONE => legs.ip_creator = 0
  BY DEF Separate, Apart, legs
<1>9. /\ Promise!Gain(treasury) = legs.treasury
      /\ Promise!Gain(ip_creator) = legs.ip_creator
  BY <1>2, <1>6
<1>10. receivers \subseteq Accounts /\ \A a \in Accounts : a \in receivers <=> Promise!Gain(a) > 0
  BY DEF receivers, PaidQuotes
<1>11. \A a \in Accounts :
         a \in receivers <=> \/ a = payment.merchant
                             \/ a = payment.treasury /\ legs.treasury > 0
                             \/ a = payment.ip_creator /\ legs.ip_creator > 0
  <2> SUFFICES ASSUME NEW a \in Accounts
               PROVE  Promise!Gain(a) > 0 <=> \/ a = payment.merchant
                                              \/ a = payment.treasury /\ legs.treasury > 0
                                              \/ a = payment.ip_creator /\ legs.ip_creator > 0
    BY <1>10
  <2>1. CASE a \notin {payment.from, payment.merchant, payment.treasury, payment.ip_creator}
    BY <2>1, <1>7
  <2>2. CASE a = payment.from
    BY <2>2, <1>3, <1>4, <1>6, <1>8
  <2>3. CASE a = payment.merchant
    BY <2>3, <1>3, <1>6
  <2>4. CASE a = payment.treasury
    BY <2>4, <1>6, <1>8
  <2>5. CASE a = payment.ip_creator
    BY <2>5, <1>6, <1>8
  <2> QED BY <2>1, <2>2, <2>3, <2>4, <2>5
<1>12. \A a \in Accounts \ (receivers \cup {payment.from}) : Promise!Gain(a) = 0
  <2> SUFFICES ASSUME NEW a \in Accounts, a \notin receivers, a # payment.from
               PROVE  Promise!Gain(a) = 0
    OBVIOUS
  <2>1. CASE a \in {payment.treasury, payment.ip_creator}
    <3> QED BY <2>1, <1>4, <1>6, <1>11
  <2>2. CASE a \notin {payment.treasury, payment.ip_creator}
    <3>1. a # payment.merchant
      BY <1>11
    <3> QED BY <2>2, <3>1, <1>7
  <2> QED BY <2>1, <2>2
<1>13. /\ payment.from \in Accounts \ receivers /\ payment.merchant \in receivers
       /\ treasury \in (receivers \ {payment.merchant}) \cup {NONE}
       /\ ip_creator \in (receivers \ {payment.merchant}) \cup {NONE}
       /\ treasury = ip_creator => treasury = NONE
       /\ receivers \subseteq {payment.merchant, treasury, ip_creator}
  <2>1. payment.from \in Accounts \ receivers /\ payment.merchant \in receivers
    BY <1>5, <1>8, <1>11
  <2>2. treasury \in (receivers \ {payment.merchant}) \cup {NONE}
    BY <1>4, <1>5, <1>8, <1>11
  <2>3. ip_creator \in (receivers \ {payment.merchant}) \cup {NONE}
    BY <1>4, <1>5, <1>8, <1>11
  <2>4. treasury = ip_creator => treasury = NONE
    BY <1>8
  <2>5. receivers \subseteq {payment.merchant, treasury, ip_creator}
    BY <1>4, <1>11, <1>10
  <2> QED BY <2>1, <2>2, <2>3, <2>4, <2>5
<1> HIDE DEF treasury, ip_creator
<1>14. /\ Promise!WithinCap(Promise!Gain(treasury), gross, MAX_TREASURY_BPS)
       /\ Promise!WithinCap(Promise!Gain(ip_creator), gross, MAX_IP_CREATOR_BPS)
       /\ Promise!Gain(payment.merchant) + Promise!Gain(treasury)
            + Promise!Gain(ip_creator) = gross
  BY <1>4, <1>6, <1>9
<1>15. Promise!Transferred(gross)
  BY <1>6, <1>12, <1>13, <1>14 DEF Promise!Transferred, PaidQuotes, receivers
<1> QED BY <1>15 DEF gross

(* The payer's quote is new: its nonce is beyond those of all its events.  *)
LEMMA SettlementIsPaidOnce ==
  ASSUME SettleType, NonceLedger, NEW payer \in Payers, NEW payment \in PaymentType,
         NEW recovered, Payable(payment, recovered, payer)
  PROVE  \A p \in Payers : \A i \in DOMAIN payments[p] : payments[p][i].quote # payment.quote
<1> SUFFICES ASSUME NEW p \in Payers, NEW i \in DOMAIN payments[p],
                    payments[p][i].quote = payment.quote
             PROVE  FALSE
  OBVIOUS
<1>1. /\ payment.quote.payer = payer /\ payment.quote.nonce = Len(payments[payer])
  BY DEF Payable, Verified, NonceLedger
<1>2. p = payer /\ payment.quote.nonce = i - 1
  BY <1>1 DEF NonceLedger
<1>3. DOMAIN payments[p] = 1 .. Len(payments[p]) /\ Len(payments[p]) \in Nat
  BY LenProperties DEF SettleType
<1> QED BY <1>1, <1>2, <1>3

LEMMA SettlementIsPromised ==
  ASSUME SettleType, RoutesType, RouteTable, NonceLedger, IsFiniteSet(AllPayments),
         NEW payer \in Payers, NEW payment \in PaymentType,
         NEW recovered, Payable(payment, recovered, payer), Separate(payment),
         Complete(payment, payer)
  PROVE  Promise!Next
<1> DEFINE n == Len(payments[payer])
           paid == [p \in Payers |-> PaidQuotes(p)]
           quote == payment.quote
<1>1. /\ \A p \in Payers \ {payer} : payments'[p] = payments[p]
      /\ n \in Nat /\ DOMAIN payments[payer] = 1 .. n /\ DOMAIN payments'[payer] = 1 .. n + 1
      /\ \A i \in 1 .. n + 1 :
           payments'[payer][i] = IF i = n + 1 THEN payment ELSE payments[payer][i]
  BY CompleteAppends
<1>2. /\ PaidQuotes(payer) = [i \in 1 .. n |-> payments[payer][i].quote]
      /\ PaidQuotes(payer)' = [i \in 1 .. n + 1 |-> payments'[payer][i].quote]
      /\ \A p \in Payers \ {payer} : PaidQuotes(p)' = PaidQuotes(p)
  BY <1>1 DEF PaidQuotes
<1> HIDE DEF n
<1>3. Len(PaidQuotes(payer)) = n /\ Len(PaidQuotes(payer)') = n + 1
  BY <1>1, <1>2
<1>4. PaidQuotes(payer)' = Append(PaidQuotes(payer), quote)
  <2>1. \A i \in 1 .. n + 1 : payments'[payer][i].quote
                               = IF i = n + 1 THEN quote ELSE payments[payer][i].quote
    BY <1>1
  <2>2. Append(PaidQuotes(payer), quote)
          = [i \in 1 .. n + 1 |-> IF i = n + 1 THEN quote ELSE payments[payer][i].quote]
    BY <1>1, <1>2
  <2> QED BY <1>2, <2>1, <2>2
<1>5. PaidQuotes(payer)'[n + 1] = quote
  BY <1>1, <1>2
<1>6. [p \in Payers |-> PaidQuotes(p)']
        = [[p \in Payers |-> PaidQuotes(p)] EXCEPT ![payer] = Append(@, quote)]
  BY <1>2, <1>4
<1>7. quote.payer = payer
  BY DEF Payable, Verified
<1>8. ~Promise!PaidBefore(quote)
  BY SettlementIsPaidOnce DEF Promise!PaidBefore, PaidQuotes
<1>9. Promise!Transferred(quote.gross_amount)
  BY SettlementIsWhole
<1>10. Promise!Pay(payer)
  BY <1>3, <1>5, <1>6, <1>7, <1>8, <1>9 DEF Promise!Pay
<1> QED BY <1>10 DEF Promise!Next

(* The refinement, for every set of actors, routes and transactions and    *)
(* every bound: what the program does is what PaymentPromise promises.     *)
THEOREM Refinement == Spec => KeepsThePromise
<1>1. Init => Promise!Init
  <2> SUFFICES ASSUME Init PROVE Promise!Init
    OBVIOUS
  <2>1. \A p \in Payers : payments[p] = <<>> /\ PaidQuotes(p) = <<>>
    BY DEF Init, SettleInit, PaidQuotes
  <2>2. \A a \in Accounts : Held(a) = FUNDS[a]
    BY NothingBooked DEF Held, PaidQuotes
  <2>3. FUNDS = [a \in Accounts |-> FUNDS[a]]
    BY SettlementAssumption
  <2> QED BY <2>1, <2>2, <2>3 DEF Promise!Init
<1>2. IInv /\ EventsAddUp /\ [Next]_vars
        => [Promise!Next]_<<[p \in Payers |-> PaidQuotes(p)], [a \in Accounts |-> Held(a)]>>
  <2> SUFFICES ASSUME IInv, EventsAddUp, [Next]_vars
               PROVE  \/ Promise!Next
                      \/ UNCHANGED <<[p \in Payers |-> PaidQuotes(p)],
                                     [a \in Accounts |-> Held(a)]>>
    OBVIOUS
  <2>1. CASE SettleStep
    <3>1. SettleType /\ RoutesType /\ RouteTable /\ NonceLedger /\ IsFiniteSet(AllPayments)
      BY TypeParts DEF IInv, EventsAddUp
    <3>2. PICK tx \in NativeTxs \cup StableTxs, payment \in PaymentType :
            /\ tx.payer \in Payers
            /\ Payable(payment, tx.recovered, tx.payer)
            /\ Separate(payment)
            /\ Complete(payment, tx.payer)
      BY <2>1, <3>1, SettleStepCompletes
    <3> QED BY <3>1, <3>2, SettlementIsPromised
  <2>2. CASE ~SettleStep
    <3>1. UNCHANGED <<payments, balance>>
      BY <2>2 DEF Next, Initialize, vars, settleVars
    <3> QED BY <3>1 DEF PaidQuotes, Held, RentGains, AllPayments
  <2> QED BY <2>1, <2>2
<1> QED BY <1>1, <1>2, Invariance, EventsAlwaysAddUp, PTL DEF Spec, KeepsThePromise, Promise!Spec
=============================================================================
