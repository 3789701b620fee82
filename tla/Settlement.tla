----------------------------- MODULE Settlement -----------------------------
(***************************************************************************)
(* settle_native and settle_stable: a payer submits a quote the backend    *)
(* has signed; the program verifies it, consumes the payer's nonce, splits *)
(* the gross amount and moves the three legs, all in one transaction.      *)
(***************************************************************************)
EXTENDS Routes, Whitelist

CONSTANTS
  Payers,         \* wallets that pay
  Accounts,       \* accounts that hold lamports or tokens
  TOKEN,          \* TOKEN[a] = [mint, owner] when a is a token account
  NONCE_PDA,      \* NONCE_PDA[p]: account payer_nonce of payer p
  MARKER_PDA,     \* MARKER_PDA[p][n]: account consumed_nonce of payer p and nonce n
  CONFIG_PDA, PROFILES_PDA, TOKEN_LIST_PDA,
  NONE,           \* no account in this place
  NativeTxs,      \* settle_native transactions that reach the program
  StableTxs,      \* settle_stable transactions that reach the program
  FUNDS,          \* FUNDS[a]: what account a holds at first
  COUNTER_RENT,   \* rent-exempt minimum of a payer_nonce account
  MARKER_RENT,    \* rent-exempt minimum of a consumed_nonce account
  MIN_BALANCE,    \* rent-exempt minimum of a wallet
  MAX_QUOTE_LIFETIME_SECONDS,
  MAX_NONCE       \* u64::MAX, the last nonce

Quotes ==
  [payer : Pubkeys, merchant : Pubkeys, token : Pubkeys, gross_amount : U64,
   ip_creator : Pubkeys, valid_until : Int, order : Nat, nonce : 0 .. MAX_NONCE,
   route_id : RouteIds]

(* "recovered" is the key recover_signer finds behind the signature for    *)
(* the digest of this very quote, ZERO_KEY when it finds none.             *)
NativeTxType ==
  [quote : Quotes, recovered : SignerKeys, payer : Payers, nonce : 0 .. MAX_NONCE,
   merchant : Accounts, treasury : Accounts, ip_creator : Accounts]

(* remaining: payer_ata, merchant_ata, treasury_ata, [ip_creator_ata].     *)
(* frozen: the accounts that the mint's freeze authority keeps frozen when *)
(* the transaction executes.                                               *)
StableTxType ==
  [quote : Quotes, recovered : SignerKeys, payer : Payers, nonce : 0 .. MAX_NONCE,
   mint : Mints, remaining : Seq(Accounts), read_only : SUBSET Accounts,
   frozen : SUBSET Accounts]

NobodysWallet == Accounts \ (Payers \cup DOMAIN TOKEN)

ASSUME SettlementAssumption ==
  /\ Payers \subseteq (Accounts \cap Pubkeys) \ {DEFAULT}
  /\ {CONFIG_PDA, PROFILES_PDA, TOKEN_LIST_PDA} \subseteq Accounts
  /\ DEFAULT \notin Accounts /\ NONE \notin Accounts
  /\ NONCE_PDA \in [Payers -> NobodysWallet]
  /\ MARKER_PDA \in [Payers -> [0 .. MAX_NONCE -> NobodysWallet]]
  /\ \A p \in Payers, n \in 0 .. MAX_NONCE : NONCE_PDA[p] # MARKER_PDA[p][n]
  /\ DOMAIN TOKEN \subseteq Accounts
  /\ FUNDS \in [Accounts -> Nat]
  /\ COUNTER_RENT \in Nat /\ MARKER_RENT \in Nat /\ MIN_BALANCE \in Nat
  /\ MAX_QUOTE_LIFETIME_SECONDS \in Nat /\ MAX_NONCE \in Nat
  /\ NativeTxs \subseteq NativeTxType
  /\ StableTxs \subseteq StableTxType

VARIABLES
  payer_nonce,  \* PayerNonce of each payer
  consumed,     \* ConsumedNonce.consumed of each payer and nonce
  payments,     \* Payment events of each payer, oldest first
  balance       \* lamports of wallets, tokens of token accounts

settleVars == <<payer_nonce, consumed, payments, balance>>

(* What a transaction puts into the two nonce accounts. *)
RentType == [payer_nonce : Nat, consumed_nonce : Nat]

(* A Payment event, with the accounts its transaction names and the rent   *)
(* it paid: payment_id is a hash of the whole quote, so the event          *)
(* determines the quote.                                                   *)
PaymentType ==
  [quote : Quotes, legs : [merchant : Nat, treasury : Nat, ip_creator : Nat],
   merchant : Accounts, treasury : Accounts, ip_creator : Accounts \cup {NONE},
   from : Accounts, rent : RentType]

SettleInit ==
  /\ payer_nonce = [p \in Payers |-> [payer |-> DEFAULT, nonce |-> 0]]
  /\ consumed = [p \in Payers |-> {}]
  /\ payments = [p \in Payers |-> <<>>]
  /\ balance = FUNDS

-----------------------------------------------------------------------------
(* Mutant: a quote may be dated as far ahead as the backend likes. *)
Fresh_Unbounded(quote) == now <= quote.valid_until

(* Neither expired nor dated further ahead than the maximum lifetime. *)
Fresh(quote) ==
  /\ now <= quote.valid_until
  /\ quote.valid_until <= now + MAX_QUOTE_LIFETIME_SECONDS

(* Mutant: the counter may step past the last nonce. *)
NonceVerdict_NoOverflowCheck(quote, payer) ==
     Check(quote.nonce = payer_nonce[payer].nonce, "InvalidNonce")
  ?? Check(quote.nonce \notin consumed[payer], "NonceAlreadyConsumed")

(* The nonce part of verify_quote_core, its account checks first. *)
NonceVerdict(quote, payer) ==
     Check(payer_nonce[payer].payer \in {DEFAULT, quote.payer}, "InvalidPayer")
  ?? Check(quote.nonce = payer_nonce[payer].nonce, "InvalidNonce")
  ?? Check(quote.nonce \notin consumed[payer], "NonceAlreadyConsumed")
  ?? Check(quote.nonce < MAX_NONCE, "NonceOverflow")

(* verify_quote_core up to the nonce *)
QuoteVerdict(quote, recovered, payer) ==
     Check(recovered # ZERO_KEY, "InvalidSignature")
  ?? Check(recovered = config.signer, "InvalidSigner")
  ?? Check(Fresh(quote), "SignatureExpired")
  ?? Check(quote.payer # DEFAULT /\ quote.payer = payer, "InvalidPayer")
  ?? Check(quote.merchant # DEFAULT, "ZeroMerchant")
  ?? FindRoute(quote.route_id)
  ?? Check(Profile(quote.route_id).enabled, "RouteDisabled")

(* verify_quote_core *)
VerifyQuote(quote, recovered, payer) ==
  QuoteVerdict(quote, recovered, payer) ?? NonceVerdict(quote, payer)

SplitQuote(quote) ==
  SplitVerdict(quote.gross_amount, Profile(quote.route_id), quote.ip_creator # DEFAULT)

Legs(quote) == Split(quote.gross_amount, Profile(quote.route_id))

-----------------------------------------------------------------------------
(* What an account that holds so much lacks for its rent. *)
Shortfall(held, rent) == IF held >= rent THEN 0 ELSE rent - held

(* Mutant: what is at the address of the counter counts for the marker.    *)
Rent_CountsOnce(payer, nonce) ==
  [payer_nonce |->
     IF payer_nonce[payer].payer # DEFAULT THEN 0
     ELSE Shortfall(balance[NONCE_PDA[payer]], COUNTER_RENT),
   consumed_nonce |->
     IF nonce \in consumed[payer] THEN 0
     ELSE Shortfall(balance[NONCE_PDA[payer]], MARKER_RENT)]

(* init_if_needed: the payer funds the nonce accounts that do not exist    *)
(* yet, before the handler runs; lamports somebody has sent to the address *)
(* of one beforehand count.                                                *)
Rent(payer, nonce) ==
  [payer_nonce |->
     IF payer_nonce[payer].payer # DEFAULT THEN 0
     ELSE Shortfall(balance[NONCE_PDA[payer]], COUNTER_RENT),
   consumed_nonce |->
     IF nonce \in consumed[payer] THEN 0
     ELSE Shortfall(balance[MARKER_PDA[payer][nonce]], MARKER_RENT)]

Total(rent) == rent.payer_nonce + rent.consumed_nonce

NonceAccounts(payer, nonce) ==
  Check(balance[payer] >= Total(Rent(payer, nonce)), "InsufficientFundsForRent")

(* The accounts both handlers refuse as recipients; token_list, which      *)
(* settle_native is not even given, is not among them, nor are the nonce   *)
(* accounts of other payers and other nonces.                              *)
ProtocolPdas(payer, nonce) ==
  {CONFIG_PDA, PROFILES_PDA, NONCE_PDA[payer], MARKER_PDA[payer][nonce]}

(* What the payment adds to account a. *)
Received(payment, a) ==
  (IF a = payment.merchant THEN payment.legs.merchant ELSE 0)
    + (IF a = payment.treasury THEN payment.legs.treasury ELSE 0)
    + (IF a = payment.ip_creator THEN payment.legs.ip_creator ELSE 0)

(* What it takes from account a. *)
Spent(payment, a) ==
  IF a = payment.from
  THEN payment.legs.merchant + payment.legs.treasury + payment.legs.ip_creator
  ELSE 0

(* The rent it brings to account a, and takes from it. *)
RentReceived(payment, payer, a) ==
  (IF a = NONCE_PDA[payer] THEN payment.rent.payer_nonce ELSE 0)
    + (IF a = MARKER_PDA[payer][payment.quote.nonce] THEN payment.rent.consumed_nonce ELSE 0)

RentSpent(payment, payer, a) == IF a = payer THEN Total(payment.rent) ELSE 0

(* Mutant: the treasury leg is not transferred. *)
Moved_NoTreasuryLeg(payment, payer) ==
  [a \in Accounts |->
     balance[a] - Spent(payment, a) - RentSpent(payment, payer, a)
       + Received([payment EXCEPT !.legs.treasury = 0], a)
       + RentReceived(payment, payer, a)]

(* All balances once the rent is paid and the legs are transferred. *)
Moved(payment, payer) ==
  [a \in Accounts |->
     balance[a] - Spent(payment, a) - RentSpent(payment, payer, a)
       + Received(payment, a) + RentReceived(payment, payer, a)]

(* A wallet between zero and the rent-exempt minimum is tolerated only     *)
(* where it was there before, if it does not grow.                         *)
LeavesDust(before, after) ==
  LET Dust == 1 .. MIN_BALANCE - 1
  IN  after \in Dust /\ ~(before \in Dust /\ after <= before)

(* The runtime commits no transaction that leaves dust in a wallet. *)
RentExempt(payment, payer, wallets) ==
  Check(\A w \in wallets \ {NONE} : ~LeavesDust(balance[w], Moved(payment, payer)[w]),
        "InsufficientFundsForRent")

(* Mutant: the nonce is not advanced, only marked. *)
AdvanceNonce_MarkOnly(quote, payer) ==
  /\ payer_nonce' = [payer_nonce EXCEPT ![payer].payer = quote.payer]
  /\ consumed' = [consumed EXCEPT ![payer] = @ \cup {quote.nonce}]

(* Mutant: the accounts are not writable, so the writes are lost. *)
AdvanceNonce_NotWritten(quote, payer) == UNCHANGED <<payer_nonce, consumed>>

(* Mutant: the marker is written under the new nonce. *)
AdvanceNonce_MarksNext(quote, payer) ==
  /\ payer_nonce' =
       [payer_nonce EXCEPT ![payer] = [payer |-> quote.payer, nonce |-> quote.nonce + 1]]
  /\ consumed' = [consumed EXCEPT ![payer] = @ \cup {quote.nonce + 1}]

(* The writes at the end of verify_quote_core. *)
AdvanceNonce(quote, payer) ==
  /\ payer_nonce' =
       [payer_nonce EXCEPT ![payer] = [payer |-> quote.payer, nonce |-> quote.nonce + 1]]
  /\ consumed' = [consumed EXCEPT ![payer] = @ \cup {quote.nonce}]

Complete(payment, payer) ==
  /\ AdvanceNonce(payment.quote, payer)
  /\ payments' = [payments EXCEPT ![payer] = Append(@, payment)]
  /\ balance' = Moved(payment, payer)

-----------------------------------------------------------------------------
NativePayment(tx) ==
  [quote |-> tx.quote, legs |-> Legs(tx.quote), from |-> tx.payer,
   merchant |-> tx.merchant, treasury |-> tx.treasury, ip_creator |-> tx.ip_creator,
   rent |-> Rent(tx.payer, tx.nonce)]

(* The accounts of settle_native, before anything is verified. *)
NativeAccountsVerdict(tx) ==
  LET recipients == {tx.merchant, tx.treasury, tx.ip_creator}
  IN     Check(~config.is_paused, "ProtocolPaused")
      ?? Check(tx.quote.token = DEFAULT, "InvalidTokenForNative")
      ?? Check(tx.quote.nonce = tx.nonce, "InvalidNonce")
      ?? Check(tx.merchant = tx.quote.merchant, "MerchantMismatch")
      ?? Check(/\ tx.payer \notin recipients
               /\ Cardinality(recipients) = 3, "DuplicateSettlementAccount")
      ?? Check(recipients \cap ProtocolPdas(tx.payer, tx.nonce) = {}, "ProtocolAccountMisuse")

(* The ip_creator account is compared with the quote only when it is paid. *)
NativeTransfersVerdict(tx) ==
     Check(balance[tx.payer] - Total(Rent(tx.payer, tx.nonce)) >= tx.quote.gross_amount,
           "IncorrectNativeValue")
  ?? SplitQuote(tx.quote)
  ?? Check(tx.treasury = EffectiveTreasury(tx.quote.route_id), "ZeroTreasury")
  ?? Check(Legs(tx.quote).ip_creator > 0 => tx.ip_creator = tx.quote.ip_creator,
           "IPCreatorMismatch")
  ?? RentExempt(NativePayment(tx), tx.payer,
                {tx.payer, tx.merchant, tx.treasury, tx.ip_creator})

NativeVerdict(tx) ==
     ConfigExists
  ?? NonceAccounts(tx.payer, tx.nonce)
  ?? NativeAccountsVerdict(tx)
  ?? VerifyQuote(tx.quote, tx.recovered, tx.payer)
  ?? NativeTransfersVerdict(tx)

SettleNative(tx) ==
  /\ NativeVerdict(tx) = Ok
  /\ Complete(NativePayment(tx), tx.payer)

-----------------------------------------------------------------------------
IpAta(tx) == IF Len(tx.remaining) >= 4 THEN tx.remaining[4] ELSE NONE

StablePayment(tx) ==
  [quote |-> tx.quote, legs |-> Legs(tx.quote), from |-> tx.remaining[1],
   merchant |-> tx.remaining[2], treasury |-> tx.remaining[3], ip_creator |-> IpAta(tx),
   rent |-> Rent(tx.payer, tx.nonce)]

(* deserialize_token_account *)
TokenAccount(account, mint, owner) ==
     Check(account \in DOMAIN TOKEN, "UnsupportedToken")
  ?? Check(TOKEN[account].mint = mint, "UnsupportedToken")
  ?? Check(TOKEN[account].owner = owner, "TokenAccountOwnerMismatch")

(* The accounts of settle_stable, before the quote is verified. *)
StableAccountsVerdict(tx) ==
  LET remaining == tx.remaining
      destinations == {remaining[i] : i \in DOMAIN remaining \cap 2 .. 4}
  IN     Check(IsAllowed(tx.mint), "ConstraintRaw")
      ?? Check(~config.is_paused, "ProtocolPaused")
      ?? Check(tx.quote.token # DEFAULT /\ tx.quote.token = tx.mint, "UnsupportedToken")
      ?? Check(tx.quote.nonce = tx.nonce, "InvalidNonce")
      ?? Check(Len(remaining) >= 3, "UnsupportedToken")
      ?? Check(destinations \cap tx.read_only = {}, "DestinationNotWritable")
      ?? Check(\A i \in DOMAIN remaining :
                 /\ remaining[i] # tx.payer
                 /\ \A j \in DOMAIN remaining : remaining[i] = remaining[j] => i = j,
               "DuplicateSettlementAccount")
      ?? Check(destinations \cap ProtocolPdas(tx.payer, tx.nonce) = {}, "ProtocolAccountMisuse")
      ?? FindRoute(tx.quote.route_id)
      ?? TokenAccount(remaining[1], tx.mint, tx.payer)
      ?? TokenAccount(remaining[2], tx.mint, tx.quote.merchant)
      ?? TokenAccount(remaining[3], tx.mint, EffectiveTreasury(tx.quote.route_id))

Unfrozen(tx, accounts) == Check(accounts \cap tx.frozen = {}, "AccountFrozen")

(* SPL transfers fail on a frozen account and without funds; no transfer   *)
(* is made of nothing to the treasury or the IP creator, whose account is  *)
(* looked at only now.                                                     *)
StableTransfersVerdict(tx) ==
  LET legs == Legs(tx.quote)
      from == tx.remaining[1]
  IN     SplitQuote(tx.quote)
      ?? Check(from \notin tx.read_only, "PrivilegeEscalation")
      ?? Unfrozen(tx, {from, tx.remaining[2]})
      ?? Check(balance[from] >= legs.merchant, "InsufficientFunds")
      ?? (IF legs.treasury = 0 THEN Ok ELSE Unfrozen(tx, {tx.remaining[3]}))
      ?? Check(balance[from] >= legs.merchant + legs.treasury, "InsufficientFunds")
      ?? (IF legs.ip_creator = 0 THEN Ok
          ELSE    Check(Len(tx.remaining) >= 4, "MissingIPCreator")
               ?? TokenAccount(IpAta(tx), tx.mint, tx.quote.ip_creator)
               ?? Unfrozen(tx, {IpAta(tx)}))
      ?? Check(balance[from] >= tx.quote.gross_amount, "InsufficientFunds")
      ?? RentExempt(StablePayment(tx), tx.payer, {tx.payer})

StableVerdict(tx) ==
     ConfigExists
  ?? NonceAccounts(tx.payer, tx.nonce)
  ?? StableAccountsVerdict(tx)
  ?? VerifyQuote(tx.quote, tx.recovered, tx.payer)
  ?? StableTransfersVerdict(tx)

SettleStable(tx) ==
  /\ StableVerdict(tx) = Ok
  /\ Complete(StablePayment(tx), tx.payer)

SettleStep ==
  \/ \E tx \in NativeTxs : SettleNative(tx)
  \/ \E tx \in StableTxs : SettleStable(tx)
=============================================================================
