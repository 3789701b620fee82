-------------------------- MODULE SettleTxProofs --------------------------
(***************************************************************************)
(* For every instance: the settlement that runs step by step, with         *)
(* failures and crashes anywhere, is the atomic step of Splitter, and its  *)
(* outcome is decided by the state in which it starts.  The locks keep     *)
(* everything the handler reads in place, so a settlement under way can be *)
(* described by that state, its transaction and its program counter alone. *)
(***************************************************************************)
EXTENDS SettleTx, SplitterProofs

(* The places the program counter passes, latest first.                    *)
RoyaltyDone == {"rent", "commit"}
TreasuryDone == RoyaltyDone \cup {"ip_creator"}
MerchantDone == TreasuryDone \cup {"treasury"}
SplitDone == MerchantDone \cup {"merchant"}
NonceDone == SplitDone \cup {"split"}
QuoteDone == NonceDone \cup {"nonce"}
AccountsDone == QuoteDone \cup {"quote"}
RentDone == AccountsDone \cup {"accounts"}
CounterDone == RentDone \cup {"consumed_nonce"}
ConfigDone == CounterDone \cup {"payer_nonce"}
Places == ConfigDone \cup {"config"}

PaymentOf(kind, tx) == IF kind = "native" THEN NativePayment(tx) ELSE StablePayment(tx)
VerdictOf(kind, tx) == IF kind = "native" THEN NativeVerdict(tx) ELSE StableVerdict(tx)
AccountsVerdictOf(kind, tx) ==
  IF kind = "native" THEN NativeAccountsVerdict(tx) ELSE StableAccountsVerdict(tx)

CounterRent(tx) == Rent(tx.payer, tx.nonce).payer_nonce

(* What the steps up to place pc have found in order, in terms of the      *)
(* state in which the settlement started.                                  *)
Passed(kind, tx, pc) ==
  LET legs == Legs(tx.quote)
      funds == balance[PaymentOf(kind, tx).from]
  IN  /\ pc \in ConfigDone => ConfigExists = Ok
      /\ pc \in CounterDone => balance[tx.payer] >= CounterRent(tx)
      /\ pc \in RentDone => NonceAccounts(tx.payer, tx.nonce) = Ok
      /\ pc \in AccountsDone => AccountsVerdictOf(kind, tx) = Ok
      /\ pc \in QuoteDone => QuoteVerdict(tx.quote, tx.recovered, tx.payer) = Ok
      /\ pc \in NonceDone => NonceVerdict(tx.quote, tx.payer) = Ok
      /\ pc \in SplitDone =>
           /\ SplitQuote(tx.quote) = Ok
           /\ kind = "native" =>
                /\ funds - Total(Rent(tx.payer, tx.nonce)) >= tx.quote.gross_amount
                /\ tx.treasury = EffectiveTreasury(tx.quote.route_id)
      /\ kind = "stable" =>
           /\ pc \in MerchantDone => tx.remaining[1] \notin tx.read_only
           /\ pc \in MerchantDone => Unfrozen(tx, {tx.remaining[1], tx.remaining[2]}) = Ok
           /\ pc \in MerchantDone => funds >= legs.merchant
           /\ pc \in TreasuryDone /\ legs.treasury # 0 => Unfrozen(tx, {tx.remaining[3]}) = Ok
           /\ pc \in TreasuryDone => funds >= legs.merchant + legs.treasury
           /\ pc \in RoyaltyDone => funds >= tx.quote.gross_amount
      /\ pc \in RoyaltyDone /\ legs.ip_creator # 0 =>
           IF kind = "native" THEN tx.ip_creator = tx.quote.ip_creator
           ELSE /\ Len(tx.remaining) >= 4
                /\ TokenAccount(IpAta(tx), tx.mint, tx.quote.ip_creator) = Ok
                /\ Unfrozen(tx, {IpAta(tx)}) = Ok
      /\ pc = "commit" => VerdictOf(kind, tx) = Ok

(* The working copy at place pc: the balances are those of a payment of    *)
(* which only the rent and the legs transferred so far count.              *)
WorkingNonce(tx, pc) ==
  IF pc \in NonceDone THEN [payer |-> tx.quote.payer, nonce |-> tx.quote.nonce + 1]
  ELSE payer_nonce[tx.payer]

WorkingMark(tx, pc) == pc \in NonceDone \/ tx.nonce \in consumed[tx.payer]

RentSoFar(tx, pc) ==
  LET rent == Rent(tx.payer, tx.nonce)
  IN  [payer_nonce |-> IF pc \in CounterDone THEN rent.payer_nonce ELSE 0,
       consumed_nonce |-> IF pc \in RentDone THEN rent.consumed_nonce ELSE 0]

PaidSoFar(kind, tx, pc) ==
  LET legs == Legs(tx.quote)
  IN  [PaymentOf(kind, tx) EXCEPT
         !.quote.nonce = tx.nonce,   \* whose marker the rent goes to
         !.rent = RentSoFar(tx, pc),
         !.legs = [merchant |-> IF pc \in MerchantDone THEN legs.merchant ELSE 0,
                   treasury |-> IF pc \in TreasuryDone THEN legs.treasury ELSE 0,
                   ip_creator |-> IF pc \in RoyaltyDone THEN legs.ip_creator ELSE 0]]

WorkingBalance(kind, tx, pc) == Moved(PaidSoFar(kind, tx, pc), tx.payer)

(* A settlement under way in the present state.                            *)
IsExecution(e) ==
  /\ e = [kind |-> e.kind, tx |-> e.tx, pc |-> e.pc, error |-> e.error,
          payer_nonce |-> e.payer_nonce, marked |-> e.marked, balance |-> e.balance]
  /\ \/ e.kind = "native" /\ e.tx \in NativeTxs
     \/ e.kind = "stable" /\ e.tx \in StableTxs

OnTrack(e) ==
  /\ e.pc \in Places
  /\ Passed(e.kind, e.tx, e.pc)
  /\ e.payer_nonce = WorkingNonce(e.tx, e.pc)
  /\ e.marked = WorkingMark(e.tx, e.pc)
  /\ e.balance = WorkingBalance(e.kind, e.tx, e.pc)

Failed(e) ==
  /\ e.pc = "failed"
  /\ e.error \in {"ComputationalBudgetExceeded", VerdictOf(e.kind, e.tx)}

ExecInv == exec = NONE \/ (IsExecution(exec) /\ (OnTrack(exec) \/ Failed(exec)))
-----------------------------------------------------------------------------
(* What a settlement finds stays true while nothing but its own working    *)
(* copy changes.                                                           *)
LEMMA RoutesStay ==
  ASSUME UNCHANGED vars, NEW route_id
  PROVE  /\ RouteExists(route_id)' <=> RouteExists(route_id)
         /\ Profile(route_id)' = Profile(route_id)
         /\ EffectiveTreasury(route_id)' = EffectiveTreasury(route_id)
         /\ FindRoute(route_id)' = FindRoute(route_id)
<1>1. profiles' = profiles /\ config' = config
  BY DEF vars
<1>2. Entries(route_id)' = Entries(route_id)
  BY <1>1 DEF Entries
<1>3. RouteIndex(route_id)' = RouteIndex(route_id)
  BY <1>2 DEF RouteIndex
<1>4. Profile(route_id)' = Profile(route_id)
  BY <1>1, <1>3 DEF Profile
<1>5. RouteExists(route_id)' <=> RouteExists(route_id)
  BY <1>2 DEF RouteExists
<1>6. FindRoute(route_id)' = FindRoute(route_id)
  BY <1>5 DEF FindRoute, Check
<1>7. EffectiveTreasury(route_id)' = EffectiveTreasury(route_id)
  BY <1>1, <1>4 DEF EffectiveTreasury
<1> QED BY <1>4, <1>5, <1>6, <1>7

LEMMA MoneyStays ==
  ASSUME UNCHANGED vars
  PROVE  /\ ConfigExists' = ConfigExists
         /\ \A p, n : Rent(p, n)' = Rent(p, n)
         /\ \A p, n : NonceAccounts(p, n)' = NonceAccounts(p, n)
         /\ \A tx : CounterRent(tx)' = CounterRent(tx)
         /\ \A payment, p : Moved(payment, p)' = Moved(payment, p)
<1>1. config' = config /\ payer_nonce' = payer_nonce /\ consumed' = consumed /\ balance' = balance
  BY DEF vars, settleVars
<1>2. ConfigExists' = ConfigExists
  BY <1>1 DEF ConfigExists, Check
<1>3. \A p, n : Rent(p, n)' = Rent(p, n)
  BY <1>1 DEF Rent
<1>4. \A p, n : NonceAccounts(p, n)' = NonceAccounts(p, n)
  BY <1>1, <1>3 DEF NonceAccounts, Check
<1>5. \A tx : CounterRent(tx)' = CounterRent(tx)
  BY <1>3 DEF CounterRent
<1>6. \A payment, p : Moved(payment, p)' = Moved(payment, p)
  BY <1>1 DEF Moved
<1> QED BY <1>2, <1>3, <1>4, <1>5, <1>6

LEMMA QuotesStay ==
  ASSUME UNCHANGED vars, NEW quote, NEW recovered, NEW payer
  PROVE  /\ QuoteVerdict(quote, recovered, payer)' = QuoteVerdict(quote, recovered, payer)
         /\ NonceVerdict(quote, payer)' = NonceVerdict(quote, payer)
         /\ VerifyQuote(quote, recovered, payer)' = VerifyQuote(quote, recovered, payer)
         /\ SplitQuote(quote)' = SplitQuote(quote)
         /\ Legs(quote)' = Legs(quote)
<1>1. config' = config /\ now' = now /\ payer_nonce' = payer_nonce /\ consumed' = consumed
  BY DEF vars, settleVars
<1>2. QuoteVerdict(quote, recovered, payer)' = QuoteVerdict(quote, recovered, payer)
  BY <1>1, RoutesStay DEF QuoteVerdict, Fresh, Check
<1>3. NonceVerdict(quote, payer)' = NonceVerdict(quote, payer)
  BY <1>1 DEF NonceVerdict, Check
<1>4. VerifyQuote(quote, recovered, payer)' = VerifyQuote(quote, recovered, payer)
  BY <1>2, <1>3 DEF VerifyQuote
<1>5. SplitQuote(quote)' = SplitQuote(quote) /\ Legs(quote)' = Legs(quote)
  BY RoutesStay DEF SplitQuote, Legs
<1> QED BY <1>2, <1>3, <1>4, <1>5

LEMMA OutcomeStays ==
  ASSUME UNCHANGED vars, NEW kind, NEW tx
  PROVE  /\ PaymentOf(kind, tx)' = PaymentOf(kind, tx)
         /\ AccountsVerdictOf(kind, tx)' = AccountsVerdictOf(kind, tx)
         /\ VerdictOf(kind, tx)' = VerdictOf(kind, tx)
<1>1. config' = config /\ token_list' = token_list /\ balance' = balance
  BY DEF vars, settleVars
<1>2. NativePayment(tx)' = NativePayment(tx) /\ StablePayment(tx)' = StablePayment(tx)
  BY QuotesStay, MoneyStays DEF NativePayment, StablePayment, IpAta
<1>3. NativeAccountsVerdict(tx)' = NativeAccountsVerdict(tx)
  BY <1>1 DEF NativeAccountsVerdict, ProtocolPdas
<1>4. StableAccountsVerdict(tx)' = StableAccountsVerdict(tx)
  BY <1>1, RoutesStay DEF StableAccountsVerdict, ProtocolPdas, IsAllowed
<1>5. NativeTransfersVerdict(tx)' = NativeTransfersVerdict(tx)
  <2>1. /\ Rent(tx.payer, tx.nonce)' = Rent(tx.payer, tx.nonce)
        /\ SplitQuote(tx.quote)' = SplitQuote(tx.quote) /\ Legs(tx.quote)' = Legs(tx.quote)
        /\ EffectiveTreasury(tx.quote.route_id)' = EffectiveTreasury(tx.quote.route_id)
    BY RoutesStay, QuotesStay, MoneyStays
  <2>2. \A wallets : RentExempt(NativePayment(tx), tx.payer, wallets)'
                    = RentExempt(NativePayment(tx), tx.payer, wallets)
    BY <1>1, <1>2, MoneyStays DEF RentExempt, Check
  <2> QED BY <1>1, <2>1, <2>2 DEF NativeTransfersVerdict, Check
<1>6. StableTransfersVerdict(tx)' = StableTransfersVerdict(tx)
  <2>1. /\ SplitQuote(tx.quote)' = SplitQuote(tx.quote) /\ Legs(tx.quote)' = Legs(tx.quote)
        /\ IpAta(tx)' = IpAta(tx)
    BY QuotesStay DEF IpAta
  <2>2. RentExempt(StablePayment(tx), tx.payer, {tx.payer})'
          = RentExempt(StablePayment(tx), tx.payer, {tx.payer})
    BY <1>1, <1>2, MoneyStays DEF RentExempt, Check
  <2> QED BY <1>1, <2>1, <2>2 DEF StableTransfersVerdict, TokenAccount, Unfrozen, Check
<1>7. NativeVerdict(tx)' = NativeVerdict(tx)
  BY <1>3, <1>5, QuotesStay, MoneyStays DEF NativeVerdict
<1>8. StableVerdict(tx)' = StableVerdict(tx)
  BY <1>4, <1>6, QuotesStay, MoneyStays DEF StableVerdict
<1> QED BY <1>2, <1>3, <1>4, <1>7, <1>8 DEF PaymentOf, AccountsVerdictOf, VerdictOf

LEMMA ExecutionStays ==
  ASSUME UNCHANGED vars, NEW kind, NEW tx, NEW pc
  PROVE  /\ Passed(kind, tx, pc)' <=> Passed(kind, tx, pc)
         /\ WorkingNonce(tx, pc)' = WorkingNonce(tx, pc)
         /\ WorkingMark(tx, pc)' = WorkingMark(tx, pc)
         /\ WorkingBalance(kind, tx, pc)' = WorkingBalance(kind, tx, pc)
<1>1. balance' = balance /\ payer_nonce' = payer_nonce /\ consumed' = consumed
  BY DEF vars, settleVars
<1>2. Passed(kind, tx, pc)' <=> Passed(kind, tx, pc)
  <2>1. Total(Rent(tx.payer, tx.nonce))' = Total(Rent(tx.payer, tx.nonce))
    BY MoneyStays DEF Total
  <2> QED BY <1>1, <2>1, RoutesStay, QuotesStay, MoneyStays, OutcomeStays
          DEF Passed, IpAta, Unfrozen, Check
<1>3. RentSoFar(tx, pc)' = RentSoFar(tx, pc)
  BY MoneyStays DEF RentSoFar
<1>4. PaidSoFar(kind, tx, pc)' = PaidSoFar(kind, tx, pc)
  BY <1>3, QuotesStay, OutcomeStays DEF PaidSoFar
<1>5. WorkingBalance(kind, tx, pc)' = WorkingBalance(kind, tx, pc)
  BY <1>3, <1>4, MoneyStays DEF WorkingBalance
<1> QED BY <1>1, <1>2, <1>5 DEF WorkingNonce, WorkingMark

-----------------------------------------------------------------------------
(* A settlement goes on or fails, and is described by its state as before. *)
LEMMA ExecutionProceeds ==
  ASSUME UNCHANGED vars, NEW e, exec' = e, IsExecution(e), OnTrack(e) \/ Failed(e)
  PROVE  ExecInv'
<1>1. OnTrack(exec)' <=> OnTrack(e)
  BY ExecutionStays DEF OnTrack
<1>2. Failed(exec)' <=> Failed(e)
  BY OutcomeStays DEF Failed
<1>3. IsExecution(exec)' <=> IsExecution(e)
  BY DEF IsExecution
<1> QED BY <1>1, <1>2, <1>3 DEF ExecInv

(* One step of the handler keeps the description when its error is the     *)
(* verdict of the whole and its working copy the one due at the next place. *)
LEMMA StepKeeps ==
  ASSUME ExecInv, NEW at, NEW verdict, NEW copy, NEW next \in Places,
         Step(at, verdict, copy, next), IsExecution(exec),
         verdict # Ok => verdict = VerdictOf(exec.kind, exec.tx),
         verdict = Ok => /\ Passed(exec.kind, exec.tx, next)
                         /\ copy = [exec EXCEPT
                              !.payer_nonce = WorkingNonce(exec.tx, next),
                              !.marked = WorkingMark(exec.tx, next),
                              !.balance = WorkingBalance(exec.kind, exec.tx, next)]
  PROVE  ExecInv'
<1>1. CASE verdict = Ok
  <2> DEFINE e == [kind |-> exec.kind, tx |-> exec.tx, pc |-> next, error |-> exec.error,
                   payer_nonce |-> WorkingNonce(exec.tx, next),
                   marked |-> WorkingMark(exec.tx, next),
                   balance |-> WorkingBalance(exec.kind, exec.tx, next)]
  <2>1. exec' = e
    BY <1>1 DEF Step, IsExecution
  <2>2. IsExecution(e) /\ OnTrack(e)
    BY <1>1 DEF IsExecution, OnTrack
  <2> QED BY <2>1, <2>2, ExecutionProceeds DEF Step
<1>2. CASE verdict # Ok
  <2> DEFINE e == [kind |-> exec.kind, tx |-> exec.tx, pc |-> "failed", error |-> verdict,
                   payer_nonce |-> exec.payer_nonce, marked |-> exec.marked,
                   balance |-> exec.balance]
  <2>1. exec' = e
    BY <1>2 DEF Step, IsExecution
  <2>2. IsExecution(e) /\ Failed(e)
    BY <1>2 DEF IsExecution, Failed
  <2> QED BY <2>1, <2>2, ExecutionProceeds DEF Step
<1> QED BY <1>1, <1>2

LEMMA FirstErrorWins == \A a, b : (a ?? b) = IF a = Ok THEN b ELSE a
  BY DEF ??

TransfersVerdictOf(kind, tx) ==
  IF kind = "native" THEN NativeTransfersVerdict(tx) ELSE StableTransfersVerdict(tx)

(* The verdict of the whole, read in the order of the steps.               *)
LEMMA OutcomeInOrder ==
  ASSUME NEW kind, NEW tx
  PROVE  VerdictOf(kind, tx) =
           IF ConfigExists # Ok THEN ConfigExists
           ELSE IF NonceAccounts(tx.payer, tx.nonce) # Ok
           THEN NonceAccounts(tx.payer, tx.nonce)
           ELSE IF AccountsVerdictOf(kind, tx) # Ok THEN AccountsVerdictOf(kind, tx)
           ELSE IF QuoteVerdict(tx.quote, tx.recovered, tx.payer) # Ok
           THEN QuoteVerdict(tx.quote, tx.recovered, tx.payer)
           ELSE IF NonceVerdict(tx.quote, tx.payer) # Ok THEN NonceVerdict(tx.quote, tx.payer)
           ELSE TransfersVerdictOf(kind, tx)
  BY FirstErrorWins DEF VerdictOf, AccountsVerdictOf, TransfersVerdictOf, NativeVerdict,
                        StableVerdict, VerifyQuote

(* A transfer within the working copy.                                     *)
LEMMA TransferMoves ==
  ASSUME NEW f \in [Accounts -> Int], NEW g \in [Accounts -> Int],
         NEW from \in Accounts, NEW to \in Accounts \ {from}, NEW amount \in Int,
         \A a \in Accounts : g[a] = f[a] - (IF a = from THEN amount ELSE 0)
                                         + (IF a = to THEN amount ELSE 0)
  PROVE  g = [f EXCEPT ![from] = @ - amount, ![to] = @ + amount]
<1> DEFINE h == [f EXCEPT ![from] = @ - amount, ![to] = @ + amount]
<1>1. h \in [Accounts -> Int]
  OBVIOUS
<1>2. \A a \in Accounts : h[a] = g[a]
  OBVIOUS
<1> HIDE DEF h
<1> QED BY <1>1, <1>2 DEF h

(* The working balances at a place, account by account.                    *)
LEMMA WorkingBalanceAt ==
  ASSUME SettleType, NEW kind \in {"native", "stable"}, NEW tx, tx.payer \in Payers,
         tx.quote \in Quotes, tx.nonce \in 0 .. MAX_NONCE, NEW pc,
         pc \in MerchantDone => Legs(tx.quote) \in LegsType
  PROVE  LET payment == PaymentOf(kind, tx)
             legs == Legs(tx.quote)
             m == IF pc \in MerchantDone THEN legs.merchant ELSE 0
             t == IF pc \in TreasuryDone THEN legs.treasury ELSE 0
             i == IF pc \in RoyaltyDone THEN legs.ip_creator ELSE 0
             rent == RentSoFar(tx, pc)
             working == WorkingBalance(kind, tx, pc)
         IN  /\ working \in [Accounts -> Int]
             /\ \A a \in Accounts :
                  working[a] = balance[a] - (IF a = payment.from THEN m + t + i ELSE 0)
                     - (IF a = tx.payer THEN Total(rent) ELSE 0)
                     + (IF a = payment.merchant THEN m ELSE 0)
                     + (IF a = payment.treasury THEN t ELSE 0)
                     + (IF a = payment.ip_creator THEN i ELSE 0)
                     + (IF a = NONCE_PDA[tx.payer] THEN rent.payer_nonce ELSE 0)
                     + (IF a = MARKER_PDA[tx.payer][tx.nonce] THEN rent.consumed_nonce ELSE 0)
             /\ m \in Nat /\ t \in Nat /\ i \in Nat
             /\ rent.payer_nonce \in Nat /\ rent.consumed_nonce \in Nat /\ Total(rent) \in Nat
<1> DEFINE payment == PaymentOf(kind, tx)
           legs == Legs(tx.quote)
           m == IF pc \in MerchantDone THEN legs.merchant ELSE 0
           t == IF pc \in TreasuryDone THEN legs.treasury ELSE 0
           i == IF pc \in RoyaltyDone THEN legs.ip_creator ELSE 0
           rent == RentSoFar(tx, pc)
           working == WorkingBalance(kind, tx, pc)
           so_far == PaidSoFar(kind, tx, pc)
<1>1. m \in Nat /\ t \in Nat /\ i \in Nat
  BY DEF LegsType, MerchantDone, TreasuryDone, RoyaltyDone
<1>2. /\ rent.payer_nonce \in Nat /\ rent.consumed_nonce \in Nat
      /\ Total(rent) = rent.payer_nonce + rent.consumed_nonce /\ Total(rent) \in Nat
  BY RentIsRent DEF RentSoFar, RentType, Total
<1>3. /\ so_far.from = payment.from /\ so_far.merchant = payment.merchant
      /\ so_far.treasury = payment.treasury /\ so_far.ip_creator = payment.ip_creator
      /\ so_far.legs = [merchant |-> m, treasury |-> t, ip_creator |-> i]
      /\ so_far.rent = rent /\ so_far.quote.nonce = tx.nonce
  <2>1. CASE kind = "native"
    BY <2>1 DEF PaidSoFar, PaymentOf, NativePayment, Quotes
  <2>2. CASE kind = "stable"
    BY <2>2 DEF PaidSoFar, PaymentOf, StablePayment, Quotes
  <2> QED BY <2>1, <2>2
<1>4. working = Moved(so_far, tx.payer)
  BY DEF WorkingBalance
<1> HIDE DEF payment, legs, m, t, i, rent, working, so_far
<1>5. \A a \in Accounts : balance[a] \in Int
  BY DEF SettleType
<1>6. \A a \in Accounts :
        working[a] = balance[a] - (IF a = payment.from THEN m + t + i ELSE 0)
           - (IF a = tx.payer THEN Total(rent) ELSE 0)
           + ((IF a = payment.merchant THEN m ELSE 0)
              + (IF a = payment.treasury THEN t ELSE 0)
              + (IF a = payment.ip_creator THEN i ELSE 0))
           + ((IF a = NONCE_PDA[tx.payer] THEN rent.payer_nonce ELSE 0)
              + (IF a = MARKER_PDA[tx.payer][tx.nonce] THEN rent.consumed_nonce ELSE 0))
  BY <1>3, <1>4 DEF Moved, Spent, Received, RentSpent, RentReceived
<1>7. \A a \in Accounts : working[a] \in Int
  <2> SUFFICES ASSUME NEW a \in Accounts PROVE working[a] \in Int
    OBVIOUS
  <2> DEFINE spent == (IF a = payment.from THEN m + t + i ELSE 0)
             paid == (IF a = tx.payer THEN Total(rent) ELSE 0)
             received == (IF a = payment.merchant THEN m ELSE 0)
                           + (IF a = payment.treasury THEN t ELSE 0)
                           + (IF a = payment.ip_creator THEN i ELSE 0)
             kept == (IF a = NONCE_PDA[tx.payer] THEN rent.payer_nonce ELSE 0)
                       + (IF a = MARKER_PDA[tx.payer][tx.nonce] THEN rent.consumed_nonce ELSE 0)
  <2>1. spent \in Int /\ paid \in Int /\ received \in Int /\ kept \in Int
    BY <1>1, <1>2
  <2>2. working[a] = balance[a] - spent - paid + received + kept
    BY <1>6
  <2> HIDE DEF spent, paid, received, kept
  <2> QED BY <1>5, <2>1, <2>2
<1>8. working \in [Accounts -> Int]
  BY <1>4, <1>7 DEF Moved
<1>9. \A a \in Accounts :
        working[a] = balance[a] - (IF a = payment.from THEN m + t + i ELSE 0)
           - (IF a = tx.payer THEN Total(rent) ELSE 0)
           + (IF a = payment.merchant THEN m ELSE 0)
           + (IF a = payment.treasury THEN t ELSE 0)
           + (IF a = payment.ip_creator THEN i ELSE 0)
           + (IF a = NONCE_PDA[tx.payer] THEN rent.payer_nonce ELSE 0)
           + (IF a = MARKER_PDA[tx.payer][tx.nonce] THEN rent.consumed_nonce ELSE 0)
  BY <1>1, <1>2, <1>5, <1>6
<1> QED BY <1>1, <1>2, <1>8, <1>9 DEF payment, legs, m, t, i, rent, working

(* Before the transfers only rent has moved.                               *)
LEMMA BalanceBeforeTransfers ==
  ASSUME SettleType, NEW kind \in {"native", "stable"}, NEW tx, tx.payer \in Payers,
         tx.quote \in Quotes, tx.nonce \in 0 .. MAX_NONCE, NEW pc, pc \notin MerchantDone
  PROVE  LET rent == RentSoFar(tx, pc)
             working == WorkingBalance(kind, tx, pc)
         IN  /\ working \in [Accounts -> Int]
             /\ rent.payer_nonce \in Nat /\ rent.consumed_nonce \in Nat
             /\ \A a \in Accounts :
                  working[a] = balance[a]
                     - (IF a = tx.payer THEN rent.payer_nonce + rent.consumed_nonce ELSE 0)
                     + (IF a = NONCE_PDA[tx.payer] THEN rent.payer_nonce ELSE 0)
                     + (IF a = MARKER_PDA[tx.payer][tx.nonce] THEN rent.consumed_nonce ELSE 0)
<1> DEFINE rent == RentSoFar(tx, pc)
           working == WorkingBalance(kind, tx, pc)
           payment == PaymentOf(kind, tx)
<1>1. pc \notin TreasuryDone /\ pc \notin RoyaltyDone
  BY DEF MerchantDone, TreasuryDone, RoyaltyDone
<1>2. /\ working \in [Accounts -> Int]
      /\ rent.payer_nonce \in Nat /\ rent.consumed_nonce \in Nat
      /\ Total(rent) = rent.payer_nonce + rent.consumed_nonce
      /\ \A a \in Accounts :
           working[a] = balance[a] - (IF a = payment.from THEN 0 + 0 + 0 ELSE 0)
              - (IF a = tx.payer THEN Total(rent) ELSE 0)
              + (IF a = payment.merchant THEN 0 ELSE 0)
              + (IF a = payment.treasury THEN 0 ELSE 0)
              + (IF a = payment.ip_creator THEN 0 ELSE 0)
              + (IF a = NONCE_PDA[tx.payer] THEN rent.payer_nonce ELSE 0)
              + (IF a = MARKER_PDA[tx.payer][tx.nonce] THEN rent.consumed_nonce ELSE 0)
  <2> HIDE DEF rent, payment, working
  <2> QED BY <1>1, WorkingBalanceAt DEF Total, rent, payment, working
<1>3. \A a \in Accounts : balance[a] \in Int
  BY DEF SettleType
<1> HIDE DEF rent, working, payment
<1>4. \A a \in Accounts :
        working[a] = balance[a]
           - (IF a = tx.payer THEN rent.payer_nonce + rent.consumed_nonce ELSE 0)
           + (IF a = NONCE_PDA[tx.payer] THEN rent.payer_nonce ELSE 0)
           + (IF a = MARKER_PDA[tx.payer][tx.nonce] THEN rent.consumed_nonce ELSE 0)
  BY <1>2, <1>3
<1> QED BY <1>2, <1>4 DEF rent, working

-----------------------------------------------------------------------------
(* What is known of a settlement under way.                                *)
LEMMA ExecutionAt ==
  ASSUME ExecInv, exec # NONE, exec.pc \in Places
  PROVE  /\ IsExecution(exec) /\ OnTrack(exec)
         /\ \/ exec.kind = "native" /\ exec.tx \in NativeTxs
            \/ exec.kind = "stable" /\ exec.tx \in StableTxs
         /\ exec.kind \in {"native", "stable"}
         /\ ThePayment = PaymentOf(exec.kind, exec.tx)
         /\ exec.tx.quote \in Quotes
         /\ exec.tx.payer \in Payers /\ exec.tx.payer \in Accounts
         /\ exec.tx.nonce \in 0 .. MAX_NONCE
<1>1. IsExecution(exec) /\ OnTrack(exec)
  BY DEF ExecInv, Failed, Places, ConfigDone, CounterDone, RentDone, AccountsDone, QuoteDone,
         NonceDone, SplitDone, MerchantDone, TreasuryDone, RoyaltyDone
<1>2. \/ exec.kind = "native" /\ exec.tx \in NativeTxs
      \/ exec.kind = "stable" /\ exec.tx \in StableTxs
  BY <1>1 DEF IsExecution
<1>3. exec.tx.quote \in Quotes /\ exec.tx.payer \in Payers /\ exec.tx.nonce \in 0 .. MAX_NONCE
  BY <1>2, SettlementAssumption DEF NativeTxType, StableTxType
<1>4. exec.tx.payer \in Accounts
  BY <1>3, SettlementAssumption
<1>5. ThePayment = PaymentOf(exec.kind, exec.tx)
  BY DEF ThePayment, IsNative, PaymentOf
<1> QED BY <1>1, <1>2, <1>3, <1>4, <1>5

(* A step that only looks.                                                 *)
LEMMA LookingKeepsCopy ==
  ASSUME IsExecution(exec), OnTrack(exec), NEW at, exec.pc = at, NEW next,
         \/ at = "config" /\ next = "payer_nonce"
         \/ at = "accounts" /\ next = "quote"
         \/ at = "quote" /\ next = "nonce"
         \/ at = "split" /\ next = "merchant"
         \/ at = "rent" /\ next = "commit"
  PROVE  exec = [exec EXCEPT !.payer_nonce = WorkingNonce(exec.tx, next),
                             !.marked = WorkingMark(exec.tx, next),
                             !.balance = WorkingBalance(exec.kind, exec.tx, next)]
<1> USE DEF ConfigDone, CounterDone, RentDone, AccountsDone, QuoteDone, NonceDone, SplitDone,
            MerchantDone, TreasuryDone, RoyaltyDone
<1>1. WorkingNonce(exec.tx, next) = WorkingNonce(exec.tx, at)
  BY DEF WorkingNonce
<1>2. WorkingMark(exec.tx, next) = WorkingMark(exec.tx, at)
  BY DEF WorkingMark
<1>3. WorkingBalance(exec.kind, exec.tx, next) = WorkingBalance(exec.kind, exec.tx, at)
  <2>1. RentSoFar(exec.tx, next) = RentSoFar(exec.tx, at)
    BY DEF RentSoFar
  <2>2. PaidSoFar(exec.kind, exec.tx, next) = PaidSoFar(exec.kind, exec.tx, at)
    BY <2>1 DEF PaidSoFar
  <2> QED BY <2>1, <2>2 DEF WorkingBalance
<1> QED BY <1>1, <1>2, <1>3 DEF IsExecution, OnTrack

LEMMA BeginKeeps ==
  ASSUME SettleType, NEW kind \in {"native", "stable"}, NEW tx,
         \/ kind = "native" /\ tx \in NativeTxs
         \/ kind = "stable" /\ tx \in StableTxs,
         Begin(kind, tx)
  PROVE  ExecInv'
<1> USE DEF Places, ConfigDone, CounterDone, RentDone, AccountsDone, QuoteDone, NonceDone,
            SplitDone, MerchantDone, TreasuryDone, RoyaltyDone
<1> DEFINE e == [kind |-> kind, tx |-> tx, pc |-> "config", error |-> Ok,
                 payer_nonce |-> payer_nonce[tx.payer],
                 marked |-> tx.nonce \in consumed[tx.payer], balance |-> balance]
<1>1. exec' = e /\ UNCHANGED vars
  BY DEF Begin
<1>2. WorkingBalance(kind, tx, "config") = balance
  <2> DEFINE working == WorkingBalance(kind, tx, "config")
             rent == RentSoFar(tx, "config")
  <2>1. /\ tx.payer \in Payers /\ tx.nonce \in 0 .. MAX_NONCE /\ tx.quote \in Quotes
        /\ "config" \notin MerchantDone
    BY SettlementAssumption DEF NativeTxType, StableTxType
  <2>2. rent.payer_nonce = 0 /\ rent.consumed_nonce = 0
    BY DEF RentSoFar
  <2>3. balance \in [Accounts -> Nat]
    BY DEF SettleType
  <2>4. /\ working \in [Accounts -> Int]
        /\ \A a \in Accounts :
             working[a] = balance[a]
               - (IF a = tx.payer THEN rent.payer_nonce + rent.consumed_nonce ELSE 0)
               + (IF a = NONCE_PDA[tx.payer] THEN rent.payer_nonce ELSE 0)
               + (IF a = MARKER_PDA[tx.payer][tx.nonce] THEN rent.consumed_nonce ELSE 0)
    BY <2>1, BalanceBeforeTransfers
  <2> HIDE DEF working, rent
  <2>5. \A a \in Accounts : working[a] = balance[a]
    BY <2>2, <2>3, <2>4
  <2> QED BY <2>3, <2>4, <2>5 DEF working
<1>3. Passed(kind, tx, "config")
  BY DEF Passed
<1>4. OnTrack(e)
  BY <1>2, <1>3 DEF OnTrack, WorkingNonce, WorkingMark
<1>5. IsExecution(e)
  BY DEF IsExecution
<1> QED BY <1>1, <1>4, <1>5, ExecutionProceeds

LEMMA FindConfigKeeps ==
  ASSUME ExecInv, FindConfig
  PROVE  ExecInv'
<1>1. exec # NONE /\ exec.pc = "config" /\ "config" \in Places /\ "payer_nonce" \in Places
  BY DEF FindConfig, Step, Places, ConfigDone
<1>2. IsExecution(exec) /\ OnTrack(exec)
  BY <1>1, ExecutionAt
<1>3. ConfigExists # Ok => ConfigExists = VerdictOf(exec.kind, exec.tx)
  BY OutcomeInOrder
<1>4. ConfigExists = Ok => Passed(exec.kind, exec.tx, "payer_nonce")
  BY DEF Passed, ConfigDone, CounterDone, RentDone, AccountsDone, QuoteDone, NonceDone,
         SplitDone, MerchantDone, TreasuryDone, RoyaltyDone
<1> QED BY <1>1, <1>2, <1>3, <1>4, LookingKeepsCopy, StepKeeps DEF FindConfig

(* A nonce account is created: what it lacks moves within the working copy *)
(* and can be paid exactly when the rent of both accounts can be.          *)
LEMMA CreateAccountKeeps ==
  ASSUME SettleType, ExecInv, exec # NONE, NEW at, NEW next, NEW account, NEW missing,
         \/ /\ at = "payer_nonce" /\ next = "consumed_nonce"
            /\ account = NONCE_PDA[exec.tx.payer] /\ missing = CounterRent(exec.tx)
         \/ /\ at = "consumed_nonce" /\ next = "accounts"
            /\ account = MARKER_PDA[exec.tx.payer][exec.tx.nonce]
            /\ missing = Rent(exec.tx.payer, exec.tx.nonce).consumed_nonce,
         Step(at, CanPay(exec.tx.payer, missing, "InsufficientFundsForRent"),
              Transfer(exec.tx.payer, account, missing), next)
  PROVE  ExecInv'
<1> USE DEF Places, ConfigDone, CounterDone, RentDone, AccountsDone, QuoteDone, NonceDone,
            SplitDone, MerchantDone, TreasuryDone, RoyaltyDone
<1> DEFINE tx == exec.tx
           payer == exec.tx.payer
           counter == NONCE_PDA[payer]
           marker == MARKER_PDA[payer][tx.nonce]
           rent == Rent(payer, tx.nonce)
           paid == RentSoFar(tx, at)
           due == RentSoFar(tx, next)
           verdict == CanPay(payer, missing, "InsufficientFundsForRent")
           copy == Transfer(payer, account, missing)
<1>1. exec.pc = at /\ at \in Places /\ next \in Places /\ Step(at, verdict, copy, next)
  BY DEF Step
<1>2. /\ IsExecution(exec) /\ OnTrack(exec) /\ exec.kind \in {"native", "stable"}
      /\ tx.quote \in Quotes
      /\ payer \in Payers /\ payer \in Accounts /\ tx.nonce \in 0 .. MAX_NONCE
  BY <1>1, ExecutionAt
<1>3. counter \in Accounts \ {payer} /\ marker \in Accounts \ {payer} /\ counter # marker
  BY <1>2, NonceAccountsAreNobodys
<1>4. /\ rent.payer_nonce \in Nat /\ rent.consumed_nonce \in Nat /\ balance[payer] \in Nat
      /\ CounterRent(tx) = rent.payer_nonce
      /\ Total(rent) = rent.payer_nonce + rent.consumed_nonce
  BY <1>2, RentIsRent DEF RentType, SettleType, CounterRent, Total
<1>5. \/ /\ at = "payer_nonce" /\ account = counter /\ missing = rent.payer_nonce
         /\ paid.payer_nonce = 0 /\ paid.consumed_nonce = 0
         /\ due.payer_nonce = rent.payer_nonce /\ due.consumed_nonce = 0
      \/ /\ at = "consumed_nonce" /\ account = marker /\ missing = rent.consumed_nonce
         /\ paid.payer_nonce = rent.payer_nonce /\ paid.consumed_nonce = 0
         /\ due.payer_nonce = rent.payer_nonce /\ due.consumed_nonce = rent.consumed_nonce
  BY <1>4 DEF RentSoFar
<1>6. ASSUME NEW pc \in {at, next}
      PROVE  /\ WorkingBalance(exec.kind, tx, pc) \in [Accounts -> Int]
             /\ \A a \in Accounts :
                  WorkingBalance(exec.kind, tx, pc)[a] = balance[a]
                    - (IF a = payer THEN RentSoFar(tx, pc).payer_nonce
                                         + RentSoFar(tx, pc).consumed_nonce ELSE 0)
                    + (IF a = counter THEN RentSoFar(tx, pc).payer_nonce ELSE 0)
                    + (IF a = marker THEN RentSoFar(tx, pc).consumed_nonce ELSE 0)
  <2>1. pc \notin MerchantDone
    OBVIOUS
  <2> HIDE DEF Places, ConfigDone, CounterDone, RentDone, AccountsDone, QuoteDone, NonceDone,
               SplitDone, MerchantDone, TreasuryDone, RoyaltyDone
  <2> QED BY <1>2, <2>1, BalanceBeforeTransfers
<1> DEFINE f == WorkingBalance(exec.kind, tx, at)
           g == WorkingBalance(exec.kind, tx, next)
<1>7. /\ f \in [Accounts -> Int] /\ g \in [Accounts -> Int]
      /\ \A a \in Accounts :
           /\ balance[a] \in Int
           /\ f[a] = balance[a] - (IF a = payer THEN paid.payer_nonce + paid.consumed_nonce ELSE 0)
                + (IF a = counter THEN paid.payer_nonce ELSE 0)
                + (IF a = marker THEN paid.consumed_nonce ELSE 0)
           /\ g[a] = balance[a] - (IF a = payer THEN due.payer_nonce + due.consumed_nonce ELSE 0)
                + (IF a = counter THEN due.payer_nonce ELSE 0)
                + (IF a = marker THEN due.consumed_nonce ELSE 0)
  BY <1>6 DEF SettleType
<1>8. exec.balance = f /\ ConfigExists = Ok
  BY <1>1, <1>2 DEF OnTrack, Passed
<1>9. at = "consumed_nonce" => balance[payer] >= rent.payer_nonce
  BY <1>1, <1>2, <1>4 DEF OnTrack, Passed
<1> HIDE DEF Places, ConfigDone, CounterDone, RentDone, AccountsDone, QuoteDone, NonceDone,
             SplitDone, MerchantDone, TreasuryDone, RoyaltyDone
<1> HIDE DEF f, g, paid, due, counter, marker
<1>10. f[payer] = balance[payer] - (paid.payer_nonce + paid.consumed_nonce)
  BY <1>2, <1>3, <1>4, <1>5, <1>7
<1>11. verdict # Ok => verdict = VerdictOf(exec.kind, tx)
  <2> SUFFICES ASSUME verdict # Ok PROVE verdict = VerdictOf(exec.kind, tx)
    OBVIOUS
  <2>1. verdict = "InsufficientFundsForRent" /\ ~(f[payer] >= missing)
    BY <1>8 DEF CanPay, Check, Ok
  <2>2. ~(balance[payer] >= Total(rent))
    <3> HIDE DEF rent, payer, verdict
    <3> QED BY <2>1, <1>4, <1>5, <1>10
  <2>3. NonceAccounts(payer, tx.nonce) = "InsufficientFundsForRent"
    BY <2>2 DEF NonceAccounts, Check
  <2> QED BY <2>1, <2>3, <1>8, OutcomeInOrder DEF Ok
<1>12. verdict = Ok => Passed(exec.kind, tx, next)
  <2> USE DEF Places, ConfigDone, CounterDone, RentDone, AccountsDone, QuoteDone, NonceDone,
              SplitDone, MerchantDone, TreasuryDone, RoyaltyDone
  <2> SUFFICES ASSUME verdict = Ok PROVE Passed(exec.kind, tx, next)
    OBVIOUS
  <2>1. f[payer] >= missing
    BY <1>8 DEF CanPay, Check, Ok
  <2>2. CASE at = "payer_nonce"
    <3>1. balance[payer] >= CounterRent(tx)
      <4> HIDE DEF rent, payer
      <4> QED BY <2>1, <2>2, <1>4, <1>5, <1>10
    <3> QED BY <3>1, <2>2, <1>8 DEF Passed
  <2>3. CASE at = "consumed_nonce"
    <3>1. balance[payer] >= Total(rent)
      <4> HIDE DEF rent, payer
      <4> QED BY <2>1, <2>3, <1>4, <1>5, <1>10
    <3>2. NonceAccounts(payer, tx.nonce) = Ok
      BY <3>1 DEF NonceAccounts, Check, Ok
    <3>3. balance[payer] >= CounterRent(tx)
      BY <1>4, <1>9, <2>3
    <3> QED BY <3>2, <3>3, <2>3, <1>8 DEF Passed
  <2> QED BY <2>2, <2>3
<1>13. g = [f EXCEPT ![payer] = @ - missing, ![account] = @ + missing]
  <2>1. account \in Accounts \ {payer} /\ missing \in Int
    BY <1>3, <1>4, <1>5
  <2>2. \A a \in Accounts : g[a] = f[a] - (IF a = payer THEN missing ELSE 0)
                                        + (IF a = account THEN missing ELSE 0)
    <3> HIDE DEF rent, payer
    <3> QED BY <1>3, <1>4, <1>5, <1>7
  <2> HIDE DEF payer
  <2> QED BY <1>2, <1>7, <2>1, <2>2, TransferMoves
<1>14. copy = [exec EXCEPT !.payer_nonce = WorkingNonce(tx, next),
                           !.marked = WorkingMark(tx, next),
                           !.balance = g]
  <2>1. /\ exec.payer_nonce = WorkingNonce(tx, next)
        /\ exec.marked = WorkingMark(tx, next)
    BY <1>1, <1>2 DEF OnTrack, WorkingNonce, WorkingMark, NonceDone, SplitDone, MerchantDone,
                      TreasuryDone, RoyaltyDone
  <2> QED BY <2>1, <1>2, <1>8, <1>13 DEF IsExecution, Transfer
<1> HIDE DEF verdict, copy
<1> QED BY <1>1, <1>2, <1>11, <1>12, <1>14, StepKeeps DEF g

LEMMA CreatePayerNonceKeeps ==
  ASSUME SettleType, ExecInv, CreatePayerNonce
  PROVE  ExecInv'
<1> USE DEF Places, ConfigDone, CounterDone, RentDone, AccountsDone, QuoteDone, NonceDone,
            SplitDone, MerchantDone, TreasuryDone, RoyaltyDone
<1> DEFINE tx == exec.tx
           account == NONCE_PDA[tx.payer]
           missing == IF exec.payer_nonce.payer # DEFAULT THEN 0
                      ELSE Shortfall(exec.balance[account], COUNTER_RENT)
<1>1. /\ exec # NONE /\ exec.pc = "payer_nonce"
      /\ Step("payer_nonce", CanPay(tx.payer, missing, "InsufficientFundsForRent"),
              Transfer(tx.payer, account, missing), "consumed_nonce")
  BY DEF CreatePayerNonce, CreateAccount, Step
<1>2. /\ OnTrack(exec) /\ exec.kind \in {"native", "stable"}
      /\ tx.quote \in Quotes /\ tx.payer \in Payers /\ tx.nonce \in 0 .. MAX_NONCE
  BY <1>1, ExecutionAt
<1>3. exec.payer_nonce = payer_nonce[tx.payer]
  BY <1>1, <1>2 DEF OnTrack, WorkingNonce
<1>4. exec.balance[account] = balance[account]
  <2>1. exec.balance = WorkingBalance(exec.kind, tx, "payer_nonce")
    BY <1>1, <1>2 DEF OnTrack
  <2>2. /\ RentSoFar(tx, "payer_nonce").payer_nonce = 0
        /\ RentSoFar(tx, "payer_nonce").consumed_nonce = 0
    BY DEF RentSoFar
  <2>3. account \in Accounts /\ "payer_nonce" \notin MerchantDone
    BY <1>2, NonceAccountsAreNobodys
  <2>4. balance[account] \in Int
    BY <2>3 DEF SettleType
  <2> HIDE DEF account
  <2> HIDE DEF Places, ConfigDone, CounterDone, RentDone, AccountsDone, QuoteDone, NonceDone,
               SplitDone, MerchantDone, TreasuryDone, RoyaltyDone
  <2> QED BY <1>2, <2>1, <2>2, <2>3, <2>4, BalanceBeforeTransfers
<1>5. missing = CounterRent(tx)
  BY <1>3, <1>4 DEF CounterRent, Rent
<1> HIDE DEF missing
<1> QED BY <1>1, <1>5, CreateAccountKeeps

LEMMA CreateConsumedNonceKeeps ==
  ASSUME SettleType, ExecInv, CreateConsumedNonce
  PROVE  ExecInv'
<1> USE DEF Places, ConfigDone, CounterDone, RentDone, AccountsDone, QuoteDone, NonceDone,
            SplitDone, MerchantDone, TreasuryDone, RoyaltyDone
<1> DEFINE tx == exec.tx
           account == MARKER_PDA[tx.payer][tx.nonce]
           missing == IF exec.marked THEN 0
                      ELSE Shortfall(exec.balance[account], MARKER_RENT)
<1>1. /\ exec # NONE /\ exec.pc = "consumed_nonce"
      /\ Step("consumed_nonce", CanPay(tx.payer, missing, "InsufficientFundsForRent"),
              Transfer(tx.payer, account, missing), "accounts")
  BY DEF CreateConsumedNonce, CreateAccount, Step
<1>2. /\ OnTrack(exec) /\ exec.kind \in {"native", "stable"}
      /\ tx.quote \in Quotes /\ tx.payer \in Payers /\ tx.nonce \in 0 .. MAX_NONCE
  BY <1>1, ExecutionAt
<1>3. exec.marked <=> tx.nonce \in consumed[tx.payer]
  BY <1>1, <1>2 DEF OnTrack, WorkingMark
<1>4. exec.balance[account] = balance[account]
  <2>1. exec.balance = WorkingBalance(exec.kind, tx, "consumed_nonce")
    BY <1>1, <1>2 DEF OnTrack
  <2>2. RentSoFar(tx, "consumed_nonce").consumed_nonce = 0
    BY DEF RentSoFar
  <2>3. /\ account \in Accounts /\ account # tx.payer /\ account # NONCE_PDA[tx.payer]
        /\ "consumed_nonce" \notin MerchantDone
    BY <1>2, NonceAccountsAreNobodys
  <2>4. balance[account] \in Int
    BY <2>3 DEF SettleType
  <2> HIDE DEF account
  <2> HIDE DEF Places, ConfigDone, CounterDone, RentDone, AccountsDone, QuoteDone, NonceDone,
               SplitDone, MerchantDone, TreasuryDone, RoyaltyDone
  <2> QED BY <1>2, <2>1, <2>2, <2>3, <2>4, BalanceBeforeTransfers
<1>5. missing = Rent(tx.payer, tx.nonce).consumed_nonce
  BY <1>3, <1>4 DEF Rent
<1> HIDE DEF missing
<1> QED BY <1>1, <1>5, CreateAccountKeeps

LEMMA CheckAccountsKeeps ==
  ASSUME ExecInv, CheckAccounts
  PROVE  ExecInv'
<1> USE DEF Places, ConfigDone, CounterDone, RentDone, AccountsDone, QuoteDone, NonceDone,
            SplitDone, MerchantDone, TreasuryDone, RoyaltyDone
<1> DEFINE verdict == AccountsVerdictOf(exec.kind, exec.tx)
<1>1. /\ exec # NONE /\ exec.pc = "accounts"
      /\ Step("accounts", verdict, exec, "quote")
  BY DEF CheckAccounts, Step, IsNative, AccountsVerdictOf
<1>2. IsExecution(exec) /\ OnTrack(exec)
  BY <1>1, ExecutionAt
<1>3. Passed(exec.kind, exec.tx, "accounts")
  BY <1>1, <1>2 DEF OnTrack
<1>4. ConfigExists = Ok /\ NonceAccounts(exec.tx.payer, exec.tx.nonce) = Ok
  BY <1>3 DEF Passed
<1>5. verdict # Ok => verdict = VerdictOf(exec.kind, exec.tx)
  BY <1>4, OutcomeInOrder
<1>6. verdict = Ok => Passed(exec.kind, exec.tx, "quote")
  BY <1>3 DEF Passed
<1> HIDE DEF verdict
<1> QED BY <1>1, <1>2, <1>5, <1>6, LookingKeepsCopy, StepKeeps

LEMMA CheckQuoteKeeps ==
  ASSUME ExecInv, CheckQuote
  PROVE  ExecInv'
<1> USE DEF Places, ConfigDone, CounterDone, RentDone, AccountsDone, QuoteDone, NonceDone,
            SplitDone, MerchantDone, TreasuryDone, RoyaltyDone
<1> DEFINE verdict == QuoteVerdict(exec.tx.quote, exec.tx.recovered, exec.tx.payer)
<1>1. /\ exec # NONE /\ exec.pc = "quote"
      /\ Step("quote", verdict, exec, "nonce")
  BY DEF CheckQuote, Step
<1>2. IsExecution(exec) /\ OnTrack(exec)
  BY <1>1, ExecutionAt
<1>3. Passed(exec.kind, exec.tx, "quote")
  BY <1>1, <1>2 DEF OnTrack
<1>4. /\ ConfigExists = Ok /\ NonceAccounts(exec.tx.payer, exec.tx.nonce) = Ok
      /\ AccountsVerdictOf(exec.kind, exec.tx) = Ok
  BY <1>3 DEF Passed
<1>5. verdict # Ok => verdict = VerdictOf(exec.kind, exec.tx)
  BY <1>4, OutcomeInOrder
<1>6. verdict = Ok => Passed(exec.kind, exec.tx, "nonce")
  BY <1>3 DEF Passed
<1> HIDE DEF verdict
<1> QED BY <1>1, <1>2, <1>5, <1>6, LookingKeepsCopy, StepKeeps

(* What the checks of the accounts mean for the rest of the settlement.    *)
LEMMA PartiesOf ==
  ASSUME NEW kind, NEW tx, \/ kind = "native" /\ tx \in NativeTxs
                           \/ kind = "stable" /\ tx \in StableTxs,
         AccountsVerdictOf(kind, tx) = Ok
  PROVE  LET payment == PaymentOf(kind, tx)
         IN  /\ tx.quote.nonce = tx.nonce /\ Apart(payment)
             /\ {payment.from, payment.merchant, payment.treasury} \subseteq Accounts
             /\ payment.ip_creator \in Accounts \cup {NONE}
             /\ payment.from \notin {NONCE_PDA[tx.payer], MARKER_PDA[tx.payer][tx.nonce]}
             /\ (payment.from = tx.payer <=> kind = "native")
             /\ kind = "native" => payment.ip_creator \in Accounts
             /\ kind = "stable" /\ Len(tx.remaining) >= 4 => payment.ip_creator \in Accounts
<1>1. CASE kind = "native"
  BY <1>1, NativeIsApart DEF PaymentOf, AccountsVerdictOf, NativePayment
<1>2. CASE kind = "stable"
  BY <1>2, StableIsApart DEF PaymentOf, AccountsVerdictOf, StablePayment
<1> QED BY <1>1, <1>2

LEMMA WriteNonceKeeps ==
  ASSUME ExecInv, WriteNonce
  PROVE  ExecInv'
<1> USE DEF Places, ConfigDone, CounterDone, RentDone, AccountsDone, QuoteDone, NonceDone,
            SplitDone, MerchantDone, TreasuryDone, RoyaltyDone
<1> DEFINE quote == exec.tx.quote
           verdict ==    Check(exec.payer_nonce.payer \in {DEFAULT, quote.payer}, "InvalidPayer")
                      ?? Check(quote.nonce = exec.payer_nonce.nonce, "InvalidNonce")
                      ?? Check(~exec.marked, "NonceAlreadyConsumed")
                      ?? Check(quote.nonce < MAX_NONCE, "NonceOverflow")
           copy == [exec EXCEPT !.payer_nonce = [payer |-> quote.payer, nonce |-> quote.nonce + 1],
                                !.marked = TRUE]
<1>1. /\ exec # NONE /\ exec.pc = "nonce"
      /\ Step("nonce", verdict, copy, "split")
  BY DEF WriteNonce, Step
<1>2. IsExecution(exec) /\ OnTrack(exec)
  BY <1>1, ExecutionAt
<1>3. Passed(exec.kind, exec.tx, "nonce")
  BY <1>1, <1>2 DEF OnTrack
<1>4. /\ ConfigExists = Ok /\ NonceAccounts(exec.tx.payer, exec.tx.nonce) = Ok
      /\ AccountsVerdictOf(exec.kind, exec.tx) = Ok
      /\ QuoteVerdict(quote, exec.tx.recovered, exec.tx.payer) = Ok
  BY <1>3 DEF Passed
<1>5. quote.nonce = exec.tx.nonce
  BY <1>2, <1>4, PartiesOf DEF IsExecution
<1>6. verdict = NonceVerdict(quote, exec.tx.payer)
  <2>1. /\ exec.payer_nonce = payer_nonce[exec.tx.payer]
        /\ exec.marked <=> quote.nonce \in consumed[exec.tx.payer]
    BY <1>1, <1>2, <1>5 DEF OnTrack, WorkingNonce, WorkingMark
  <2> QED BY <2>1 DEF NonceVerdict, Check
<1>7. verdict # Ok => verdict = VerdictOf(exec.kind, exec.tx)
  BY <1>4, <1>6, OutcomeInOrder
<1>8. verdict = Ok => Passed(exec.kind, exec.tx, "split")
  BY <1>3, <1>6 DEF Passed
<1>9. copy = [exec EXCEPT !.payer_nonce = WorkingNonce(exec.tx, "split"),
                          !.marked = WorkingMark(exec.tx, "split"),
                          !.balance = WorkingBalance(exec.kind, exec.tx, "split")]
  <2>1. RentSoFar(exec.tx, "split") = RentSoFar(exec.tx, "nonce")
    BY DEF RentSoFar
  <2>2. PaidSoFar(exec.kind, exec.tx, "split") = PaidSoFar(exec.kind, exec.tx, "nonce")
    BY <2>1 DEF PaidSoFar
  <2>3. exec.balance = WorkingBalance(exec.kind, exec.tx, "split")
    BY <2>1, <2>2, <1>1, <1>2 DEF OnTrack, WorkingBalance
  <2>4. /\ WorkingNonce(exec.tx, "split") = [payer |-> quote.payer, nonce |-> quote.nonce + 1]
        /\ WorkingMark(exec.tx, "split") = TRUE
    BY DEF WorkingNonce, WorkingMark
  <2> QED BY <2>3, <2>4, <1>2 DEF IsExecution
<1> HIDE DEF verdict, copy
<1> QED BY <1>1, <1>2, <1>7, <1>8, <1>9, StepKeeps

-----------------------------------------------------------------------------
(* The transfers: the verdict of each kind read in order, the legs, and    *)
(* what the paying account still holds in the working copy.                *)
LEMMA NativeTransfersInOrder ==
  ASSUME NEW tx
  PROVE  NativeTransfersVerdict(tx) =
           IF ~(balance[tx.payer] - Total(Rent(tx.payer, tx.nonce)) >= tx.quote.gross_amount)
           THEN "IncorrectNativeValue"
           ELSE IF SplitQuote(tx.quote) # Ok THEN SplitQuote(tx.quote)
           ELSE IF tx.treasury # EffectiveTreasury(tx.quote.route_id) THEN "ZeroTreasury"
           ELSE IF Legs(tx.quote).ip_creator > 0 /\ tx.ip_creator # tx.quote.ip_creator
           THEN "IPCreatorMismatch"
           ELSE RentExempt(NativePayment(tx), tx.payer,
                           {tx.payer, tx.merchant, tx.treasury, tx.ip_creator})
  BY FirstErrorWins DEF NativeTransfersVerdict, Check, Ok

LEMMA StableTransfersInOrder ==
  ASSUME NEW tx
  PROVE  LET legs == Legs(tx.quote)
             funds == balance[tx.remaining[1]]
         IN  StableTransfersVerdict(tx) =
               IF SplitQuote(tx.quote) # Ok THEN SplitQuote(tx.quote)
               ELSE IF tx.remaining[1] \in tx.read_only THEN "PrivilegeEscalation"
               ELSE IF Unfrozen(tx, {tx.remaining[1], tx.remaining[2]}) # Ok THEN "AccountFrozen"
               ELSE IF ~(funds >= legs.merchant) THEN "InsufficientFunds"
               ELSE IF legs.treasury # 0 /\ Unfrozen(tx, {tx.remaining[3]}) # Ok
               THEN "AccountFrozen"
               ELSE IF ~(funds >= legs.merchant + legs.treasury) THEN "InsufficientFunds"
               ELSE IF legs.ip_creator # 0 /\ ~(Len(tx.remaining) >= 4) THEN "MissingIPCreator"
               ELSE IF legs.ip_creator # 0
                         /\ TokenAccount(IpAta(tx), tx.mint, tx.quote.ip_creator) # Ok
               THEN TokenAccount(IpAta(tx), tx.mint, tx.quote.ip_creator)
               ELSE IF legs.ip_creator # 0 /\ Unfrozen(tx, {IpAta(tx)}) # Ok
               THEN "AccountFrozen"
               ELSE IF ~(funds >= tx.quote.gross_amount) THEN "InsufficientFunds"
               ELSE RentExempt(StablePayment(tx), tx.payer, {tx.payer})
<1>1. \A accounts : Unfrozen(tx, accounts) # Ok => Unfrozen(tx, accounts) = "AccountFrozen"
  BY DEF Unfrozen, Check
<1> QED BY <1>1, FirstErrorWins DEF StableTransfersVerdict, Check, Ok

LEMMA LegsDue ==
  ASSUME RoutesType, RouteTable, NEW kind, NEW tx, tx.quote \in Quotes,
         NEW pc \in SplitDone, Passed(kind, tx, pc)
  PROVE  LET legs == Legs(tx.quote)
         IN  /\ legs \in LegsType /\ tx.quote.gross_amount \in Nat
             /\ legs.merchant + legs.treasury + legs.ip_creator = tx.quote.gross_amount
<1>1. /\ QuoteVerdict(tx.quote, tx.recovered, tx.payer) = Ok
      /\ SplitQuote(tx.quote) = Ok
  BY DEF Passed, QuoteDone, NonceDone
<1>2. FindRoute(tx.quote.route_id) = Ok
  BY <1>1, BothSucceed DEF QuoteVerdict
<1>3. RouteExists(tx.quote.route_id)
  BY <1>2 DEF FindRoute, Check, Ok
<1> QED BY <1>1, <1>3, LegsOfSplit

LEMMA PayerFunds ==
  ASSUME SettleType, RoutesType, RouteTable, ExecInv, exec # NONE, exec.pc \in NonceDone
  PROVE  LET pc == exec.pc
             legs == Legs(exec.tx.quote)
             from == PaymentOf(exec.kind, exec.tx).from
         IN  /\ from \in Accounts /\ balance[from] \in Nat
             /\ exec.balance[from] = balance[from]
                  - ((IF pc \in MerchantDone THEN legs.merchant ELSE 0)
                     + (IF pc \in TreasuryDone THEN legs.treasury ELSE 0)
                     + (IF pc \in RoyaltyDone THEN legs.ip_creator ELSE 0))
                  - (IF exec.kind = "native" THEN Total(Rent(exec.tx.payer, exec.tx.nonce)) ELSE 0)
<1> USE DEF Places, ConfigDone, CounterDone, RentDone, AccountsDone, QuoteDone, NonceDone,
            SplitDone, MerchantDone, TreasuryDone, RoyaltyDone
<1> DEFINE tx == exec.tx
           payment == PaymentOf(exec.kind, tx)
           legs == Legs(tx.quote)
           m == IF exec.pc \in MerchantDone THEN legs.merchant ELSE 0
           t == IF exec.pc \in TreasuryDone THEN legs.treasury ELSE 0
           i == IF exec.pc \in RoyaltyDone THEN legs.ip_creator ELSE 0
           counter == NONCE_PDA[tx.payer]
           marker == MARKER_PDA[tx.payer][tx.nonce]
           rent == Rent(tx.payer, tx.nonce)
<1>1. /\ OnTrack(exec) /\ exec.kind \in {"native", "stable"} /\ tx.quote \in Quotes
      /\ \/ exec.kind = "native" /\ tx \in NativeTxs
         \/ exec.kind = "stable" /\ tx \in StableTxs
      /\ tx.payer \in Payers /\ tx.nonce \in 0 .. MAX_NONCE
  BY ExecutionAt
<1>2. Passed(exec.kind, tx, exec.pc) /\ exec.balance = WorkingBalance(exec.kind, tx, exec.pc)
  BY <1>1 DEF OnTrack
<1>3. AccountsVerdictOf(exec.kind, tx) = Ok
  BY <1>2 DEF Passed
<1>4. /\ Apart(payment) /\ payment.from \in Accounts
      /\ payment.from # counter /\ payment.from # marker
      /\ (payment.from = tx.payer <=> exec.kind = "native")
  BY <1>1, <1>3, PartiesOf
<1>5. exec.pc \in MerchantDone => legs \in LegsType
  BY <1>1, <1>2, LegsDue
<1>6. RentSoFar(tx, exec.pc) = rent
  BY <1>1, RentIsRent DEF RentSoFar, RentType
<1>7. /\ m \in Nat /\ t \in Nat /\ i \in Nat /\ Total(rent) \in Nat
      /\ \A a \in Accounts :
           exec.balance[a] = balance[a] - (IF a = payment.from THEN m + t + i ELSE 0)
              - (IF a = tx.payer THEN Total(rent) ELSE 0)
              + (IF a = payment.merchant THEN m ELSE 0)
              + (IF a = payment.treasury THEN t ELSE 0)
              + (IF a = payment.ip_creator THEN i ELSE 0)
              + (IF a = counter THEN rent.payer_nonce ELSE 0)
              + (IF a = marker THEN rent.consumed_nonce ELSE 0)
  <2> HIDE DEF Places, ConfigDone, CounterDone, RentDone, AccountsDone, QuoteDone, NonceDone,
               SplitDone, MerchantDone, TreasuryDone, RoyaltyDone
  <2> QED BY <1>1, <1>2, <1>5, <1>6, WorkingBalanceAt
<1>8. balance[payment.from] \in Nat
  BY <1>4 DEF SettleType
<1> HIDE DEF payment, m, t, i, rent, counter, marker
<1>9. exec.balance[payment.from]
        = balance[payment.from] - (m + t + i) - (IF exec.kind = "native" THEN Total(rent) ELSE 0)
  BY <1>4, <1>7, <1>8 DEF Apart
<1> QED BY <1>4, <1>8, <1>9 DEF payment, m, t, i, rent

LEMMA SplitGrossKeeps ==
  ASSUME SettleType, RoutesType, RouteTable, ExecInv, SplitGross
  PROVE  ExecInv'
<1> USE DEF Places, ConfigDone, CounterDone, RentDone, AccountsDone, QuoteDone, NonceDone,
            SplitDone, MerchantDone, TreasuryDone, RoyaltyDone
<1> DEFINE tx == exec.tx
           verdict == IF IsNative
                      THEN    CanPay(tx.payer, tx.quote.gross_amount, "IncorrectNativeValue")
                           ?? SplitQuote(tx.quote)
                           ?? Check(tx.treasury = EffectiveTreasury(tx.quote.route_id),
                                    "ZeroTreasury")
                      ELSE SplitQuote(tx.quote)
<1>1. /\ exec # NONE /\ exec.pc = "split"
      /\ Step("split", verdict, exec, "merchant")
  BY DEF SplitGross, Step
<1>2. /\ IsExecution(exec) /\ OnTrack(exec) /\ exec.kind \in {"native", "stable"}
      /\ \/ exec.kind = "native" /\ tx \in NativeTxs
         \/ exec.kind = "stable" /\ tx \in StableTxs
  BY <1>1, ExecutionAt
<1>3. Passed(exec.kind, tx, "split")
  BY <1>1, <1>2 DEF OnTrack
<1>4. /\ ConfigExists = Ok /\ NonceAccounts(tx.payer, tx.nonce) = Ok
      /\ AccountsVerdictOf(exec.kind, tx) = Ok
      /\ QuoteVerdict(tx.quote, tx.recovered, tx.payer) = Ok
      /\ NonceVerdict(tx.quote, tx.payer) = Ok
  BY <1>3 DEF Passed
<1>5. VerdictOf(exec.kind, tx) = TransfersVerdictOf(exec.kind, tx)
  BY <1>4, OutcomeInOrder
<1>6. CASE exec.kind = "native"
  <2> DEFINE rent == Rent(tx.payer, tx.nonce)
             funds == balance[tx.payer] - Total(rent)
  <2>1. PaymentOf(exec.kind, tx).from = tx.payer
    BY <1>6 DEF PaymentOf, NativePayment
  <2>2. exec.balance[tx.payer] = funds
    <3>1. tx.payer \in Payers /\ tx.nonce \in 0 .. MAX_NONCE
      BY <1>1, ExecutionAt
    <3>2. Total(rent) \in Nat
      BY <3>1, RentIsRent DEF RentType, Total
    <3>3. /\ balance[tx.payer] \in Nat
          /\ exec.balance[tx.payer] = balance[tx.payer] - (0 + 0 + 0) - Total(rent)
      BY <1>1, <1>6, <2>1, PayerFunds
    <3> QED BY <3>2, <3>3
  <2>3. verdict = IF ~(funds >= tx.quote.gross_amount) THEN "IncorrectNativeValue"
                  ELSE IF SplitQuote(tx.quote) # Ok THEN SplitQuote(tx.quote)
                  ELSE IF tx.treasury # EffectiveTreasury(tx.quote.route_id)
                  THEN "ZeroTreasury" ELSE Ok
    BY <1>6, <2>2, FirstErrorWins DEF IsNative, CanPay, Check, Ok
  <2>4. verdict # Ok => verdict = VerdictOf(exec.kind, tx)
    BY <1>5, <1>6, <2>3, NativeTransfersInOrder DEF TransfersVerdictOf
  <2>5. verdict = Ok => /\ SplitQuote(tx.quote) = Ok /\ funds >= tx.quote.gross_amount
                        /\ tx.treasury = EffectiveTreasury(tx.quote.route_id)
    BY <2>3 DEF Ok
  <2>6. verdict = Ok => Passed(exec.kind, tx, "merchant")
    BY <1>3, <1>6, <2>1, <2>5 DEF Passed
  <2> HIDE DEF verdict
  <2> QED BY <1>1, <1>2, <2>4, <2>6, LookingKeepsCopy, StepKeeps
<1>7. CASE exec.kind = "stable"
  <2>1. verdict = SplitQuote(tx.quote)
    BY <1>7 DEF IsNative
  <2>2. verdict # Ok => verdict = VerdictOf(exec.kind, tx)
    BY <1>5, <1>7, <2>1, StableTransfersInOrder DEF TransfersVerdictOf
  <2>3. verdict = Ok => Passed(exec.kind, tx, "merchant")
    BY <1>3, <1>7, <2>1 DEF Passed
  <2> HIDE DEF verdict
  <2> QED BY <1>1, <1>2, <2>2, <2>3, LookingKeepsCopy, StepKeeps
<1> QED BY <1>2, <1>6, <1>7

(* A leg is transferred: the working copy at the next place.               *)
LEMMA LegMoves ==
  ASSUME SettleType, RoutesType, RouteTable, ExecInv, exec # NONE,
         NEW next, NEW to \in Accounts, NEW amount,
         \/ /\ exec.pc = "merchant" /\ next = "treasury"
            /\ to = ThePayment.merchant /\ amount = Legs(exec.tx.quote).merchant
         \/ /\ exec.pc = "treasury" /\ next = "ip_creator"
            /\ to = ThePayment.treasury /\ amount = Legs(exec.tx.quote).treasury
         \/ /\ exec.pc = "ip_creator" /\ next = "rent"
            /\ to = ThePayment.ip_creator /\ amount = Legs(exec.tx.quote).ip_creator
  PROVE  Transfer(ThePayment.from, to, amount)
           = [exec EXCEPT !.payer_nonce = WorkingNonce(exec.tx, next),
                          !.marked = WorkingMark(exec.tx, next),
                          !.balance = WorkingBalance(exec.kind, exec.tx, next)]
<1> USE DEF Places, ConfigDone, CounterDone, RentDone, AccountsDone, QuoteDone, NonceDone,
            SplitDone, MerchantDone, TreasuryDone, RoyaltyDone
<1> DEFINE tx == exec.tx
           payment == PaymentOf(exec.kind, tx)
           legs == Legs(tx.quote)
           f == WorkingBalance(exec.kind, tx, exec.pc)
           g == WorkingBalance(exec.kind, tx, next)
           rent == Rent(tx.payer, tx.nonce)
           counter == NONCE_PDA[tx.payer]
           marker == MARKER_PDA[tx.payer][tx.nonce]
<1>1. /\ IsExecution(exec) /\ OnTrack(exec) /\ exec.kind \in {"native", "stable"}
      /\ ThePayment = payment /\ tx.quote \in Quotes
      /\ tx.payer \in Payers /\ tx.nonce \in 0 .. MAX_NONCE
      /\ \/ exec.kind = "native" /\ tx \in NativeTxs
         \/ exec.kind = "stable" /\ tx \in StableTxs
  BY ExecutionAt
<1>2. Passed(exec.kind, tx, exec.pc) /\ exec.balance = f
  BY <1>1 DEF OnTrack
<1>3. AccountsVerdictOf(exec.kind, tx) = Ok
  BY <1>2 DEF Passed
<1>4. Apart(payment) /\ payment.from \in Accounts
  BY <1>1, <1>3, PartiesOf
<1>5. legs \in LegsType
  BY <1>1, <1>2, LegsDue
<1>6. RentSoFar(tx, exec.pc) = rent /\ RentSoFar(tx, next) = rent
  BY <1>1, RentIsRent DEF RentSoFar, RentType
<1>7. ASSUME NEW pc \in {exec.pc, next}
      PROVE  LET m == IF pc \in MerchantDone THEN legs.merchant ELSE 0
                 t == IF pc \in TreasuryDone THEN legs.treasury ELSE 0
                 i == IF pc \in RoyaltyDone THEN legs.ip_creator ELSE 0
             IN  /\ WorkingBalance(exec.kind, tx, pc) \in [Accounts -> Int]
                 /\ rent.payer_nonce \in Nat /\ rent.consumed_nonce \in Nat
                 /\ Total(rent) \in Nat
                 /\ \A a \in Accounts :
                      WorkingBalance(exec.kind, tx, pc)[a]
                        = balance[a] - (IF a = payment.from THEN m + t + i ELSE 0)
                           - (IF a = tx.payer THEN Total(rent) ELSE 0)
                           + (IF a = payment.merchant THEN m ELSE 0)
                           + (IF a = payment.treasury THEN t ELSE 0)
                           + (IF a = payment.ip_creator THEN i ELSE 0)
                           + (IF a = counter THEN rent.payer_nonce ELSE 0)
                           + (IF a = marker THEN rent.consumed_nonce ELSE 0)
  <2>1. RentSoFar(tx, pc) = rent
    BY <1>6
  <2> HIDE DEF Places, ConfigDone, CounterDone, RentDone, AccountsDone, QuoteDone, NonceDone,
               SplitDone, MerchantDone, TreasuryDone, RoyaltyDone
  <2> QED BY <2>1, <1>1, <1>5, WorkingBalanceAt
<1>8. \A a \in Accounts : balance[a] \in Nat
  BY DEF SettleType
<1>9. legs.merchant \in Nat /\ legs.treasury \in Nat /\ legs.ip_creator \in Nat /\ amount \in Nat
  BY <1>5 DEF LegsType
<1>10. f \in [Accounts -> Int] /\ g \in [Accounts -> Int]
  BY <1>7
<1>11. \A a \in Accounts : g[a] = f[a] - (IF a = payment.from THEN amount ELSE 0)
                                       + (IF a = to THEN amount ELSE 0)
  <2> SUFFICES ASSUME NEW a \in Accounts
               PROVE  g[a] = f[a] - (IF a = payment.from THEN amount ELSE 0)
                                  + (IF a = to THEN amount ELSE 0)
    OBVIOUS
  <2> DEFINE F(m, t, i) == balance[a] - (IF a = payment.from THEN m + t + i ELSE 0)
                             - (IF a = tx.payer THEN Total(rent) ELSE 0)
                             + (IF a = payment.merchant THEN m ELSE 0)
                             + (IF a = payment.treasury THEN t ELSE 0)
                             + (IF a = payment.ip_creator THEN i ELSE 0)
                             + (IF a = counter THEN rent.payer_nonce ELSE 0)
                             + (IF a = marker THEN rent.consumed_nonce ELSE 0)
  <2>1. CASE exec.pc = "merchant"
    <3>1. f[a] = F(0, 0, 0) /\ g[a] = F(legs.merchant, 0, 0)
      BY <2>1, <1>7
    <3> HIDE DEF payment, legs, rent, f, g, counter, marker
    <3> QED BY <3>1, <2>1, <1>1, <1>7, <1>8, <1>9 DEF legs
  <2>2. CASE exec.pc = "treasury"
    <3>1. f[a] = F(legs.merchant, 0, 0) /\ g[a] = F(legs.merchant, legs.treasury, 0)
      BY <2>2, <1>7
    <3> HIDE DEF payment, legs, rent, f, g, counter, marker
    <3> QED BY <3>1, <2>2, <1>1, <1>7, <1>8, <1>9 DEF legs
  <2>3. CASE exec.pc = "ip_creator"
    <3>1. /\ f[a] = F(legs.merchant, legs.treasury, 0)
          /\ g[a] = F(legs.merchant, legs.treasury, legs.ip_creator)
      BY <2>3, <1>7
    <3> HIDE DEF payment, legs, rent, f, g, counter, marker
    <3> QED BY <3>1, <2>3, <1>1, <1>7, <1>8, <1>9, SMTT(60) DEF legs
  <2> QED BY <2>1, <2>2, <2>3
<1>12. payment.from # to
  BY <1>1, <1>4 DEF Apart
<1>13. g = [f EXCEPT ![payment.from] = @ - amount, ![to] = @ + amount]
  <2> HIDE DEF f, g, payment
  <2> QED BY <1>4, <1>9, <1>10, <1>11, <1>12, TransferMoves
<1>14. /\ exec.payer_nonce = WorkingNonce(tx, next)
       /\ exec.marked = WorkingMark(tx, next)
  BY <1>1 DEF OnTrack, WorkingNonce, WorkingMark
<1>15. Transfer(payment.from, to, amount) = [exec EXCEPT !.balance = g]
  BY <1>2, <1>13 DEF Transfer
<1> HIDE DEF f, g, payment
<1> QED BY <1>1, <1>14, <1>15 DEF IsExecution, g

(* What is left of the verdict once the transfers have begun.              *)
LEMMA TransfersDecide ==
  ASSUME ExecInv, exec # NONE, exec.pc \in SplitDone
  PROVE  /\ IsExecution(exec) /\ OnTrack(exec) /\ Passed(exec.kind, exec.tx, exec.pc)
         /\ exec.tx.quote \in Quotes /\ ThePayment = PaymentOf(exec.kind, exec.tx)
         /\ ThePayment.legs = Legs(exec.tx.quote)
         /\ \/ exec.kind = "native" /\ exec.tx \in NativeTxs /\ IsNative
            \/ exec.kind = "stable" /\ exec.tx \in StableTxs /\ ~IsNative
         /\ AccountsVerdictOf(exec.kind, exec.tx) = Ok /\ SplitQuote(exec.tx.quote) = Ok
         /\ VerdictOf(exec.kind, exec.tx) = TransfersVerdictOf(exec.kind, exec.tx)
<1> USE DEF Places, ConfigDone, CounterDone, RentDone, AccountsDone, QuoteDone, NonceDone,
            SplitDone, MerchantDone, TreasuryDone, RoyaltyDone
<1>1. /\ IsExecution(exec) /\ OnTrack(exec)
      /\ exec.tx.quote \in Quotes /\ ThePayment = PaymentOf(exec.kind, exec.tx)
      /\ \/ exec.kind = "native" /\ exec.tx \in NativeTxs
         \/ exec.kind = "stable" /\ exec.tx \in StableTxs
  BY ExecutionAt
<1>2. Passed(exec.kind, exec.tx, exec.pc)
  BY <1>1 DEF OnTrack
<1>3. /\ ConfigExists = Ok /\ NonceAccounts(exec.tx.payer, exec.tx.nonce) = Ok
      /\ AccountsVerdictOf(exec.kind, exec.tx) = Ok
      /\ QuoteVerdict(exec.tx.quote, exec.tx.recovered, exec.tx.payer) = Ok
      /\ NonceVerdict(exec.tx.quote, exec.tx.payer) = Ok
      /\ SplitQuote(exec.tx.quote) = Ok
  BY <1>2 DEF Passed
<1>4. VerdictOf(exec.kind, exec.tx) = TransfersVerdictOf(exec.kind, exec.tx)
  BY <1>3, OutcomeInOrder
<1>5. ThePayment.legs = Legs(exec.tx.quote)
  BY <1>1 DEF PaymentOf, NativePayment, StablePayment
<1> QED BY <1>1, <1>2, <1>3, <1>4, <1>5 DEF IsNative

(* A native payer has been found to own the whole gross amount, so each    *)
(* transfer succeeds and leaves what the later ones need.                  *)
LEMMA NativeFundsSuffice ==
  ASSUME SettleType, RoutesType, RouteTable, ExecInv, exec # NONE, exec.pc \in SplitDone,
         exec.kind = "native"
  PROVE  LET pc == exec.pc
             legs == Legs(exec.tx.quote)
         IN  /\ exec.balance[exec.tx.payer] \in Int
             /\ exec.balance[exec.tx.payer] >=
                  (IF pc \in MerchantDone THEN 0 ELSE legs.merchant)
                    + (IF pc \in TreasuryDone THEN 0 ELSE legs.treasury)
                    + (IF pc \in RoyaltyDone THEN 0 ELSE legs.ip_creator)
<1> DEFINE tx == exec.tx
           legs == Legs(tx.quote)
           rent == Rent(tx.payer, tx.nonce)
<1>1. /\ Passed(exec.kind, tx, exec.pc) /\ tx.quote \in Quotes
      /\ tx.payer \in Payers /\ tx.nonce \in 0 .. MAX_NONCE
  BY TransfersDecide, SettlementAssumption DEF NativeTxType
<1>2. PaymentOf(exec.kind, tx).from = tx.payer
  BY DEF PaymentOf, NativePayment
<1>3. balance[tx.payer] - Total(rent) >= tx.quote.gross_amount
  BY <1>1, <1>2 DEF Passed
<1>4. /\ legs \in LegsType /\ tx.quote.gross_amount \in Nat
      /\ legs.merchant + legs.treasury + legs.ip_creator = tx.quote.gross_amount
  BY <1>1, LegsDue
<1>5. exec.pc \in NonceDone
  BY DEF NonceDone
<1>6. /\ balance[tx.payer] \in Nat
      /\ exec.balance[tx.payer] = balance[tx.payer]
           - ((IF exec.pc \in MerchantDone THEN legs.merchant ELSE 0)
              + (IF exec.pc \in TreasuryDone THEN legs.treasury ELSE 0)
              + (IF exec.pc \in RoyaltyDone THEN legs.ip_creator ELSE 0))
           - Total(rent)
  BY <1>2, <1>5, PayerFunds
<1>7. /\ legs.merchant \in Nat /\ legs.treasury \in Nat /\ legs.ip_creator \in Nat
      /\ Total(rent) \in Nat
  BY <1>1, <1>4, RentIsRent DEF LegsType, RentType, Total
<1> HIDE DEF tx, legs, rent
<1>8. /\ exec.balance[tx.payer] \in Int
      /\ exec.balance[tx.payer] >=
           (IF exec.pc \in MerchantDone THEN 0 ELSE legs.merchant)
             + (IF exec.pc \in TreasuryDone THEN 0 ELSE legs.treasury)
             + (IF exec.pc \in RoyaltyDone THEN 0 ELSE legs.ip_creator)
  BY <1>3, <1>4, <1>6, <1>7
<1> QED BY <1>8 DEF tx, legs

LEMMA PayMerchantKeeps ==
  ASSUME SettleType, RoutesType, RouteTable, ExecInv, PayMerchant
  PROVE  ExecInv'
<1> USE DEF Places, ConfigDone, CounterDone, RentDone, AccountsDone, QuoteDone, NonceDone,
            SplitDone, MerchantDone, TreasuryDone, RoyaltyDone
<1> DEFINE tx == exec.tx
           legs == Legs(tx.quote)
           amount == ThePayment.legs.merchant
           from == ThePayment.from
           to == ThePayment.merchant
           verdict == IF IsNative THEN CanPay(tx.payer, amount, "MerchantTransferFailed")
                      ELSE    Check(from \notin tx.read_only, "PrivilegeEscalation")
                           ?? Unfrozen(tx, {from, to})
                           ?? CanPay(from, amount, "InsufficientFunds")
           copy == Transfer(from, to, amount)
<1>1. /\ exec # NONE /\ exec.pc = "merchant"
      /\ Step("merchant", verdict, copy, "treasury")
  BY DEF PayMerchant, Step
<1>2. /\ IsExecution(exec) /\ Passed(exec.kind, tx, "merchant")
      /\ ThePayment = PaymentOf(exec.kind, tx) /\ ThePayment.legs = legs
      /\ \/ exec.kind = "native" /\ tx \in NativeTxs /\ IsNative
         \/ exec.kind = "stable" /\ tx \in StableTxs /\ ~IsNative
      /\ AccountsVerdictOf(exec.kind, tx) = Ok /\ SplitQuote(tx.quote) = Ok
      /\ VerdictOf(exec.kind, tx) = TransfersVerdictOf(exec.kind, tx)
      /\ tx.quote \in Quotes
  BY <1>1, TransfersDecide
<1>3. to \in Accounts /\ amount = legs.merchant
  BY <1>2, PartiesOf
<1>4. legs.merchant \in Nat /\ legs.treasury \in Nat /\ legs.ip_creator \in Nat
  BY <1>2, LegsDue DEF LegsType
<1>5. copy = [exec EXCEPT !.payer_nonce = WorkingNonce(tx, "treasury"),
                          !.marked = WorkingMark(tx, "treasury"),
                          !.balance = WorkingBalance(exec.kind, tx, "treasury")]
  <2> HIDE DEF Places, ConfigDone, CounterDone, RentDone, AccountsDone, QuoteDone, NonceDone,
               SplitDone, MerchantDone, TreasuryDone, RoyaltyDone
  <2>1. exec # NONE /\ exec.pc = "merchant" /\ to \in Accounts
    BY <1>1, <1>3
  <2>2. to = ThePayment.merchant /\ amount = Legs(exec.tx.quote).merchant
    BY <1>3
  <2> HIDE DEF to, amount
  <2>3. Transfer(ThePayment.from, to, amount)
          = [exec EXCEPT !.payer_nonce = WorkingNonce(exec.tx, "treasury"),
                         !.marked = WorkingMark(exec.tx, "treasury"),
                         !.balance = WorkingBalance(exec.kind, exec.tx, "treasury")]
    BY <2>1, <2>2, LegMoves
  <2> QED BY <2>3
<1>6. CASE exec.kind = "native"
  <2>1. from = tx.payer /\ exec.balance[tx.payer] >= amount
    BY <1>1, <1>2, <1>3, <1>4, <1>6, NativeFundsSuffice DEF PaymentOf, NativePayment
  <2>2. verdict = Ok
    BY <1>2, <1>6, <2>1 DEF CanPay, Check
  <2>3. Passed(exec.kind, tx, "treasury")
    BY <1>2, <1>6 DEF Passed
  <2> HIDE DEF verdict, copy
  <2> QED BY <1>1, <1>2, <1>5, <2>2, <2>3, StepKeeps
<1>7. CASE exec.kind = "stable"
  <2>1. from = tx.remaining[1] /\ to = tx.remaining[2]
    BY <1>2, <1>7 DEF PaymentOf, StablePayment
  <2>2. exec.balance[from] = balance[from] /\ balance[from] \in Nat
    BY <1>1, <1>2, <1>7, PayerFunds
  <2>3. verdict = IF from \in tx.read_only THEN "PrivilegeEscalation"
                  ELSE IF Unfrozen(tx, {from, to}) # Ok THEN "AccountFrozen"
                  ELSE IF ~(balance[from] >= amount) THEN "InsufficientFunds" ELSE Ok
    <3>1. Unfrozen(tx, {from, to}) # Ok => Unfrozen(tx, {from, to}) = "AccountFrozen"
      BY DEF Unfrozen, Check
    <3> QED BY <3>1, <1>2, <1>7, <2>2, FirstErrorWins DEF CanPay, Check, Ok
  <2>4. verdict # Ok => verdict = VerdictOf(exec.kind, tx)
    <3>1. VerdictOf(exec.kind, tx) = StableTransfersVerdict(tx)
      BY <1>2, <1>7 DEF TransfersVerdictOf
    <3> HIDE DEF amount, from, to
    <3> QED BY <1>2, <1>3, <2>1, <2>3, <3>1, StableTransfersInOrder DEF Ok
  <2>5. verdict = Ok => Passed(exec.kind, tx, "treasury")
    BY <1>2, <1>3, <1>7, <2>1, <2>3 DEF Passed, Ok
  <2> HIDE DEF verdict, copy
  <2> QED BY <1>1, <1>2, <1>5, <2>4, <2>5, StepKeeps
<1> QED BY <1>2, <1>6, <1>7

LEMMA PayTreasuryKeeps ==
  ASSUME SettleType, RoutesType, RouteTable, ExecInv, PayTreasury
  PROVE  ExecInv'
<1> USE DEF Places, ConfigDone, CounterDone, RentDone, AccountsDone, QuoteDone, NonceDone,
            SplitDone, MerchantDone, TreasuryDone, RoyaltyDone
<1> DEFINE tx == exec.tx
           legs == Legs(tx.quote)
           amount == ThePayment.legs.treasury
           from == ThePayment.from
           to == ThePayment.treasury
           verdict == IF amount = 0 THEN Ok
                      ELSE IF IsNative
                      THEN CanPay(tx.payer, amount, "TreasuryTransferFailed")
                      ELSE    Unfrozen(tx, {to})
                           ?? CanPay(from, amount, "InsufficientFunds")
           copy == Transfer(from, to, amount)
<1>1. /\ exec # NONE /\ exec.pc = "treasury"
      /\ Step("treasury", verdict, copy, "ip_creator")
  BY DEF PayTreasury, Step
<1>2. /\ IsExecution(exec) /\ Passed(exec.kind, tx, "treasury")
      /\ ThePayment = PaymentOf(exec.kind, tx) /\ ThePayment.legs = legs
      /\ \/ exec.kind = "native" /\ tx \in NativeTxs /\ IsNative
         \/ exec.kind = "stable" /\ tx \in StableTxs /\ ~IsNative
      /\ AccountsVerdictOf(exec.kind, tx) = Ok /\ SplitQuote(tx.quote) = Ok
      /\ VerdictOf(exec.kind, tx) = TransfersVerdictOf(exec.kind, tx)
      /\ tx.quote \in Quotes
  BY <1>1, TransfersDecide
<1>3. to \in Accounts /\ amount = legs.treasury
  BY <1>2, PartiesOf
<1>4. legs.merchant \in Nat /\ legs.treasury \in Nat /\ legs.ip_creator \in Nat
  BY <1>2, LegsDue DEF LegsType
<1>5. copy = [exec EXCEPT !.payer_nonce = WorkingNonce(tx, "ip_creator"),
                          !.marked = WorkingMark(tx, "ip_creator"),
                          !.balance = WorkingBalance(exec.kind, tx, "ip_creator")]
  <2> HIDE DEF Places, ConfigDone, CounterDone, RentDone, AccountsDone, QuoteDone, NonceDone,
               SplitDone, MerchantDone, TreasuryDone, RoyaltyDone
  <2>1. exec # NONE /\ exec.pc = "treasury" /\ to \in Accounts
    BY <1>1, <1>3
  <2>2. to = ThePayment.treasury /\ amount = Legs(exec.tx.quote).treasury
    BY <1>3
  <2> HIDE DEF to, amount
  <2>3. Transfer(ThePayment.from, to, amount)
          = [exec EXCEPT !.payer_nonce = WorkingNonce(exec.tx, "ip_creator"),
                         !.marked = WorkingMark(exec.tx, "ip_creator"),
                         !.balance = WorkingBalance(exec.kind, exec.tx, "ip_creator")]
    BY <2>1, <2>2, LegMoves
  <2> QED BY <2>3
<1>6. CASE exec.kind = "native"
  <2>1. from = tx.payer /\ exec.balance[tx.payer] >= amount
    BY <1>1, <1>2, <1>3, <1>4, <1>6, NativeFundsSuffice DEF PaymentOf, NativePayment
  <2>2. verdict = Ok
    BY <1>2, <1>6, <2>1 DEF CanPay, Check
  <2>3. Passed(exec.kind, tx, "ip_creator")
    BY <1>2, <1>6 DEF Passed
  <2> HIDE DEF verdict, copy
  <2> QED BY <1>1, <1>2, <1>5, <2>2, <2>3, StepKeeps
<1>7. CASE exec.kind = "stable"
  <2>1. from = tx.remaining[1] /\ to = tx.remaining[3]
    BY <1>2, <1>7 DEF PaymentOf, StablePayment
  <2>2. /\ exec.balance[from] = balance[from] - legs.merchant /\ balance[from] \in Nat
        /\ from \notin tx.read_only /\ balance[from] >= legs.merchant
        /\ Unfrozen(tx, {tx.remaining[1], tx.remaining[2]}) = Ok
    BY <1>1, <1>2, <1>4, <1>7, <2>1, PayerFunds DEF Passed
  <2>3. verdict = IF amount # 0 /\ Unfrozen(tx, {to}) # Ok THEN "AccountFrozen"
                  ELSE IF ~(balance[from] >= legs.merchant + legs.treasury)
                  THEN "InsufficientFunds" ELSE Ok
    <3>1. Unfrozen(tx, {to}) # Ok => Unfrozen(tx, {to}) = "AccountFrozen"
      BY DEF Unfrozen, Check
    <3>2. exec.balance[from] >= amount <=> balance[from] >= legs.merchant + legs.treasury
      BY <1>3, <1>4, <2>2
    <3>3. amount = 0 => balance[from] >= legs.merchant + legs.treasury
      BY <1>3, <1>4, <2>2
    <3> HIDE DEF amount, from, to
    <3> QED BY <3>1, <3>2, <3>3, <1>2, <1>7, FirstErrorWins DEF CanPay, Check, Ok
  <2>4. verdict # Ok => verdict = VerdictOf(exec.kind, tx)
    <3>1. VerdictOf(exec.kind, tx) = StableTransfersVerdict(tx)
      BY <1>2, <1>7 DEF TransfersVerdictOf
    <3> HIDE DEF amount, from, to
    <3> QED BY <1>2, <1>3, <2>1, <2>2, <2>3, <3>1, StableTransfersInOrder DEF Ok
  <2>5. verdict = Ok => Passed(exec.kind, tx, "ip_creator")
    <3> HIDE DEF amount, from, to
    <3> QED BY <1>2, <1>3, <1>7, <2>1, <2>3 DEF Passed, Ok, from
  <2> HIDE DEF verdict, copy
  <2> QED BY <1>1, <1>2, <1>5, <2>4, <2>5, StepKeeps
<1> QED BY <1>2, <1>6, <1>7

(* Without a royalty the third transfer is not made and the IP creator's   *)
(* account not looked at.                                                  *)
LEMMA NoRoyaltyKeepsCopy ==
  ASSUME ExecInv, exec # NONE, exec.pc = "ip_creator", Legs(exec.tx.quote).ip_creator = 0
  PROVE  exec = [exec EXCEPT !.payer_nonce = WorkingNonce(exec.tx, "rent"),
                             !.marked = WorkingMark(exec.tx, "rent"),
                             !.balance = WorkingBalance(exec.kind, exec.tx, "rent")]
<1> USE DEF Places, ConfigDone, CounterDone, RentDone, AccountsDone, QuoteDone, NonceDone,
            SplitDone, MerchantDone, TreasuryDone, RoyaltyDone
<1>1. IsExecution(exec) /\ OnTrack(exec)
  BY ExecutionAt
<1>2. RentSoFar(exec.tx, "rent") = RentSoFar(exec.tx, "ip_creator")
  BY DEF RentSoFar
<1>3. PaidSoFar(exec.kind, exec.tx, "rent") = PaidSoFar(exec.kind, exec.tx, "ip_creator")
  BY <1>2 DEF PaidSoFar
<1>4. /\ exec.payer_nonce = WorkingNonce(exec.tx, "rent")
      /\ exec.marked = WorkingMark(exec.tx, "rent")
      /\ exec.balance = WorkingBalance(exec.kind, exec.tx, "rent")
  BY <1>1, <1>2, <1>3 DEF OnTrack, WorkingNonce, WorkingMark, WorkingBalance
<1> QED BY <1>1, <1>4 DEF IsExecution

LEMMA PayIPCreatorKeeps ==
  ASSUME SettleType, RoutesType, RouteTable, ExecInv, PayIPCreator
  PROVE  ExecInv'
<1> USE DEF Places, ConfigDone, CounterDone, RentDone, AccountsDone, QuoteDone, NonceDone,
            SplitDone, MerchantDone, TreasuryDone, RoyaltyDone
<1> DEFINE tx == exec.tx
           legs == Legs(tx.quote)
           amount == ThePayment.legs.ip_creator
           from == ThePayment.from
           to == ThePayment.ip_creator
           verdict == IF amount = 0 THEN Ok
                      ELSE IF IsNative
                      THEN    Check(tx.ip_creator = tx.quote.ip_creator, "IPCreatorMismatch")
                           ?? CanPay(tx.payer, amount, "IPCreatorTransferFailed")
                      ELSE    Check(Len(tx.remaining) >= 4, "MissingIPCreator")
                           ?? TokenAccount(IpAta(tx), tx.mint, tx.quote.ip_creator)
                           ?? Unfrozen(tx, {IpAta(tx)})
                           ?? CanPay(from, amount, "InsufficientFunds")
           copy == IF amount = 0 THEN exec ELSE Transfer(from, to, amount)
           due == [exec EXCEPT !.payer_nonce = WorkingNonce(tx, "rent"),
                               !.marked = WorkingMark(tx, "rent"),
                               !.balance = WorkingBalance(exec.kind, tx, "rent")]
<1>1. /\ exec # NONE /\ exec.pc = "ip_creator"
      /\ Step("ip_creator", verdict, copy, "rent")
  BY DEF PayIPCreator, Step
<1>2. /\ IsExecution(exec) /\ Passed(exec.kind, tx, "ip_creator")
      /\ ThePayment = PaymentOf(exec.kind, tx) /\ ThePayment.legs = legs
      /\ \/ exec.kind = "native" /\ tx \in NativeTxs /\ IsNative
         \/ exec.kind = "stable" /\ tx \in StableTxs /\ ~IsNative
      /\ AccountsVerdictOf(exec.kind, tx) = Ok /\ SplitQuote(tx.quote) = Ok
      /\ VerdictOf(exec.kind, tx) = TransfersVerdictOf(exec.kind, tx)
      /\ tx.quote \in Quotes
  BY <1>1, TransfersDecide
<1>3. amount = legs.ip_creator
  BY <1>2
<1>4. /\ legs.merchant \in Nat /\ legs.treasury \in Nat /\ legs.ip_creator \in Nat
      /\ tx.quote.gross_amount \in Nat
      /\ legs.merchant + legs.treasury + legs.ip_creator = tx.quote.gross_amount
  BY <1>2, LegsDue DEF LegsType
<1>5. CASE amount = 0
  <2>1. verdict = Ok /\ copy = due
    BY <1>1, <1>3, <1>5, NoRoyaltyKeepsCopy
  <2>2. Passed(exec.kind, tx, "rent")
    <3>1. exec.kind = "stable" =>
            balance[PaymentOf(exec.kind, tx).from] >= tx.quote.gross_amount
      BY <1>2, <1>3, <1>4, <1>5 DEF Passed
    <3> QED BY <1>2, <1>3, <1>5, <3>1 DEF Passed
  <2> HIDE DEF verdict, copy
  <2> QED BY <1>1, <1>2, <2>1, <2>2, StepKeeps
<1>6. to \in Accounts => (amount # 0 => copy = due)
  <2> SUFFICES ASSUME to \in Accounts, amount # 0 PROVE Transfer(from, to, amount) = due
    OBVIOUS
  <2> HIDE DEF Places, ConfigDone, CounterDone, RentDone, AccountsDone, QuoteDone, NonceDone,
               SplitDone, MerchantDone, TreasuryDone, RoyaltyDone
  <2>1. to = ThePayment.ip_creator /\ amount = Legs(exec.tx.quote).ip_creator
    BY <1>3
  <2> HIDE DEF to, amount
  <2>2. Transfer(ThePayment.from, to, amount)
          = [exec EXCEPT !.payer_nonce = WorkingNonce(exec.tx, "rent"),
                         !.marked = WorkingMark(exec.tx, "rent"),
                         !.balance = WorkingBalance(exec.kind, exec.tx, "rent")]
    BY <1>1, <2>1, LegMoves
  <2> QED BY <2>2
<1>7. CASE amount # 0 /\ exec.kind = "native"
  <2>1. from = tx.payer /\ to \in Accounts
    BY <1>2, <1>7, PartiesOf DEF PaymentOf, NativePayment
  <2>2. exec.balance[tx.payer] >= amount
    BY <1>1, <1>2, <1>3, <1>4, <1>7, NativeFundsSuffice
  <2>3. verdict = IF tx.ip_creator # tx.quote.ip_creator THEN "IPCreatorMismatch" ELSE Ok
    BY <1>2, <1>7, <2>2, FirstErrorWins DEF CanPay, Check, Ok
  <2>4. verdict # Ok => verdict = VerdictOf(exec.kind, tx)
    <3>1. VerdictOf(exec.kind, tx) = NativeTransfersVerdict(tx) /\ legs.ip_creator > 0
      BY <1>2, <1>3, <1>4, <1>7 DEF TransfersVerdictOf
    <3>2. /\ balance[tx.payer] - Total(Rent(tx.payer, tx.nonce)) >= tx.quote.gross_amount
          /\ tx.treasury = EffectiveTreasury(tx.quote.route_id)
      BY <1>2, <1>7, <2>1 DEF Passed
    <3> HIDE DEF amount, from, to
    <3> QED BY <1>2, <2>3, <3>1, <3>2, NativeTransfersInOrder DEF Ok
  <2>5. verdict = Ok => Passed(exec.kind, tx, "rent")
    BY <1>2, <1>7, <2>3 DEF Passed, Ok
  <2>6. copy = due
    BY <1>6, <1>7, <2>1
  <2> HIDE DEF verdict, copy
  <2> QED BY <1>1, <1>2, <2>4, <2>5, <2>6, StepKeeps
<1>8. CASE amount # 0 /\ exec.kind = "stable"
  <2> DEFINE ata == TokenAccount(IpAta(tx), tx.mint, tx.quote.ip_creator)
  <2>1. from = tx.remaining[1]
    BY <1>2, <1>8 DEF PaymentOf, StablePayment
  <2>2. /\ exec.balance[from] = balance[from] - (legs.merchant + legs.treasury)
        /\ balance[from] \in Nat
        /\ from \notin tx.read_only /\ balance[from] >= legs.merchant
        /\ Unfrozen(tx, {tx.remaining[1], tx.remaining[2]}) = Ok
        /\ legs.treasury # 0 => Unfrozen(tx, {tx.remaining[3]}) = Ok
        /\ balance[from] >= legs.merchant + legs.treasury
    BY <1>1, <1>2, <1>4, <1>8, <2>1, PayerFunds DEF Passed
  <2>3. exec.balance[from] >= amount <=> balance[from] >= tx.quote.gross_amount
    BY <1>3, <1>4, <2>2
  <2>4. verdict = IF ~(Len(tx.remaining) >= 4) THEN "MissingIPCreator"
                  ELSE IF ata # Ok THEN ata
                  ELSE IF Unfrozen(tx, {IpAta(tx)}) # Ok THEN "AccountFrozen"
                  ELSE IF ~(balance[from] >= tx.quote.gross_amount)
                  THEN "InsufficientFunds" ELSE Ok
    <3>1. Unfrozen(tx, {IpAta(tx)}) # Ok => Unfrozen(tx, {IpAta(tx)}) = "AccountFrozen"
      BY DEF Unfrozen, Check
    <3> HIDE DEF ata, from, to
    <3> QED BY <3>1, <1>2, <1>8, <2>3, FirstErrorWins DEF CanPay, Check, Ok, ata
  <2>5. verdict # Ok => verdict = VerdictOf(exec.kind, tx)
    <3>1. VerdictOf(exec.kind, tx) = StableTransfersVerdict(tx) /\ legs.ip_creator # 0
      BY <1>2, <1>3, <1>8 DEF TransfersVerdictOf
    <3> HIDE DEF amount, from, to, verdict
    <3> QED BY <1>2, <2>1, <2>2, <2>4, <3>1, StableTransfersInOrder DEF Ok
  <2>6. verdict = Ok => Passed(exec.kind, tx, "rent") /\ to \in Accounts
    <3> SUFFICES ASSUME verdict = Ok PROVE Passed(exec.kind, tx, "rent") /\ to \in Accounts
      OBVIOUS
    <3>1. /\ Len(tx.remaining) >= 4 /\ ata = Ok /\ Unfrozen(tx, {IpAta(tx)}) = Ok
          /\ balance[from] >= tx.quote.gross_amount
      BY <2>4 DEF Ok
    <3>2. to \in Accounts
      BY <1>2, <1>8, <3>1, PartiesOf
    <3> QED BY <1>2, <1>8, <2>1, <3>1, <3>2 DEF Passed
  <2>7. verdict = Ok => copy = due
    BY <1>6, <1>8, <2>6
  <2> HIDE DEF verdict, copy
  <2> QED BY <1>1, <1>2, <2>5, <2>6, <2>7, StepKeeps
<1> QED BY <1>2, <1>5, <1>7, <1>8

(* When the handler returns, the working copy is that of the whole payment *)
(* and only the rent is left to decide.                                    *)
LEMMA HandlerReturned ==
  ASSUME SettleType, RoutesType, RouteTable, ExecInv, exec # NONE, exec.pc \in RoyaltyDone
  PROVE  LET tx == exec.tx
             wallets == IF IsNative THEN {tx.payer, tx.merchant, tx.treasury, tx.ip_creator}
                        ELSE {tx.payer}
         IN  /\ exec.balance = Moved(ThePayment, tx.payer)
             /\ VerdictOf(exec.kind, tx)
                  = Check(\A w \in wallets : ~LeavesDust(balance[w], exec.balance[w]),
                          "InsufficientFundsForRent")
<1> USE DEF Places, ConfigDone, CounterDone, RentDone, AccountsDone, QuoteDone, NonceDone,
            SplitDone, MerchantDone, TreasuryDone, RoyaltyDone
<1> DEFINE tx == exec.tx
           legs == Legs(tx.quote)
           payment == PaymentOf(exec.kind, tx)
           rent == Rent(tx.payer, tx.nonce)
           wallets == IF IsNative THEN {tx.payer, tx.merchant, tx.treasury, tx.ip_creator}
                      ELSE {tx.payer}
           last == Check(\A w \in wallets : ~LeavesDust(balance[w], exec.balance[w]),
                         "InsufficientFundsForRent")
<1>1. /\ OnTrack(exec) /\ Passed(exec.kind, tx, exec.pc)
      /\ ThePayment = payment
      /\ \/ exec.kind = "native" /\ tx \in NativeTxs /\ IsNative
         \/ exec.kind = "stable" /\ tx \in StableTxs /\ ~IsNative
      /\ AccountsVerdictOf(exec.kind, tx) = Ok /\ SplitQuote(tx.quote) = Ok
      /\ VerdictOf(exec.kind, tx) = TransfersVerdictOf(exec.kind, tx)
      /\ tx.quote \in Quotes
  BY TransfersDecide
<1>2. /\ legs \in LegsType /\ tx.quote.gross_amount \in Nat
      /\ legs.merchant + legs.treasury + legs.ip_creator = tx.quote.gross_amount
  BY <1>1, LegsDue
<1>3. exec.balance = Moved(payment, tx.payer)
  <2>1. RentSoFar(tx, exec.pc) = rent
    <3>1. tx.payer \in Payers /\ tx.nonce \in 0 .. MAX_NONCE
      BY <1>1, SettlementAssumption DEF NativeTxType, StableTxType
    <3> QED BY <3>1, RentIsRent DEF RentSoFar, RentType
  <2>2. legs = [merchant |-> legs.merchant, treasury |-> legs.treasury,
                ip_creator |-> legs.ip_creator]
    BY <1>2 DEF LegsType
  <2>3. payment = [payment EXCEPT !.quote.nonce = tx.nonce, !.rent = rent, !.legs = legs]
    <3>1. payment.quote = tx.quote /\ payment.rent = rent /\ payment.legs = legs
      BY DEF PaymentOf, NativePayment, StablePayment
    <3>2. tx.quote.nonce = tx.nonce
      BY <1>1, PartiesOf
    <3>3. tx.quote = [tx.quote EXCEPT !.nonce = tx.nonce]
      BY <1>1, <3>2 DEF Quotes
    <3>4. payment = [payment EXCEPT !.quote = tx.quote, !.rent = rent, !.legs = legs]
      <4>1. payment = [quote |-> payment.quote, legs |-> payment.legs, from |-> payment.from,
                       merchant |-> payment.merchant, treasury |-> payment.treasury,
                       ip_creator |-> payment.ip_creator, rent |-> payment.rent]
        BY DEF PaymentOf, NativePayment, StablePayment
      <4> HIDE DEF payment, rent, legs
      <4> QED BY <3>1, <4>1
    <3> HIDE DEF payment, rent, legs
    <3> QED BY <3>1, <3>3, <3>4
  <2>4. PaidSoFar(exec.kind, tx, exec.pc)
          = [payment EXCEPT !.quote.nonce = tx.nonce, !.rent = rent, !.legs = legs]
    BY <2>1, <2>2 DEF PaidSoFar
  <2>5. exec.balance = WorkingBalance(exec.kind, tx, exec.pc)
    BY <1>1 DEF OnTrack
  <2> HIDE DEF payment, legs, rent
  <2>6. PaidSoFar(exec.kind, tx, exec.pc) = payment
    BY <2>3, <2>4
  <2> QED BY <2>5, <2>6 DEF WorkingBalance
<1>4. RentExempt(payment, tx.payer, wallets) = last
  <2>1. NONE \notin wallets
    BY <1>1, SettlementAssumption DEF NativeTxType, StableTxType
  <2>2. wallets \ {NONE} = wallets
    BY <2>1
  <2> HIDE DEF wallets, payment, rent
  <2> QED BY <1>3, <2>2 DEF RentExempt
<1>5. VerdictOf(exec.kind, tx) = last
  <2>1. CASE exec.kind = "native"
    <3>1. /\ payment = NativePayment(tx) /\ payment.from = tx.payer
          /\ VerdictOf(exec.kind, tx) = NativeTransfersVerdict(tx)
      BY <1>1, <2>1 DEF PaymentOf, NativePayment, TransfersVerdictOf
    <3>2. /\ balance[tx.payer] - Total(rent) >= tx.quote.gross_amount
          /\ tx.treasury = EffectiveTreasury(tx.quote.route_id)
          /\ legs.ip_creator # 0 => tx.ip_creator = tx.quote.ip_creator
      BY <1>1, <2>1, <3>1 DEF Passed
    <3>3. legs.ip_creator > 0 => legs.ip_creator # 0
      BY <1>2 DEF LegsType
    <3>4. wallets = {tx.payer, tx.merchant, tx.treasury, tx.ip_creator}
      BY <1>1, <2>1
    <3>5. VerdictOf(exec.kind, tx) = RentExempt(NativePayment(tx), tx.payer,
                                       {tx.payer, tx.merchant, tx.treasury, tx.ip_creator})
      <4> HIDE DEF last, wallets, payment
      <4> QED BY <1>1, <3>1, <3>2, <3>3, NativeTransfersInOrder
    <3> HIDE DEF last, wallets, payment, rent
    <3> QED BY <1>4, <3>1, <3>4, <3>5
  <2>2. CASE exec.kind = "stable"
    <3>1. /\ payment = StablePayment(tx) /\ payment.from = tx.remaining[1]
          /\ VerdictOf(exec.kind, tx) = StableTransfersVerdict(tx)
      BY <1>1, <2>2 DEF PaymentOf, StablePayment, TransfersVerdictOf
    <3>2. LET funds == balance[tx.remaining[1]]
          IN  /\ tx.remaining[1] \notin tx.read_only /\ funds >= legs.merchant
              /\ Unfrozen(tx, {tx.remaining[1], tx.remaining[2]}) = Ok
              /\ legs.treasury # 0 => Unfrozen(tx, {tx.remaining[3]}) = Ok
              /\ funds >= legs.merchant + legs.treasury /\ funds >= tx.quote.gross_amount
              /\ legs.ip_creator # 0 =>
                   /\ Len(tx.remaining) >= 4
                   /\ TokenAccount(IpAta(tx), tx.mint, tx.quote.ip_creator) = Ok
                   /\ Unfrozen(tx, {IpAta(tx)}) = Ok
      BY <1>1, <2>2, <3>1 DEF Passed
    <3>3. wallets = {tx.payer}
      BY <1>1, <2>2
    <3>4. VerdictOf(exec.kind, tx) = RentExempt(StablePayment(tx), tx.payer, {tx.payer})
      <4> HIDE DEF last, wallets, payment
      <4> QED BY <1>1, <3>1, <3>2, StableTransfersInOrder
    <3> HIDE DEF last, wallets, payment, rent
    <3> QED BY <1>4, <3>1, <3>3, <3>4
  <2> QED BY <1>1, <2>1, <2>2
<1> HIDE DEF last, payment, rent
<1> QED BY <1>1, <1>3, <1>5 DEF last, payment, rent

LEMMA CheckRentKeeps ==
  ASSUME SettleType, RoutesType, RouteTable, ExecInv, CheckRent
  PROVE  ExecInv'
<1> USE DEF Places, ConfigDone, CounterDone, RentDone, AccountsDone, QuoteDone, NonceDone,
            SplitDone, MerchantDone, TreasuryDone, RoyaltyDone
<1> DEFINE tx == exec.tx
           wallets == IF IsNative THEN {tx.payer, tx.merchant, tx.treasury, tx.ip_creator}
                      ELSE {tx.payer}
           verdict == Check(\A w \in wallets : ~LeavesDust(balance[w], exec.balance[w]),
                            "InsufficientFundsForRent")
<1>1. /\ exec # NONE /\ exec.pc = "rent"
      /\ Step("rent", verdict, exec, "commit")
  BY DEF CheckRent, Step
<1>2. IsExecution(exec) /\ OnTrack(exec) /\ Passed(exec.kind, tx, "rent")
  BY <1>1, TransfersDecide
<1>3. VerdictOf(exec.kind, tx) = verdict
  BY <1>1, HandlerReturned
<1> HIDE DEF verdict
<1>4. verdict = Ok => Passed(exec.kind, tx, "commit")
  BY <1>2, <1>3 DEF Passed
<1> QED BY <1>1, <1>2, <1>3, <1>4, LookingKeepsCopy, StepKeeps

-----------------------------------------------------------------------------
(* A settlement may be given up at any step.                               *)
LEMMA OutOfBudgetKeeps ==
  ASSUME ExecInv, OutOfBudget
  PROVE  ExecInv'
<1> DEFINE e == [kind |-> exec.kind, tx |-> exec.tx, pc |-> "failed",
                 error |-> "ComputationalBudgetExceeded",
                 payer_nonce |-> exec.payer_nonce, marked |-> exec.marked,
                 balance |-> exec.balance]
<1>1. IsExecution(exec) /\ UNCHANGED vars
  BY DEF ExecInv, OutOfBudget
<1>2. exec' = e
  BY <1>1 DEF OutOfBudget, IsExecution
<1>3. IsExecution(e) /\ Failed(e)
  BY <1>1 DEF IsExecution, Failed
<1> QED BY <1>1, <1>2, <1>3, ExecutionProceeds

(* The locks: while a settlement is under way, no other transaction that   *)
(* writes what it reads can run, nor does the clock of its slot advance.   *)
LEMMA OthersWait ==
  ASSUME ExecInv, exec # NONE
  PROVE  /\ ~MayWrite({"config", "profiles", "token_list"})
         /\ ~MayWrite({"config"}) /\ ~MayWrite({"profiles"})
         /\ ~(MayWrite({"token_list"}) /\ MayRead({"config"}))
<1>1. exec.kind = "native" \/ exec.kind = "stable"
  BY DEF ExecInv, IsExecution
<1> QED BY <1>1 DEF MayWrite, MayRead, WriteLocks, ReadLocks

(* One step of anything keeps the description.                             *)
LEMMA TxNextKeepsExecution ==
  ASSUME IInv, ExecInv, [TxNext]_txVars
  PROVE  ExecInv'
<1>1. SettleType /\ RoutesType /\ RouteTable
  BY TypeParts DEF IInv
<1>2. CASE UNCHANGED txVars
  <2>1. UNCHANGED vars /\ exec' = exec
    BY <1>2 DEF txVars
  <2>2. CASE exec = NONE
    BY <2>1, <2>2 DEF ExecInv
  <2>3. CASE exec # NONE
    BY <2>1, <2>3, ExecutionProceeds DEF ExecInv
  <2> QED BY <2>2, <2>3
<1>3. CASE SettlementRuns
  <2>1. ASSUME NEW tx \in NativeTxs, Begin("native", tx) PROVE ExecInv'
    BY <1>1, <2>1, BeginKeeps
  <2>2. ASSUME NEW tx \in StableTxs, Begin("stable", tx) PROVE ExecInv'
    BY <1>1, <2>2, BeginKeeps
  <2>3. CASE Commit \/ Rollback \/ Drop
    BY <2>3 DEF Commit, Rollback, Drop, ExecInv
  <2> QED BY <1>1, <1>3, <2>1, <2>2, <2>3, FindConfigKeeps, CreatePayerNonceKeeps,
             CreateConsumedNonceKeeps, CheckAccountsKeeps, CheckQuoteKeeps, WriteNonceKeeps,
             SplitGrossKeeps, PayMerchantKeeps, PayTreasuryKeeps, PayIPCreatorKeeps,
             CheckRentKeeps, OutOfBudgetKeeps
          DEF SettlementRuns
<1>4. CASE ~SettlementRuns /\ TxNext
  <2>1. exec' = exec /\ exec = NONE
    BY <1>4, OthersWait DEF TxNext
  <2> QED BY <2>1 DEF ExecInv
<1> QED BY <1>2, <1>3, <1>4

(* A commit is the atomic step of the whole program.                       *)
LEMMA CommitSettles ==
  ASSUME SettleType, RoutesType, RouteTable, ExecInv, Commit
  PROVE  SettleStep /\ UNCHANGED <<now, config, profiles, count, token_list>>
<1> USE DEF Places, ConfigDone, CounterDone, RentDone, AccountsDone, QuoteDone, NonceDone,
            SplitDone, MerchantDone, TreasuryDone, RoyaltyDone
<1> DEFINE tx == exec.tx
           payment == PaymentOf(exec.kind, tx)
<1>1. exec # NONE /\ exec.pc = "commit"
  BY DEF Commit
<1>2. /\ OnTrack(exec) /\ Passed(exec.kind, tx, "commit") /\ ThePayment = payment
      /\ \/ exec.kind = "native" /\ tx \in NativeTxs
         \/ exec.kind = "stable" /\ tx \in StableTxs
      /\ AccountsVerdictOf(exec.kind, tx) = Ok
  BY <1>1, TransfersDecide
<1>3. VerdictOf(exec.kind, tx) = Ok
  BY <1>2 DEF Passed
<1>4. tx.quote.nonce = tx.nonce /\ payment.quote = tx.quote
  BY <1>2, PartiesOf DEF PaymentOf, NativePayment, StablePayment
<1>5. /\ exec.payer_nonce = [payer |-> tx.quote.payer, nonce |-> tx.quote.nonce + 1]
      /\ exec.marked = TRUE
  BY <1>1, <1>2 DEF OnTrack, WorkingNonce, WorkingMark
<1>6. exec.balance = Moved(payment, tx.payer)
  BY <1>1, <1>2, <1>4, HandlerReturned
<1>7. Complete(payment, tx.payer)
  BY <1>2, <1>4, <1>5, <1>6 DEF Commit, Complete, AdvanceNonce
<1>8. CASE exec.kind = "native"
  BY <1>2, <1>3, <1>7, <1>8 DEF VerdictOf, PaymentOf, SettleNative, SettleStep, Commit
<1>9. CASE exec.kind = "stable"
  BY <1>2, <1>3, <1>7, <1>9 DEF VerdictOf, PaymentOf, SettleStable, SettleStep, Commit
<1> QED BY <1>2, <1>8, <1>9

(* Every other step of a settlement changes nothing that others see.       *)
LEMMA TxNextIsNext ==
  ASSUME IInv, ExecInv, [TxNext]_txVars
  PROVE  [Next]_vars
<1>1. SettleType /\ RoutesType /\ RouteTable
  BY TypeParts DEF IInv
<1>2. CASE UNCHANGED txVars
  BY <1>2 DEF txVars
<1>3. CASE SettlementRuns
  <2>1. CASE Commit
    BY <1>1, <2>1, CommitSettles DEF Next
  <2>2. CASE ~Commit
    BY <1>3, <2>2 DEF SettlementRuns, Begin, FindConfig, CreatePayerNonce, CreateConsumedNonce,
       CreateAccount, CheckAccounts, CheckQuote, WriteNonce, SplitGross, PayMerchant,
       PayTreasury, PayIPCreator, CheckRent, OutOfBudget, Rollback, Drop, Step
  <2> QED BY <2>1, <2>2
<1>4. CASE ~SettlementRuns /\ TxNext
  BY <1>4 DEF TxNext, Next
<1> QED BY <1>2, <1>3, <1>4

LEMMA TxInvariance == TxSpec => [](IInv /\ ExecInv)
<1>1. TxInit => IInv /\ ExecInv
  BY InitEstablishes DEF TxInit, ExecInv
<1>2. (IInv /\ ExecInv) /\ [TxNext]_txVars => (IInv /\ ExecInv)'
  BY TxNextIsNext, NextKeeps, TxNextKeepsExecution
<1> QED BY <1>1, <1>2, PTL DEF TxSpec

(* A settlement that executes step by step, that may fail, run out of      *)
(* compute budget or be dropped at any step, is one atomic step of the     *)
(* program or none: a transfer that fails after the nonce was written does *)
(* not burn it.                                                            *)
THEOREM Atomicity == TxSpec => SettlementIsAtomic
<1>1. TxInit => Init
  BY DEF TxInit
<1>2. IInv /\ ExecInv /\ [TxNext]_txVars => [Next]_vars
  BY TxNextIsNext
<1> QED BY <1>1, <1>2, TxInvariance, PTL DEF TxSpec, Spec, SettlementIsAtomic

(* A settlement ends as the state in which it began had decided, with the  *)
(* same error code: the order of the handler's steps, the rent and the     *)
(* legs already moved make no difference.                                  *)
THEOREM OutcomeIsDecided == TxSpec => []OutcomeIsDecidedAtTheStart
<1>1. ExecInv => OutcomeIsDecidedAtTheStart
  <2> SUFFICES ASSUME ExecInv, exec # NONE
               PROVE  /\ exec.pc = "commit" => TheVerdict = Ok
                      /\ exec.pc = "failed" /\ exec.error # "ComputationalBudgetExceeded" =>
                           exec.error = TheVerdict
    BY DEF OutcomeIsDecidedAtTheStart
  <2>1. TheVerdict = VerdictOf(exec.kind, exec.tx)
    BY DEF TheVerdict, IsNative, VerdictOf
  <2>2. exec.pc = "commit" => VerdictOf(exec.kind, exec.tx) = Ok
    BY DEF ExecInv, OnTrack, Failed, Passed
  <2>3. "failed" \notin Places
    BY DEF Places, ConfigDone, CounterDone, RentDone, AccountsDone, QuoteDone, NonceDone,
           SplitDone, MerchantDone, TreasuryDone, RoyaltyDone
  <2>4. exec.pc = "failed" /\ exec.error # "ComputationalBudgetExceeded" =>
          exec.error = VerdictOf(exec.kind, exec.tx)
    BY <2>3 DEF ExecInv, OnTrack, Failed
  <2> QED BY <2>1, <2>2, <2>4
<1> QED BY <1>1, TxInvariance, PTL

=============================================================================
