------------------------------ MODULE SettleTx ------------------------------
(***************************************************************************)
(* A settlement transaction as the runtime executes it: the nonce accounts *)
(* are created, the accounts checked, the quote verified, the nonce        *)
(* written and the legs transferred one after the other, on a working copy *)
(* of the accounts.  Any step may fail, the compute budget may run out and *)
(* the node may drop the transaction; only Commit makes the copy the state *)
(* of the cluster.  Splitter takes a settlement for one atomic step; this  *)
(* module is the detail behind that step.                                  *)
(***************************************************************************)
EXTENDS Splitter

VARIABLE exec   \* the settlement under execution, or NONE

txVars == <<vars, exec>>

(* The accounts the derive(Accounts) structs of the two instructions name. *)
(* Both lock profiles for writing, so no two settlements ever overlap.     *)
WriteLocks ==
  IF exec = NONE THEN {}
  ELSE IF exec.kind = "native" THEN {"config", "profiles"} ELSE {"profiles"}

ReadLocks == IF exec # NONE /\ exec.kind = "stable" THEN {"config", "token_list"} ELSE {}

(* Another transaction that reads or writes these accounts may run now.    *)
MayRead(accounts) == accounts \cap WriteLocks = {}
MayWrite(accounts) == accounts \cap (WriteLocks \cup ReadLocks) = {}

TxInit == Init /\ exec = NONE

Begin(kind, tx) ==
  /\ exec = NONE
  /\ exec' = [kind |-> kind, tx |-> tx, pc |-> "config", error |-> Ok,
              payer_nonce |-> payer_nonce[tx.payer],
              marked |-> tx.nonce \in consumed[tx.payer], balance |-> balance]
  /\ UNCHANGED vars

-----------------------------------------------------------------------------
IsNative == exec.kind = "native"
ThePayment == IF IsNative THEN NativePayment(exec.tx) ELSE StablePayment(exec.tx)

(* One step of the handler, at the place the program counter names: an     *)
(* error ends it, otherwise copy is the working copy it goes on with.      *)
Step(at, verdict, copy, next) ==
  /\ exec # NONE /\ exec.pc = at
  /\ exec' = IF verdict = Ok THEN [copy EXCEPT !.pc = next]
             ELSE [exec EXCEPT !.pc = "failed", !.error = verdict]
  /\ UNCHANGED vars

(* The working copy with amount moved from one account to another. *)
Transfer(from, to, amount) ==
  [exec EXCEPT !.balance = [exec.balance EXCEPT ![from] = @ - amount, ![to] = @ + amount]]

CanPay(from, amount, error) == Check(exec.balance[from] >= amount, error)

(* init_if_needed of one nonce account: exists tells that it is there.     *)
CreateAccount(at, exists, account, rent, next) ==
  LET missing == IF exists THEN 0 ELSE Shortfall(exec.balance[account], rent)
  IN  Step(at, CanPay(exec.tx.payer, missing, "InsufficientFundsForRent"),
           Transfer(exec.tx.payer, account, missing), next)

FindConfig == Step("config", ConfigExists, exec, "payer_nonce")

CreatePayerNonce ==
  CreateAccount("payer_nonce", exec.payer_nonce.payer # DEFAULT,
                NONCE_PDA[exec.tx.payer], COUNTER_RENT, "consumed_nonce")

CreateConsumedNonce ==
  CreateAccount("consumed_nonce", exec.marked,
                MARKER_PDA[exec.tx.payer][exec.tx.nonce], MARKER_RENT, "accounts")

CheckAccounts ==
  Step("accounts",
       IF IsNative THEN NativeAccountsVerdict(exec.tx) ELSE StableAccountsVerdict(exec.tx),
       exec, "quote")

CheckQuote ==
  Step("quote", QuoteVerdict(exec.tx.quote, exec.tx.recovered, exec.tx.payer), exec, "nonce")

(* The end of verify_quote_core: the nonce is written before anything is   *)
(* transferred.                                                            *)
WriteNonce ==
  LET quote == exec.tx.quote
  IN  Step("nonce",
              Check(exec.payer_nonce.payer \in {DEFAULT, quote.payer}, "InvalidPayer")
           ?? Check(quote.nonce = exec.payer_nonce.nonce, "InvalidNonce")
           ?? Check(~exec.marked, "NonceAlreadyConsumed")
           ?? Check(quote.nonce < MAX_NONCE, "NonceOverflow"),
           [exec EXCEPT !.payer_nonce = [payer |-> quote.payer, nonce |-> quote.nonce + 1],
                        !.marked = TRUE],
           "split")

(* Mutant: the balance is the one read when the transaction began. *)
SplitGross_StaleBalance ==
  LET tx == exec.tx
  IN  Step("split",
           IF IsNative
           THEN    Check(balance[tx.payer] >= tx.quote.gross_amount, "IncorrectNativeValue")
                ?? SplitQuote(tx.quote)
                ?? Check(tx.treasury = EffectiveTreasury(tx.quote.route_id), "ZeroTreasury")
           ELSE SplitQuote(tx.quote),
           exec, "merchant")

(* The last checks before money moves. *)
SplitGross ==
  LET tx == exec.tx
  IN  Step("split",
           IF IsNative
           THEN    CanPay(tx.payer, tx.quote.gross_amount, "IncorrectNativeValue")
                ?? SplitQuote(tx.quote)
                ?? Check(tx.treasury = EffectiveTreasury(tx.quote.route_id), "ZeroTreasury")
           ELSE SplitQuote(tx.quote),
           exec, "merchant")

PayMerchant ==
  LET amount == ThePayment.legs.merchant
  IN  Step("merchant",
           IF IsNative THEN CanPay(exec.tx.payer, amount, "MerchantTransferFailed")
           ELSE    Check(ThePayment.from \notin exec.tx.read_only, "PrivilegeEscalation")
                ?? Unfrozen(exec.tx, {ThePayment.from, ThePayment.merchant})
                ?? CanPay(ThePayment.from, amount, "InsufficientFunds"),
           Transfer(ThePayment.from, ThePayment.merchant, amount), "treasury")

PayTreasury ==
  LET amount == ThePayment.legs.treasury
  IN  Step("treasury",
           IF amount = 0 THEN Ok
           ELSE IF IsNative THEN CanPay(exec.tx.payer, amount, "TreasuryTransferFailed")
           ELSE    Unfrozen(exec.tx, {ThePayment.treasury})
                ?? CanPay(ThePayment.from, amount, "InsufficientFunds"),
           Transfer(ThePayment.from, ThePayment.treasury, amount), "ip_creator")

(* The IP creator's account is looked at only when a royalty is due. *)
PayIPCreator ==
  LET tx == exec.tx
      amount == ThePayment.legs.ip_creator
  IN  Step("ip_creator",
           IF amount = 0 THEN Ok
           ELSE IF IsNative
           THEN    Check(tx.ip_creator = tx.quote.ip_creator, "IPCreatorMismatch")
                ?? CanPay(tx.payer, amount, "IPCreatorTransferFailed")
           ELSE    Check(Len(tx.remaining) >= 4, "MissingIPCreator")
                ?? TokenAccount(IpAta(tx), tx.mint, tx.quote.ip_creator)
                ?? Unfrozen(tx, {IpAta(tx)})
                ?? CanPay(ThePayment.from, amount, "InsufficientFunds"),
           IF amount = 0 THEN exec
           ELSE Transfer(ThePayment.from, ThePayment.ip_creator, amount),
           "rent")

-----------------------------------------------------------------------------
(* The handler has returned Ok; the runtime looks at the wallets' rent.    *)
CheckRent ==
  LET tx == exec.tx
      wallets == IF IsNative THEN {tx.payer, tx.merchant, tx.treasury, tx.ip_creator}
                 ELSE {tx.payer}
  IN  Step("rent",
           Check(\A w \in wallets : ~LeavesDust(balance[w], exec.balance[w]),
                 "InsufficientFundsForRent"),
           exec, "commit")

Commit ==
  /\ exec # NONE /\ exec.pc = "commit"
  /\ LET tx == exec.tx
     IN  /\ payer_nonce' = [payer_nonce EXCEPT ![tx.payer] = exec.payer_nonce]
         /\ consumed' = [consumed EXCEPT ![tx.payer] =
                           IF exec.marked THEN @ \cup {tx.nonce} ELSE @]
         /\ payments' = [payments EXCEPT ![tx.payer] = Append(@, ThePayment)]
         /\ balance' = exec.balance
  /\ exec' = NONE
  /\ UNCHANGED <<now, config, profiles, count, token_list>>

(* The compute budget may be used up at any step before the last. *)
OutOfBudget ==
  /\ exec # NONE /\ exec.pc \notin {"failed", "commit"}
  /\ exec' = [exec EXCEPT !.pc = "failed", !.error = "ComputationalBudgetExceeded"]
  /\ UNCHANGED vars

(* Mutant: what the handler has written to the nonce accounts survives. *)
Rollback_KeepsNonce ==
  /\ exec # NONE /\ exec.pc = "failed"
  /\ payer_nonce' = [payer_nonce EXCEPT ![exec.tx.payer] = exec.payer_nonce]
  /\ exec' = NONE
  /\ UNCHANGED <<now, config, profiles, count, token_list, consumed, payments, balance>>

(* A failed transaction leaves nothing behind. *)
Rollback ==
  /\ exec # NONE /\ exec.pc = "failed"
  /\ exec' = NONE
  /\ UNCHANGED vars

(* The leader dies, or its block is abandoned, with the transaction in it. *)
Drop ==
  /\ exec # NONE
  /\ exec' = NONE
  /\ UNCHANGED vars

SettlementRuns ==
  \/ \E tx \in NativeTxs : Begin("native", tx)
  \/ \E tx \in StableTxs : Begin("stable", tx)
  \/ FindConfig \/ CreatePayerNonce \/ CreateConsumedNonce \/ CheckAccounts
  \/ CheckQuote \/ WriteNonce \/ SplitGross \/ PayMerchant \/ PayTreasury
  \/ PayIPCreator \/ CheckRent \/ Commit \/ OutOfBudget \/ Rollback \/ Drop

(* The other instructions need an account that a settlement has locked, so *)
(* they run before it or after it; the clock of a slot stands still while  *)
(* one of its transactions runs.                                           *)
TxNext ==
  \/ SettlementRuns
  \/ /\ UNCHANGED exec
     /\ \/ /\ exec = NONE
           /\ Tick /\ UNCHANGED <<config, profiles, count, token_list, settleVars>>
        \/ /\ MayWrite({"config", "profiles", "token_list"})
           /\ \E caller \in Callers, params \in InitParams : Initialize(caller, params)
        \/ /\ MayWrite({"config"})
           /\ RolesStep /\ UNCHANGED <<now, profiles, count, token_list, settleVars>>
        \/ /\ MayWrite({"profiles"}) /\ MayRead({"config"})
           /\ RoutesStep /\ UNCHANGED <<now, config, token_list, settleVars>>
        \/ /\ MayWrite({"token_list"}) /\ MayRead({"config"})
           /\ WhitelistStep /\ UNCHANGED <<now, config, profiles, count, settleVars>>

TxSpec == TxInit /\ [][TxNext]_txVars

-----------------------------------------------------------------------------
(* Executed step by step, with failures and crashes anywhere, a settlement *)
(* is what Splitter takes it for: one atomic step, or no step at all.  In  *)
(* particular a transfer that fails after the nonce was written does not   *)
(* burn the nonce.                                                         *)
SettlementIsAtomic == Spec

TheVerdict == IF IsNative THEN NativeVerdict(exec.tx) ELSE StableVerdict(exec.tx)

(* The outcome of a settlement, with its error code, is decided by the     *)
(* state in which it starts: the order of the steps and what earlier steps *)
(* have moved make no difference, and no transfer is tried that a check    *)
(* should have refused.                                                    *)
OutcomeIsDecidedAtTheStart ==
  exec # NONE =>
    /\ exec.pc = "commit" => TheVerdict = Ok
    /\ exec.pc = "failed" /\ exec.error # "ComputationalBudgetExceeded" =>
         exec.error = TheVerdict
=============================================================================
