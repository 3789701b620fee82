------------------------------ MODULE Splitter ------------------------------
(***************************************************************************)
(* The whole program: initialize, the administrative instructions, the two *)
(* settlement instructions and the clock, interleaved in any order.        *)
(***************************************************************************)
EXTENDS Settlement, Initialization

CONSTANTS
  DEPLOYER,    \* the key baked into the binary
  InitParams   \* arguments initialize is called with

ASSUME SplitterAssumption == DEPLOYER \in Pubkeys /\ InitParams \subseteq InitParamType

vars == <<now, config, profiles, count, token_list, settleVars>>

Init ==
  /\ now = 0
  /\ config = NoConfig
  /\ profiles = <<>> /\ count = 0
  /\ token_list = <<>>
  /\ SettleInit

Initialize(caller, params) ==
  /\ InitializeVerdict(DEPLOYER, caller, params) = Ok
  /\ CreateSingletons(params)
  /\ UNCHANGED <<now, settleVars>>

Next ==
  \/ Tick /\ UNCHANGED <<config, profiles, count, token_list, settleVars>>
  \/ \E caller \in Callers, params \in InitParams : Initialize(caller, params)
  \/ RolesStep /\ UNCHANGED <<now, profiles, count, token_list, settleVars>>
  \/ RoutesStep /\ UNCHANGED <<now, config, token_list, settleVars>>
  \/ WhitelistStep /\ UNCHANGED <<now, config, profiles, count, settleVars>>
  \/ SettleStep /\ UNCHANGED <<now, config, profiles, count, token_list>>

Spec == Init /\ [][Next]_vars

-----------------------------------------------------------------------------
(* Type correctness of every account the program keeps. *)
TypeOK ==
  /\ now \in 0 .. MAX_TIME
  /\ config \in ConfigType
  /\ profiles \in Seq(ProfileType)
  /\ count \in Nat
  /\ token_list \in Seq(Pubkeys)
  /\ payer_nonce \in [Payers -> [payer : Pubkeys, nonce : 0 .. MAX_NONCE]]
  /\ consumed \in [Payers -> SUBSET (0 .. MAX_NONCE)]
  /\ payments \in [Payers -> Seq(PaymentType)]
  /\ balance \in [Accounts -> Nat]

(* The nonce counter, the consumed markers and the events of a payer tell  *)
(* the same story: its payments carry the nonces 0, 1, 2, ... without gap  *)
(* or repetition, exactly these are marked, and the counter is the next.   *)
(* Both settlement instructions share the one sequence.                    *)
NonceLedger ==
  \A p \in Payers :
    /\ payer_nonce[p].nonce = Len(payments[p])
    /\ payer_nonce[p].payer = (IF payments[p] = <<>> THEN DEFAULT ELSE p)
    /\ consumed[p] = 0 .. Len(payments[p]) - 1
    /\ \A i \in DOMAIN payments[p] :
         /\ payments[p][i].quote.payer = p
         /\ payments[p][i].quote.nonce = i - 1

Settled(quote) ==
  \E p \in Payers : \E i \in DOMAIN payments[p] : payments[p][i].quote = quote

(* A quote that has been settled cannot be settled again, through neither  *)
(* instruction, whatever the admin changes in between.                     *)
SettledQuotesAreDead ==
  /\ \A tx \in NativeTxs : Settled(tx.quote) => NativeVerdict(tx) # Ok
  /\ \A tx \in StableTxs : Settled(tx.quote) => StableVerdict(tx) # Ok

(* For a quote of its own, a payer meets exactly three nonce verdicts: the *)
(* next nonce is accepted until the counter is exhausted, any other is     *)
(* InvalidNonce.  A stray marker can never lock the payer out, and the     *)
(* errors for a marked nonce and a foreign counter are unreachable.        *)
NextNonceIsTheKey ==
  \A tx \in NativeTxs \cup StableTxs :
    tx.quote.payer = tx.payer =>
      NonceVerdict(tx.quote, tx.payer) =
        IF tx.quote.nonce # Len(payments[tx.payer]) THEN "InvalidNonce"
        ELSE IF tx.quote.nonce = MAX_NONCE THEN "NonceOverflow" ELSE Ok

AllPayments == UNION {{<<p, i>> : i \in DOMAIN payments[p]} : p \in Payers}

(* What account a gains by each Payment event, and by the rent that was    *)
(* paid with it.                                                           *)
Gains(a) ==
  [pi \in AllPayments |->
     Received(payments[pi[1]][pi[2]], a) - Spent(payments[pi[1]][pi[2]], a)]

RentGains(a) ==
  [pi \in AllPayments |->
     RentReceived(payments[pi[1]][pi[2]], pi[1], a)
       - RentSpent(payments[pi[1]][pi[2]], pi[1], a)]

(* What account a must hold according to the Payment events and the rent   *)
(* of the nonce accounts.                                                  *)
Booked(a) == FUNDS[a] + SumFunction(Gains(a)) + SumFunction(RentGains(a))

(* The events account for every balance: an indexer that adds up the       *)
(* Payment events and the rent of the nonce accounts finds what each       *)
(* wallet and token account holds, so nothing is created, lost or moved    *)
(* without an event.                                                       *)
EventsExplainBalances == \A a \in Accounts : balance[a] = Booked(a)

(* Whoever sent lamports to its address beforehand, every nonce account in *)
(* use holds its own rent, and no settlement takes it out again: the       *)
(* runtime never removes a marker, so no consumed nonce comes back.        *)
NonceAccountsKeepTheirRent ==
  \A p \in Payers :
    /\ payer_nonce[p].payer # DEFAULT => balance[NONCE_PDA[p]] >= COUNTER_RENT
    /\ \A n \in consumed[p] : balance[MARKER_PDA[p][n]] >= MARKER_RENT

(* Holdings as the promise sees them: what a payer has put into its nonce  *)
(* accounts still counts as the payer's.                                   *)
Held(a) == balance[a] - SumFunction(RentGains(a))

PaidQuotes(p) == [i \in DOMAIN payments[p] |-> payments[p][i].quote]

Promise ==
  INSTANCE PaymentPromise WITH
    paid <- [p \in Payers |-> PaidQuotes(p)],
    held <- [a \in Accounts |-> Held(a)]

(* The whole program, administration, clock, failures and all, implements  *)
(* the promise: every step is one whole payment of a quote never paid      *)
(* before, or changes nothing a payer, merchant or treasury can see.       *)
KeepsThePromise == Promise!Spec

(* No payment ever costs the merchant more than the two fee caps together, *)
(* whatever routes were configured when, and its legs are the whole gross. *)
FeesWithinCaps ==
  \A pi \in AllPayments :
    LET payment == payments[pi[1]][pi[2]]
        gross == payment.quote.gross_amount
        legs == payment.legs
    IN  /\ legs.merchant + legs.treasury + legs.ip_creator = gross
        /\ legs.treasury * BPS_DENOMINATOR <= gross * MAX_TREASURY_BPS
        /\ legs.ip_creator * BPS_DENOMINATOR <= gross * MAX_IP_CREATOR_BPS

(* Account a belongs to owner and holds the asset token: a wallet for      *)
(* lamports (DEFAULT), a token account of that mint otherwise.             *)
Holds(a, owner, token) ==
  IF token = DEFAULT THEN a = owner
  ELSE a \in DOMAIN TOKEN /\ TOKEN[a].mint = token /\ TOKEN[a].owner = owner

(* Entry i is the one the route follows, and it is enabled.                *)
InForce(i, route_id) ==
  /\ profiles[i].route_id = route_id /\ profiles[i].enabled
  /\ \A j \in 1 .. i - 1 : profiles[j].route_id # route_id

(* A payment is made only while the program runs, on an enabled route,     *)
(* from a quote signed by the key that is signer at that moment; the fee   *)
(* goes to the treasury that is effective at that moment, the merchant leg *)
(* and the royalty to whom the quote names, all in the quote's asset.      *)
(* What was true when the quote was signed does not count.                 *)
PaymentsFollowTheConfigInForce ==
  [][\A p \in Payers :
       payments'[p] # payments[p] =>
         LET payment == payments'[p][Len(payments'[p])]
             quote == payment.quote
         IN  /\ payments'[p] = Append(payments[p], payment)
             /\ ~config.is_paused
             /\ \E tx \in NativeTxs \cup StableTxs :
                  tx.quote = quote /\ tx.recovered = config.signer
             /\ \E i \in DOMAIN profiles :
                  /\ InForce(i, quote.route_id)
                  /\ Holds(payment.treasury,
                           IF profiles[i].route_treasury = DEFAULT THEN config.treasury
                           ELSE profiles[i].route_treasury, quote.token)
             /\ Holds(payment.from, p, quote.token)
             /\ Holds(payment.merchant, quote.merchant, quote.token)
             /\ payment.legs.ip_creator > 0 =>
                  Holds(payment.ip_creator, quote.ip_creator, quote.token)
             /\ quote.token # DEFAULT => IsAllowed(quote.token)]_vars

(* A quote settles only in the last MAX_QUOTE_LIFETIME_SECONDS before it   *)
(* expires: before that and after that it is dead paper.                   *)
SettlementWindow ==
  [][\A p \in Payers :
       payments'[p] # payments[p] =>
         LET quote == payments'[p][Len(payments'[p])].quote
         IN  quote.valid_until - now \in 0 .. MAX_QUOTE_LIFETIME_SECONDS]_vars

(* Whatever settlement accepts, quote_total has quoted in the same state:  *)
(* a preview is never refused for a payment that would go through.         *)
PreviewCoversSettlement ==
  \A tx \in NativeTxs :
    NativeVerdict(tx) = Ok =>
      QuoteTotalVerdict(tx.quote.gross_amount, tx.quote.route_id, tx.quote.ip_creator) = Ok

-----------------------------------------------------------------------------
(* A profile that repeats the id of an earlier one, which initialize lets  *)
(* through, is never used and never written: no later instruction can tell *)
(* it is there, so a disabled route cannot come back through its shadow.   *)
ShadowedProfilesAreInert ==
  [][\A i \in DOMAIN profiles :
       (\E j \in 1 .. i - 1 : profiles[j].route_id = profiles[i].route_id) =>
         profiles'[i] = profiles[i]]_vars

(* A route goes on or off by a step that does nothing else: configure_route *)
(* never brings a disabled route back.                                     *)
OnlyTogglesFlipEnabled ==
  [][\A i \in DOMAIN profiles :
       profiles'[i].enabled # profiles[i].enabled =>
         profiles' = [profiles EXCEPT ![i].enabled = ~@]]_vars

(* Profiles are never removed or renamed, and one whose terms change is    *)
(* stamped with the time of the change.                                    *)
ProfilesKeepTheirHistory ==
  [][config.exists =>
       \A i \in DOMAIN profiles :
         /\ i \in DOMAIN profiles'
         /\ profiles'[i].route_id = profiles[i].route_id
         /\ \/ profiles'[i].configured_at = now
            \/ profiles'[i] = [profiles[i] EXCEPT !.enabled = profiles'[i].enabled]]_vars

(* Once initialized, no role is the zero key and every route has somebody  *)
(* to pay the fee to: no instruction can throw away the admin, and no      *)
(* signature that fails to recover can pass for the signer's.              *)
NoRoleIsVacant ==
  config.exists =>
    /\ DEFAULT \notin {config.admin, config.pauser, config.treasury}
    /\ config.signer # ZERO_KEY
    /\ \A i \in DOMAIN profiles : EffectiveTreasury(profiles[i].route_id) # DEFAULT
    /\ \A tx \in NativeTxs : tx.recovered = ZERO_KEY => NativeVerdict(tx) # Ok

-----------------------------------------------------------------------------
(* What the repository's documents, comments and tables say of the program *)
(* and the code does not do; a run of its own refutes it.                  *)

(* settle_native.rs: protocol PDAs are rejected as recipients, because the *)
(* program has no withdrawal path for config, token_list and profiles.     *)
NothingLockedInProtocolPdas ==
  \A pda \in {CONFIG_PDA, PROFILES_PDA, TOKEN_LIST_PDA} : balance[pda] = FUNDS[pda]
=============================================================================
