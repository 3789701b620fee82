# A TLA+ verification of the Splitter program

Splitter (`src/programs/splitter`) is a Solana program that settles payments. A
backend signs a *quote* for a payer; the payer submits it in a transaction; the
program verifies it, consumes the payer's nonce, splits the gross amount between
merchant, treasury and IP creator, and transfers the three legs. Nothing stays
with the program. Around it stand the scripts that build, deploy, initialize,
configure and verify it, and the signer that produces quotes.

This directory holds a model of the program in TLA+, the TLC configurations that
check it on small instances, and TLAPS proofs of its main properties for every
value of the parameters. `PROJECT.json` maps every definition to the lines it
models and lists runs, mutants, hazards, findings and theorems.

## 1. Inventory

### The on-chain program

| part | state | operations | source |
|---|---|---|---|
| Roles and circuit breaker | `Config`: admin, signer, pauser, treasury, is_paused | pause, unpause, set_treasury, grant/rotate signer, grant/rotate pauser, rotate admin | `instructions/*.rs`, `state.rs` |
| Route registry | `ProfilesIndex`: vector of profiles and `count` | configure_route, disable_route, enable_route, quote_total (read only) | `configure_route.rs` … |
| Stablecoin whitelist | `TokenList`: vector of mints | set_whitelisted_tokens | `set_whitelisted_tokens.rs` |
| Initialization | creates the three singletons | initialize, once, by the deployer | `initialize.rs` |
| Fee arithmetic | none | split_gross, fee caps | `utils.rs`, `constants.rs` |
| Quote verification | `PayerNonce`, `ConsumedNonce` per payer and nonce | verify_quote_core, recover_signer, digest | `utils.rs` |
| Settlement | lamports, token balances, `Payment` events | settle_native, settle_stable | `settle_native.rs`, `settle_stable.rs` |
| Deployer key | a constant in the binary | build.rs | `build.rs`, `constants.rs` |

How they interact: all instructions share the `Config` account. Settlement reads
`Config` (pause flag, signer, treasury), `ProfilesIndex` (route, fees, route
treasury) and, for tokens, `TokenList`; it writes only the payer's nonce
accounts, the balances and the event log. The administrative instructions write
one singleton each. There is no message passing; the components meet in shared
accounts, and the order in which the cluster executes transactions is free.

### Off the chain

| part | state | operations | source |
|---|---|---|---|
| Signer | the backend's secp256k1 key | encode, digest, sign a quote, check a signature; rotate the signer role | `scripts/signer/*.ts` |
| Mainnet pipeline | the binary on disk, the program on the cluster, the singletons | build, deploy or upgrade, initialize, configure, verify | `scripts/mainnet/*` |
| Devnet and localnet scripts | the same on test clusters, and `.env.local`, which the deployment writes | deploy, initialize, configure, check | `scripts/devnet/*`, `scripts/localnet/*` |
| Cost estimates, simulation | none | print estimates | `scripts/*/calculate-*.sh`, `simulate-*.sh` |
| Tests | none | | `lib.rs` tests, `programs/splitter/tests`, `signer-parity.test.ts` |

### What is hard here

* **Interleaving.** A transaction is built against one state and executed in
  another: pause, route change, delisting, treasury change, signer rotation and
  other payments of the same payer all fit between.
* **Replays.** A client resends what it believes lost. The nonce counter, the
  consumed marker and the event must agree through both instructions.
* **Time.** A quote has a window with two boundary seconds.
* **Limits.** The counter at `u64::MAX`, the vectors at 32 and 16, `count` beside
  the route vector, a fee that rounds to zero, `as u64` on a u128 quotient.
* **Vectors edited in place.** Duplicates that `initialize` lets in, shadowed
  profiles, an update list whose success depends on the order of its items.
* **Lists written by hand.** The refused recipients, the role checks.
* **Failure half way.** A settlement writes the nonce before it moves money, and
  three transfers can fail one after the other; only the runtime's rollback stands
  between that and a burnt nonce.
* **One encoding, two languages.** What the backend signs in TypeScript must be, byte
  for byte, what the program hashes in Rust, and both must call the same signatures
  canonical.
* **Multi-step operation.** The deployment pipeline can be interrupted and
  resumed with steps left out. Each script decides for itself, from its own
  layering of shell and files, which program on which cluster it talks to.

### What makes each part correct

* Roles: no role ever vacant; only the named roles act.
* Routes: table within bounds, fees within caps, first match wins everywhere, a
  disabled route comes back only through `enable_route`, changes are dated.
* Whitelist: fits; an update has exactly the effect it names.
* Arithmetic: exact floors, legs add up to the gross, refusals exactly as stated.
* Settlement: a quote settles at most once, in its window, under the configuration
  in force at that moment; the events explain every balance; every nonce account
  keeps its rent; the next nonce is always accepted, and no other. Step by step, with failures, it is still one
  atomic transaction.
* Codec and signatures: the two encoders agree and are injective; the two verifiers
  agree; what is signed verifies; of two twin signatures one is accepted.
* Scripts: a report stays true, nothing is initialized twice, no script hangs.

## 2. The modules

| module | models |
|---|---|
| `Digits`, `Calls` | bytes of a number; one call of a pure function and its result |
| `Verdict` | `require!` and `?`: an ordered chain of checks that returns the first error |
| `Runtime` | keys, callers, the clock sysvar, atomicity of a transaction |
| `Roles` | the `Config` account and the instructions that write it |
| `SplitMath` | `split_gross` and the fee caps |
| `Routes` | `ProfilesIndex` and its instructions, `quote_total` |
| `Whitelist` | `TokenList` and `set_whitelisted_tokens` |
| `Settlement` | `verify_quote_core`, `settle_native`, `settle_stable`, balances, events |
| `Initialization` | the checks of `initialize` and the singletons it creates |
| `Splitter` | the whole program: all of the above interleaved with the clock, and its properties |
| `PaymentPromise` | the abstract specification: what the program promises to those who see only payments and holdings |
| `SettleTx` | a settlement as the runtime executes it, instruction by instruction, with locks, failure and rollback |
| `QuoteCodec` | the byte encoding of a quote in Rust and in TypeScript, the message that is hashed |
| `QuoteSignature` | recovery, the low-s rule, signing and the two verifiers, over a small group |
| `DeployPipeline` | the build and the mainnet scripts, run from terminals that share a working tree and a cluster |
| `OperatorScripts` | the devnet and localnet scripts and the signer rotation, on three clusters |
| `MCSplitMath`, `MCSplitter`, `MCSettleTx`, `MCQuoteCodec`, `MCDeploy`, `MCOperatorScripts` | instances for TLC |
| `BasicLemmas` | for all proofs: verdicts, induction, recursive functions, digits, sums, lists of steps |
| `SplitMathProofs` | `split_gross`, operator by operator |
| `CallProofs` | what every call of `split_gross`, of the two encoders, the signer and the two verifiers returns |
| `RegistryProofs` | routes, token list and `initialize`, operator by operator |
| `SplitterProofs` | the program's invariants and action properties, and that it keeps `PaymentPromise` |
| `SettleTxProofs` | that a settlement executed step by step is one step of the program or none |
| `DeployProofs`, `OperatorScriptsProofs` | the mainnet pipeline; the devnet, localnet and rotation scripts |

`Routes` extends `Roles` and `SplitMath`; `Whitelist` extends `Roles`;
`Initialization` and `Settlement` extend `Routes` and `Whitelist`; `Splitter`
composes `Initialization` and `Settlement`. `DeployPipeline` extends
`Initialization`, so that the scripts' transactions run the very same handlers;
it has no payments. `SettleTx` extends `Splitter` by one variable, the settlement
under execution. `QuoteCodec`, `QuoteSignature` and `OperatorScripts` stand alone:
the first two are pure functions that `MCQuoteCodec` calls one at a time (the call and
its result are the variables of `Calls`), and the
scripts see so little of the program that the handlers are not needed (below).

**State.** `config`, `profiles` with `count`, and `token_list` are the three
singletons, `config.exists` saying whether `initialize` has run. `payer_nonce`
and `consumed` are the per-payer PDAs, `balance` the lamports of wallets and the
tokens of token accounts, `payments` the emitted `Payment` events, `now` the
clock sysvar.

In `DeployPipeline`, `binary` is the deployer key inside `target/deploy/splitter.so`,
`program` the account on the cluster (deployer of its binary, upgrade authority),
`job[t]` what runs in terminal `t` (its environment, the steps left, the
transaction it waits for, its last report) and `late` the transactions whose
script was interrupted while they were under way.

**Scripts.** A script is the list of its steps; the flags decide which steps are
on the list, the environment decides what they do. Each step is an action: it
advances the job, or stops it as `set -e` and an uncaught throw do. The shell
script layers `.env.local` over `.env.production` over the shell (`LedgerEnv`),
the node scripts only `.env.production` over the shell (`NodeEnv`); the layering
is modelled because the keys in a transaction depend on it. A transaction lands,
is refused or expires; an interrupted script (`Abort`) leaves it under way, and it
may land later, after other scripts have run. A deployment is such a transaction too:
it carries the binary as it was read, is made for a program that was there or was
not, and may land after another has replaced it. Builds for tests, the administrator
and a change of the upgrade authority interleave with all of this.

**Refinements.** There are two. `KeepsThePromise == Promise!Spec` (in `Splitter`)
maps the whole program to `PaymentPromise`: `paid` is the quotes among a payer's
events, `held` is `balance` without the rent that moved from payers into nonce
accounts, as the promise is about payments only. Every step of the program is a payment or
changes neither. `SettlementIsAtomic == Spec` (in `SettleTx`) hides `exec`: every
step before `Commit` is a stutter, `Commit` is the atomic settlement of `Splitter`,
and `Rollback` and `Drop` leave nothing behind.

**A transaction under execution.** `exec` holds the instruction, its place
(`pc`), and the working copy of what it has written: the payer's counter, whether
the marker is set, the balances. Each step evaluates the checks of the code at that
place and either goes on with a changed copy or ends in `failed` with the error.
`MayRead` and `MayWrite` are the runtime's account locks, taken from the
`derive(Accounts)` structs. They let nothing else run: both instructions name
`profiles` as `mut`, so no two settlements overlap and one `exec` is all there can
be; `settle_native` locks `config` for writing too, `settle_stable` locks `config`
and `token_list` for reading, and every other instruction writes one of the three
or reads one that is locked for writing. So what this module is about is the order
of the handler's steps, failures between them and the rollback.

**Codec.** A digest is the message it is the SHA-256 of. A message is a sequence of
bytes; the widths of bytes, keys and integers are constants. The group of a
signature is a toy group of prime order N in which the private key, its point and
its public key are the same number; HALF_N, the bytewise comparison and the trials
for the recovery id are as in the code.

**Operators' scripts.** `programs` maps a cluster and a program id to what is there:
whether it exists, the id and deployer baked into its binary, and after
`initialize` the admin, the signer and the routes. Those are the parts by which
these scripts can tell one state from another; of the handlers only who may call
them and when is kept, because `Roles`, `Routes` and `Initialization` hold the rest.
`source` is the pair of ids in `lib.rs` and in the keypair file, `binary` what is in
`target/deploy`, `env_local` the file the deployment writes and the other scripts
read, `job` and `late` are as in `DeployPipeline`.

**Handlers.** Each handler is a *verdict* operator, the chain of its checks in the
order in which the code evaluates them, and an action enabled when the verdict is
`Ok`. A transaction that fails changes nothing on chain and is no step; its error
code stays visible as the value of the verdict, which is what `OutcomeIsDecidedAtTheStart` and
`NextNonceIsTheKey` use. In `Splitter` a settlement is one step because the runtime
commits it atomically; `SettleTx` has the steps behind that one.

**Inputs.** The transactions, updates and parameters that reach the program are
sets given as CONSTANTS of a declared type; the theorems hold for all of them.

**Abstractions.** A signature is the key it recovers to for the digest of the
quote it comes with (`ZERO_KEY` for none). `payment_id`, a hash over the whole
quote, is the quote. `order` stands for `order_id_hash`. Mint accounts that
deserialize as initialized mints are the set `Mints`; an update names them in
`remaining`, whose length and keys are checked. Transaction fees are left out.

**Rent.** Every payer has a `payer_nonce` account and, for every nonce, a
`consumed_nonce` account (`NONCE_PDA`, `MARKER_PDA`), with a rent each. Before the
handler runs, `init_if_needed` takes from the payer what an account still lacks
(`Shortfall`): all of its rent, or less if somebody has sent lamports to its address.
That may happen by a payment, too: the handlers refuse only the nonce accounts of the
transaction itself as recipients, and the future marker of another payer or nonce may
be a merchant (`ToMarkerTxs`). `LeavesDust` is the runtime's rule about wallets: none
may end between zero and the rent-exempt minimum, unless it was there before and does
not grow.

**Tokens.** A transfer fails on an account without the funds, on one that is not
writable and on one that the mint's freeze authority has frozen when the transaction
executes. The payer signs as the owner of its token account; a payer that is merely
its delegate is refused by the program (`TokenAccount`).

## 3. The runs

| run | question | bounds |
|---|---|---|
| `split_math` | does `split_gross` compute what it should? | 64-valued word, denominator 10 with rates up to 210 %: the cut `as u64` really loses bits beyond the caps |
| `settle` | can any interleaving of two payers, the admin, the pauser and the clock break settlement, or the promise? | 2 payers, nonces 0..2 (so the last nonce is reached), clock 0..2 with a one-second lifetime (early, on time, late), one route and mint, honest and misaddressed transactions, lamports for two payments but not for three; one payer's counter and first marker hold more and less than their rent beforehand, the other's second marker may be paid as a merchant; one wallet already below its minimum, one token account frozen at times |
| `settle_tx` | executed instruction by instruction, is a settlement still one atomic step, and is its outcome decided by the state it starts in? | as `settle`, with a clock 0..1 and transactions chosen to fail at every step: no rent, dust left behind, wrong signer, short of the royalty, a read-only account, each of three token accounts frozen, a missing IP creator; a counter and a marker that hold all and part of their rent |
| `governance` | can a role become vacant? does every whitelist update fit and do what it says? does the route table keep its rules under every order of route instructions? | three callers, two keys for each role and zero keys offered to every instruction; capacity 2, three mints, all one- and two-item updates; a table filled with a repeated id, a second id to add, updates within and beyond the caps |
| `codec` | do the two encoders, the signer and the two verifiers agree? can one signature fit two quotes? | bytes of two values, keys and integers of two bytes, a group of order 11; every call: all arrangements of two keys in the six key fields, every integer from one below to one above its range, keys and a program id too short or too long, every key, digest, nonce and signature |
| `deploy` | can a run, an interruption, an upgrade or a late transaction undo what the admin decided, or falsify what a script reported? | one terminal, any number of runs of every script, three shells (bare, right, mismatched deployer), a wallet in a file and one on a Ledger, four sets of flags, one abandoned transaction (a deployment, too) beside the one the terminal waits for |
| `deploy_race` | the same, when two operators run scripts at once; does every script end or get to a prompt? | two terminals and one abandoned transaction, one shell, one wallet, unattended runs, fairness |
| `scripts` | do the devnet, localnet and rotation scripts report only what is true and never initialize twice? does each end or get to a prompt? | one terminal and one abandoned transaction, which together already run two scripts against each other; two shells (with a deployer key, with a program id and URL), a keypair file that is or is not the one `lib.rs` declares, a stale or no binary, `.env.local` absent or without the line; deployments to the script's own cluster, `localnet-deploy.sh` also to devnet with `--url`; one key for deployer and admin; fairness |

The bounds are enough because each of the program's limits (nonce overflow, full
vectors, funds for two payments but not three, both ends of the quote's window)
lies inside them. The word of 64 values and the small caps exercise the same
boundaries as 2^64 and 10 000 do; the proofs cover the remaining values. Nobody
is bounded by fewer calls: administrators may act any number of times in any
order.

`CHECK_DEADLOCK FALSE` appears where the system may really stop: the clock has
reached its bound and every remaining instruction is refused, or the one call of
`split_math` and `codec` has been answered.

The programs, quotes and recovery bytes `codec` tries are constants of `MCQuoteCodec`, so
that the theorems can say the same of all of them. The small bytes are enough because the encoders treat all values alike:
what can go wrong is an exchanged field, a wrong width, offset, order or sign, and
the keys are no palindromes and the integers run over both ends of their ranges. A
group of order 11 has twins on both sides of HALF_N, s equal to HALF_N, and
signatures that recover to no key.

The pipeline's runs use the program's real fee caps, as the fees are written into
the scripts. Two slots for routes hold both routes the scripts configure, one of
which `initialize` already stored, so a route is both added and updated.

**Fairness.** The program runs only when somebody sends a transaction, so nothing
on chain is promised to happen, and the properties of `Splitter` are all safety
properties. `DeployPipeline` and `OperatorScripts` have a liveness property, under
weak fairness of the steps a script takes by itself (a running process is
scheduled) and of what it waits for at the cluster (a transaction that neither
lands nor fails expires with its blockhash, after about a minute). No fairness is
assumed of people: nobody has to start a script, answer a prompt or press the
Ledger's button, which is why `EveryRunEnds` promises only an end or a point where
somebody is asked.

### Runs that end in a violation

| run | what the text says | what the code does |
|---|---|---|
| `repeated_mint` | removing a mint stops it from being settled | a mint that `initialize` stored twice survives one removal |
| `locked_funds` | protocol PDAs are refused as recipients | the token list is not among the refused ones |
| `placeholder` | the placeholder deployer must not ship without the `SPLITTER_DEPLOYER` override; editing `constants.rs` by hand still works | the pre-flight check accepts edited constants, while `build.rs` bakes its own fallback whatever `constants.rs` holds |
| `rotation` | the script rotates the signer "of the canonical splitter" (`rotate-signer-role.ts:3`) | it addresses the id of devnet on every cluster (line 77). `deployments/splitter_v14` records a deployment under that id on mainnet; if it was initialized with the same admin, the script reports YES and the canonical splitter keeps the old signer, otherwise the transaction is refused |

More disagreements were seen while modelling and need no run to be believed:

* BUSINESS_LOGIC.md (line 111) and ARCHITECTURE.md (line 107) reserve `unpause` to
  the admin; `unpause.rs:19` lets the pauser do it too.
* BACKEND_INTEGRATION.md (line 337) says that a replay fails with
  `NonceAlreadyConsumed`; it fails with `InvalidNonce`, because  `utils.rs:184`
  looks at the counter first. `NextNonceIsTheKey` shows that
  `NonceAlreadyConsumed` cannot be reached at all. The recovery table (line 906)
  answers it with "Get fresh nonce", which pays an order a second time if the
  first  payment had landed; BUSINESS_LOGIC.md (line 187) has it right: same
  quote, same  nonce.
* `configure-mainnet-route.ts:34` announces an override by `.env.local`, and
  MAINNET_LEDGER_DEPLOY.md (line 158) promises it; the node scripts for mainnet never
  open that file.
* The comment SOL-HIGH-005 (`settle_stable.rs:72`) fears that a failed transfer burns
  the nonce; the rollback prevents that (`SettlementIsAtomic`). The check is still
  useful, as it fails early with a clear error.
* The comment at `utils.rs:123` gives HALF_N as (N + 1) / 2; the constant is
  (N - 1) / 2, and the code is right (`OneOfTwinsIsAccepted` fails for the value in
  the comment).
* BACKEND_INTEGRATION.md (line 189) counts 19 bytes in the domain tag; there are 20.
* `devnet-deploy.sh` is to "persist the deployed program ID for downstream scripts"
  (line 158), and its log says "Wrote" (line 166). An existing `.env.local` without the
  line stays as it is: `sed` (line 161) succeeds without a match, so the `echo` behind
  `||` never runs (`WriteId`).
* `check-devnet-splitter.ts` reads the program built into the script, whatever id the
  deployment wrote to `.env.local`.
* `localnet-deploy.sh` deploys under a new throwaway id, which the binary does not
  declare: no instruction of the program runs there.
* `rotate-signer-role.ts`: the usage text reads `hot-signer.pub`, which `--generate`
  does not write; and `--generate` looks whether the key file exists before it
  generates the key and writes it, so "never overwrites" (line 8) does not hold when
  two run at once.
* BACKEND_INTEGRATION.md (line 903) says that `SignatureExpired` means
  `valid_until` lies in the past and that extending the expiry helps;
  `verify_quote_core` returns it also for a quote dated too far ahead
  (`MAX_QUOTE_LIFETIME_SECONDS`).
* ADR 0001 (line 98) says that admin, pauser and signer must be pairwise distinct and
  that this is enforced; nothing compares them. Rule R-11 of BUSINESS_LOGIC.md,
  written later, allows it.
* `scripts/mainnet/README.md` says that `ledger-deploy.sh` initializes by itself; it
  calls `anchor run initialize:mainnet` (line 279), which `Anchor.toml` does not
  define, and then asks the operator to initialize by hand (`RunAnchor`).

## 4. The proofs

TLAPS proves the following for every value of the constants that satisfies the
assumptions stated beside their declarations. All are facts about the deployment: that
nobody holds the zero key, that PDAs are accounts and nobody's wallet or token account
(`NONCE_PDA` and `MARKER_PDA` of `SettlementAssumption`: a PDA lies off the curve), that a
counter is not also a marker of its payer (their seeds differ), that inputs are of
their declared types, that environment files assign ids and clusters. Of the group of a
signature, `SignatureAssumption` says that its order is odd, that every scalar has an
inverse modulo it, as holds because it is prime, and that it fits into the bytes of s.

* `CallProofs`: the three properties of `split_gross`, for every word size, denominator,
  cap and rate; and the five of `MCQuoteCodec`, `EncodersAgree`,
  `MessageDeterminesQuote`, `VerifiersAgree`, `OneOfTwinsIsAccepted` and
  `SignedQuotesVerify`, for every base, every width of keys and integers, every tag,
  quote, program id, order of the group, key, digest and signature.
* `SplitterProofs`: type correctness, `RouteTable`, `WhitelistFits`, `NonceLedger`,
  `FeesWithinCaps`, `SettledQuotesAreDead`, `NextNonceIsTheKey`, `NoRoleIsVacant`,
  `EventsExplainBalances`, `NonceAccountsKeepTheirRent`, `PreviewCoversSettlement`,
  `UpdatesTakeEffect`; the action properties
  `SettlementWindow`, `PaymentsFollowTheConfigInForce`, `ShadowedProfilesAreInert`,
  `OnlyTogglesFlipEnabled`, `ProfilesKeepTheirHistory`; and the refinement
  `KeepsThePromise`.
* `SettleTxProofs`: the refinement `SettlementIsAtomic` and `OutcomeIsDecidedAtTheStart`.
* `DeployProofs`: `TypeOK`, `ReportsHold` and `PipelineKeepsDecisions`.
* `OperatorScriptsProofs`: `TypeOK`, `ReportsHold` and `NothingIsInitializedTwice`.

TLC checked each inductive invariant on the instance of the component before it was
proved.

**The program.** The inductive invariant `IInv` of `SplitterProofs` is

* `TypeOK` — no other conjunct makes sense without it; its part about balances
  needs the balance checks of the handlers;
* `RouteTable` — fees within the caps are what makes the legs of a payment positive
  and smaller than the gross;
* `WhitelistFits` — not needed by the others, proved along;
* `NonceLedger` — `SettledQuotesAreDead` alone is not inductive: that an old quote is
  refused follows from its nonce being below the counter, which holds because the
  events of a payer carry 0, 1, 2, … and the counter is their number;
* `AllCapped` — every past payment within the caps that were checked when its route
  was stored;
* `RolesFilled` and `EmptyBeforeInitialize` — no key is vacant, and before
  `initialize` there is nothing to settle with.

`RegistryProofs` and the first part of `SplitterProofs` hold one lemma per operator:
what a successful verdict guarantees (`BothSucceed` opens a chain of checks), that
`RouteIndex` is the first entry with an id, that an edit changes the length by at
most one, what `Complete` changes. `LeastNumber`, a least-element principle over
sets derived from the well-foundedness of `<` on the naturals, carries the
inductions over the turns of the whitelist update.

`UpdatesTakeEffect` needs one more fact, that no mint is on the list twice. It is
proved under the hypothesis `StablecoinsGivenOnce`, because without it the property is
false: `initialize` accepts a list that repeats a mint, and the run `repeated_mint`
shows the removal that leaves the second entry in place.

**The promise.** A settlement maps to `Promise!Pay`. The mapping counts the rent a payer
has put into its nonce accounts as the payer's still (`Held`), so the rent cancels
out and the legs alone remain: three different receivers, each within its cap,
adding up to the gross. That the quote was not paid before is `SettledQuotesAreDead`
again. Every other step leaves the mapped state alone.

**Atomicity.** The invariant `ExecInv` of `SettleTxProofs` says of a settlement under
execution, for each place it may have reached, which checks it has passed, what the
working copy of nonce, markers and balances holds, and that the verdict as a whole
agrees with what is still ahead; or that it has failed, with the error the verdict
names. The program's other transactions preserve it because the locks keep them
waiting (`OthersWait`): what the settlement has read stays as it was. `Commit` is then the program's settlement, and
every other step of the execution a stutter.

**The scripts.** A report sums up what a script has seen over many steps, so the
invariants `PipelineInv` and `ScriptsInv` are about scripts as lists of steps:
`Awaits(s, x, S)` says that before step `x` one of the steps in `S` is still to be
taken. A job either still awaits the step that produces what it relies on (a binary
before `deploy`, the program before its id is written, the first route before the
second), or the thing is there; and what is there stays, as programs, admins and
routes only ever accrue (`Grows`). So a report that was true stays true. In
`OperatorScripts` a job is followed at its own address, which `devnet-deploy.sh` only
learns after the build. The types of a transaction carry the rest: a rotation that
lands, however late, carries a key somebody asked for.

**Balances and events.** `EventsExplainBalances` sums over all payments of all payers
with the fold `SumFunction` of the community modules. Its inductive invariant is
`EventsAddUp`: there are finitely many payments, and `EventsExplainBalances` holds. A
settlement adds exactly one payment to that set (`EventIsAdded`), and changes every
balance, those of the nonce accounts included, by what this payment and its rent say;
no other step touches either. `SumFunctionGrows` of `BasicLemmas` then makes the two
sums follow (`SumsGrow`). `NonceAccountsKeepTheirRent` is inductive by itself: a
settlement brings its two accounts to their rent, and takes from no nonce account, as
none is a payer or a token account.

**Encoders and decoding.** `Answered` is the invariant of `MCQuoteCodec`: the result is
what the operators return for the call. `FieldIsWritten` and `EncodingLayout` follow the
cursor over the buffer: a field, once written, stays where it is, as each is as wide as
the cursor moves on. So every field of the message is found at its offset
(`MessageDeterminesQuote`), and the bytes of an integer add up to the integer again,
modulo the word for negative ones (`IntegersComeBack`). That the encoders agree needs only the verdict of
`encodeQuote`, field by field: what it lets through is a `Quote` of the program.

**Signatures.** On chain `is_high_s` compares bytes from the front, off chain numbers are
compared; `BytewiseIsNumeric` shows by induction over the bytes that both are the same
order (`VerifiersAgree`). Of s and N - s exactly one exceeds HALF_N, as N is odd.
The mirror image recovers to the same key, because the point with the other parity is
the opposite one. What `signDigest` returns recovers to the signer's key because
r * d = s * k - digest modulo N, where the inverses cancel out.

**Induction.** The provers cannot use the library's induction theorems, which take an
operator as a parameter. `SetInduction` is induction over a *set* of numbers, derived
from `LeastNumber`; the predicate becomes a set comprehension. `RecursionExists` proves
with it that a recursion over the naturals has a solution, by joining its finite
beginnings (`Iterates`). From these come `Powers`, the digits of a number, and the facts
about sums: that the fold has a value, that the order of the summands does not matter,
and that one summand more adds itself.

**Only model-checked.** The liveness `EveryRunEnds` of the scripts, which is out of the
prover's reach, and the four runs that end in a violation. Every invariant and every
safety property of an action that a passing run checks is also a theorem. Fairness
plays no role in any of them: they are all about specifications that state none.

## 5. What is not modelled

* SHA-256, which is taken to be free of collisions, and the arithmetic of secp256k1,
  for which a small group stands.
* A client that fetches a nonce, asks for a quote, submits and resends. `docs/`
  describes one, but the repository has no code of it: there is nothing to be
  faithful to. What the program guarantees to any client is `PaymentPromise`.
* `AggregateFeeTooHigh` is in the model but cannot be reached with the real
  constants, as 500 + 100 < 1000.
* Token accounts change owner on no step (SPL `SetAuthority` is not modelled).
* In the pipeline: closing the program, the wallet's balance checks, `check-env`,
  the snapshot of the IDL. The buffer a deployment fills before its last transaction
  is left out; a deployment that never gets there is one that is lost.
* In `OperatorScripts`: airdrops and balance checks, the IDL snapshot, `--program` and
  `--keypair` (there is one program, and its authority deploys it), a deployment that
  lands after its script was interrupted, `--generate`, the contents of the arguments
  of `initialize`, and a working tree that moves to another commit while scripts run.
  `--url` with a cluster other than devnet is in the theorems, not in the runs.
* Cost estimates, simulation scripts and tests: they change no state of the system.

## 6. Plan

The program itself came first, as everything else only calls it: its components
one by one, then `Splitter`, its runs and its proofs; then the mainnet pipeline, the
abstract specification, the settlement in steps, the codec and the operators'
scripts. All of that is done, and proved except
for what section 4 lists as only model-checked. What is left to model further: the
buffer a deployment fills before it takes effect, and the deployments of
`OperatorScripts` as transactions, as `DeployPipeline` has them.
