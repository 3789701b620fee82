--------------------------- MODULE DeployPipeline ---------------------------
(***************************************************************************)
(* How the program gets onto mainnet: ledger-deploy.sh, mainnet-deploy.sh  *)
(* and the initialize, configure and check scripts, run from terminals     *)
(* that share one working tree and one cluster.  A script is a list of     *)
(* steps; it stops at the first that fails (`set -e`, an uncaught throw),  *)
(* and may be interrupted between any two.  A transaction it was waiting   *)
(* for is then still under way.                                            *)
(*                                                                         *)
(* A run that fails its pre-flight checks touches nothing and is no run.   *)
(* The clock, which only dates route profiles, stands still.               *)
(***************************************************************************)
EXTENDS Initialization

CONSTANTS
  Terminals,           \* shells in which the operators work
  Shells,              \* environments a script may be started in
  ENV_PRODUCTION, ENV_LOCAL,   \* what .env.production and .env.local assign
  OTHER_PARAMS,        \* arguments of initialize the pipeline does not vary
  PLACEHOLDER,         \* the key build.rs falls back to
  CONSTANTS_EDITED,    \* the placeholder bytes were edited out of constants.rs
  Wallets,             \* keys that may pay for a deployment
  FileKeys,            \* keys in keypair files; the others are on a Ledger
  Flags,               \* flags a deployment may be started with
  NewAuthorities,      \* arguments of solana program set-upgrade-authority
  AGENT_X402, MERCHANT_AIFP1,
  MAX_LATE,            \* bound on the transactions under way without a script
  NONE                 \* no key, no transaction, no binary

EnvVars ==
  {"SPLITTER_DEPLOYER", "ADMIN_PUBKEY", "TREASURY_PUBKEY", "ADMIN_KEYPAIR_PATH",
   "DEPLOYER_KEYPAIR_PATH"}

(* An assignment of keys to variables; a keypair path is the key it holds. *)
IsEnv(env) == DOMAIN env \subseteq EnvVars /\ \A v \in DOMAIN env : env[v] \in Pubkeys

ASSUME PipelineAssumption ==
  /\ IsEnv(ENV_PRODUCTION) /\ IsEnv(ENV_LOCAL) /\ \A env \in Shells : IsEnv(env)
  /\ OTHER_PARAMS \in InitParamType
  /\ PLACEHOLDER \in Pubkeys /\ CONSTANTS_EDITED \in BOOLEAN
  /\ Wallets \cup FileKeys \cup NewAuthorities \subseteq Pubkeys
  /\ Flags \subseteq [yes : BOOLEAN, skip_build : BOOLEAN, skip_init : BOOLEAN,
                      skip_routes : BOOLEAN, skip_verify : BOOLEAN]
  /\ {AGENT_X402, MERCHANT_AIFP1} \subseteq RouteIds
  /\ NONE \notin Pubkeys /\ MAX_LATE \in Nat

VARIABLES
  binary,    \* the key baked into target/deploy/splitter.so, or NONE
  program,   \* the program account: deployer of its binary, upgrade authority
  job,       \* job[t]: what runs in terminal t
  late       \* transactions under way whose script is gone

chain == <<now, config, profiles, count, token_list>>
vars == <<chain, binary, program, job, late>>

-----------------------------------------------------------------------------
(* Scripts and their environments.                                         *)

Over(upper, lower) ==
  [v \in DOMAIN upper \cup DOMAIN lower |->
     IF v \in DOMAIN upper THEN upper[v] ELSE lower[v]]

(* load_env: .env.production is sourced over the shell, .env.local over both. *)
LedgerEnv(shell) == Over(ENV_LOCAL, Over(ENV_PRODUCTION, shell))

(* loadEnvFile(.env.production, overwrite): nothing else is read.          *)
NodeEnv(shell) == Over(ENV_PRODUCTION, shell)

Idle(report) ==
  [wallet |-> NONE, env |-> <<>>, todo |-> <<>>, tx |-> NONE, paused |-> FALSE,
   report |-> report]

Running(wallet, env, steps) ==
  [wallet |-> wallet, env |-> env, todo |-> steps, tx |-> NONE, paused |-> FALSE,
   report |-> ""]

When(cond, steps) == IF cond THEN steps ELSE <<>>

BuildSteps(flags) == <<IF flags.skip_build THEN "find binary" ELSE "build", "authority">>
DeploySteps(flags) == When(~flags.yes, <<"confirm">>) \o <<"deploy">>
RouteSteps == <<"agent", "merchant">>
CheckSteps == <<"read program", "read config", "read routes">>

LedgerSteps(flags, env, wallet) ==
     When(env["SPLITTER_DEPLOYER"] # wallet /\ ~flags.yes, <<"confirm">>)
  \o BuildSteps(flags)
  \o DeploySteps(flags)
  \o When(~flags.skip_init, When(~flags.yes, <<"confirm">>) \o <<"anchor">>)
  \o When(~flags.skip_routes /\ "ADMIN_KEYPAIR_PATH" \in DOMAIN env, RouteSteps)
  \o When(~flags.skip_verify, CheckSteps)

Begin(t, wallet, env, steps) ==
  /\ job[t].todo = <<>>
  /\ job' = [job EXCEPT ![t] = Running(wallet, env, steps)]
  /\ UNCHANGED <<chain, binary, program, late>>

StartLedgerDeploy(t) ==
  \E wallet \in Wallets \ FileKeys, shell \in Shells, flags \in Flags :
    LET env == LedgerEnv(shell) IN
      /\ {"SPLITTER_DEPLOYER", "ADMIN_PUBKEY", "TREASURY_PUBKEY"} \subseteq DOMAIN env
      /\ env["SPLITTER_DEPLOYER"] # DEFAULT
      /\ Begin(t, wallet, env, LedgerSteps(flags, env, wallet))

(* Guard 2 of mainnet-deploy.sh, which reads no .env file; --deployer is   *)
(* SPLITTER_DEPLOYER by another name.                                      *)
DeployerIsReal(env) ==
  IF "SPLITTER_DEPLOYER" \in DOMAIN env THEN env["SPLITTER_DEPLOYER"] # DEFAULT
  ELSE CONSTANTS_EDITED

StartMainnetDeploy(t) ==
  \E wallet \in Wallets, shell \in Shells, flags \in Flags :
    /\ DeployerIsReal(shell)
    /\ Begin(t, wallet, shell, BuildSteps(flags) \o DeploySteps(flags))

(* The three node scripts, started by hand. *)
StartNodeScript(t) ==
  \E shell \in Shells, steps \in {<<"find config", "initialize">>, RouteSteps, CheckSteps} :
    Begin(t, NONE, shell, steps)

-----------------------------------------------------------------------------
(* Ends and turns of a step.                                               *)

At(t, step) == job[t].todo # <<>> /\ Head(job[t].todo) = step

(* The report stays on the screen. *)
Advanced(j, report) ==
  IF Len(j.todo) = 1 THEN Idle(report)
  ELSE [j EXCEPT !.todo = Tail(@), !.tx = NONE, !.report = report]

Advance(t) == job' = [job EXCEPT ![t] = Advanced(@, @.report)]
Stop(t) == job' = [job EXCEPT ![t] = Idle(@.report)]

(* build.rs: without an override the fallback is baked in, whatever        *)
(* constants.rs holds.                                                     *)
BakedKey(env) ==
  IF "SPLITTER_DEPLOYER" \in DOMAIN env THEN env["SPLITTER_DEPLOYER"] ELSE PLACEHOLDER

Build(t) ==
  /\ At(t, "build")
  /\ binary' = BakedKey(job[t].env)
  /\ Advance(t)
  /\ UNCHANGED <<chain, program, late>>

(* Mutant: --skip-build does not look for the binary. *)
FindBinary_Trusting(t) ==
  /\ At(t, "find binary")
  /\ Advance(t)
  /\ UNCHANGED <<chain, binary, program, late>>

(* --skip-build: any binary will do, stale or not. *)
FindBinary(t) ==
  /\ At(t, "find binary")
  /\ IF binary = NONE THEN Stop(t) ELSE Advance(t)
  /\ UNCHANGED <<chain, binary, program, late>>

(* A failed query looks like an absent program, so the check may pass on   *)
(* an upgrade that is not the wallet's to make.                            *)
CheckAuthority(t) ==
  /\ At(t, "authority")
  /\ \/ Advance(t)
     \/ program.exists /\ program.authority # job[t].wallet /\ Stop(t)
  /\ UNCHANGED <<chain, binary, program, late>>

MayDeploy(key) == program.exists => program.authority = key

(* `solana program deploy` reads the binary and looks for the program,     *)
(* then spends minutes filling a buffer; what it found decides whether its *)
(* last transaction makes a program or upgrades one.                       *)
SendDeploy(t) ==
  /\ At(t, "deploy") /\ job[t].tx = NONE
  /\ IF MayDeploy(job[t].wallet)
     THEN job' = [job EXCEPT ![t].tx =
                    [instruction |-> "deploy",
                     args |-> [deployer |-> binary, upgrade |-> program.exists],
                     signer |-> job[t].wallet]]
     ELSE Stop(t)
  /\ UNCHANGED <<chain, binary, program, late>>

AnchorScripts == {"build_localnet"}   \* [scripts] of Anchor.toml

(* `anchor run initialize:mainnet` finds no such script: the run falls     *)
(* back to asking the operator to initialize by other means.               *)
RunAnchor(t) ==
  /\ At(t, "anchor")
  /\ "initialize:mainnet" \notin AnchorScripts
  /\ job' = [job EXCEPT ![t].todo = <<"manual initialize">> \o Tail(@)]
  /\ UNCHANGED <<chain, binary, program, late>>

(* The operator types what a prompt asks for. *)
Prompts == {"confirm", "manual initialize"}

Answer(t) ==
  /\ job[t].todo # <<>> /\ Head(job[t].todo) \in Prompts
  /\ Advance(t)
  /\ UNCHANGED <<chain, binary, program, late>>

-----------------------------------------------------------------------------
(* Transactions.                                                           *)

EnvParams(env) ==
  [OTHER_PARAMS EXCEPT !.admin = env["ADMIN_PUBKEY"], !.treasury = env["TREASURY_PUBKEY"]]

(* initialize-mainnet-splitter.ts asks before it tries a second time. *)
FindConfig(t) ==
  /\ At(t, "find config")
  /\ IF config.exists
     THEN job' = [job EXCEPT ![t].todo = <<"confirm">> \o Tail(@)]
     ELSE Advance(t)
  /\ UNCHANGED <<chain, binary, program, late>>

(* A file keypair in a variable of the environment can sign, nothing else. *)
CanSign(env, path) == path \in DOMAIN env /\ env[path] \in FileKeys

SendInitialize(t) ==
  LET env == NodeEnv(job[t].env) IN
    /\ At(t, "initialize") /\ job[t].tx = NONE
    /\ IF /\ CanSign(env, "DEPLOYER_KEYPAIR_PATH")
          /\ {"ADMIN_PUBKEY", "TREASURY_PUBKEY"} \subseteq DOMAIN env
       THEN job' = [job EXCEPT ![t].tx =
                      [instruction |-> "initialize", args |-> EnvParams(env),
                       signer |-> env["DEPLOYER_KEYPAIR_PATH"]]]
       ELSE Stop(t)
    /\ UNCHANGED <<chain, binary, program, late>>

(* The fees are written into the script, the treasury comes from the file. *)
RouteOf(step, env) ==
  [route_id |-> IF step = "agent" THEN AGENT_X402 ELSE MERCHANT_AIFP1,
   treasury_bps |-> IF step = "agent" THEN 0 ELSE 100, ip_creator_bps |-> 0,
   route_treasury |-> env["TREASURY_PUBKEY"]]

SendRoute(t) ==
  LET env == NodeEnv(job[t].env) IN
    /\ At(t, "agent") \/ At(t, "merchant")
    /\ job[t].tx = NONE
    /\ IF CanSign(env, "ADMIN_KEYPAIR_PATH") /\ "TREASURY_PUBKEY" \in DOMAIN env
       THEN job' = [job EXCEPT ![t].tx =
                      [instruction |-> "configure_route",
                       args |-> RouteOf(Head(job[t].todo), env),
                       signer |-> env["ADMIN_KEYPAIR_PATH"]]]
       ELSE Stop(t)
    /\ UNCHANGED <<chain, binary, program, late>>

(* The loader: no second program at an address, an upgrade by its upgrade  *)
(* authority only.                                                         *)
DeployVerdict(signer, args) ==
     Check(args.upgrade = program.exists, "InvalidProgramAccount")
  ?? Check(MayDeploy(signer), "IncorrectAuthority")

TxVerdict(tx) ==
  IF tx.instruction = "deploy" THEN DeployVerdict(tx.signer, tx.args)
  ELSE IF ~program.exists THEN "ProgramAccountNotFound"
  ELSE IF tx.instruction = "initialize"
  THEN InitializeVerdict(program.deployer, tx.signer, tx.args)
  ELSE ConfigureVerdict(tx.signer, tx.args)

Execute(tx) ==
  /\ TxVerdict(tx) = Ok
  /\ \/ /\ tx.instruction = "deploy"
        /\ program' = [exists |-> TRUE, deployer |-> tx.args.deployer, authority |-> tx.signer]
        /\ UNCHANGED chain
     \/ /\ tx.instruction = "initialize"
        /\ CreateSingletons(tx.args)
        /\ UNCHANGED <<now, program>>
     \/ /\ tx.instruction = "configure_route"
        /\ ConfigureRoute(tx.signer, tx.args)
        /\ UNCHANGED <<now, config, token_list, program>>

(* sendAndConfirm returns.  The second route is the last thing the script  *)
(* does before it prints "Done!".                                          *)
Confirmed(t) ==
  job' = [job EXCEPT ![t] = Advanced(@, IF At(t, "merchant") THEN "CONFIGURED" ELSE @.report)]

Land(t) ==
  /\ job[t].tx # NONE
  /\ Execute(job[t].tx)
  /\ Confirmed(t)
  /\ UNCHANGED <<binary, late>>

(* Mutant: the error of a transaction that failed on chain is swallowed. *)
Refuse_Swallowed(t) ==
  /\ job[t].tx # NONE
  /\ TxVerdict(job[t].tx) # Ok
  /\ Confirmed(t)
  /\ UNCHANGED <<chain, binary, program, late>>

Refuse(t) ==
  /\ job[t].tx # NONE
  /\ TxVerdict(job[t].tx) # Ok
  /\ Stop(t)
  /\ UNCHANGED <<chain, binary, program, late>>

(* Mutant: a transaction whose blockhash is too old is sent again, and     *)
(* again.                                                                  *)
Expire_Resends(t) ==
  /\ job[t].tx # NONE
  /\ job' = [job EXCEPT ![t].tx = NONE]
  /\ UNCHANGED <<chain, binary, program, late>>

(* The blockhash gets too old: the transaction can no longer land. *)
Expire(t) ==
  /\ job[t].tx # NONE
  /\ Stop(t)
  /\ UNCHANGED <<chain, binary, program, late>>

(* Interrupted by the operator or by a lost connection.                    *)
(* Bound: at most MAX_LATE abandoned transactions are under way, and of    *)
(* each at most one copy.                                                  *)
Abort(t) ==
  /\ job[t].todo # <<>>
  /\ job[t].tx # NONE => job[t].tx \notin late /\ Cardinality(late) < MAX_LATE
  /\ late' = late \cup ({job[t].tx} \ {NONE})
  /\ Stop(t)
  /\ UNCHANGED <<chain, binary, program>>

LandLate(tx) ==
  /\ tx \in late /\ Execute(tx)
  /\ late' = late \ {tx}
  /\ UNCHANGED <<binary, job>>

LoseLate(tx) ==
  /\ tx \in late
  /\ late' = late \ {tx}
  /\ UNCHANGED <<chain, binary, program, job>>

-----------------------------------------------------------------------------
(* check-mainnet-splitter.ts: one account at a time.                       *)
RoutesFound == RouteExists(AGENT_X402) /\ RouteExists(MERCHANT_AIFP1)

ReadProgram(t) ==
  /\ At(t, "read program")
  /\ IF program.exists THEN Advance(t) ELSE Stop(t)
  /\ UNCHANGED <<chain, binary, program, late>>

ReadConfig(t) ==
  /\ At(t, "read config")
  /\ IF config.exists
     THEN job' = [job EXCEPT ![t] = [Advanced(@, @.report) EXCEPT !.paused = config.is_paused]]
     ELSE Stop(t)
  /\ UNCHANGED <<chain, binary, program, late>>

ReadRoutes(t) ==
  /\ At(t, "read routes")
  /\ job' = [job EXCEPT ![t] =
               Advanced(@, IF ~@.paused /\ RoutesFound THEN "READY" ELSE "NOT READY")]
  /\ UNCHANGED <<chain, binary, program, late>>

-----------------------------------------------------------------------------
(* What others do meanwhile.                                               *)

(* `cargo build-sbf` for tests, in the same working tree. *)
LocalBuild ==
  /\ binary' = BakedKey(<<>>)
  /\ UNCHANGED <<chain, program, job, late>>

SetUpgradeAuthority ==
  /\ program.exists
  /\ \E key \in NewAuthorities : program' = [program EXCEPT !.authority = key]
  /\ UNCHANGED <<chain, binary, job, late>>

AdminStep ==
  /\ program.exists
  /\ \/ RolesStep /\ UNCHANGED <<profiles, count, token_list>>
     \/ RoutesStep /\ UNCHANGED <<config, token_list>>
  /\ UNCHANGED <<now, binary, program, job, late>>

-----------------------------------------------------------------------------
Init ==
  /\ now = 0
  /\ config = NoConfig
  /\ profiles = <<>> /\ count = 0
  /\ token_list = <<>>
  /\ binary = NONE
  /\ program = [exists |-> FALSE, deployer |-> NONE, authority |-> NONE]
  /\ job = [t \in Terminals |-> Idle("")]
  /\ late = {}

Start(t) == StartLedgerDeploy(t) \/ StartMainnetDeploy(t) \/ StartNodeScript(t)

(* The steps a script takes by itself. *)
Work(t) ==
  \/ Build(t) \/ FindBinary(t) \/ CheckAuthority(t) \/ RunAnchor(t)
  \/ job[t].wallet \in FileKeys /\ SendDeploy(t)
  \/ FindConfig(t) \/ SendInitialize(t) \/ SendRoute(t)
  \/ ReadProgram(t) \/ ReadConfig(t) \/ ReadRoutes(t)

(* The steps for which it waits for the cluster. *)
Settle(t) == Land(t) \/ Refuse(t) \/ Expire(t)

(* The steps for which it waits for a human; a Ledger signs when its       *)
(* button is pressed.                                                      *)
Attend(t) == Answer(t) \/ (job[t].wallet \notin FileKeys /\ SendDeploy(t))

Next ==
  \/ \E t \in Terminals : Start(t) \/ Work(t) \/ Settle(t) \/ Attend(t) \/ Abort(t)
  \/ \E tx \in late : LandLate(tx) \/ LoseLate(tx)
  \/ LocalBuild \/ SetUpgradeAuthority \/ AdminStep

Spec == Init /\ [][Next]_vars

(* A running process runs, and a blockhash lasts about a minute.  Nobody   *)
(* is promised to start a script, answer a prompt or press a button.       *)
FairSpec == Spec /\ \A t \in Terminals : WF_vars(Work(t)) /\ WF_vars(Settle(t))

-----------------------------------------------------------------------------
IsTx(tx) ==
  \/ /\ tx.instruction = "deploy" /\ tx.signer \in Pubkeys
     /\ tx.args \in [deployer : Pubkeys, upgrade : BOOLEAN]
  \/ /\ tx.signer \in FileKeys
     /\ \/ tx.instruction = "initialize" /\ tx.args \in InitParamType
        \/ tx.instruction = "configure_route" /\ tx.args \in RouteUpdateType

(* Type correctness; a program on the cluster always has a baked deployer. *)
TypeOK ==
  /\ now \in Nat
  /\ config \in ConfigType
  /\ profiles \in Seq(ProfileType)
  /\ count \in Nat
  /\ token_list \in Seq(Pubkeys)
  /\ binary \in Pubkeys \cup {NONE}
  /\ IF program.exists
     THEN program.deployer \in Pubkeys /\ program.authority \in Pubkeys
     ELSE program.deployer = NONE /\ program.authority = NONE
  /\ \A t \in Terminals :
       /\ job[t].wallet \in Pubkeys \cup {NONE}
       /\ IsEnv(job[t].env)
       /\ job[t].tx = NONE \/ IsTx(job[t].tx)
  /\ \A tx \in late : IsTx(tx)

(* Whatever is run, repeated, interrupted or upgraded to a binary with     *)
(* another deployer, and whenever its transactions land, the pipeline      *)
(* leaves alone what the admin has decided since initialize: it changes no *)
(* role, does not unpause, drops no route and brings no disabled one back. *)
PipelineKeepsDecisions ==
  [][config.exists /\ (job' # job \/ late' # late) =>
       /\ config' = config
       /\ \A i \in DOMAIN profiles :
            /\ i \in DOMAIN profiles'
            /\ profiles'[i].route_id = profiles[i].route_id
            /\ profiles'[i].enabled = profiles[i].enabled]_vars

(* What configure ("Done!") and check ("READY FOR PRODUCTION") have        *)
(* reported stays true, although check reads one account after another:    *)
(* the program is there, initialized, and both routes are configured.      *)
ReportsHold ==
  (\E t \in Terminals : job[t].report \in {"CONFIGURED", "READY"}) =>
    program.exists /\ config.exists /\ RoutesFound

WaitsForHuman(t) ==
  \/ job[t].todo # <<>> /\ Head(job[t].todo) \in Prompts
  \/ At(t, "deploy") /\ job[t].tx = NONE /\ job[t].wallet \notin FileKeys

(* No script hangs: it ends, or gets to a point where a human is asked,    *)
(* even if its transactions are lost or fail.                              *)
EveryRunEnds ==
  \A t \in Terminals :
    job[t].todo # <<>> ~> job[t].todo = <<>> \/ WaitsForHuman(t)

-----------------------------------------------------------------------------
(* What comments and documents say of the pipeline and the code does not   *)
(* do; a run of its own refutes it.                                        *)

(* constants.rs: the placeholder "MUST NOT ship to mainnet without the     *)
(* SPLITTER_DEPLOYER override"; mainnet-deploy.sh: the "legacy manual edit *)
(* of constants.rs still works".                                           *)
PlaceholderStaysOffMainnet == program.deployer # PLACEHOLDER
=============================================================================
