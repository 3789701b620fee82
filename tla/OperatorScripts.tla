--------------------------- MODULE OperatorScripts ---------------------------
(***************************************************************************)
(* The scripts beside the mainnet pipeline: deployment to devnet and to a  *)
(* local validator, initialize, configure and check for devnet, and        *)
(* rotate-signer-role.ts, which authorizes a new hot key.  They run in     *)
(* terminals that share a working tree, and each decides for itself at     *)
(* which address and on which cluster the program is.                      *)
(*                                                                         *)
(* As in DeployPipeline, a script is the list of its steps, a run that     *)
(* fails its first checks is no run, and of the program only what these    *)
(* scripts can tell apart is kept.                                         *)
(***************************************************************************)
EXTENDS Integers, Sequences, Verdict

CONSTANTS
  Terminals,           \* shells in which the operators work
  Shells,              \* environments a script may be started in
  Urls,                \* clusters a deployment may be sent to with --url
  ENV_DEVELOPMENT, ENV_PRODUCTION,   \* what these two files assign
  CANONICAL_ID,        \* the program id of lib.rs, Anchor.toml and the mainnet scripts
  DEVNET_ID,           \* the program id written into the devnet and rotation scripts
  ThrowawayIds,        \* bound: ids localnet-deploy.sh can generate
  Sources,             \* ids in lib.rs and in keypairs/splitter-keypair.json
  PLACEHOLDER,         \* the deployer key build.rs falls back to
  FileKeys,            \* keys in keypair files
  ADMIN, INITIAL_SIGNER, INITIAL_ROUTES,   \* arguments of initialize
  AGENT_X402, MERCHANT_AIFP1,
  HotKeys,             \* signer keys to rotate to
  NONE                 \* no key, no transaction, no binary, no address

EnvVars == {"SPLITTER_PROGRAM_ID", "SOLANA_RPC_URL", "SPLITTER_DEPLOYER"}
Clusters == {"mainnet", "devnet", "localnet"}
Ids == {CANONICAL_ID, DEVNET_ID} \cup ThrowawayIds
Addresses == Clusters \X Ids
Routes == {AGENT_X402, MERCHANT_AIFP1}

(* A URL is the cluster it reaches. *)
IsEnv(env) ==
  /\ DOMAIN env \subseteq EnvVars
  /\ "SPLITTER_PROGRAM_ID" \in DOMAIN env => env["SPLITTER_PROGRAM_ID"] \in Ids
  /\ "SOLANA_RPC_URL" \in DOMAIN env => env["SOLANA_RPC_URL"] \in Clusters

ASSUME ScriptsAssumption ==
  /\ Urls \subseteq Clusters
  /\ IsEnv(ENV_DEVELOPMENT) /\ IsEnv(ENV_PRODUCTION) /\ \A env \in Shells : IsEnv(env)
  /\ Sources \subseteq [declares : Ids, keypair : Ids]
  /\ INITIAL_ROUTES \subseteq Routes
  /\ NONE \notin Ids \cup FileKeys \cup HotKeys \cup {ADMIN, INITIAL_SIGNER, PLACEHOLDER}

VARIABLES
  source,     \* id in lib.rs, id of the keypair file
  binary,     \* target/deploy/splitter.so: id and deployer baked in, or NONE
  env_local,  \* .env.local: does it exist, what does it assign
  programs,   \* programs[<<cluster, id>>]
  job,        \* job[t]: what runs in terminal t
  late        \* transactions under way whose script is gone

tree == <<source, binary, env_local>>
vars == <<tree, programs, job, late>>

NoProgram ==
  [exists |-> FALSE, declares |-> NONE, deployer |-> NONE,
   admin |-> NONE, signer |-> NONE, routes |-> {}]

Initialized(p) == p.admin # NONE

-----------------------------------------------------------------------------
(* Jobs.                                                                   *)

Over(upper, lower) ==
  [v \in DOMAIN upper \cup DOMAIN lower |->
     IF v \in DOMAIN upper THEN upper[v] ELSE lower[v]]

(* loadEnvFile(file), loadEnvFile(.env.local, overwrite): the file fills   *)
(* gaps of the shell, .env.local overrides both.                           *)
NodeEnv(shell, file) == Over(env_local.env, Over(shell, file))

ValueOf(env, variable, otherwise) ==
  IF variable \in DOMAIN env THEN env[variable] ELSE otherwise

Nothing ==
  [todo |-> <<>>, env |-> <<>>, at |-> <<NONE, NONE>>, key |-> NONE, tx |-> NONE,
   paused |-> FALSE, report |-> ""]

Begin(t, about) ==
  /\ job[t].todo = <<>>
  /\ job' = [job EXCEPT ![t] = about]
  /\ UNCHANGED <<tree, programs, late>>

(* Its cluster is devnet unless --url names another. *)
StartDevnetDeploy(t) ==
  \E shell \in Shells, url \in {"devnet"} \cup Urls :
    Begin(t, [Nothing EXCEPT !.todo = <<"build", "deploy", "write id">>, !.env = shell,
                             !.at = <<url, NONE>>])

(* --url here too; the keypair of the program is new every time. *)
StartLocalnetDeploy(t) ==
  \E shell \in Shells, url \in {"localnet"} \cup Urls, id \in ThrowawayIds :
    /\ \A cluster \in Clusters : ~programs[<<cluster, id>>].exists
    /\ \A other \in Terminals : job[other].at[2] # id
    /\ Begin(t, [Nothing EXCEPT !.todo = <<"build", "deploy">>, !.env = shell,
                                !.at = <<url, id>>])

DevnetAddress(env) ==
  <<ValueOf(env, "SOLANA_RPC_URL", "devnet"), ValueOf(env, "SPLITTER_PROGRAM_ID", DEVNET_ID)>>

(* initialize-devnet-splitter.ts, configure-route.ts *)
StartDevnetScript(t) ==
  \E shell \in Shells, steps \in {<<"find config", "initialize">>, <<"agent", "merchant">>} :
    Begin(t, [Nothing EXCEPT !.todo = steps,
                             !.at = DevnetAddress(NodeEnv(shell, ENV_DEVELOPMENT))])

(* check-devnet-splitter.ts opens no file and knows one cluster. *)
StartCheck(t) ==
  \E shell \in Shells :
    Begin(t, [Nothing EXCEPT !.todo = <<"read program", "read config", "read routes">>,
                !.at = <<"devnet", ValueOf(shell, "SPLITTER_PROGRAM_ID", DEVNET_ID)>>])

(* --pubkey, with or without --yes; the program id is written into the script. *)
StartRotation(t) ==
  \E shell \in Shells, key \in HotKeys, confirm \in {<<>>, <<"confirm">>} :
    Begin(t, [Nothing EXCEPT !.todo = confirm \o <<"rotate", "read back">>, !.key = key,
                !.at = <<ValueOf(NodeEnv(shell, ENV_PRODUCTION), "SOLANA_RPC_URL", "mainnet"),
                         DEVNET_ID>>])

At(t, step) == job[t].todo # <<>> /\ Head(job[t].todo) = step

Advanced(j) == [j EXCEPT !.todo = Tail(@), !.tx = NONE]
Advance(t) == job' = [job EXCEPT ![t] = Advanced(@)]

(* It fails; or it ends, and what it was about stays on the screen with    *)
(* its report.                                                             *)
Stop(t) == job' = [job EXCEPT ![t] = Nothing]
Report(t, report) ==
  job' = [job EXCEPT ![t] =
            [Nothing EXCEPT !.at = job[t].at, !.key = job[t].key, !.report = report]]

-----------------------------------------------------------------------------
(* The deployment scripts.                                                 *)

(* Mutant: build.rs falls back to no key at all. *)
Built_NoFallback(env) ==
  [declares |-> source.declares, deployer |-> ValueOf(env, "SPLITTER_DEPLOYER", NONE)]

Built(env) ==
  [declares |-> source.declares, deployer |-> ValueOf(env, "SPLITTER_DEPLOYER", PLACEHOLDER)]

(* The canonical keypair is read, unless there is one for this run.        *)
Located(at) == IF at[2] = NONE THEN <<at[1], source.keypair>> ELSE at

(* A binary that is there is used, whatever it was built from.             *)
BuildIfMissing(t) ==
  /\ At(t, "build")
  /\ binary' = IF binary = NONE THEN Built(job[t].env) ELSE binary
  /\ job' = [job EXCEPT ![t] = [Advanced(@) EXCEPT !.at = Located(job[t].at)]]
  /\ UNCHANGED <<source, env_local, programs, late>>

(* A program that is upgraded keeps its accounts. *)
Deployed(p) ==
  [p EXCEPT !.exists = TRUE, !.declares = binary.declares, !.deployer = binary.deployer]

(* With the key that holds the upgrade authority; other keys are refused   *)
(* by the loader, which Abort covers.                                      *)
Deploy(t) ==
  /\ At(t, "deploy")
  /\ programs' = [programs EXCEPT ![job[t].at] = Deployed(@)]
  /\ IF Len(job[t].todo) = 1 THEN Report(t, "DEPLOYED") ELSE Advance(t)
  /\ UNCHANGED <<tree, late>>

(* sed succeeds without a match, so a file that lacks the line is left as  *)
(* it is, and the `|| echo` behind it never runs.                          *)
WriteId(t) ==
  /\ At(t, "write id")
  /\ env_local' =
       [exists |-> TRUE,
        env |-> IF env_local.exists /\ "SPLITTER_PROGRAM_ID" \notin DOMAIN env_local.env
                THEN env_local.env
                ELSE Over([v \in {"SPLITTER_PROGRAM_ID"} |-> job[t].at[2]], env_local.env)]
  /\ Report(t, "DEPLOYED")
  /\ UNCHANGED <<source, binary, programs, late>>

-----------------------------------------------------------------------------
(* Transactions.                                                           *)

Sends(t, tx) ==
  /\ job[t].tx = NONE
  /\ job' = [job EXCEPT ![t].tx = tx]
  /\ UNCHANGED <<tree, programs, late>>

(* Each script signs with the keypair file its environment names. *)
Tx(t, instruction, by, route) ==
  [instruction |-> instruction, at |-> job[t].at, by |-> by, key |-> job[t].key,
   route |-> route]

(* The script asks before it initializes again. *)
FindConfig(t) ==
  /\ At(t, "find config")
  /\ IF Initialized(programs[job[t].at])
     THEN job' = [job EXCEPT ![t].todo = <<"confirm">> \o Tail(@)]
     ELSE Advance(t)
  /\ UNCHANGED <<tree, programs, late>>

(* The operator types y; anything else is Abort. *)
Answer(t) ==
  /\ At(t, "confirm")
  /\ Advance(t)
  /\ UNCHANGED <<tree, programs, late>>

SendInitialize(t) ==
  At(t, "initialize") /\ \E by \in FileKeys : Sends(t, Tx(t, "initialize", by, NONE))

SendRoute(t) ==
  \/ At(t, "agent") /\ \E by \in FileKeys : Sends(t, Tx(t, "configure_route", by, AGENT_X402))
  \/ At(t, "merchant")
       /\ \E by \in FileKeys : Sends(t, Tx(t, "configure_route", by, MERCHANT_AIFP1))

(* --instruction grant and --instruction rotate do the same. *)
SendRotation(t) ==
  At(t, "rotate") /\ \E by \in FileKeys : Sends(t, Tx(t, "rotate_signer_role", by, NONE))

(* Mutant: initialize finds its accounts there and goes on. *)
TxVerdict_Reopens(tx) ==
  LET p == programs[tx.at]
  IN     Check(p.exists, "ProgramAccountNotFound")
      ?? Check(p.declares = tx.at[2], "DeclaredProgramIdMismatch")
      ?? IF tx.instruction = "initialize"
         THEN Check(tx.by = p.deployer, "UnauthorizedDeployer")
         ELSE Check(Initialized(p), "AccountNotInitialized") ?? Check(tx.by = p.admin, "Unauthorized")

(* A program refuses to run at any address but the one it declares. *)
TxVerdict(tx) ==
  LET p == programs[tx.at]
  IN     Check(p.exists, "ProgramAccountNotFound")
      ?? Check(p.declares = tx.at[2], "DeclaredProgramIdMismatch")
      ?? IF tx.instruction = "initialize"
         THEN Check(~Initialized(p), "AccountInUse") ?? Check(tx.by = p.deployer, "UnauthorizedDeployer")
         ELSE Check(Initialized(p), "AccountNotInitialized") ?? Check(tx.by = p.admin, "Unauthorized")

Changed(p, tx) ==
  CASE tx.instruction = "initialize" ->
         [p EXCEPT !.admin = ADMIN, !.signer = INITIAL_SIGNER, !.routes = INITIAL_ROUTES]
    [] tx.instruction = "configure_route" -> [p EXCEPT !.routes = @ \cup {tx.route}]
    [] tx.instruction = "rotate_signer_role" -> [p EXCEPT !.signer = tx.key]

Execute(tx) ==
  /\ TxVerdict(tx) = Ok
  /\ programs' = [programs EXCEPT ![tx.at] = Changed(@, tx)]

(* sendAndConfirm returns; for two scripts that was the last step. *)
Confirmed(t) ==
  CASE At(t, "initialize") -> Report(t, "INITIALIZED")
    [] At(t, "merchant") -> Report(t, "CONFIGURED")
    [] OTHER -> Advance(t)

Land(t) ==
  /\ job[t].tx # NONE /\ Execute(job[t].tx)
  /\ Confirmed(t)
  /\ UNCHANGED <<tree, late>>

(* Mutant: the error of a transaction that failed on chain is swallowed. *)
Refuse_Swallowed(t) ==
  /\ job[t].tx # NONE /\ TxVerdict(job[t].tx) # Ok
  /\ Confirmed(t)
  /\ UNCHANGED <<tree, programs, late>>

Refuse(t) ==
  /\ job[t].tx # NONE /\ TxVerdict(job[t].tx) # Ok
  /\ Stop(t)
  /\ UNCHANGED <<tree, programs, late>>

(* Mutant: a transaction whose blockhash is too old is sent again. *)
Expire_Resends(t) ==
  /\ job[t].tx # NONE
  /\ job' = [job EXCEPT ![t].tx = NONE]
  /\ UNCHANGED <<tree, programs, late>>

(* The blockhash gets too old: the transaction can no longer land. *)
Expire(t) ==
  /\ job[t].tx # NONE
  /\ Stop(t)
  /\ UNCHANGED <<tree, programs, late>>

(* Interrupted, refused by the loader, or out of funds or connection.      *)
(* Bound: at most one abandoned transaction is under way.                  *)
Abort(t) ==
  /\ job[t].todo # <<>> /\ (job[t].tx = NONE \/ late = {})
  /\ late' = late \cup ({job[t].tx} \ {NONE})
  /\ Stop(t)
  /\ UNCHANGED <<tree, programs>>

LandLate(tx) ==
  /\ tx \in late /\ Execute(tx)
  /\ late' = late \ {tx}
  /\ UNCHANGED <<tree, job>>

LoseLate(tx) ==
  /\ tx \in late /\ late' = late \ {tx}
  /\ UNCHANGED <<tree, programs, job>>

-----------------------------------------------------------------------------
(* check-devnet-splitter.ts: one account at a time.  Somebody may have     *)
(* paused the program and may unpause it (see Roles).                      *)

ReadProgram(t) ==
  /\ At(t, "read program")
  /\ IF programs[job[t].at].exists THEN Advance(t) ELSE Stop(t)
  /\ UNCHANGED <<tree, programs, late>>

ReadConfig(t) ==
  /\ At(t, "read config")
  /\ IF Initialized(programs[job[t].at])
     THEN \E is_paused \in BOOLEAN :
            job' = [job EXCEPT ![t] = [Advanced(@) EXCEPT !.paused = is_paused]]
     ELSE Stop(t)
  /\ UNCHANGED <<tree, programs, late>>

ReadRoutes(t) ==
  /\ At(t, "read routes")
  /\ IF ~job[t].paused /\ Routes \subseteq programs[job[t].at].routes
     THEN Report(t, "READY")
     ELSE Stop(t)
  /\ UNCHANGED <<tree, programs, late>>

(* rotate-signer-role.ts: config.signer is read back. *)
ReadBack(t) ==
  /\ At(t, "read back")
  /\ IF programs[job[t].at].signer = job[t].key THEN Report(t, "YES") ELSE Stop(t)
  /\ UNCHANGED <<tree, programs, late>>

-----------------------------------------------------------------------------
(* People build by hand.  Bound: the working tree stays at one commit; the *)
(* binary found in it at the beginning may be of another.                  *)
BuildByHand ==
  /\ \E shell \in Shells : binary' = Built(shell)
  /\ UNCHANGED <<source, env_local, programs, job, late>>

-----------------------------------------------------------------------------
(* On mainnet the canonical program is live; under the id of the devnet    *)
(* scripts, an earlier deployment with the same admin is live there and on *)
(* devnet.                                                                 *)
Live(id) ==
  [exists |-> TRUE, declares |-> id, deployer |-> PLACEHOLDER,
   admin |-> ADMIN, signer |-> INITIAL_SIGNER, routes |-> Routes]

Init ==
  /\ source \in Sources
  /\ binary \in {NONE, [declares |-> DEVNET_ID, deployer |-> PLACEHOLDER]}
  /\ \E exists \in BOOLEAN : env_local = [exists |-> exists, env |-> <<>>]
  /\ programs = [at \in Addresses |->
                   IF at = <<"mainnet", CANONICAL_ID>> \/ at \in {"mainnet", "devnet"} \X {DEVNET_ID}
                   THEN Live(at[2])
                   ELSE NoProgram]
  /\ job = [t \in Terminals |-> Nothing]
  /\ late = {}

Start(t) ==
  \/ StartDevnetDeploy(t) \/ StartLocalnetDeploy(t) \/ StartDevnetScript(t)
  \/ StartCheck(t) \/ StartRotation(t)

(* The steps a script takes by itself. *)
Work(t) ==
  \/ BuildIfMissing(t) \/ Deploy(t) \/ WriteId(t)
  \/ FindConfig(t) \/ SendInitialize(t) \/ SendRoute(t) \/ SendRotation(t)
  \/ ReadProgram(t) \/ ReadConfig(t) \/ ReadRoutes(t) \/ ReadBack(t)

(* The steps for which it waits for the cluster. *)
Settle(t) == Land(t) \/ Refuse(t) \/ Expire(t)

Next ==
  \/ \E t \in Terminals : Start(t) \/ Work(t) \/ Settle(t) \/ Answer(t) \/ Abort(t)
  \/ \E tx \in late : LandLate(tx) \/ LoseLate(tx)
  \/ BuildByHand

Spec == Init /\ [][Next]_vars

(* A running process runs, and a blockhash lasts about a minute. *)
FairSpec == Spec /\ \A t \in Terminals : WF_vars(Work(t)) /\ WF_vars(Settle(t))

-----------------------------------------------------------------------------
IsTx(tx) ==
  /\ tx.instruction \in {"initialize", "configure_route", "rotate_signer_role"}
  /\ tx.at \in Addresses /\ tx.by \in FileKeys /\ tx.key \in HotKeys \cup {NONE}

(* Whom a binary lets initialize: whom a shell names, or the fallback.     *)
Deployers ==
  {PLACEHOLDER} \cup
  {env["SPLITTER_DEPLOYER"] : env \in {e \in Shells : "SPLITTER_DEPLOYER" \in DOMAIN e}}

ProgramType ==
  {NoProgram} \cup
  [exists : {TRUE}, declares : Ids, deployer : Deployers,
   admin : {NONE, ADMIN}, signer : HotKeys \cup {NONE, INITIAL_SIGNER},
   routes : SUBSET Routes]

(* Type correctness; every program there runs a binary that was built.     *)
TypeOK ==
  /\ source \in Sources
  /\ binary = NONE \/ binary \in [declares : Ids, deployer : Deployers]
  /\ env_local.exists \in BOOLEAN /\ IsEnv(env_local.env)
  /\ \A at \in Addresses : programs[at] \in ProgramType
  /\ \A t \in Terminals : job[t].tx = NONE \/ IsTx(job[t].tx)
  /\ \A tx \in late : IsTx(tx)

(* What the scripts have reported stays true of the program they addressed *)
(* (check reads one account after another, configure sends two             *)
(* transactions), through upgrades, rotations and transactions that land   *)
(* late: it is there, initialized, and has both routes.                    *)
ReportsHold ==
  \A t \in Terminals :
    job[t].report \in {"DEPLOYED", "INITIALIZED", "CONFIGURED", "READY"} =>
      LET p == programs[job[t].at] IN
        /\ p.exists
        /\ job[t].report # "DEPLOYED" => Initialized(p)
        /\ job[t].report \in {"CONFIGURED", "READY"} => Routes \subseteq p.routes

(* Whatever is deployed where, answered with y at "Continue anyway?" or    *)
(* landing late: an initialized program keeps its admin and its routes,    *)
(* and its signer changes to nothing but a key somebody asked to rotate to. *)
NothingIsInitializedTwice ==
  [][\A at \in Addresses :
       Initialized(programs[at]) =>
         /\ programs'[at].admin = programs[at].admin
         /\ programs[at].routes \subseteq programs'[at].routes
         /\ programs'[at].signer # programs[at].signer => programs'[at].signer \in HotKeys]_vars

(* No script hangs: it ends or asks a human. *)
EveryRunEnds ==
  \A t \in Terminals : job[t].todo # <<>> ~> job[t].todo = <<>> \/ At(t, "confirm")

-----------------------------------------------------------------------------
(* What comments and messages say of a script and the code does not do.    *)

(* rotate-signer-role.ts: "Rotate (or grant) the secp256k1 hot signer key  *)
(* of the canonical splitter"; after "On-chain signer matches: YES" the    *)
(* canonical splitter of that cluster obeys the new key.                   *)
RotatesTheCanonicalSplitter ==
  \A t \in Terminals :
    job[t].report = "YES" /\ job[t].at[1] = "mainnet" =>
      programs[<<"mainnet", CANONICAL_ID>>].signer = job[t].key
=============================================================================
