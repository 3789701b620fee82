---------------------------- MODULE DeployProofs ----------------------------
(***************************************************************************)
(* For every number of terminals, every environment and every flag: what   *)
(* the deployment scripts report is true and stays true, and the pipeline  *)
(* leaves the admin's decisions alone.                                     *)
(*                                                                         *)
(* A report sums up what a script has seen over many steps, so the         *)
(* invariant is about scripts as lists: which steps come before which, and *)
(* what the steps already taken have left behind for good.                 *)
(***************************************************************************)
EXTENDS DeployPipeline, RegistryProofs

Makers == {"build", "find binary"}

StepNames ==
  Makers \cup Prompts \cup
  {"authority", "deploy", "anchor", "find config", "initialize", "agent", "merchant",
   "read program", "read config", "read routes"}

(* The transaction a step sends, and no other.                             *)
Sent(step, tx) ==
  \/ step = "deploy" /\ tx.instruction = "deploy"
  \/ step = "initialize" /\ tx.instruction = "initialize"
  \/ step = "agent" /\ tx.instruction = "configure_route" /\ tx.args.route_id = AGENT_X402
  \/ step = "merchant" /\ tx.instruction = "configure_route" /\ tx.args.route_id = MERCHANT_AIFP1

JobShape(j) ==
  j = [wallet |-> j.wallet, env |-> j.env, todo |-> j.todo, tx |-> j.tx,
       paused |-> j.paused, report |-> j.report]

JobType(j) ==
  /\ JobShape(j)
  /\ j.wallet \in Pubkeys \cup {NONE}
  /\ IsEnv(j.env)
  /\ j.todo \in Seq(StepNames)
  /\ j.tx # NONE => IsTx(j.tx) /\ j.todo # <<>> /\ Sent(Head(j.todo), j.tx)

(* What a job has behind it: nothing is deployed before it was built or    *)
(* found, the second route is not configured before the first, and a       *)
(* report was true.  The flags say what of this is there: a binary, the    *)
(* first route, both routes.                                               *)
JobInv(j, built, agent, found) ==
  /\ JobType(j)
  /\ Includes(j.todo, "deploy") => j.wallet \in Pubkeys
  /\ built \/ Awaits(j.todo, "deploy", Makers)
  /\ agent \/ Awaits(j.todo, "merchant", {"agent"})
  /\ j.report \in {"CONFIGURED", "READY"} => found

IsBuilt == binary # NONE
AgentFound == RouteExists(AGENT_X402)
Jobs == \A t \in Terminals : JobInv(job[t], IsBuilt, AgentFound, RoutesFound)

RegistryInv ==
  /\ now \in Nat
  /\ config \in ConfigType
  /\ token_list \in Seq(Pubkeys)
  /\ RoutesType
  /\ RouteTable
  /\ RolesFilled
  /\ EmptyBeforeInitialize

ProgramInv ==
  /\ program = [exists |-> program.exists, deployer |-> program.deployer,
                authority |-> program.authority]
  /\ program.exists \in BOOLEAN
  /\ IF program.exists
     THEN program.deployer \in Pubkeys /\ program.authority \in Pubkeys
     ELSE program.deployer = NONE /\ program.authority = NONE
  /\ config.exists => program.exists
  /\ binary \in Pubkeys \cup {NONE}

(* The flags of a job only go up: a binary is never removed, a route never *)
(* deleted.                                                                *)
PipelineInv ==
  /\ RegistryInv
  /\ ProgramInv
  /\ job = [t \in Terminals |-> job[t]]
  /\ Jobs
  /\ \A tx \in late : IsTx(tx)

-----------------------------------------------------------------------------
(* Jobs.                                                                   *)

(* An edit of a job leaves the other fields alone.                         *)
LEMMA JobWithSteps ==
  ASSUME NEW j, JobShape(j), NEW todo
  PROVE  [j EXCEPT !.todo = todo]
           = [wallet |-> j.wallet, env |-> j.env, todo |-> todo, tx |-> j.tx,
              paused |-> j.paused, report |-> j.report]
  BY DEF JobShape

LEMMA JobEdited ==
  ASSUME NEW j, JobShape(j), NEW todo, NEW tx, NEW report
  PROVE  [j EXCEPT !.todo = todo, !.tx = tx, !.report = report]
           = [wallet |-> j.wallet, env |-> j.env, todo |-> todo, tx |-> tx,
              paused |-> j.paused, report |-> report]
<1> DEFINE k == [j EXCEPT !.todo = todo]
           l == [k EXCEPT !.tx = tx]
           m == [l EXCEPT !.report = report]
<1>1. k = [wallet |-> j.wallet, env |-> j.env, todo |-> todo, tx |-> j.tx,
           paused |-> j.paused, report |-> j.report]
  BY JobWithSteps
<1>2. l = [wallet |-> j.wallet, env |-> j.env, todo |-> todo, tx |-> tx,
           paused |-> j.paused, report |-> j.report]
  <2> HIDE DEF k
  <2> QED BY <1>1
<1>3. m = [wallet |-> j.wallet, env |-> j.env, todo |-> todo, tx |-> tx,
           paused |-> j.paused, report |-> report]
  <2> HIDE DEF l
  <2> QED BY <1>2
<1>4. [j EXCEPT !.todo = todo, !.tx = tx, !.report = report] = m
  OBVIOUS
<1> HIDE DEF m
<1> QED BY <1>3, <1>4

(* An idle terminal has nothing left to do but to show its report.         *)
LEMMA IdleIsSound ==
  ASSUME NEW report, NEW built, NEW agent, NEW found,
         report \in {"CONFIGURED", "READY"} => found
  PROVE  JobInv(Idle(report), built, agent, found)
<1>1. DOMAIN <<>> = {} /\ <<>> \in Seq(StepNames)
  OBVIOUS
<1>2. IsEnv(<<>>)
  BY <1>1 DEF IsEnv
<1>3. JobType(Idle(report))
  BY <1>1, <1>2 DEF JobType, JobShape, Idle
<1> QED BY <1>1, <1>3 DEF JobInv, Idle, Awaits, Includes

(* What a job relies on never goes away.                                   *)
LEMMA FlagsMayRise ==
  ASSUME NEW j, NEW built, NEW agent, NEW found, NEW built2, NEW agent2, NEW found2,
         JobInv(j, built, agent, found),
         built => built2, agent => agent2, found => found2
  PROVE  JobInv(j, built2, agent2, found2)
  BY DEF JobInv

(* A step is done: what it was to leave behind is there.                   *)
LEMMA AdvancedIsSound ==
  ASSUME NEW j, NEW report, NEW built, NEW agent, NEW found,
         JobInv(j, built, agent, found), j.todo # <<>>,
         Head(j.todo) \in Makers => built,
         Head(j.todo) = "agent" => agent,
         report \in {"CONFIGURED", "READY"} => found
  PROVE  JobInv(Advanced(j, report), built, agent, found)
<1>1. CASE Len(j.todo) = 1
  BY <1>1, IdleIsSound DEF Advanced
<1>2. CASE Len(j.todo) # 1
  <2> DEFINE todo == Tail(j.todo)
             k == [j EXCEPT !.todo = todo, !.tx = NONE, !.report = report]
  <2>1. j.todo \in Seq(StepNames) /\ Tail(j.todo) \in Seq(StepNames)
    BY HeadTailProperties DEF JobInv, JobType
  <2>2. /\ k = [wallet |-> j.wallet, env |-> j.env, todo |-> todo, tx |-> NONE,
                paused |-> j.paused, report |-> report]
        /\ k.wallet = j.wallet /\ k.env = j.env /\ k.todo = todo /\ k.tx = NONE
        /\ k.report = report
    <3>1. JobShape(j)
      BY DEF JobInv, JobType
    <3>2. k = [wallet |-> j.wallet, env |-> j.env, todo |-> todo, tx |-> NONE,
               paused |-> j.paused, report |-> report]
      <4> HIDE DEF todo
      <4> QED BY <3>1, JobEdited
    <3> HIDE DEF k, todo
    <3> QED BY <3>2
  <2>3. k.todo = Tail(j.todo)
    BY <2>2
  <2> HIDE DEF k, todo
  <2>4. JobType(k)
    BY <2>1, <2>2 DEF JobInv, JobType, JobShape, todo
  <2>5. Includes(k.todo, "deploy") => k.wallet \in Pubkeys
    BY <2>1, <2>2, <2>3, IncludesInTail DEF JobInv
  <2>6. built \/ Awaits(k.todo, "deploy", Makers)
    BY <2>1, <2>3, AwaitsInTail DEF JobInv
  <2>7. agent \/ Awaits(k.todo, "merchant", {"agent"})
    BY <2>1, <2>3, AwaitsInTail DEF JobInv
  <2>8. JobInv(k, built, agent, found)
    BY <2>2, <2>4, <2>5, <2>6, <2>7 DEF JobInv
  <2> QED BY <1>2, <2>8 DEF Advanced, k, todo
<1> QED BY <1>1, <1>2

(* A step is put off until the operator has answered a prompt.             *)
LEMMA PromptIsSound ==
  ASSUME NEW j, NEW prompt \in Prompts, NEW built, NEW agent, NEW found,
         JobInv(j, built, agent, found), j.todo # <<>>,
         Head(j.todo) \in {"anchor", "find config"}
  PROVE  JobInv([j EXCEPT !.todo = <<prompt>> \o Tail(@)], built, agent, found)
<1> DEFINE todo == <<prompt>> \o Tail(j.todo)
           k == [j EXCEPT !.todo = todo]
<1>1. /\ j.todo \in Seq(StepNames)
      /\ prompt \in StepNames /\ prompt # "deploy" /\ prompt # "merchant"
      /\ Head(j.todo) \notin Makers /\ Head(j.todo) # "agent"
  BY DEF JobInv, JobType, Prompts, StepNames, Makers
<1>2. todo \in Seq(StepNames)
  <2>1. Tail(j.todo) \in Seq(StepNames)
    BY <1>1, HeadTailProperties
  <2>2. <<prompt>> \in Seq(StepNames)
    BY <1>1, SingleStep
  <2> QED BY <2>1, <2>2, ConcatProperties
<1>3. built \/ Awaits(todo, "deploy", Makers)
  BY <1>1, AwaitsWithPrompt DEF JobInv
<1>4. agent \/ Awaits(todo, "merchant", {"agent"})
  BY <1>1, AwaitsWithPrompt DEF JobInv
<1>5. Includes(todo, "deploy") => j.wallet \in Pubkeys
  BY <1>1, IncludesInTail DEF JobInv
<1>6. j.tx = NONE
  BY DEF JobInv, JobType, Sent
<1> HIDE DEF todo
<1>7. k = [wallet |-> j.wallet, env |-> j.env, todo |-> todo, tx |-> NONE,
           paused |-> j.paused, report |-> j.report]
  <2>1. JobShape(j)
    BY DEF JobInv, JobType
  <2>2. k = [wallet |-> j.wallet, env |-> j.env, todo |-> todo, tx |-> j.tx,
             paused |-> j.paused, report |-> j.report]
    BY <2>1, JobWithSteps
  <2> HIDE DEF k
  <2> QED BY <1>6, <2>2
<1> HIDE DEF k
<1>8. JobType(k)
  BY <1>2, <1>7 DEF JobInv, JobType, JobShape
<1>9. JobInv(k, built, agent, found)
  BY <1>3, <1>4, <1>5, <1>7, <1>8 DEF JobInv
<1> QED BY <1>9 DEF k, todo

(* A transaction is sent by the step it belongs to.                        *)
LEMMA SentIsSound ==
  ASSUME NEW j, NEW tx, NEW built, NEW agent, NEW found,
         JobInv(j, built, agent, found), j.todo # <<>>,
         IsTx(tx), Sent(Head(j.todo), tx)
  PROVE  JobInv([j EXCEPT !.tx = tx], built, agent, found)
<1> DEFINE k == [j EXCEPT !.tx = tx]
<1>1. k = [wallet |-> j.wallet, env |-> j.env, todo |-> j.todo, tx |-> tx,
           paused |-> j.paused, report |-> j.report]
  BY DEF JobInv, JobType, JobShape
<1> HIDE DEF k
<1>2. JobType(k)
  BY <1>1 DEF JobInv, JobType, JobShape
<1>3. JobInv(k, built, agent, found)
  BY <1>1, <1>2 DEF JobInv
<1> QED BY <1>3 DEF k

-----------------------------------------------------------------------------
(* Scripts.                                                                *)

InOrder(s) ==
  /\ s \in Seq(StepNames)
  /\ Awaits(s, "deploy", Makers)
  /\ Awaits(s, "merchant", {"agent"})

LEMMA OrderInConcatenation ==
  ASSUME NEW a, NEW b, InOrder(a), b \in Seq(StepNames),
         Awaits(b, "deploy", Makers) \/ Meets(a, Makers),
         Awaits(b, "merchant", {"agent"})
  PROVE  InOrder(a \o b)
<1>1. a \in Seq(StepNames) /\ a \o b \in Seq(StepNames)
  BY ConcatProperties DEF InOrder
<1>2. Awaits(a \o b, "deploy", Makers)
  <2> HIDE DEF Makers
  <2> QED BY <1>1, AwaitsInConcatenation DEF InOrder, Meets
<1>3. Awaits(a \o b, "merchant", {"agent"})
  BY <1>1, AwaitsInConcatenation DEF InOrder
<1> QED BY <1>1, <1>2, <1>3 DEF InOrder

LEMMA PairInOrder ==
  ASSUME NEW x \in StepNames, NEW y \in StepNames,
         x # "deploy", x # "merchant", y # "deploy", y # "merchant"
  PROVE  InOrder(<<x, y>>) /\ \A S : x \in S => Meets(<<x, y>>, S)
<1> DEFINE s == <<x, y>>
<1>1. s \in Seq(StepNames)
  <2> HIDE DEF StepNames
  <2> QED OBVIOUS
<1>2. Len(s) = 2 /\ s[1] = x /\ s[2] = y /\ DOMAIN s = 1 .. 2
  OBVIOUS
<1> HIDE DEF s
<1>3. Awaits(s, "deploy", Makers) /\ Awaits(s, "merchant", {"agent"})
  <2> HIDE DEF Makers
  <2> QED BY <1>2 DEF Awaits
<1>4. \A S : x \in S => Meets(s, S)
  BY <1>2 DEF Meets
<1> QED BY <1>1, <1>3, <1>4 DEF InOrder, s

LEMMA ChecksOnlyRead ==
  \A i \in DOMAIN CheckSteps : CheckSteps[i] # "deploy" /\ CheckSteps[i] # "merchant"
<1>1. /\ DOMAIN CheckSteps = 1 .. 3
      /\ CheckSteps[1] = "read program" /\ CheckSteps[2] = "read config"
      /\ CheckSteps[3] = "read routes"
  BY DEF CheckSteps
<1>2. \A i \in 1 .. 3 : i = 1 \/ i = 2 \/ i = 3
  OBVIOUS
<1> QED BY <1>1, <1>2

(* The pieces the scripts are made of.                                     *)
LEMMA Pieces ==
  /\ InOrder(<<>>) /\ InOrder(<<"confirm">>) /\ InOrder(<<"anchor">>)
  /\ InOrder(RouteSteps) /\ InOrder(CheckSteps) /\ InOrder(<<"find config", "initialize">>)
  /\ <<"deploy">> \in Seq(StepNames) /\ Awaits(<<"deploy">>, "merchant", {"agent"})
<1>1. /\ <<>> \in Seq(StepNames) /\ <<"confirm">> \in Seq(StepNames)
      /\ <<"anchor">> \in Seq(StepNames) /\ <<"deploy">> \in Seq(StepNames)
  BY DEF StepNames, Prompts
<1>2. RouteSteps \in Seq(StepNames) /\ CheckSteps \in Seq(StepNames)
  BY DEF StepNames, RouteSteps, CheckSteps
<1>3. /\ Awaits(<<>>, "deploy", Makers) /\ Awaits(<<>>, "merchant", {"agent"})
      /\ Awaits(<<"confirm">>, "deploy", Makers) /\ Awaits(<<"confirm">>, "merchant", {"agent"})
      /\ Awaits(<<"anchor">>, "deploy", Makers) /\ Awaits(<<"anchor">>, "merchant", {"agent"})
      /\ Awaits(<<"deploy">>, "merchant", {"agent"})
  <2> HIDE DEF Makers
  <2> QED BY DEF Awaits
<1>4. Awaits(RouteSteps, "deploy", Makers)
  <2>1. \A i \in DOMAIN RouteSteps : RouteSteps[i] # "deploy"
    BY DEF RouteSteps
  <2> QED BY <2>1 DEF Awaits
<1>5. Awaits(RouteSteps, "merchant", {"agent"})
  BY DEF Awaits, RouteSteps
<1>6. Awaits(CheckSteps, "deploy", Makers) /\ Awaits(CheckSteps, "merchant", {"agent"})
  BY ChecksOnlyRead DEF Awaits
<1>7. InOrder(<<"find config", "initialize">>)
  BY PairInOrder DEF StepNames
<1> QED BY <1>1, <1>2, <1>3, <1>4, <1>5, <1>6, <1>7 DEF InOrder

LEMMA BuildThenDeploy ==
  ASSUME NEW flags
  PROVE  /\ InOrder(BuildSteps(flags)) /\ Meets(BuildSteps(flags), Makers)
         /\ DeploySteps(flags) \in Seq(StepNames)
         /\ Awaits(DeploySteps(flags), "merchant", {"agent"})
<1>1. ASSUME NEW maker \in Makers
      PROVE  InOrder(<<maker, "authority">>) /\ Meets(<<maker, "authority">>, Makers)
  <2>1. /\ maker \in StepNames /\ "authority" \in StepNames
        /\ maker # "deploy" /\ maker # "merchant"
    BY DEF StepNames, Makers
  <2> HIDE DEF Makers
  <2> QED BY <2>1, PairInOrder
<1>2. InOrder(BuildSteps(flags)) /\ Meets(BuildSteps(flags), Makers)
  <2>1. "build" \in Makers /\ "find binary" \in Makers
    BY DEF Makers
  <2>2. CASE flags.skip_build
    BY <1>1, <2>1, <2>2 DEF BuildSteps
  <2>3. CASE ~flags.skip_build
    BY <1>1, <2>1, <2>3 DEF BuildSteps
  <2> QED BY <2>2, <2>3
<1>3. /\ DeploySteps(flags) \in Seq(StepNames)
      /\ Awaits(DeploySteps(flags), "merchant", {"agent"})
  <2> DEFINE ask == When(~flags.yes, <<"confirm">>)
  <2>1. InOrder(ask)
    BY Pieces DEF When
  <2> HIDE DEF ask
  <2>2. /\ ask \o <<"deploy">> \in Seq(StepNames)
        /\ Awaits(ask \o <<"deploy">>, "merchant", {"agent"})
    BY <2>1, Pieces, AwaitsInConcatenation DEF InOrder
  <2> QED BY <2>2 DEF DeploySteps, ask
<1> QED BY <1>2, <1>3

LEMMA MainnetOrder ==
  ASSUME NEW flags
  PROVE  InOrder(BuildSteps(flags) \o DeploySteps(flags))
  BY BuildThenDeploy, OrderInConcatenation

LEMMA LedgerOrder ==
  ASSUME NEW flags, NEW env, NEW wallet
  PROVE  InOrder(LedgerSteps(flags, env, wallet))
<1> DEFINE a == When(env["SPLITTER_DEPLOYER"] # wallet /\ ~flags.yes, <<"confirm">>)
           b == BuildSteps(flags)
           c == DeploySteps(flags)
           ask == When(~flags.yes, <<"confirm">>)
           d == When(~flags.skip_init, ask \o <<"anchor">>)
           e == When(~flags.skip_routes /\ "ADMIN_KEYPAIR_PATH" \in DOMAIN env, RouteSteps)
           f == When(~flags.skip_verify, CheckSteps)
<1>1. InOrder(a) /\ InOrder(e) /\ InOrder(f)
  BY Pieces DEF When
<1>2. InOrder(d)
  <2>1. InOrder(ask)
    BY Pieces DEF When
  <2> HIDE DEF ask
  <2>2. InOrder(ask \o <<"anchor">>)
    BY <2>1, Pieces, OrderInConcatenation DEF InOrder
  <2> QED BY <2>2, Pieces DEF When
<1>3. /\ InOrder(b) /\ Meets(b, Makers)
      /\ c \in Seq(StepNames) /\ Awaits(c, "merchant", {"agent"})
  BY BuildThenDeploy
<1> HIDE DEF a, b, c, d, e, f
<1>4. InOrder(a \o b) /\ Meets(a \o b, Makers)
  BY <1>1, <1>3, OrderInConcatenation, MeetsInConcatenation DEF InOrder
<1>5. InOrder((a \o b) \o c)
  BY <1>3, <1>4, OrderInConcatenation
<1>6. InOrder(((a \o b) \o c) \o d)
  BY <1>2, <1>5, OrderInConcatenation DEF InOrder
<1>7. InOrder((((a \o b) \o c) \o d) \o e)
  BY <1>1, <1>6, OrderInConcatenation DEF InOrder
<1>8. InOrder(((((a \o b) \o c) \o d) \o e) \o f)
  BY <1>1, <1>7, OrderInConcatenation DEF InOrder
<1> QED BY <1>8 DEF LedgerSteps, a, b, c, d, e, f

-----------------------------------------------------------------------------
(* Steps that change jobs.                                                 *)

LEMMA JobsFollow ==
  ASSUME Jobs, job = [u \in Terminals |-> job[u]], NEW t \in Terminals, NEW k,
         job' = [job EXCEPT ![t] = k], JobInv(k, IsBuilt', AgentFound', RoutesFound'),
         IsBuilt => IsBuilt', AgentFound => AgentFound', RoutesFound => RoutesFound'
  PROVE  Jobs' /\ job' = [u \in Terminals |-> job'[u]]
<1>1. job' = [u \in Terminals |-> IF u = t THEN k ELSE job[u]]
  OBVIOUS
<1>2. ASSUME NEW u \in Terminals
      PROVE  JobInv(job'[u], IsBuilt', AgentFound', RoutesFound')
  <2>1. JobInv(job[u], IsBuilt', AgentFound', RoutesFound')
    BY FlagsMayRise DEF Jobs
  <2> QED BY <1>1, <2>1
<1> QED BY <1>1, <1>2 DEF Jobs

LEMMA JobsRemain ==
  ASSUME Jobs, job = [u \in Terminals |-> job[u]], job' = job,
         IsBuilt => IsBuilt', AgentFound => AgentFound', RoutesFound => RoutesFound'
  PROVE  Jobs' /\ job' = [u \in Terminals |-> job'[u]]
<1>1. ASSUME NEW u \in Terminals
      PROVE  JobInv(job'[u], IsBuilt', AgentFound', RoutesFound')
  BY FlagsMayRise DEF Jobs
<1> QED BY <1>1 DEF Jobs

LEMMA RegistryRemains ==
  ASSUME RegistryInv, UNCHANGED chain
  PROVE  RegistryInv' /\ AgentFound' = AgentFound /\ RoutesFound' = RoutesFound
<1>1. now' = now /\ config' = config /\ profiles' = profiles /\ count' = count
      /\ token_list' = token_list
  BY DEF chain
<1>2. RegistryInv'
  BY <1>1 DEF RegistryInv, RoutesType, RouteTable, RolesFilled, EmptyBeforeInitialize
<1>3. \A route_id : RouteExists(route_id)' = RouteExists(route_id)
  BY <1>1 DEF RouteExists, Entries
<1> QED BY <1>2, <1>3 DEF AgentFound, RoutesFound

(* A step of one script that leaves everything but its job alone.          *)
LEMMA QuietStepKeeps ==
  ASSUME PipelineInv, NEW t \in Terminals, NEW k, job' = [job EXCEPT ![t] = k],
         JobInv(k, IsBuilt, AgentFound, RoutesFound),
         UNCHANGED <<chain, binary, program, late>>
  PROVE  PipelineInv'
<1>1. RegistryInv' /\ AgentFound' = AgentFound /\ RoutesFound' = RoutesFound
  BY RegistryRemains DEF PipelineInv
<1>2. IsBuilt' = IsBuilt
  BY DEF IsBuilt
<1>3. Jobs' /\ job' = [u \in Terminals |-> job'[u]]
  BY <1>1, <1>2, JobsFollow DEF PipelineInv
<1>4. ProgramInv'
  BY DEF PipelineInv, ProgramInv, chain
<1> QED BY <1>1, <1>3, <1>4 DEF PipelineInv

LEMMA OverIsEnv ==
  ASSUME NEW upper, NEW lower, IsEnv(upper), IsEnv(lower)
  PROVE  IsEnv(Over(upper, lower))
  BY DEF IsEnv, Over

LEMMA BegunIsSound ==
  ASSUME NEW wallet \in Pubkeys \cup {NONE}, NEW env, IsEnv(env), NEW steps, InOrder(steps),
         Includes(steps, "deploy") => wallet \in Pubkeys,
         NEW built, NEW agent, NEW found
  PROVE  JobInv(Running(wallet, env, steps), built, agent, found)
<1> DEFINE k == Running(wallet, env, steps)
<1>1. k = [wallet |-> wallet, env |-> env, todo |-> steps, tx |-> NONE,
           paused |-> FALSE, report |-> ""]
  BY DEF Running
<1> HIDE DEF k
<1>2. JobType(k)
  BY <1>1 DEF InOrder, JobType, JobShape
<1>3. JobInv(k, built, agent, found)
  BY <1>1, <1>2 DEF JobInv, InOrder
<1> QED BY <1>3 DEF k

LEMMA StartKeeps ==
  ASSUME PipelineInv, NEW t \in Terminals, Start(t)
  PROVE  PipelineInv'
<1>1. ASSUME NEW wallet \in Pubkeys \cup {NONE}, NEW env, IsEnv(env), NEW steps, InOrder(steps),
             Includes(steps, "deploy") => wallet \in Pubkeys, Begin(t, wallet, env, steps)
      PROVE  PipelineInv'
  BY <1>1, BegunIsSound, QuietStepKeeps DEF Begin
<1>2. Wallets \subseteq Pubkeys /\ \A shell \in Shells : IsEnv(shell)
      /\ IsEnv(ENV_LOCAL) /\ IsEnv(ENV_PRODUCTION)
  BY PipelineAssumption
<1>3. CASE StartLedgerDeploy(t)
  <2>1. PICK wallet \in Wallets \ FileKeys, shell \in Shells, flags \in Flags :
          Begin(t, wallet, LedgerEnv(shell), LedgerSteps(flags, LedgerEnv(shell), wallet))
    BY <1>3 DEF StartLedgerDeploy
  <2>2. IsEnv(LedgerEnv(shell))
    BY <1>2, OverIsEnv DEF LedgerEnv
  <2> QED BY <1>1, <1>2, <2>1, <2>2, LedgerOrder
<1>4. CASE StartMainnetDeploy(t)
  <2>1. PICK wallet \in Wallets, shell \in Shells, flags \in Flags :
          Begin(t, wallet, shell, BuildSteps(flags) \o DeploySteps(flags))
    BY <1>4 DEF StartMainnetDeploy
  <2> QED BY <1>1, <1>2, <2>1, MainnetOrder
<1>5. CASE StartNodeScript(t)
  <2>1. PICK shell \in Shells,
             steps \in {<<"find config", "initialize">>, RouteSteps, CheckSteps} :
          Begin(t, NONE, shell, steps)
    BY <1>5 DEF StartNodeScript
  <2>2. InOrder(steps)
    BY <2>1, Pieces
  <2>3. ~Includes(steps, "deploy")
    <3>1. ~Includes(<<"find config", "initialize">>, "deploy")
      BY PairIncludesOnly
    <3>2. ~Includes(RouteSteps, "deploy")
      BY PairIncludesOnly DEF RouteSteps
    <3>3. ~Includes(CheckSteps, "deploy")
      BY ChecksOnlyRead DEF Includes
    <3> QED BY <2>1, <3>1, <3>2, <3>3
  <2> QED BY <1>1, <1>2, <2>1, <2>2, <2>3
<1> QED BY <1>3, <1>4, <1>5 DEF Start

LEMMA ReportStays ==
  ASSUME PipelineInv, NEW t \in Terminals
  PROVE  /\ JobInv(job[t], IsBuilt, AgentFound, RoutesFound)
         /\ job[t].report \in {"CONFIGURED", "READY"} => RoutesFound
  BY DEF PipelineInv, Jobs, JobInv

(* A script that stops, for whatever reason, leaves what it has reported.  *)
LEMMA StopKeeps ==
  ASSUME PipelineInv, NEW t \in Terminals, Stop(t), UNCHANGED <<chain, binary, program, late>>
  PROVE  PipelineInv'
<1>1. JobInv(Idle(job[t].report), IsBuilt, AgentFound, RoutesFound)
  BY ReportStays, IdleIsSound
<1>2. job' = [job EXCEPT ![t] = Idle(job[t].report)]
  BY DEF Stop
<1> QED BY <1>1, <1>2, QuietStepKeeps

(* The step is done and has changed nothing but the script's own state.    *)
LEMMA AdvanceKeeps ==
  ASSUME PipelineInv, NEW t \in Terminals, job[t].todo # <<>>, Head(job[t].todo) # "agent",
         Head(job[t].todo) \in Makers => IsBuilt,
         Advance(t), UNCHANGED <<chain, binary, program, late>>
  PROVE  PipelineInv'
<1>1. JobInv(Advanced(job[t], job[t].report), IsBuilt, AgentFound, RoutesFound)
  BY ReportStays, AdvancedIsSound
<1>2. job' = [job EXCEPT ![t] = Advanced(job[t], job[t].report)]
  BY DEF Advance
<1> QED BY <1>1, <1>2, QuietStepKeeps

LEMMA PromptKeeps ==
  ASSUME PipelineInv, NEW t \in Terminals, NEW prompt \in Prompts, job[t].todo # <<>>,
         Head(job[t].todo) \in {"anchor", "find config"},
         job' = [job EXCEPT ![t].todo = <<prompt>> \o Tail(@)],
         UNCHANGED <<chain, binary, program, late>>
  PROVE  PipelineInv'
<1>1. JobInv([job[t] EXCEPT !.todo = <<prompt>> \o Tail(@)], IsBuilt, AgentFound, RoutesFound)
  BY ReportStays, PromptIsSound
<1>2. job' = [job EXCEPT ![t] = [job[t] EXCEPT !.todo = <<prompt>> \o Tail(@)]]
  OBVIOUS
<1> QED BY <1>1, <1>2, QuietStepKeeps

LEMMA SendKeeps ==
  ASSUME PipelineInv, NEW t \in Terminals, NEW tx, job[t].todo # <<>>,
         IsTx(tx), Sent(Head(job[t].todo), tx),
         job' = [job EXCEPT ![t].tx = tx], UNCHANGED <<chain, binary, program, late>>
  PROVE  PipelineInv'
<1>1. JobInv([job[t] EXCEPT !.tx = tx], IsBuilt, AgentFound, RoutesFound)
  BY ReportStays, SentIsSound
<1>2. job' = [job EXCEPT ![t] = [job[t] EXCEPT !.tx = tx]]
  OBVIOUS
<1> QED BY <1>1, <1>2, QuietStepKeeps

LEMMA NodeEnvOfJob ==
  ASSUME PipelineInv, NEW t \in Terminals
  PROVE  IsEnv(NodeEnv(job[t].env))
<1>1. IsEnv(job[t].env)
  BY DEF PipelineInv, Jobs, JobInv, JobType
<1> QED BY <1>1, PipelineAssumption, OverIsEnv DEF NodeEnv

LEMMA SendInitializeKeeps ==
  ASSUME PipelineInv, NEW t \in Terminals, SendInitialize(t)
  PROVE  PipelineInv'
<1> DEFINE env == NodeEnv(job[t].env)
<1>1. job[t].todo # <<>> /\ Head(job[t].todo) = "initialize"
      /\ UNCHANGED <<chain, binary, program, late>>
  BY DEF SendInitialize, At
<1>2. CASE Stop(t)
  BY <1>1, <1>2, StopKeeps
<1>3. CASE ~Stop(t)
  <2> DEFINE tx == [instruction |-> "initialize", args |-> EnvParams(env),
                    signer |-> env["DEPLOYER_KEYPAIR_PATH"]]
  <2>1. /\ env["DEPLOYER_KEYPAIR_PATH"] \in FileKeys
        /\ {"ADMIN_PUBKEY", "TREASURY_PUBKEY"} \subseteq DOMAIN env
        /\ job' = [job EXCEPT ![t].tx = tx]
    BY <1>3 DEF SendInitialize, CanSign
  <2> HIDE DEF env
  <2>2. env["ADMIN_PUBKEY"] \in Pubkeys /\ env["TREASURY_PUBKEY"] \in Pubkeys
    BY <2>1, NodeEnvOfJob DEF IsEnv, env
  <2>3. EnvParams(env) \in InitParamType
    BY <2>2, PipelineAssumption DEF EnvParams, InitParamType
  <2>4. IsTx(tx) /\ Sent("initialize", tx)
    BY <2>1, <2>3 DEF IsTx, Sent
  <2> HIDE DEF tx
  <2> QED BY <1>1, <2>1, <2>4, SendKeeps
<1> QED BY <1>2, <1>3

LEMMA SendRouteKeeps ==
  ASSUME PipelineInv, NEW t \in Terminals, SendRoute(t)
  PROVE  PipelineInv'
<1> DEFINE env == NodeEnv(job[t].env)
           step == Head(job[t].todo)
<1>1. /\ job[t].todo # <<>> /\ step \in {"agent", "merchant"}
      /\ UNCHANGED <<chain, binary, program, late>>
  BY DEF SendRoute, At
<1>2. CASE Stop(t)
  BY <1>1, <1>2, StopKeeps
<1>3. CASE ~Stop(t)
  <2> DEFINE update == RouteOf(step, env)
             tx == [instruction |-> "configure_route", args |-> update,
                    signer |-> env["ADMIN_KEYPAIR_PATH"]]
  <2>1. /\ env["ADMIN_KEYPAIR_PATH"] \in FileKeys /\ "TREASURY_PUBKEY" \in DOMAIN env
        /\ job' = [job EXCEPT ![t].tx = tx]
    BY <1>3 DEF SendRoute, CanSign
  <2> HIDE DEF env
  <2>2. env["TREASURY_PUBKEY"] \in Pubkeys
    BY <2>1, NodeEnvOfJob DEF IsEnv, env
  <2>3. /\ update \in RouteUpdateType
        /\ step = "agent" => update.route_id = AGENT_X402
        /\ step = "merchant" => update.route_id = MERCHANT_AIFP1
    BY <2>2, PipelineAssumption DEF RouteOf, RouteUpdateType
  <2> HIDE DEF update
  <2>4. IsTx(tx) /\ Sent(step, tx)
    <3> HIDE DEF step
    <3> QED BY <1>1, <2>1, <2>3 DEF IsTx, Sent
  <2> HIDE DEF tx
  <2> QED BY <1>1, <2>1, <2>4, SendKeeps
<1> QED BY <1>2, <1>3

LEMMA PausedIsFree ==
  ASSUME NEW j, NEW paused, NEW built, NEW agent, NEW found, JobInv(j, built, agent, found)
  PROVE  JobInv([j EXCEPT !.paused = paused], built, agent, found)
<1> DEFINE k == [j EXCEPT !.paused = paused]
<1>1. k = [wallet |-> j.wallet, env |-> j.env, todo |-> j.todo, tx |-> j.tx,
           paused |-> paused, report |-> j.report]
  BY DEF JobInv, JobType, JobShape
<1> HIDE DEF k
<1>2. JobType(k)
  BY <1>1 DEF JobInv, JobType, JobShape
<1>3. JobInv(k, built, agent, found)
  BY <1>1, <1>2 DEF JobInv
<1> QED BY <1>3 DEF k

(* Reading and prompting.                                                  *)
LEMMA LookingKeeps ==
  ASSUME PipelineInv, NEW t \in Terminals,
         \/ FindBinary(t) \/ CheckAuthority(t) \/ RunAnchor(t) \/ Answer(t)
         \/ FindConfig(t) \/ ReadProgram(t) \/ ReadConfig(t) \/ ReadRoutes(t)
  PROVE  PipelineInv'
<1> DEFINE step == Head(job[t].todo)
<1>1. UNCHANGED <<chain, binary, program, late>> /\ job[t].todo # <<>>
  BY DEF FindBinary, CheckAuthority, RunAnchor, Answer, FindConfig, ReadProgram, ReadConfig,
         ReadRoutes, At
<1>2. CASE Stop(t)
  BY <1>1, <1>2, StopKeeps
<1>3. ASSUME Advance(t), step # "agent", step \in Makers => IsBuilt
      PROVE  PipelineInv'
  BY <1>1, <1>3, AdvanceKeeps
<1>4. CASE FindBinary(t) /\ ~Stop(t)
  <2>1. Advance(t) /\ step = "find binary" /\ IsBuilt
    BY <1>4 DEF FindBinary, At, IsBuilt
  <2> QED BY <1>3, <2>1
<1>5. CASE CheckAuthority(t) /\ ~Stop(t)
  <2>1. Advance(t) /\ step = "authority"
    BY <1>5 DEF CheckAuthority, At
  <2> QED BY <1>3, <2>1 DEF Makers
<1>6. CASE RunAnchor(t)
  <2>1. step = "anchor" /\ job' = [job EXCEPT ![t].todo = <<"manual initialize">> \o Tail(@)]
    BY <1>6 DEF RunAnchor, At
  <2> QED BY <1>1, <2>1, PromptKeeps DEF Prompts
<1>7. CASE Answer(t)
  <2>1. Advance(t) /\ step \in Prompts
    BY <1>7 DEF Answer
  <2> QED BY <1>3, <2>1 DEF Makers, Prompts
<1>8. CASE FindConfig(t)
  <2>1. step = "find config"
    BY <1>8 DEF FindConfig, At
  <2>2. Advance(t) \/ job' = [job EXCEPT ![t].todo = <<"confirm">> \o Tail(@)]
    BY <1>8 DEF FindConfig
  <2>3. CASE Advance(t)
    BY <1>3, <2>1, <2>3 DEF Makers
  <2>4. CASE job' = [job EXCEPT ![t].todo = <<"confirm">> \o Tail(@)]
    BY <1>1, <2>1, <2>4, PromptKeeps DEF Prompts
  <2> QED BY <2>2, <2>3, <2>4
<1>9. CASE ReadProgram(t) /\ ~Stop(t)
  <2>1. Advance(t) /\ step = "read program"
    BY <1>9 DEF ReadProgram, At
  <2> QED BY <1>3, <2>1 DEF Makers
<1>10. CASE ReadConfig(t) /\ ~Stop(t)
  <2> DEFINE read == Advanced(job[t], job[t].report)
             k == [read EXCEPT !.paused = config.is_paused]
  <2>1. step = "read config" /\ job' = [job EXCEPT ![t] = k]
    BY <1>10 DEF ReadConfig, At
  <2>2. JobInv(read, IsBuilt, AgentFound, RoutesFound)
    BY <1>1, <2>1, ReportStays, AdvancedIsSound DEF Makers
  <2> HIDE DEF read
  <2>3. JobInv(k, IsBuilt, AgentFound, RoutesFound)
    BY <2>2, PausedIsFree
  <2> HIDE DEF k
  <2> QED BY <1>1, <2>1, <2>3, QuietStepKeeps
<1>11. CASE ReadRoutes(t)
  <2> DEFINE report == IF ~job[t].paused /\ RoutesFound THEN "READY" ELSE "NOT READY"
             k == Advanced(job[t], report)
  <2>1. step = "read routes" /\ job' = [job EXCEPT ![t] = k]
    BY <1>11 DEF ReadRoutes, At
  <2>2. report \in {"CONFIGURED", "READY"} => RoutesFound
    OBVIOUS
  <2> HIDE DEF report
  <2>3. JobInv(k, IsBuilt, AgentFound, RoutesFound)
    BY <1>1, <2>1, <2>2, ReportStays, AdvancedIsSound DEF Makers
  <2> HIDE DEF k
  <2> QED BY <1>1, <2>1, <2>3, QuietStepKeeps
<1> QED BY <1>2, <1>4, <1>5, <1>6, <1>7, <1>8, <1>9, <1>10, <1>11

-----------------------------------------------------------------------------
(* Building and deploying.                                                 *)

LEMMA BakedIsKey ==
  ASSUME NEW env, IsEnv(env)
  PROVE  BakedKey(env) \in Pubkeys /\ BakedKey(env) # NONE
  BY PipelineAssumption DEF BakedKey, IsEnv

LEMMA BuildKeeps ==
  ASSUME PipelineInv, NEW t \in Terminals, Build(t)
  PROVE  PipelineInv'
<1> DEFINE k == Advanced(job[t], job[t].report)
<1>1. /\ job' = [job EXCEPT ![t] = k] /\ job[t].todo # <<>> /\ Head(job[t].todo) = "build"
      /\ binary' = BakedKey(job[t].env) /\ UNCHANGED <<chain, program, late>>
  BY DEF Build, At, Advance
<1>2. binary' \in Pubkeys /\ IsBuilt'
  <2>1. IsEnv(job[t].env)
    BY DEF PipelineInv, Jobs, JobInv, JobType
  <2> QED BY <1>1, <2>1, BakedIsKey DEF IsBuilt
<1>3. RegistryInv' /\ AgentFound' = AgentFound /\ RoutesFound' = RoutesFound
  BY <1>1, RegistryRemains DEF PipelineInv
<1>4. JobInv(job[t], IsBuilt', AgentFound', RoutesFound')
  <2>1. JobInv(job[t], IsBuilt, AgentFound, RoutesFound)
    BY ReportStays
  <2> QED BY <1>2, <1>3, <2>1 DEF JobInv
<1>5. JobInv(k, IsBuilt', AgentFound', RoutesFound')
  BY <1>1, <1>2, <1>3, <1>4, ReportStays, AdvancedIsSound
<1> HIDE DEF k
<1>6. Jobs' /\ job' = [u \in Terminals |-> job'[u]]
  BY <1>1, <1>2, <1>3, <1>5, JobsFollow DEF PipelineInv
<1>7. ProgramInv'
  BY <1>1, <1>2 DEF PipelineInv, ProgramInv, chain
<1> QED BY <1>1, <1>3, <1>6, <1>7 DEF PipelineInv

LEMMA LocalBuildKeeps ==
  ASSUME PipelineInv, LocalBuild
  PROVE  PipelineInv'
<1>1. binary' = BakedKey(<<>>) /\ UNCHANGED <<chain, program, job, late>>
  BY DEF LocalBuild
<1>2. binary' \in Pubkeys /\ IsBuilt'
  <2>1. IsEnv(<<>>)
    BY DEF IsEnv
  <2> QED BY <1>1, <2>1, BakedIsKey DEF IsBuilt
<1>3. RegistryInv' /\ AgentFound' = AgentFound /\ RoutesFound' = RoutesFound
  BY <1>1, RegistryRemains DEF PipelineInv
<1>4. Jobs' /\ job' = [u \in Terminals |-> job'[u]]
  BY <1>1, <1>2, <1>3, JobsRemain DEF PipelineInv
<1>5. ProgramInv'
  BY <1>1, <1>2 DEF PipelineInv, ProgramInv, chain
<1> QED BY <1>1, <1>3, <1>4, <1>5 DEF PipelineInv

(* What is deployed was built or found before, so it has a deployer.       *)
LEMMA SendDeployKeeps ==
  ASSUME PipelineInv, NEW t \in Terminals, SendDeploy(t)
  PROVE  PipelineInv'
<1>1. /\ job[t].todo # <<>> /\ Head(job[t].todo) = "deploy"
      /\ UNCHANGED <<chain, binary, program, late>>
  BY DEF SendDeploy, At
<1>2. CASE Stop(t)
  BY <1>1, <1>2, StopKeeps
<1>3. CASE ~Stop(t)
  <2> DEFINE tx == [instruction |-> "deploy",
                    args |-> [deployer |-> binary, upgrade |-> program.exists],
                    signer |-> job[t].wallet]
  <2>1. job' = [job EXCEPT ![t].tx = tx]
    BY <1>3 DEF SendDeploy
  <2>2. /\ job[t].todo \in Seq(StepNames) /\ (Includes(job[t].todo, "deploy") => job[t].wallet \in Pubkeys)
        /\ IsBuilt \/ Awaits(job[t].todo, "deploy", Makers)
    BY DEF PipelineInv, Jobs, JobInv, JobType
  <2>3. 1 \in DOMAIN job[t].todo /\ job[t].todo[1] = "deploy"
    <3>1. Len(job[t].todo) \in Nat /\ Len(job[t].todo) # 0
          /\ DOMAIN job[t].todo = 1 .. Len(job[t].todo)
      BY <1>1, <2>2, LenProperties, EmptySeq
    <3> QED BY <1>1, <3>1, <2>2
  <2>4. job[t].wallet \in Pubkeys /\ binary \in Pubkeys
    <3>1. ~Awaits(job[t].todo, "deploy", Makers)
      BY <2>3 DEF Awaits
    <3>2. binary \in Pubkeys \cup {NONE}
      BY DEF PipelineInv, ProgramInv
    <3> QED BY <2>2, <2>3, <3>1, <3>2 DEF Includes, IsBuilt
  <2>5. program.exists \in BOOLEAN
    BY DEF PipelineInv, ProgramInv
  <2>6. IsTx(tx) /\ Sent("deploy", tx)
    BY <2>4, <2>5 DEF IsTx, Sent
  <2> HIDE DEF tx
  <2> QED BY <1>1, <2>1, <2>6, SendKeeps
<1> QED BY <1>2, <1>3

LEMMA SetUpgradeAuthorityKeeps ==
  ASSUME PipelineInv, SetUpgradeAuthority
  PROVE  PipelineInv'
<1>1. PICK key \in NewAuthorities : program' = [program EXCEPT !.authority = key]
  BY DEF SetUpgradeAuthority
<1>2. program.exists /\ UNCHANGED <<chain, binary, job, late>> /\ key \in Pubkeys
  BY PipelineAssumption DEF SetUpgradeAuthority
<1>3. program' = [exists |-> program.exists, deployer |-> program.deployer, authority |-> key]
  BY <1>1 DEF PipelineInv, ProgramInv
<1>4. ProgramInv'
  BY <1>2, <1>3 DEF PipelineInv, ProgramInv, chain
<1>5. RegistryInv' /\ AgentFound' = AgentFound /\ RoutesFound' = RoutesFound
  BY <1>2, RegistryRemains DEF PipelineInv
<1>6. IsBuilt' = IsBuilt
  BY <1>2 DEF IsBuilt
<1>7. Jobs' /\ job' = [u \in Terminals |-> job'[u]]
  BY <1>2, <1>5, <1>6, JobsRemain DEF PipelineInv
<1> QED BY <1>2, <1>4, <1>5, <1>7 DEF PipelineInv

-----------------------------------------------------------------------------
(* Transactions.                                                           *)

(* Whatever transaction executes, whoever waits for it: the accounts stay  *)
(* sound, no route is lost, configure_route leaves the route it names, and *)
(* once the program is initialized nothing but routes, and the program     *)
(* itself, can change.                                                     *)
LEMMA ExecuteEffect ==
  ASSUME RegistryInv, ProgramInv, NEW tx, IsTx(tx), Execute(tx), UNCHANGED binary
  PROVE  /\ RegistryInv' /\ ProgramInv'
         /\ AgentFound => AgentFound'
         /\ RoutesFound => RoutesFound'
         /\ tx.instruction = "configure_route" => RouteExists(tx.args.route_id)'
         /\ config.exists =>
              /\ config' = config
              /\ \A i \in DOMAIN profiles :
                   /\ i \in DOMAIN profiles'
                   /\ profiles'[i].route_id = profiles[i].route_id
                   /\ profiles'[i].enabled = profiles[i].enabled
<1>1. tx.instruction # "deploy" => program.exists /\ program' = program
  BY DEF Execute, TxVerdict, Ok
<1>2. now' = now
  BY DEF Execute, chain
<1>0. CASE tx.instruction = "deploy"
  <2>1. /\ UNCHANGED chain
        /\ program' = [exists |-> TRUE, deployer |-> tx.args.deployer, authority |-> tx.signer]
        /\ tx.signer \in Pubkeys /\ tx.args.deployer \in Pubkeys
    BY <1>0 DEF Execute, IsTx
  <2>2. ProgramInv'
    BY <2>1 DEF ProgramInv
  <2>3. UNCHANGED <<config, profiles>>
    BY <2>1 DEF chain
  <2> QED BY <1>0, <2>1, <2>2, <2>3, RegistryRemains
<1>3. CASE tx.instruction = "initialize"
  <2>1. CreateSingletons(tx.args) /\ tx.args \in InitParamType
    BY <1>3 DEF Execute, IsTx
  <2>2. InitializeVerdict(program.deployer, tx.signer, tx.args) = Ok
    BY <1>1, <1>3 DEF Execute, TxVerdict
  <2>3. ~config.exists
    BY <2>2, BothSucceed DEF InitializeVerdict, Check, Ok
  <2>4. /\ config' \in ConfigType /\ config'.exists /\ RolesFilled'
        /\ RoutesType' /\ RouteTable' /\ token_list' \in Seq(Pubkeys)
    BY <1>2, <2>1, <2>2, InitializeMakes DEF RegistryInv
  <2>5. RegistryInv'
    BY <1>2, <2>4 DEF RegistryInv, EmptyBeforeInitialize
  <2>6. \A route_id : ~RouteExists(route_id)
    BY <2>3 DEF RegistryInv, EmptyBeforeInitialize, RouteExists, Entries
  <2>7. ProgramInv'
    BY <1>1, <1>3 DEF ProgramInv
  <2> QED BY <1>3, <2>3, <2>5, <2>6, <2>7 DEF AgentFound, RoutesFound
<1>4. CASE tx.instruction = "configure_route"
  <2>1. /\ ConfigureRoute(tx.signer, tx.args) /\ UNCHANGED <<config, token_list>>
        /\ tx.args \in RouteUpdateType
    BY <1>4 DEF Execute, IsTx
  <2>2. /\ config.exists /\ RouteExists(tx.args.route_id)'
        /\ \A i \in DOMAIN profiles :
             /\ i \in DOMAIN profiles'
             /\ profiles'[i].route_id = profiles[i].route_id
             /\ profiles'[i].enabled = profiles[i].enabled
    BY <2>1, ConfigureIsLocal DEF RegistryInv
  <2>3. RoutesType' /\ RouteTable'
    BY <1>2, <2>1, ConfigureKeepsTable DEF RegistryInv
  <2>4. RegistryInv'
    BY <1>2, <2>1, <2>2, <2>3 DEF RegistryInv, RolesFilled, EmptyBeforeInitialize
  <2>5. \A route_id : RouteExists(route_id) => RouteExists(route_id)'
    BY <2>2, RoutesRemain DEF RegistryInv
  <2>6. ProgramInv'
    BY <1>1, <1>4 DEF ProgramInv
  <2> QED BY <2>1, <2>2, <2>4, <2>5, <2>6 DEF AgentFound, RoutesFound
<1> QED BY <1>0, <1>3, <1>4 DEF IsTx

(* A script goes on when its transaction has landed: the route it was to   *)
(* configure is there, and after the second one both are.                  *)
LEMMA LandKeeps ==
  ASSUME PipelineInv, NEW t \in Terminals, Land(t)
  PROVE  PipelineInv'
<1> DEFINE j == job[t]
           report == IF At(t, "merchant") THEN "CONFIGURED" ELSE j.report
           k == Advanced(j, report)
<1> PICK tx : tx = job[t].tx
  OBVIOUS
<1>1. /\ tx # NONE /\ Execute(tx) /\ UNCHANGED <<binary, late>>
      /\ job' = [job EXCEPT ![t] = k]
  BY DEF Land, Confirmed
<1>2. /\ JobInv(j, IsBuilt, AgentFound, RoutesFound)
      /\ j.todo # <<>> /\ IsTx(tx) /\ Sent(Head(j.todo), tx) /\ j.todo \in Seq(StepNames)
  BY <1>1, ReportStays DEF JobInv, JobType
<1>3. /\ RegistryInv' /\ ProgramInv'
      /\ AgentFound => AgentFound'
      /\ RoutesFound => RoutesFound'
      /\ tx.instruction = "configure_route" => RouteExists(tx.args.route_id)'
  BY <1>1, <1>2, ExecuteEffect DEF PipelineInv
<1>4. Head(j.todo) = "agent" => AgentFound'
  BY <1>2, <1>3 DEF Sent, AgentFound
<1>5. Head(j.todo) = "merchant" => RoutesFound'
  <2> SUFFICES ASSUME Head(j.todo) = "merchant" PROVE RoutesFound'
    OBVIOUS
  <2>1. RouteExists(MERCHANT_AIFP1)'
    BY <1>2, <1>3 DEF Sent
  <2>2. AgentFound
    <3>1. 1 \in DOMAIN j.todo /\ j.todo[1] = "merchant"
      <4>1. Len(j.todo) \in Nat /\ Len(j.todo) # 0 /\ DOMAIN j.todo = 1 .. Len(j.todo)
        BY <1>2, LenProperties, EmptySeq
      <4> QED BY <1>2, <4>1
    <3>2. ~Awaits(j.todo, "merchant", {"agent"})
      BY <3>1 DEF Awaits
    <3> QED BY <1>2, <3>2 DEF JobInv
  <2> QED BY <1>3, <2>1, <2>2 DEF AgentFound, RoutesFound
<1>6. IsBuilt' = IsBuilt
  BY <1>1 DEF IsBuilt
<1>7. JobInv(k, IsBuilt', AgentFound', RoutesFound')
  <2>1. JobInv(j, IsBuilt', AgentFound', RoutesFound')
    BY <1>2, <1>3, <1>6 DEF JobInv
  <2>2. report \in {"CONFIGURED", "READY"} => RoutesFound'
    <3>1. CASE At(t, "merchant")
      BY <3>1, <1>5 DEF At
    <3>2. CASE ~At(t, "merchant")
      BY <3>2, <2>1 DEF JobInv
    <3> QED BY <3>1, <3>2
  <2>3. Head(j.todo) \notin Makers
    BY <1>2 DEF Sent, Makers
  <2> HIDE DEF j, report
  <2> QED BY <1>2, <1>4, <2>1, <2>2, <2>3, AdvancedIsSound
<1> HIDE DEF k
<1>8. Jobs' /\ job' = [u \in Terminals |-> job'[u]]
  BY <1>1, <1>3, <1>6, <1>7, JobsFollow DEF PipelineInv
<1> QED BY <1>1, <1>3, <1>8 DEF PipelineInv

(* The transaction of an interrupted script stays under way.               *)
LEMMA AbortKeeps ==
  ASSUME PipelineInv, NEW t \in Terminals, Abort(t)
  PROVE  PipelineInv'
<1>1. /\ job' = [job EXCEPT ![t] = Idle(job[t].report)]
      /\ late' = late \cup ({job[t].tx} \ {NONE}) /\ UNCHANGED <<chain, binary, program>>
  BY DEF Abort, Stop
<1>2. RegistryInv' /\ AgentFound' = AgentFound /\ RoutesFound' = RoutesFound
  BY <1>1, RegistryRemains DEF PipelineInv
<1>3. IsBuilt' = IsBuilt
  BY <1>1 DEF IsBuilt
<1>4. JobInv(Idle(job[t].report), IsBuilt', AgentFound', RoutesFound')
  BY <1>2, ReportStays, IdleIsSound
<1>5. Jobs' /\ job' = [u \in Terminals |-> job'[u]]
  BY <1>1, <1>2, <1>3, <1>4, JobsFollow DEF PipelineInv
<1>6. ProgramInv'
  BY <1>1 DEF PipelineInv, ProgramInv, chain
<1>7. \A tx \in late' : IsTx(tx)
  BY <1>1, ReportStays DEF PipelineInv, JobInv, JobType
<1> QED BY <1>2, <1>5, <1>6, <1>7 DEF PipelineInv

LEMMA LateKeeps ==
  ASSUME PipelineInv, NEW tx \in late, LandLate(tx) \/ LoseLate(tx)
  PROVE  PipelineInv'
<1>1. /\ late' = late \ {tx} /\ IsTx(tx) /\ UNCHANGED <<binary, job>>
      /\ IsBuilt' = IsBuilt
  BY DEF LandLate, LoseLate, PipelineInv, IsBuilt
<1>2. /\ RegistryInv' /\ ProgramInv'
      /\ AgentFound => AgentFound'
      /\ RoutesFound => RoutesFound'
  <2>1. CASE LandLate(tx)
    BY <2>1, <1>1, ExecuteEffect DEF LandLate, PipelineInv
  <2>2. CASE LoseLate(tx)
    <3>1. UNCHANGED chain /\ UNCHANGED <<config, program, binary>>
      BY <2>2 DEF LoseLate, chain
    <3> QED BY <3>1, RegistryRemains DEF PipelineInv, ProgramInv
  <2> QED BY <2>1, <2>2
<1>3. Jobs' /\ job' = [u \in Terminals |-> job'[u]]
  BY <1>1, <1>2, JobsRemain DEF PipelineInv
<1> QED BY <1>1, <1>2, <1>3 DEF PipelineInv

(* The admin may change every role and every route, but deletes none.      *)
LEMMA AdminStepKeeps ==
  ASSUME PipelineInv, AdminStep
  PROVE  PipelineInv'
<1>1. UNCHANGED <<now, binary, program, job, late>> /\ program.exists /\ IsBuilt' = IsBuilt
  BY DEF AdminStep, IsBuilt
<1>2. /\ RegistryInv'
      /\ AgentFound => AgentFound'
      /\ RoutesFound => RoutesFound'
  <2>1. CASE RolesStep /\ UNCHANGED <<profiles, count, token_list>>
    <3>1. config' \in ConfigType /\ RolesFilled' /\ config'.exists = config.exists
      BY <2>1, RolesKeep DEF PipelineInv, RegistryInv
    <3>2. RegistryInv'
      BY <1>1, <2>1, <3>1
         DEF PipelineInv, RegistryInv, RoutesType, RouteTable, EmptyBeforeInitialize
    <3>3. \A route_id : RouteExists(route_id)' = RouteExists(route_id)
      BY <2>1 DEF RouteExists, Entries
    <3> QED BY <3>2, <3>3 DEF AgentFound, RoutesFound
  <2>2. CASE RoutesStep /\ UNCHANGED <<config, token_list>>
    <3>1. RoutesType' /\ RouteTable' /\ config.exists
      BY <1>1, <2>2, RoutesStepKeepsTable, RoutesStepEffect DEF PipelineInv, RegistryInv
    <3>2. RegistryInv'
      BY <1>1, <2>2, <3>1 DEF PipelineInv, RegistryInv, RolesFilled, EmptyBeforeInitialize
    <3>3. \A route_id : RouteExists(route_id) => RouteExists(route_id)'
      BY <2>2, RoutesStepIsLocal, RoutesRemain DEF PipelineInv, RegistryInv
    <3> QED BY <3>2, <3>3 DEF AgentFound, RoutesFound
  <2> QED BY <2>1, <2>2 DEF AdminStep
<1>3. Jobs' /\ job' = [u \in Terminals |-> job'[u]]
  BY <1>1, <1>2, JobsRemain DEF PipelineInv
<1>4. ProgramInv'
  BY <1>1 DEF PipelineInv, ProgramInv
<1> QED BY <1>1, <1>2, <1>3, <1>4 DEF PipelineInv

-----------------------------------------------------------------------------
(* The invariant, and what follows from it.                                *)

LEMMA PipelineInit == Init => PipelineInv
<1> SUFFICES ASSUME Init PROVE PipelineInv
  OBVIOUS
<1>1. config \in ConfigType /\ ~config.exists
  BY RuntimeAssumption, RolesAssumption DEF Init, ConfigType, NoConfig
<1>2. RegistryInv
  <2>1. profiles = <<>> /\ token_list = <<>> /\ count = 0 /\ now = 0
    BY DEF Init
  <2>2. RouteTable
    BY <2>1, RoutesAssumption, EmptySeq DEF RouteTable
  <2>3. profiles \in Seq(ProfileType) /\ token_list \in Seq(Pubkeys)
    BY <2>1, EmptySeq
  <2>4. now \in Nat /\ count \in Nat
    BY <2>1
  <2> QED BY <1>1, <2>1, <2>2, <2>3, <2>4
          DEF RegistryInv, RoutesType, RolesFilled, EmptyBeforeInitialize
<1>3. ProgramInv
  BY <1>1 DEF Init, ProgramInv
<1>4. Jobs /\ job = [t \in Terminals |-> job[t]]
  <2>1. job = [t \in Terminals |-> Idle("")]
    BY DEF Init
  <2>2. JobInv(Idle(""), IsBuilt, AgentFound, RoutesFound)
    BY IdleIsSound
  <2> QED BY <2>1, <2>2 DEF Jobs
<1> QED BY <1>2, <1>3, <1>4 DEF Init, PipelineInv

LEMMA PipelineNext == PipelineInv /\ [Next]_vars => PipelineInv'
<1> SUFFICES ASSUME PipelineInv, [Next]_vars PROVE PipelineInv'
  OBVIOUS
<1>1. ASSUME NEW t \in Terminals, Start(t) \/ Work(t) \/ Settle(t) \/ Attend(t) \/ Abort(t)
      PROVE  PipelineInv'
  <2>1. CASE Start(t)
    BY <2>1, StartKeeps
  <2>2. CASE Work(t)
    BY <2>2, BuildKeeps, SendDeployKeeps, LookingKeeps, SendInitializeKeeps, SendRouteKeeps DEF Work
  <2>3. CASE Land(t)
    BY <2>3, LandKeeps
  <2>4. CASE Refuse(t) \/ Expire(t)
    BY <2>4, StopKeeps DEF Refuse, Expire
  <2>5. CASE Attend(t)
    BY <2>5, LookingKeeps, SendDeployKeeps DEF Attend
  <2>6. CASE Abort(t)
    BY <2>6, AbortKeeps
  <2> QED BY <1>1, <2>1, <2>2, <2>3, <2>4, <2>5, <2>6 DEF Settle
<1>2. CASE \E tx \in late : LandLate(tx) \/ LoseLate(tx)
  BY <1>2, LateKeeps
<1>3. CASE LocalBuild \/ SetUpgradeAuthority \/ AdminStep
  BY <1>3, LocalBuildKeeps, SetUpgradeAuthorityKeeps, AdminStepKeeps
<1>4. CASE UNCHANGED vars
  <2>1. UNCHANGED <<chain, binary, program, job, late>>
    BY <1>4 DEF vars
  <2>2. RegistryInv' /\ AgentFound' = AgentFound /\ RoutesFound' = RoutesFound
    BY <2>1, RegistryRemains DEF PipelineInv
  <2>3. IsBuilt' = IsBuilt
    BY <2>1 DEF IsBuilt
  <2>4. Jobs' /\ job' = [u \in Terminals |-> job'[u]]
    BY <2>1, <2>2, <2>3, JobsRemain DEF PipelineInv
  <2>5. ProgramInv'
    BY <2>1 DEF PipelineInv, ProgramInv, chain
  <2> QED BY <2>1, <2>2, <2>4, <2>5 DEF PipelineInv
<1> QED BY <1>1, <1>2, <1>3, <1>4 DEF Next

LEMMA PipelineInvariance == Spec => []PipelineInv
  BY PipelineInit, PipelineNext, PTL DEF Spec

(* The types; in particular a program on the cluster always has a deployer *)
(* somebody built into it.                                                 *)
THEOREM PipelineTypes == Spec => []TypeOK
<1>1. PipelineInv => TypeOK
  BY DEF PipelineInv, RegistryInv, ProgramInv, RoutesType, Jobs, JobInv, JobType, TypeOK
<1> QED BY <1>1, PipelineInvariance, PTL

(* "Done!" and "READY FOR PRODUCTION" stay true on however many terminals, *)
(* whatever is aborted, lost, redeployed or changed by the admin: a job    *)
(* that reports has its routes behind it, and there are no routes without  *)
(* a Config, nor a Config without a program.                               *)
THEOREM ReportsStayTrue == Spec => []ReportsHold
<1>1. PipelineInv => ReportsHold
  <2> SUFFICES ASSUME PipelineInv, NEW t \in Terminals,
                      job[t].report \in {"CONFIGURED", "READY"}
               PROVE  program.exists /\ config.exists /\ RoutesFound
    BY DEF ReportsHold
  <2>1. RoutesFound
    BY ReportStays
  <2>2. config.exists
    BY <2>1 DEF RoutesFound, RouteExists, Entries, PipelineInv, RegistryInv,
                EmptyBeforeInitialize
  <2>3. program.exists
    BY <2>2 DEF PipelineInv, ProgramInv
  <2> QED BY <2>1, <2>2, <2>3
<1> QED BY <1>1, PipelineInvariance, PTL

(* No step of a script, and no transaction it leaves behind, changes a     *)
(* role, unpauses, drops a route or switches one, once the program is      *)
(* initialized: initialize is refused, and configure_route switches none.  *)
THEOREM DecisionsAreKept == Spec => PipelineKeepsDecisions
<1> DEFINE Kept ==
      config.exists /\ (job' # job \/ late' # late) =>
        /\ config' = config
        /\ \A i \in DOMAIN profiles :
             /\ i \in DOMAIN profiles'
             /\ profiles'[i].route_id = profiles[i].route_id
             /\ profiles'[i].enabled = profiles[i].enabled
<1>1. PipelineInv /\ [Next]_vars => Kept
  <2> SUFFICES ASSUME PipelineInv, [Next]_vars, config.exists, job' # job \/ late' # late
               PROVE  Kept
    OBVIOUS
  <2>1. CASE UNCHANGED chain
    BY <2>1 DEF chain
  <2>2. ASSUME NEW tx, IsTx(tx), Execute(tx), UNCHANGED binary PROVE Kept
    BY <2>2, ExecuteEffect DEF PipelineInv
  <2>3. ASSUME NEW t \in Terminals, Start(t) \/ Work(t) \/ Settle(t) \/ Attend(t) \/ Abort(t)
        PROVE  UNCHANGED chain \/ Land(t)
    BY <2>3 DEF Start, StartLedgerDeploy, StartMainnetDeploy, StartNodeScript, Begin, Work,
                Build, FindBinary, CheckAuthority, RunAnchor, SendDeploy, FindConfig,
                SendInitialize, SendRoute, ReadProgram, ReadConfig, ReadRoutes, Settle, Refuse,
                Expire, Attend, Answer, Abort
  <2>4. ASSUME NEW t \in Terminals, Land(t) PROVE Kept
    <3>1. IsTx(job[t].tx) /\ Execute(job[t].tx) /\ UNCHANGED binary
      BY <2>4, ReportStays DEF Land, JobInv, JobType
    <3> HIDE DEF Kept
    <3> QED BY <2>2, <3>1
  <2>5. ASSUME NEW tx \in late, LandLate(tx) \/ LoseLate(tx) PROVE Kept
    <3>1. CASE LandLate(tx)
      <4>1. IsTx(tx) /\ Execute(tx) /\ UNCHANGED binary
        BY <3>1 DEF LandLate, PipelineInv
      <4> HIDE DEF Kept
      <4> QED BY <2>2, <4>1
    <3>2. CASE LoseLate(tx)
      BY <2>1, <3>2 DEF LoseLate
    <3> QED BY <2>5, <3>1, <3>2
  <2>6. ~(LocalBuild \/ SetUpgradeAuthority \/ AdminStep \/ UNCHANGED vars)
    BY DEF LocalBuild, SetUpgradeAuthority, AdminStep, vars
  <2> HIDE DEF Kept
  <2> QED BY <2>1, <2>3, <2>4, <2>5, <2>6 DEF Next
<1> QED BY <1>1, PipelineInvariance, PTL DEF Spec, PipelineKeepsDecisions

=============================================================================
