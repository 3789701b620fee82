----------------------- MODULE OperatorScriptsProofs -----------------------
(***************************************************************************)
(* For every number of terminals, every environment and every set of ids:  *)
(* what the operators' scripts report stays true of the program they       *)
(* addressed, and none of them takes anything from a program somebody has  *)
(* initialized.                                                            *)
(*                                                                         *)
(* As for the pipeline, the invariant is about scripts as lists.  Here it  *)
(* is about addresses, too: each job is followed at its own, which it may  *)
(* only come to know on the way.                                           *)
(***************************************************************************)
EXTENDS OperatorScripts, BasicLemmas

StepNames ==
  {"build", "deploy", "write id", "find config", "initialize", "confirm", "agent", "merchant",
   "read program", "read config", "read routes", "rotate", "read back"}

Reports == {"DEPLOYED", "INITIALIZED", "CONFIGURED", "READY"}

(* The transaction a step sends, and no other.                             *)
Sent(step, tx) ==
  \/ step = "initialize" /\ tx.instruction = "initialize"
  \/ step = "agent" /\ tx.instruction = "configure_route" /\ tx.route = AGENT_X402
  \/ step = "merchant" /\ tx.instruction = "configure_route" /\ tx.route = MERCHANT_AIFP1
  \/ step = "rotate" /\ tx.instruction = "rotate_signer_role"

(* A transaction carries what its instruction needs.                       *)
ProperTx(tx) ==
  /\ IsTx(tx)
  /\ tx.instruction = "configure_route" => tx.route \in Routes
  /\ tx.instruction = "rotate_signer_role" => tx.key \in HotKeys

(* The program at an address; before a job knows its address, none.        *)
Seen(ps, at) == IF at \in Addresses THEN ps[at] ELSE NoProgram

(* What a report says of the program.                                      *)
Claim(report, p) ==
  report \in Reports =>
    /\ p.exists
    /\ report # "DEPLOYED" => Initialized(p)
    /\ report \in {"CONFIGURED", "READY"} => Routes \subseteq p.routes

JobType(j) ==
  /\ DOMAIN j = {"todo", "env", "at", "key", "tx", "paused", "report"}
  /\ j.todo \in Seq(StepNames)
  /\ j.env \in Shells \cup {<<>>}
  /\ j.at \in Addresses \/ j.todo = <<>> \/ (j.at \in Clusters \X {NONE} /\ Head(j.todo) = "build")
  /\ j.key \in HotKeys \cup {NONE}
  /\ j.tx = NONE \/ (ProperTx(j.tx) /\ j.todo # <<>> /\ Sent(Head(j.todo), j.tx) /\ j.tx.at = j.at)

(* What a job has behind it: nothing is deployed before it is built, no id *)
(* written before the program is deployed at it, and the second route is   *)
(* not configured before the first.                                        *)
JobInv(j, built, p) ==
  /\ JobType(j)
  /\ Includes(j.todo, "rotate") => j.key \in HotKeys
  /\ built \/ Awaits(j.todo, "deploy", {"build"})
  /\ p.exists \/ Awaits(j.todo, "write id", {"deploy"})
  /\ AGENT_X402 \in p.routes \/ Awaits(j.todo, "merchant", {"agent"})
  /\ Claim(j.report, p)

BinaryType == [declares : Ids, deployer : Deployers]
IsBuilt == binary \in BinaryType

Jobs == \A t \in Terminals : JobInv(job[t], IsBuilt, Seen(programs, job[t].at))

TreeInv ==
  /\ source \in Sources
  /\ binary = NONE \/ IsBuilt
  /\ env_local.exists \in BOOLEAN /\ IsEnv(env_local.env)

(* Routes are configured only in a program that is initialized.            *)
ProgramInv(p) == p \in ProgramType /\ (p.routes # {} => Initialized(p))

ScriptsInv ==
  /\ TreeInv
  /\ programs = [at \in Addresses |-> programs[at]]
  /\ \A at \in Addresses : ProgramInv(programs[at])
  /\ job = [t \in Terminals |-> job[t]]
  /\ Jobs
  /\ \A tx \in late : ProperTx(tx)


-----------------------------------------------------------------------------
(* Jobs.                                                                   *)

(* A program that has grown: it is still there, with its admin and routes. *)
Grows(p, p2) ==
  /\ p.exists => p2.exists
  /\ Initialized(p) => Initialized(p2)
  /\ p.routes \subseteq p2.routes

(* A terminal in which nothing runs any more, with a report that is true.  *)
LEMMA EndedIsSound ==
  ASSUME NEW at, NEW key \in HotKeys \cup {NONE}, NEW report, NEW built, NEW p,
         Claim(report, p)
  PROVE  JobInv([Nothing EXCEPT !.at = at, !.key = key, !.report = report], built, p)
<1> DEFINE j == [Nothing EXCEPT !.at = at, !.key = key, !.report = report]
<1>1. /\ DOMAIN j = {"todo", "env", "at", "key", "tx", "paused", "report"}
      /\ j.todo = <<>> /\ j.env = <<>> /\ j.key = key /\ j.tx = NONE /\ j.report = report
  BY DEF Nothing
<1> HIDE DEF j
<1>2. DOMAIN <<>> = {} /\ <<>> \in Seq(StepNames)
  OBVIOUS
<1>3. JobType(j)
  BY <1>1, <1>2 DEF JobType
<1>4. JobInv(j, built, p)
  BY <1>1, <1>2, <1>3 DEF JobInv, Awaits, Includes
<1> QED BY <1>4 DEF j

LEMMA NothingIsSound ==
  ASSUME NEW built, NEW p
  PROVE  JobInv(Nothing, built, p)
<1>1. DOMAIN <<>> = {} /\ <<>> \in Seq(StepNames)
  OBVIOUS
<1>2. JobType(Nothing)
  BY <1>1 DEF JobType, Nothing
<1> QED BY <1>1, <1>2 DEF JobInv, Nothing, Awaits, Includes, Claim, Reports

(* What a job relies on never goes away.                                   *)
LEMMA ProgramsMayGrow ==
  ASSUME NEW j, NEW built, NEW built2, NEW p, NEW p2,
         JobInv(j, built, p), built => built2, Grows(p, p2)
  PROVE  JobInv(j, built2, p2)
  BY DEF JobInv, Grows, Claim

(* A step is done: what it was to leave behind is there.                   *)
LEMMA AdvancedIsSound ==
  ASSUME NEW j, NEW built, NEW p, JobInv(j, built, p), j.todo # <<>>, j.at \in Addresses,
         Head(j.todo) = "build" => built,
         Head(j.todo) = "deploy" => p.exists,
         Head(j.todo) = "agent" => AGENT_X402 \in p.routes
  PROVE  JobInv(Advanced(j), built, p)
<1> DEFINE k == Advanced(j)
<1>1. /\ DOMAIN k = {"todo", "env", "at", "key", "tx", "paused", "report"}
      /\ k.todo = Tail(j.todo) /\ k.env = j.env /\ k.at = j.at /\ k.key = j.key
      /\ k.tx = NONE /\ k.report = j.report
  BY DEF Advanced, JobInv, JobType
<1> HIDE DEF k
<1>2. j.todo \in Seq(StepNames)
  BY DEF JobInv, JobType
<1>3. Tail(j.todo) \in Seq(StepNames)
  BY <1>2, HeadTailProperties
<1>4. JobType(k)
  BY <1>1, <1>3 DEF JobInv, JobType
<1>5. Includes(k.todo, "rotate") => k.key \in HotKeys
  BY <1>1, <1>2, IncludesInTail DEF JobInv
<1>6. ASSUME NEW x, NEW y, Head(j.todo) # y, Awaits(j.todo, x, {y})
      PROVE  Awaits(k.todo, x, {y})
  <2>1. Head(j.todo) \notin {y}
    BY <1>6
  <2> QED BY <1>1, <1>2, <1>6, <2>1, AwaitsInTail
<1>7. built \/ Awaits(k.todo, "deploy", {"build"})
  BY <1>6 DEF JobInv
<1>8. p.exists \/ Awaits(k.todo, "write id", {"deploy"})
  BY <1>6 DEF JobInv
<1>9. AGENT_X402 \in p.routes \/ Awaits(k.todo, "merchant", {"agent"})
  BY <1>6 DEF JobInv
<1>10. JobInv(k, built, p)
  BY <1>1, <1>4, <1>5, <1>7, <1>8, <1>9 DEF JobInv
<1> QED BY <1>10 DEF k

(* "Continue anyway?" in the place of a step that only looked.             *)
LEMMA PromptIsSound ==
  ASSUME NEW j, NEW built, NEW p, JobInv(j, built, p), j.todo # <<>>,
         Head(j.todo) = "find config"
  PROVE  JobInv([j EXCEPT !.todo = <<"confirm">> \o Tail(@)], built, p)
<1> DEFINE todo == <<"confirm">> \o Tail(j.todo)
           k == [j EXCEPT !.todo = todo]
<1>1. j.todo \in Seq(StepNames) /\ "confirm" \in StepNames
  BY DEF JobInv, JobType, StepNames
<1>2. todo \in Seq(StepNames)
  <2>1. Tail(j.todo) \in Seq(StepNames) /\ <<"confirm">> \in Seq(StepNames)
    BY <1>1, HeadTailProperties, SingleStep
  <2> QED BY <2>1, ConcatProperties
<1>3. Includes(todo, "rotate") => j.key \in HotKeys
  BY <1>1, IncludesInTail DEF JobInv
<1>4. built \/ Awaits(todo, "deploy", {"build"})
  BY <1>1, AwaitsWithPrompt DEF JobInv
<1>5. p.exists \/ Awaits(todo, "write id", {"deploy"})
  BY <1>1, AwaitsWithPrompt DEF JobInv
<1>6. AGENT_X402 \in p.routes \/ Awaits(todo, "merchant", {"agent"})
  BY <1>1, AwaitsWithPrompt DEF JobInv
<1>7. j.tx = NONE /\ j.at \in Addresses
  BY DEF JobInv, JobType, Sent
<1> HIDE DEF todo
<1>8. /\ DOMAIN k = {"todo", "env", "at", "key", "tx", "paused", "report"}
      /\ k.todo = todo /\ k.env = j.env /\ k.at = j.at /\ k.key = j.key
      /\ k.tx = j.tx /\ k.report = j.report
  BY DEF JobInv, JobType
<1> HIDE DEF k
<1>9. JobType(k)
  BY <1>2, <1>7, <1>8 DEF JobInv, JobType
<1>10. JobInv(k, built, p)
  BY <1>3, <1>4, <1>5, <1>6, <1>8, <1>9 DEF JobInv
<1> QED BY <1>10 DEF k, todo

(* A transaction is sent by the step it belongs to.                        *)
LEMMA SentIsSound ==
  ASSUME NEW j, NEW tx, NEW built, NEW p, JobInv(j, built, p), j.todo # <<>>,
         ProperTx(tx), Sent(Head(j.todo), tx), tx.at = j.at
  PROVE  JobInv([j EXCEPT !.tx = tx], built, p)
<1> DEFINE k == [j EXCEPT !.tx = tx]
<1>1. /\ DOMAIN k = {"todo", "env", "at", "key", "tx", "paused", "report"}
      /\ k.todo = j.todo /\ k.env = j.env /\ k.at = j.at /\ k.key = j.key
      /\ k.tx = tx /\ k.report = j.report
  BY DEF JobInv, JobType
<1> HIDE DEF k
<1>2. JobType(k)
  BY <1>1 DEF JobInv, JobType
<1>3. JobInv(k, built, p)
  BY <1>1, <1>2 DEF JobInv
<1> QED BY <1>3 DEF k


-----------------------------------------------------------------------------
(* Steps.                                                                  *)

LEMMA GrowsAtAll ==
  ASSUME NEW at, \A a \in Addresses : Grows(programs[a], programs'[a])
  PROVE  Grows(Seen(programs, at), Seen(programs', at))
  BY DEF Seen, Grows

(* One job takes a step, the others stay sound whatever it did.            *)
LEMMA JobsFollow ==
  ASSUME ScriptsInv, IsBuilt => IsBuilt',
         \A at \in Addresses : Grows(programs[at], programs'[at]),
         NEW t \in Terminals, NEW j, job' = [job EXCEPT ![t] = j],
         JobInv(j, IsBuilt', Seen(programs', j.at))
  PROVE  job' = [u \in Terminals |-> job'[u]] /\ Jobs'
<1>1. /\ job' = [u \in Terminals |-> job'[u]]
      /\ job'[t] = j /\ \A u \in Terminals \ {t} : job'[u] = job[u]
  BY DEF ScriptsInv
<1>2. ASSUME NEW u \in Terminals
      PROVE  JobInv(job'[u], IsBuilt', Seen(programs', job'[u].at))
  <2>1. CASE u = t
    BY <1>1, <2>1
  <2>2. CASE u # t
    <3>1. JobInv(job[u], IsBuilt, Seen(programs, job[u].at)) /\ job'[u] = job[u]
      BY <1>1, <2>2 DEF ScriptsInv, Jobs
    <3>2. JobInv(job[u], IsBuilt', Seen(programs', job[u].at))
      <4> HIDE DEF IsBuilt
      <4> QED BY <3>1, GrowsAtAll, ProgramsMayGrow
    <3> QED BY <3>1, <3>2
  <2> QED BY <2>1, <2>2
<1> QED BY <1>1, <1>2 DEF Jobs

(* No job takes a step.                                                    *)
LEMMA JobsRemain ==
  ASSUME ScriptsInv, IsBuilt => IsBuilt', UNCHANGED job,
         \A at \in Addresses : Grows(programs[at], programs'[at])
  PROVE  job' = [u \in Terminals |-> job'[u]] /\ Jobs'
<1>1. ASSUME NEW u \in Terminals
      PROVE  JobInv(job'[u], IsBuilt', Seen(programs', job'[u].at))
  <2>1. JobInv(job[u], IsBuilt, Seen(programs, job[u].at)) /\ job'[u] = job[u]
    BY DEF ScriptsInv, Jobs
  <2>2. JobInv(job[u], IsBuilt', Seen(programs', job[u].at))
    <3> HIDE DEF IsBuilt
    <3> QED BY <2>1, GrowsAtAll, ProgramsMayGrow
  <2> QED BY <2>1, <2>2
<1>2. job' = [u \in Terminals |-> job'[u]]
  BY DEF ScriptsInv
<1> QED BY <1>1, <1>2 DEF Jobs

(* A step that touches nothing but the job.                                *)
LEMMA QuietStepKeeps ==
  ASSUME ScriptsInv, UNCHANGED <<tree, programs, late>>,
         NEW t \in Terminals, NEW j, job' = [job EXCEPT ![t] = j],
         JobInv(j, IsBuilt, Seen(programs, j.at))
  PROVE  ScriptsInv'
<1>1. IsBuilt' <=> IsBuilt
  BY DEF IsBuilt, tree
<1>2. \A at \in Addresses : Grows(programs[at], programs'[at])
  BY DEF Grows
<1>3. Seen(programs', j.at) = Seen(programs, j.at)
  BY DEF Seen
<1>4. job' = [u \in Terminals |-> job'[u]] /\ Jobs'
  <2>1. IsBuilt' = IsBuilt
    BY <1>1
  <2>2. JobInv(j, IsBuilt', Seen(programs', j.at))
    BY <1>3, <2>1
  <2> QED BY <1>1, <1>2, <2>2, JobsFollow
<1>5. TreeInv'
  BY <1>1 DEF ScriptsInv, TreeInv, tree
<1> QED BY <1>4, <1>5 DEF ScriptsInv

LEMMA JobAt ==
  ASSUME ScriptsInv, NEW t \in Terminals
  PROVE  JobInv(job[t], IsBuilt, Seen(programs, job[t].at))
  BY DEF ScriptsInv, Jobs

LEMMA StopKeeps ==
  ASSUME ScriptsInv, NEW t \in Terminals, Stop(t), UNCHANGED <<tree, programs, late>>
  PROVE  ScriptsInv'
  BY NothingIsSound, QuietStepKeeps DEF Stop

LEMMA ReportKeeps ==
  ASSUME ScriptsInv, NEW t \in Terminals, NEW report, Report(t, report),
         Claim(report, Seen(programs, job[t].at)), UNCHANGED <<tree, programs, late>>
  PROVE  ScriptsInv'
<1> DEFINE j == [Nothing EXCEPT !.at = job[t].at, !.key = job[t].key, !.report = report]
<1>1. j.at = job[t].at /\ job[t].key \in HotKeys \cup {NONE}
  BY JobAt DEF Nothing, JobInv, JobType
<1>2. JobInv(j, IsBuilt, Seen(programs, job[t].at))
  BY <1>1, EndedIsSound
<1>3. job' = [job EXCEPT ![t] = j]
  BY DEF Report
<1> HIDE DEF j
<1> QED BY <1>1, <1>2, <1>3, QuietStepKeeps

LEMMA AdvanceKeeps ==
  ASSUME ScriptsInv, NEW t \in Terminals, Advance(t), UNCHANGED <<tree, programs, late>>,
         job[t].todo # <<>>, Head(job[t].todo) \notin {"build", "deploy", "agent"}
  PROVE  ScriptsInv'
<1> DEFINE j == Advanced(job[t])
<1>1. job[t].at \in Addresses /\ j.at = job[t].at
  BY JobAt DEF JobInv, JobType, Advanced
<1>2. JobInv(j, IsBuilt, Seen(programs, job[t].at))
  BY <1>1, JobAt, AdvancedIsSound
<1>3. job' = [job EXCEPT ![t] = j]
  BY DEF Advance
<1> HIDE DEF j
<1> QED BY <1>1, <1>2, <1>3, QuietStepKeeps


-----------------------------------------------------------------------------
(* Scripts.                                                                *)

InOrder(s) ==
  /\ s \in Seq(StepNames)
  /\ Awaits(s, "deploy", {"build"})
  /\ Awaits(s, "write id", {"deploy"})
  /\ Awaits(s, "merchant", {"agent"})

LEMMA PairInOrder ==
  ASSUME NEW x \in StepNames, NEW y \in StepNames,
         x \notin {"deploy", "write id", "merchant"}, y \notin {"write id"},
         y \notin {"deploy"} \/ x \in {"build"}, y \notin {"merchant"} \/ x \in {"agent"}
  PROVE  InOrder(<<x, y>>)
<1>1. <<x, y>> \in Seq(StepNames)
  BY PairAwaits
<1>2. ASSUME NEW step, NEW S, x # step, y = step => x \in S
      PROVE  Awaits(<<x, y>>, step, S)
  BY <1>2, PairAwaits
<1> DEFINE s == <<x, y>>
<1> HIDE DEF s
<1>3. Awaits(s, "deploy", {"build"})
  BY <1>2 DEF s
<1>4. Awaits(s, "write id", {"deploy"})
  BY <1>2 DEF s
<1>5. Awaits(s, "merchant", {"agent"})
  BY <1>2 DEF s
<1> QED BY <1>1, <1>3, <1>4, <1>5 DEF InOrder, s

LEMMA TripleInOrder ==
  ASSUME NEW x \in StepNames, NEW y \in StepNames, NEW z \in StepNames,
         x \notin {"deploy", "write id", "merchant"},
         y \notin {"write id", "merchant"}, y \notin {"deploy"} \/ x \in {"build"},
         z \notin {"deploy", "merchant"}, z \notin {"write id"} \/ y \in {"deploy"}
  PROVE  InOrder(<<x, y, z>>)
<1>1. <<x, y, z>> \in Seq(StepNames)
  BY TripleAwaits
<1>2. ASSUME NEW step, NEW S, x # step, y = step => x \in S, z = step => x \in S \/ y \in S
      PROVE  Awaits(<<x, y, z>>, step, S)
  BY <1>2, TripleAwaits
<1> DEFINE s == <<x, y, z>>
<1> HIDE DEF s
<1>3. Awaits(s, "deploy", {"build"})
  BY <1>2 DEF s
<1>4. Awaits(s, "write id", {"deploy"})
  BY <1>2 DEF s
<1>5. Awaits(s, "merchant", {"agent"})
  BY <1>2 DEF s
<1> QED BY <1>1, <1>3, <1>4, <1>5 DEF InOrder, s

LEMMA ShortScriptsInOrder ==
  /\ InOrder(<<"build", "deploy", "write id">>)
  /\ InOrder(<<"build", "deploy">>)
  /\ InOrder(<<"find config", "initialize">>)
  /\ InOrder(<<"agent", "merchant">>)
  /\ InOrder(<<"read program", "read config", "read routes">>)
  /\ InOrder(<<"rotate", "read back">>)
  BY PairInOrder, TripleInOrder DEF StepNames

LEMMA RotationInOrder ==
  ASSUME NEW confirm \in {<<>>, <<"confirm">>}
  PROVE  InOrder(confirm \o <<"rotate", "read back">>)
<1> DEFINE s == <<"rotate", "read back">>
<1>1. InOrder(s)
  BY ShortScriptsInOrder
<1>2. InOrder(<<>>) /\ InOrder(<<"confirm">>)
  <2>1. <<>> \in Seq(StepNames) /\ <<"confirm">> \in Seq(StepNames)
    BY DEF StepNames
  <2>2. DOMAIN <<>> = {} /\ DOMAIN <<"confirm">> = {1} /\ <<"confirm">>[1] = "confirm"
    OBVIOUS
  <2> QED BY <2>1, <2>2 DEF InOrder, Awaits
<1> HIDE DEF s
<1>3. ASSUME NEW x, NEW y, Awaits(confirm, x, {y}), Awaits(s, x, {y})
      PROVE  Awaits(confirm \o s, x, {y})
  BY <1>1, <1>2, <1>3, AwaitsInConcatenation DEF InOrder
<1>4. confirm \o s \in Seq(StepNames)
  BY <1>1, <1>2, ConcatProperties DEF InOrder
<1>5. InOrder(confirm \o s)
  BY <1>1, <1>2, <1>3, <1>4 DEF InOrder
<1> QED BY <1>5 DEF s

(* A script that begins with its steps in order.                           *)
LEMMA BegunIsSound ==
  ASSUME NEW j, NEW built, NEW p, InOrder(j.todo),
         DOMAIN j = {"todo", "env", "at", "key", "tx", "paused", "report"},
         j.env \in Shells \cup {<<>>},
         j.at \in Addresses \/ (j.at \in Clusters \X {NONE} /\ Head(j.todo) = "build"),
         j.key \in HotKeys \/ (j.key = NONE /\ ~Includes(j.todo, "rotate")),
         j.tx = NONE, j.report = ""
  PROVE  JobInv(j, built, p)
<1>1. JobType(j)
  BY DEF JobType, InOrder
<1> QED BY <1>1 DEF JobInv, InOrder, Claim, Reports

(* The address a script works out from its environment.                    *)
LEMMA OverIsEnv ==
  ASSUME NEW upper, NEW lower, IsEnv(upper), IsEnv(lower)
  PROVE  IsEnv(Over(upper, lower))
  BY DEF IsEnv, Over

LEMMA AddressOfEnv ==
  ASSUME NEW env, IsEnv(env)
  PROVE  /\ ValueOf(env, "SPLITTER_PROGRAM_ID", DEVNET_ID) \in Ids
         /\ \A cluster \in Clusters : ValueOf(env, "SOLANA_RPC_URL", cluster) \in Clusters
  BY DEF IsEnv, ValueOf, Ids

LEMMA NodeEnvIsEnv ==
  ASSUME ScriptsInv, NEW shell \in Shells, NEW file, IsEnv(file)
  PROVE  IsEnv(NodeEnv(shell, file))
<1>1. IsEnv(shell) /\ IsEnv(env_local.env)
  BY ScriptsAssumption DEF ScriptsInv, TreeInv
<1> QED BY <1>1, OverIsEnv DEF NodeEnv


LEMMA BeginKeeps ==
  ASSUME ScriptsInv, NEW t \in Terminals, NEW j, Begin(t, j),
         \A built, p : JobInv(j, built, p)
  PROVE  ScriptsInv'
  BY QuietStepKeeps DEF Begin

LEMMA StartKeeps ==
  ASSUME ScriptsInv, NEW t \in Terminals, Start(t)
  PROVE  ScriptsInv'
<1>1. CASE StartDevnetDeploy(t)
  <2>1. PICK shell \in Shells, url \in Clusters :
          Begin(t, [Nothing EXCEPT !.todo = <<"build", "deploy", "write id">>, !.env = shell,
                                   !.at = <<url, NONE>>])
    BY <1>1, ScriptsAssumption DEF StartDevnetDeploy, Clusters
  <2> DEFINE steps == <<"build", "deploy", "write id">>
             j == [Nothing EXCEPT !.todo = steps, !.env = shell, !.at = <<url, NONE>>]
  <2>2. InOrder(steps) /\ Head(steps) = "build" /\ ~Includes(steps, "rotate")
    <3>1. ~Includes(steps, "rotate")
      BY TripleIncludesOnly
    <3>2. Head(steps) = "build"
      OBVIOUS
    <3>3. InOrder(steps)
      BY ShortScriptsInOrder
    <3> HIDE DEF steps
    <3> QED BY <3>1, <3>2, <3>3
  <2> HIDE DEF steps
  <2>3. /\ DOMAIN j = {"todo", "env", "at", "key", "tx", "paused", "report"}
        /\ j.todo = steps /\ j.env = shell /\ j.at = <<url, NONE>> /\ j.key = NONE
        /\ j.tx = NONE /\ j.report = ""
    BY DEF Nothing
  <2>4. Begin(t, j)
    BY <2>1 DEF steps
  <2> HIDE DEF j
  <2>5. \A built, p : JobInv(j, built, p)
    <3>1. <<url, NONE>> \in Clusters \X {NONE}
      OBVIOUS
    <3>2. Head(j.todo) = "build"
      BY <2>2, <2>3
    <3> QED BY <2>2, <2>3, <3>1, <3>2, BegunIsSound
  <2> QED BY <2>4, <2>5, BeginKeeps
<1>2. CASE StartLocalnetDeploy(t)
  <2>1. PICK shell \in Shells, url \in Clusters, id \in ThrowawayIds :
          Begin(t, [Nothing EXCEPT !.todo = <<"build", "deploy">>, !.env = shell,
                                   !.at = <<url, id>>])
    BY <1>2, ScriptsAssumption DEF StartLocalnetDeploy, Clusters
  <2> DEFINE steps == <<"build", "deploy">>
             j == [Nothing EXCEPT !.todo = steps, !.env = shell, !.at = <<url, id>>]
  <2>2. InOrder(steps) /\ ~Includes(steps, "rotate")
    <3>1. ~Includes(steps, "rotate")
      BY PairIncludesOnly
    <3> QED BY <3>1, ShortScriptsInOrder
  <2> HIDE DEF steps
  <2>3. /\ DOMAIN j = {"todo", "env", "at", "key", "tx", "paused", "report"}
        /\ j.todo = steps /\ j.env = shell /\ j.at = <<url, id>> /\ j.key = NONE
        /\ j.tx = NONE /\ j.report = ""
    BY DEF Nothing
  <2>4. Begin(t, j)
    BY <2>1 DEF steps
  <2> HIDE DEF j
  <2>5. j.at \in Addresses
    <3>1. <<url, id>> \in Addresses
      BY DEF Addresses, Ids
    <3> QED BY <2>3, <3>1
  <2>6. \A built, p : JobInv(j, built, p)
    BY <2>2, <2>3, <2>5, BegunIsSound
  <2> QED BY <2>4, <2>6, BeginKeeps
<1>3. CASE StartDevnetScript(t)
  <2> DEFINE AddressOf(shell) == DevnetAddress(NodeEnv(shell, ENV_DEVELOPMENT))
  <2>1. PICK shell \in Shells,
             steps \in {<<"find config", "initialize">>, <<"agent", "merchant">>} :
          Begin(t, [Nothing EXCEPT !.todo = steps, !.at = AddressOf(shell)])
    BY <1>3 DEF StartDevnetScript
  <2>2. InOrder(steps) /\ ~Includes(steps, "rotate")
    BY ShortScriptsInOrder, PairIncludesOnly
  <2> DEFINE at == AddressOf(shell)
  <2>3. at \in Addresses
    <3>1. IsEnv(NodeEnv(shell, ENV_DEVELOPMENT))
      BY NodeEnvIsEnv, ScriptsAssumption
    <3> QED BY <3>1, AddressOfEnv DEF DevnetAddress, Addresses, Clusters
  <2> HIDE DEF at
  <2> DEFINE j == [Nothing EXCEPT !.todo = steps, !.at = at]
  <2>4. /\ DOMAIN j = {"todo", "env", "at", "key", "tx", "paused", "report"}
        /\ j.todo = steps /\ j.env = <<>> /\ j.at = at /\ j.key = NONE
        /\ j.tx = NONE /\ j.report = ""
    BY DEF Nothing
  <2>5. Begin(t, j)
    BY <2>1 DEF at
  <2> HIDE DEF j
  <2>6. \A built, p : JobInv(j, built, p)
    BY <2>2, <2>3, <2>4, BegunIsSound
  <2> QED BY <2>5, <2>6, BeginKeeps
<1>4. CASE StartCheck(t)
  <2> DEFINE steps == <<"read program", "read config", "read routes">>
             AddressOf(shell) == <<"devnet", ValueOf(shell, "SPLITTER_PROGRAM_ID", DEVNET_ID)>>
  <2>1. PICK shell \in Shells : Begin(t, [Nothing EXCEPT !.todo = steps, !.at = AddressOf(shell)])
    BY <1>4 DEF StartCheck
  <2>2. InOrder(steps) /\ ~Includes(steps, "rotate")
    <3>1. ~Includes(steps, "rotate")
      BY TripleIncludesOnly
    <3> QED BY <3>1, ShortScriptsInOrder
  <2> DEFINE at == AddressOf(shell)
  <2>3. at \in Addresses
    BY AddressOfEnv, ScriptsAssumption DEF Addresses, Clusters
  <2> HIDE DEF at, steps
  <2> DEFINE j == [Nothing EXCEPT !.todo = steps, !.at = at]
  <2>4. /\ DOMAIN j = {"todo", "env", "at", "key", "tx", "paused", "report"}
        /\ j.todo = steps /\ j.env = <<>> /\ j.at = at /\ j.key = NONE
        /\ j.tx = NONE /\ j.report = ""
    BY DEF Nothing
  <2>5. Begin(t, j)
    BY <2>1 DEF at, steps
  <2> HIDE DEF j
  <2>6. \A built, p : JobInv(j, built, p)
    BY <2>2, <2>3, <2>4, BegunIsSound
  <2> QED BY <2>5, <2>6, BeginKeeps
<1>5. CASE StartRotation(t)
  <2> DEFINE AddressOf(shell) ==
               <<ValueOf(NodeEnv(shell, ENV_PRODUCTION), "SOLANA_RPC_URL", "mainnet"), DEVNET_ID>>
  <2>1. PICK shell \in Shells, key \in HotKeys, confirm \in {<<>>, <<"confirm">>} :
          Begin(t, [Nothing EXCEPT !.todo = confirm \o <<"rotate", "read back">>, !.key = key,
                                   !.at = AddressOf(shell)])
    BY <1>5 DEF StartRotation
  <2> DEFINE steps == confirm \o <<"rotate", "read back">>
             at == AddressOf(shell)
  <2>2. InOrder(steps)
    BY RotationInOrder
  <2>3. at \in Addresses
    <3>1. IsEnv(NodeEnv(shell, ENV_PRODUCTION))
      BY NodeEnvIsEnv, ScriptsAssumption
    <3> QED BY <3>1, AddressOfEnv DEF Addresses, Clusters, Ids
  <2> HIDE DEF at, steps
  <2> DEFINE j == [Nothing EXCEPT !.todo = steps, !.key = key, !.at = at]
  <2>4. /\ DOMAIN j = {"todo", "env", "at", "key", "tx", "paused", "report"}
        /\ j.todo = steps /\ j.env = <<>> /\ j.at = at /\ j.key = key
        /\ j.tx = NONE /\ j.report = ""
    BY DEF Nothing
  <2>5. Begin(t, j)
    BY <2>1 DEF at, steps
  <2> HIDE DEF j
  <2>6. \A built, p : JobInv(j, built, p)
    BY <2>2, <2>3, <2>4, BegunIsSound
  <2> QED BY <2>5, <2>6, BeginKeeps
<1> QED BY <1>1, <1>2, <1>3, <1>4, <1>5 DEF Start


-----------------------------------------------------------------------------
(* Building and deploying.                                                 *)

LEMMA BuiltIsBinary ==
  ASSUME TreeInv, NEW env \in Shells \cup {<<>>}
  PROVE  Built(env) \in BinaryType
<1>1. source.declares \in Ids
  BY ScriptsAssumption DEF TreeInv
<1>2. ValueOf(env, "SPLITTER_DEPLOYER", PLACEHOLDER) \in Deployers
  <2>1. DOMAIN <<>> = {}
    OBVIOUS
  <2> QED BY <2>1 DEF ValueOf, Deployers
<1> QED BY <1>1, <1>2 DEF Built, BinaryType

LEMMA BuildByHandKeeps ==
  ASSUME ScriptsInv, BuildByHand
  PROVE  ScriptsInv'
<1>1. IsBuilt'
  BY BuiltIsBinary DEF BuildByHand, ScriptsInv, IsBuilt
<1>2. UNCHANGED <<source, env_local, programs, job, late>>
  BY DEF BuildByHand
<1>3. \A at \in Addresses : Grows(programs[at], programs'[at])
  BY <1>2 DEF Grows
<1>4. job' = [u \in Terminals |-> job'[u]] /\ Jobs'
  BY <1>1, <1>2, <1>3, JobsRemain
<1>5. TreeInv'
  BY <1>1, <1>2 DEF ScriptsInv, TreeInv
<1> QED BY <1>2, <1>4, <1>5 DEF ScriptsInv

(* The deployment script learns its address from the keypair.              *)
LEMMA AddressFound ==
  ASSUME NEW at, at \in Addresses \/ at \in Clusters \X {NONE}, source.keypair \in Ids
  PROVE  /\ Located(at) \in Addresses
         /\ at \in Addresses => Located(at) = at
<1>1. NONE \notin Ids
  BY ScriptsAssumption
<1>2. CASE at \in Addresses
  <2>1. PICK cluster \in Clusters, known \in Ids : at = <<cluster, known>>
    BY <1>2 DEF Addresses
  <2>2. known # NONE
    BY <1>1
  <2> QED BY <1>2, <2>1, <2>2 DEF Located
<1>3. CASE at \notin Addresses
  <2>1. PICK url \in Clusters : at = <<url, NONE>>
    BY <1>3
  <2>2. Located(at) = <<url, source.keypair>>
    BY <2>1 DEF Located
  <2> QED BY <1>3, <2>2 DEF Addresses
<1> QED BY <1>2, <1>3

LEMMA BuildIfMissingKeeps ==
  ASSUME ScriptsInv, NEW t \in Terminals, BuildIfMissing(t)
  PROVE  ScriptsInv'
<1> DEFINE j == job[t]
           at == Located(j.at)
           k == [Advanced(j) EXCEPT !.at = at]
           l == [j EXCEPT !.at = at]
<1>1. /\ job' = [job EXCEPT ![t] = k]
      /\ UNCHANGED <<source, env_local, programs, late>>
      /\ j.todo # <<>> /\ Head(j.todo) = "build"
  BY DEF BuildIfMissing, At
<1>2. JobInv(j, IsBuilt, Seen(programs, j.at)) /\ JobType(j)
  BY JobAt DEF JobInv
<1> HIDE DEF j
<1>3. IsBuilt'
  <2>1. Built(j.env) \in BinaryType
    BY <1>2, BuiltIsBinary DEF ScriptsInv, JobType
  <2> QED BY <2>1 DEF BuildIfMissing, ScriptsInv, TreeInv, IsBuilt, j
<1>4. at \in Addresses /\ (j.at \in Addresses => at = j.at)
  <2>1. source.keypair \in Ids
    BY ScriptsAssumption DEF ScriptsInv, TreeInv
  <2>2. j.at \in Addresses \/ j.at \in Clusters \X {NONE}
    BY <1>1, <1>2 DEF JobType
  <2> QED BY <2>1, <2>2, AddressFound
<1>5. j.tx = NONE
  BY <1>1, <1>2 DEF JobType, Sent
<1>6. /\ DOMAIN k = {"todo", "env", "at", "key", "tx", "paused", "report"}
      /\ k.todo = Tail(j.todo) /\ k.env = j.env /\ k.at = at /\ k.key = j.key
      /\ k.tx = NONE /\ k.report = j.report
  BY <1>2 DEF JobType, Advanced
<1> HIDE DEF at, k
<1>7. /\ DOMAIN l = {"todo", "env", "at", "key", "tx", "paused", "report"}
      /\ l.todo = j.todo /\ l.env = j.env /\ l.at = at /\ l.key = j.key
      /\ l.tx = j.tx /\ l.report = j.report
  BY <1>2 DEF JobType
<1> HIDE DEF l
<1>8. Grows(Seen(programs, j.at), Seen(programs', at))
  BY <1>1, <1>4 DEF Grows, Seen, NoProgram, Initialized
<1>9. JobInv(l, IsBuilt', Seen(programs', at))
  <2>1. JobInv(j, IsBuilt', Seen(programs', at))
    BY <1>2, <1>3, <1>8, ProgramsMayGrow
  <2>2. JobType(l)
    BY <1>2, <1>4, <1>5, <1>7 DEF JobType
  <2> QED BY <1>7, <2>1, <2>2 DEF JobInv
<1>10. JobInv(Advanced(l), IsBuilt', Seen(programs', at))
  BY <1>1, <1>3, <1>4, <1>7, <1>9, AdvancedIsSound
<1>11. JobInv(k, IsBuilt', Seen(programs', k.at))
  <2> DEFINE m == Advanced(l)
  <2>1. /\ m.todo = k.todo /\ m.env = k.env /\ m.at = k.at /\ m.key = k.key
        /\ m.tx = k.tx /\ m.report = k.report
    BY <1>6, <1>7 DEF Advanced
  <2> HIDE DEF m
  <2>2. JobInv(m, IsBuilt', Seen(programs', at))
    BY <1>10 DEF m
  <2>3. JobType(k)
    BY <1>6, <2>1, <2>2 DEF JobInv, JobType
  <2> QED BY <1>6, <2>1, <2>2, <2>3 DEF JobInv
<1>12. job' = [u \in Terminals |-> job'[u]] /\ Jobs'
  <2>1. \A a \in Addresses : Grows(programs[a], programs'[a])
    BY <1>1 DEF Grows
  <2> QED BY <1>1, <1>3, <1>11, <2>1, JobsFollow
<1>13. TreeInv'
  BY <1>1, <1>3 DEF ScriptsInv, TreeInv
<1> QED BY <1>1, <1>12, <1>13 DEF ScriptsInv


(* One program changes and has only grown.                                 *)
LEMMA ProgramsFollow ==
  ASSUME ScriptsInv, NEW at \in Addresses, NEW p, programs' = [programs EXCEPT ![at] = p],
         ProgramInv(p), Grows(programs[at], p)
  PROVE  /\ programs' = [a \in Addresses |-> programs'[a]]
         /\ programs'[at] = p
         /\ \A a \in Addresses : ProgramInv(programs'[a]) /\ Grows(programs[a], programs'[a])
<1>1. /\ programs' = [a \in Addresses |-> programs'[a]]
      /\ programs'[at] = p /\ \A a \in Addresses \ {at} : programs'[a] = programs[a]
  BY DEF ScriptsInv
<1>2. ASSUME NEW a \in Addresses
      PROVE  ProgramInv(programs'[a]) /\ Grows(programs[a], programs'[a])
  <2>1. CASE a = at
    BY <1>1, <2>1
  <2>2. CASE a # at
    BY <1>1, <2>2 DEF ScriptsInv, Grows
  <2> QED BY <2>1, <2>2
<1> QED BY <1>1, <1>2

LEMMA DeployedIsSound ==
  ASSUME IsBuilt, NEW p, ProgramInv(p)
  PROVE  ProgramInv(Deployed(p)) /\ Grows(p, Deployed(p)) /\ Deployed(p).exists
<1> DEFINE q == Deployed(p)
<1>1. binary.declares \in Ids /\ binary.deployer \in Deployers
  BY DEF IsBuilt, BinaryType
<1>2. CASE p = NoProgram
  <2>1. /\ p \in [exists : {FALSE}, declares : {NONE}, deployer : {NONE},
                  admin : {NONE}, signer : {NONE}, routes : SUBSET Routes]
        /\ p.routes = {}
    BY <1>2 DEF NoProgram
  <2>2. /\ q.exists = TRUE /\ q.admin = NONE /\ q.routes = p.routes /\ p.exists = FALSE
        /\ q \in [exists : {TRUE}, declares : Ids, deployer : Deployers,
                 admin : {NONE}, signer : {NONE}, routes : SUBSET Routes]
    BY <1>1, <2>1 DEF Deployed
  <2> HIDE DEF q
  <2>3. q \in ProgramType
    BY <2>2 DEF ProgramType
  <2>4. ProgramInv(q) /\ Grows(p, q) /\ q.exists
    BY <2>1, <2>2, <2>3 DEF ProgramInv, Grows, Initialized
  <2> QED BY <2>4 DEF q
<1>3. CASE p # NoProgram
  <2>1. p \in ProgramType \ {NoProgram}
    BY <1>3 DEF ProgramInv
  <2>2. /\ q.exists = TRUE /\ q.admin = p.admin /\ q.routes = p.routes
        /\ q \in ProgramType
    BY <1>1, <2>1 DEF Deployed, ProgramType
  <2> HIDE DEF q
  <2>3. ProgramInv(q) /\ Grows(p, q) /\ q.exists
    BY <2>2 DEF ProgramInv, Grows, Initialized
  <2> QED BY <2>3 DEF q
<1> QED BY <1>2, <1>3

LEMMA DeployKeeps ==
  ASSUME ScriptsInv, NEW t \in Terminals, Deploy(t)
  PROVE  ScriptsInv'
<1> DEFINE j == job[t]
           p == Deployed(programs[j.at])
<1>1. /\ j.todo # <<>> /\ Head(j.todo) = "deploy"
      /\ programs' = [programs EXCEPT ![j.at] = p]
      /\ Report(t, "DEPLOYED") \/ Advance(t)
      /\ UNCHANGED <<tree, late>>
  BY DEF Deploy, At
<1>2. JobInv(j, IsBuilt, Seen(programs, j.at)) /\ JobType(j)
  BY JobAt DEF JobInv
<1>3. Report(t, "DEPLOYED") =>
        job' = [job EXCEPT ![t] = [Nothing EXCEPT !.at = j.at, !.key = j.key, !.report = "DEPLOYED"]]
  BY DEF Report
<1>4. Advance(t) => job' = [job EXCEPT ![t] = Advanced(j)]
  BY DEF Advance
<1> HIDE DEF j
<1>5. j.at \in Addresses
  BY <1>1, <1>2 DEF JobType
<1>6. IsBuilt
  <2>1. ~Awaits(j.todo, "deploy", {"build"})
    BY <1>1, <1>2, FirstStepAwaitsNothing DEF JobType
  <2> QED BY <1>2, <2>1 DEF JobInv
<1>7. ProgramInv(p) /\ Grows(programs[j.at], p) /\ p.exists
  BY <1>5, <1>6, DeployedIsSound DEF ScriptsInv
<1> HIDE DEF p
<1>8. /\ programs' = [a \in Addresses |-> programs'[a]]
      /\ programs'[j.at] = p
      /\ \A a \in Addresses : ProgramInv(programs'[a]) /\ Grows(programs[a], programs'[a])
  BY <1>1, <1>5, <1>7, ProgramsFollow
<1>9. IsBuilt' /\ TreeInv'
  BY <1>1, <1>6 DEF ScriptsInv, TreeInv, IsBuilt, tree
<1>10. Seen(programs', j.at) = p /\ Seen(programs, j.at) = programs[j.at]
  BY <1>5, <1>8 DEF Seen
<1>11. JobInv(j, IsBuilt', p)
  <2>1. JobInv(j, IsBuilt, programs[j.at]) /\ IsBuilt'
    BY <1>2, <1>9, <1>10
  <2> HIDE DEF IsBuilt
  <2> QED BY <1>7, <2>1, ProgramsMayGrow
<1>12. Jobs' /\ job' = [u \in Terminals |-> job'[u]]
  <2>1. CASE Report(t, "DEPLOYED")
    <3> DEFINE k == [Nothing EXCEPT !.at = j.at, !.key = j.key, !.report = "DEPLOYED"]
    <3>1. k.at = j.at /\ j.key \in HotKeys \cup {NONE}
      BY <1>2 DEF Nothing, JobType
    <3>2. Claim("DEPLOYED", p)
      BY <1>7 DEF Claim
    <3>3. JobInv(k, IsBuilt', p)
      BY <3>1, <3>2, EndedIsSound
    <3>4. job' = [job EXCEPT ![t] = k]
      BY <1>3, <2>1
    <3> HIDE DEF k
    <3> QED BY <1>8, <1>9, <1>10, <3>1, <3>3, <3>4, JobsFollow
  <2>2. CASE Advance(t)
    <3> DEFINE k == Advanced(j)
    <3>1. k.at = j.at
      BY <1>2 DEF Advanced, JobType
    <3>2. JobInv(k, IsBuilt', p)
      BY <1>1, <1>5, <1>7, <1>11, AdvancedIsSound
    <3>3. job' = [job EXCEPT ![t] = k]
      BY <1>4, <2>2
    <3> HIDE DEF k
    <3> QED BY <1>8, <1>9, <1>10, <3>1, <3>2, <3>3, JobsFollow
  <2> QED BY <1>1, <2>1, <2>2
<1> QED BY <1>1, <1>8, <1>9, <1>12 DEF ScriptsInv

LEMMA WriteIdKeeps ==
  ASSUME ScriptsInv, NEW t \in Terminals, WriteId(t)
  PROVE  ScriptsInv'
<1> DEFINE j == job[t]
           line == [v \in {"SPLITTER_PROGRAM_ID"} |-> j.at[2]]
           k == [Nothing EXCEPT !.at = j.at, !.key = j.key, !.report = "DEPLOYED"]
<1>1. /\ j.todo # <<>> /\ Head(j.todo) = "write id"
      /\ job' = [job EXCEPT ![t] = k]
      /\ UNCHANGED <<source, binary, programs, late>>
  BY DEF WriteId, At, Report
<1>2. env_local'.exists = TRUE /\ env_local'.env \in {env_local.env, Over(line, env_local.env)}
  BY DEF WriteId
<1>3. JobInv(j, IsBuilt, Seen(programs, j.at)) /\ JobType(j)
  BY JobAt DEF JobInv
<1> HIDE DEF j
<1>4. j.at \in Addresses
  BY <1>1, <1>3 DEF JobType
<1>5. Seen(programs, j.at).exists
  <2>1. ~Awaits(j.todo, "write id", {"deploy"})
    BY <1>1, <1>3, FirstStepAwaitsNothing DEF JobType
  <2> QED BY <1>3, <2>1 DEF JobInv
<1>6. IsEnv(env_local'.env)
  <2>1. j.at[2] \in Ids
    BY <1>4 DEF Addresses
  <2>2. IsEnv(line)
    BY <2>1 DEF IsEnv, EnvVars
  <2> HIDE DEF line
  <2> QED BY <1>2, <2>2, OverIsEnv DEF ScriptsInv, TreeInv
<1>7. TreeInv' /\ IsBuilt' = IsBuilt
  BY <1>1, <1>2, <1>6 DEF ScriptsInv, TreeInv, IsBuilt
<1>8. JobInv(k, IsBuilt', Seen(programs', k.at))
  <2>1. k.at = j.at /\ j.key \in HotKeys \cup {NONE}
    BY <1>3 DEF Nothing, JobType
  <2>2. Seen(programs', j.at) = Seen(programs, j.at)
    BY <1>1 DEF Seen
  <2>3. Claim("DEPLOYED", Seen(programs', j.at))
    BY <1>5, <2>2 DEF Claim
  <2> QED BY <2>1, <2>3, EndedIsSound
<1> HIDE DEF k
<1>9. \A a \in Addresses : Grows(programs[a], programs'[a])
  BY <1>1 DEF Grows
<1>10. Jobs' /\ job' = [u \in Terminals |-> job'[u]]
  BY <1>1, <1>7, <1>8, <1>9, JobsFollow
<1> QED BY <1>1, <1>7, <1>10 DEF ScriptsInv


-----------------------------------------------------------------------------
(* Steps that look, ask or send.                                           *)

LEMMA SendKeeps ==
  ASSUME ScriptsInv, NEW t \in Terminals, job[t].todo # <<>>,
         NEW tx, Sends(t, tx), ProperTx(tx), Sent(Head(job[t].todo), tx), tx.at = job[t].at
  PROVE  ScriptsInv'
<1> DEFINE j == job[t]
           k == [j EXCEPT !.tx = tx]
<1>1. /\ job' = [job EXCEPT ![t] = k]
      /\ UNCHANGED <<tree, programs, late>>
  BY DEF Sends
<1>2. JobInv(j, IsBuilt, Seen(programs, j.at)) /\ k.at = j.at
  BY JobAt DEF JobInv, JobType
<1>3. JobInv(k, IsBuilt, Seen(programs, j.at))
  BY <1>2, SentIsSound
<1> HIDE DEF j, k
<1> QED BY <1>1, <1>2, <1>3, QuietStepKeeps

LEMMA SendInitializeKeeps ==
  ASSUME ScriptsInv, NEW t \in Terminals, SendInitialize(t)
  PROVE  ScriptsInv'
<1>1. PICK by \in FileKeys : Sends(t, Tx(t, "initialize", by, NONE))
  BY DEF SendInitialize
<1> DEFINE tx == Tx(t, "initialize", by, NONE)
<1>2. job[t].todo # <<>> /\ Head(job[t].todo) = "initialize"
  BY DEF SendInitialize, At
<1>3. job[t].at \in Addresses /\ job[t].key \in HotKeys \cup {NONE}
  BY <1>2, JobAt DEF JobInv, JobType
<1>4. ProperTx(tx) /\ Sent("initialize", tx) /\ tx.at = job[t].at
  BY <1>3 DEF Tx, ProperTx, IsTx, Sent
<1> HIDE DEF tx
<1>5. Sends(t, tx)
  BY <1>1 DEF tx
<1> QED BY <1>2, <1>4, <1>5, SendKeeps

LEMMA SendRouteKeeps ==
  ASSUME ScriptsInv, NEW t \in Terminals, SendRoute(t)
  PROVE  ScriptsInv'
<1>1. PICK by \in FileKeys, route \in Routes :
        /\ job[t].todo # <<>>
        /\ \/ Head(job[t].todo) = "agent" /\ route = AGENT_X402
           \/ Head(job[t].todo) = "merchant" /\ route = MERCHANT_AIFP1
        /\ Sends(t, Tx(t, "configure_route", by, route))
  BY DEF SendRoute, At, Routes
<1> DEFINE tx == Tx(t, "configure_route", by, route)
<1>2. job[t].at \in Addresses /\ job[t].key \in HotKeys \cup {NONE}
  BY <1>1, JobAt DEF JobInv, JobType
<1>3. ProperTx(tx) /\ Sent(Head(job[t].todo), tx) /\ tx.at = job[t].at
  BY <1>1, <1>2 DEF Tx, ProperTx, IsTx, Sent
<1> HIDE DEF tx
<1>4. Sends(t, tx)
  BY <1>1 DEF tx
<1> QED BY <1>1, <1>3, <1>4, SendKeeps

LEMMA SendRotationKeeps ==
  ASSUME ScriptsInv, NEW t \in Terminals, SendRotation(t)
  PROVE  ScriptsInv'
<1>1. PICK by \in FileKeys : Sends(t, Tx(t, "rotate_signer_role", by, NONE))
  BY DEF SendRotation
<1> DEFINE tx == Tx(t, "rotate_signer_role", by, NONE)
<1>2. job[t].todo # <<>> /\ Head(job[t].todo) = "rotate"
  BY DEF SendRotation, At
<1>3. job[t].at \in Addresses /\ job[t].key \in HotKeys
  <2>1. JobInv(job[t], IsBuilt, Seen(programs, job[t].at)) /\ job[t].todo \in Seq(StepNames)
    BY JobAt DEF JobInv, JobType
  <2>2. Includes(job[t].todo, "rotate")
    BY <1>2, <2>1, FirstStepAwaitsNothing
  <2> QED BY <1>2, <2>1, <2>2 DEF JobInv, JobType
<1>4. ProperTx(tx) /\ Sent("rotate", tx) /\ tx.at = job[t].at
  BY <1>3 DEF Tx, ProperTx, IsTx, Sent
<1> HIDE DEF tx
<1>5. Sends(t, tx)
  BY <1>1 DEF tx
<1> QED BY <1>2, <1>4, <1>5, SendKeeps

LEMMA FindConfigKeeps ==
  ASSUME ScriptsInv, NEW t \in Terminals, FindConfig(t)
  PROVE  ScriptsInv'
<1> DEFINE j == job[t]
           k == [j EXCEPT !.todo = <<"confirm">> \o Tail(@)]
<1>1. j.todo # <<>> /\ Head(j.todo) = "find config" /\ UNCHANGED <<tree, programs, late>>
  BY DEF FindConfig, At
<1>2. CASE Advance(t)
  BY <1>1, <1>2, AdvanceKeeps
<1>3. CASE job' = [job EXCEPT ![t] = k]
  <2>1. JobInv(j, IsBuilt, Seen(programs, j.at)) /\ k.at = j.at
    BY JobAt DEF JobInv, JobType
  <2>2. JobInv(k, IsBuilt, Seen(programs, j.at))
    BY <1>1, <2>1, PromptIsSound
  <2> HIDE DEF j, k
  <2> QED BY <1>1, <1>3, <2>1, <2>2, QuietStepKeeps
<1> QED BY <1>2, <1>3 DEF FindConfig

LEMMA AnswerKeeps ==
  ASSUME ScriptsInv, NEW t \in Terminals, Answer(t)
  PROVE  ScriptsInv'
<1>1. job[t].todo # <<>> /\ Head(job[t].todo) = "confirm"
  BY DEF Answer, At
<1> QED BY <1>1, AdvanceKeeps DEF Answer

LEMMA ReadProgramKeeps ==
  ASSUME ScriptsInv, NEW t \in Terminals, ReadProgram(t)
  PROVE  ScriptsInv'
<1>1. /\ job[t].todo # <<>> /\ Head(job[t].todo) = "read program"
      /\ Advance(t) \/ Stop(t)
      /\ UNCHANGED <<tree, programs, late>>
  BY DEF ReadProgram, At
<1> QED BY <1>1, AdvanceKeeps, StopKeeps

LEMMA ReadConfigKeeps ==
  ASSUME ScriptsInv, NEW t \in Terminals, ReadConfig(t)
  PROVE  ScriptsInv'
<1> DEFINE j == job[t]
<1>1. j.todo # <<>> /\ Head(j.todo) = "read config" /\ UNCHANGED <<tree, programs, late>>
  BY DEF ReadConfig, At
<1>2. CASE Stop(t)
  BY <1>1, <1>2, StopKeeps
<1>3. CASE ~Stop(t)
  <2>1. PICK is_paused \in BOOLEAN :
          job' = [job EXCEPT ![t] = [Advanced(job[t]) EXCEPT !.paused = is_paused]]
    BY <1>3 DEF ReadConfig
  <2> DEFINE k == Advanced(j)
             l == [k EXCEPT !.paused = is_paused]
  <2>2. job' = [job EXCEPT ![t] = l]
    BY <2>1
  <2>3. JobInv(j, IsBuilt, Seen(programs, j.at)) /\ j.at \in Addresses /\ k.at = j.at
    BY <1>1, JobAt DEF JobInv, JobType, Advanced
  <2>4. JobInv(k, IsBuilt, Seen(programs, j.at))
    BY <1>1, <2>3, AdvancedIsSound
  <2> HIDE DEF k
  <2>5. /\ DOMAIN l = DOMAIN k /\ l.todo = k.todo /\ l.env = k.env /\ l.at = k.at
        /\ l.key = k.key /\ l.tx = k.tx /\ l.report = k.report
    BY <2>4 DEF JobInv, JobType
  <2> HIDE DEF l
  <2>6. JobInv(l, IsBuilt, Seen(programs, l.at))
    BY <2>3, <2>4, <2>5 DEF JobInv, JobType
  <2> QED BY <1>1, <2>2, <2>6, QuietStepKeeps
<1> QED BY <1>2, <1>3

(* Routes are found only in a program that is there and initialized.       *)
LEMMA ReadRoutesKeeps ==
  ASSUME ScriptsInv, NEW t \in Terminals, ReadRoutes(t)
  PROVE  ScriptsInv'
<1>1. /\ job[t].todo # <<>> /\ Head(job[t].todo) = "read routes"
      /\ Stop(t) \/ (Report(t, "READY") /\ Routes \subseteq programs[job[t].at].routes)
      /\ UNCHANGED <<tree, programs, late>>
  BY DEF ReadRoutes, At
<1>2. job[t].at \in Addresses
  BY <1>1, JobAt DEF JobInv, JobType
<1>3. ASSUME Routes \subseteq programs[job[t].at].routes
      PROVE  Claim("READY", Seen(programs, job[t].at))
  <2> DEFINE p == programs[job[t].at]
  <2>1. ProgramInv(p) /\ p.routes # {}
    BY <1>2, <1>3 DEF ScriptsInv, Routes
  <2>2. Initialized(p) /\ p.exists
    <3> HIDE DEF p
    <3>1. Initialized(p)
      BY <2>1 DEF ProgramInv
    <3>2. p \in ProgramType /\ p # NoProgram
      BY <2>1 DEF ProgramInv, NoProgram
    <3>3. p.exists = TRUE
      BY <3>2 DEF ProgramType
    <3> QED BY <3>1, <3>3
  <2> QED BY <1>2, <1>3, <2>2 DEF Claim, Seen
<1> QED BY <1>1, <1>3, StopKeeps, ReportKeeps

LEMMA ReadBackKeeps ==
  ASSUME ScriptsInv, NEW t \in Terminals, ReadBack(t)
  PROVE  ScriptsInv'
<1>1. (Report(t, "YES") \/ Stop(t)) /\ UNCHANGED <<tree, programs, late>>
  BY DEF ReadBack
<1>2. Claim("YES", Seen(programs, job[t].at))
  BY DEF Claim, Reports
<1> QED BY <1>1, <1>2, StopKeeps, ReportKeeps

LEMMA WorkKeeps ==
  ASSUME ScriptsInv, NEW t \in Terminals, Work(t)
  PROVE  ScriptsInv'
  BY BuildIfMissingKeeps, DeployKeeps, WriteIdKeeps, FindConfigKeeps, SendInitializeKeeps,
     SendRouteKeeps, SendRotationKeeps, ReadProgramKeeps, ReadConfigKeeps, ReadRoutesKeeps,
     ReadBackKeeps DEF Work


-----------------------------------------------------------------------------
(* Transactions.                                                           *)

(* What initialized programs never lose, and who their signer may become.  *)
Kept(p, p2) ==
  Initialized(p) =>
    /\ p2.admin = p.admin
    /\ p.routes \subseteq p2.routes
    /\ p2.signer # p.signer => p2.signer \in HotKeys

(* A transaction that succeeds: initialize finds a program that is there   *)
(* and not initialized, the others one that is.                            *)
LEMMA ChangedIsSound ==
  ASSUME NEW p, ProgramInv(p), NEW tx, ProperTx(tx), p.exists,
         Initialized(p) <=> tx.instruction # "initialize"
  PROVE  /\ ProgramInv(Changed(p, tx)) /\ Grows(p, Changed(p, tx)) /\ Kept(p, Changed(p, tx))
         /\ Changed(p, tx).exists /\ Initialized(Changed(p, tx))
         /\ tx.instruction = "configure_route" => tx.route \in Changed(p, tx).routes
<1> DEFINE q == Changed(p, tx)
<1>1. p \in ProgramType \ {NoProgram} /\ NONE # ADMIN
  BY ScriptsAssumption DEF ProgramInv, NoProgram
<1>2. CASE tx.instruction = "initialize"
  <2>1. ~Initialized(p) /\ p.routes = {}
    BY <1>2 DEF ProgramInv
  <2>2. q = [p EXCEPT !.admin = ADMIN, !.signer = INITIAL_SIGNER, !.routes = INITIAL_ROUTES]
    BY <1>2 DEF Changed
  <2> HIDE DEF q
  <2>3. q \in ProgramType /\ q.admin = ADMIN /\ q.exists = TRUE
    BY <1>1, <2>2, ScriptsAssumption DEF ProgramType
  <2>4. /\ ProgramInv(q) /\ Grows(p, q) /\ Kept(p, q) /\ q.exists /\ Initialized(q)
        /\ tx.instruction # "configure_route"
    BY <1>1, <1>2, <2>1, <2>3 DEF ProgramInv, Grows, Kept, Initialized
  <2> QED BY <2>4 DEF q
<1>3. CASE tx.instruction = "configure_route"
  <2>1. Initialized(p) /\ tx.route \in Routes
    BY <1>3 DEF ProperTx
  <2>2. q = [p EXCEPT !.routes = @ \cup {tx.route}]
    BY <1>3 DEF Changed
  <2> HIDE DEF q
  <2>3. /\ q \in ProgramType /\ q.admin = p.admin /\ q.signer = p.signer
        /\ q.routes = p.routes \cup {tx.route} /\ q.exists = TRUE
    BY <1>1, <2>1, <2>2 DEF ProgramType
  <2>4. /\ ProgramInv(q) /\ Grows(p, q) /\ Kept(p, q) /\ q.exists /\ Initialized(q)
        /\ tx.route \in q.routes
    BY <2>1, <2>3 DEF ProgramInv, Grows, Kept, Initialized
  <2> QED BY <2>4 DEF q
<1>4. CASE tx.instruction = "rotate_signer_role"
  <2>1. Initialized(p) /\ tx.key \in HotKeys
    BY <1>4 DEF ProperTx
  <2>2. q = [p EXCEPT !.signer = tx.key]
    BY <1>4 DEF Changed
  <2> HIDE DEF q
  <2>3. /\ q \in ProgramType /\ q.admin = p.admin /\ q.signer = tx.key
        /\ q.routes = p.routes /\ q.exists = TRUE
    BY <1>1, <2>1, <2>2 DEF ProgramType
  <2>4. /\ ProgramInv(q) /\ Grows(p, q) /\ Kept(p, q) /\ q.exists /\ Initialized(q)
        /\ tx.instruction # "configure_route"
    BY <1>4, <2>1, <2>3 DEF ProgramInv, Grows, Kept, Initialized
  <2> QED BY <2>4 DEF q
<1> QED BY <1>2, <1>3, <1>4 DEF ProperTx, IsTx

LEMMA ExecuteEffect ==
  ASSUME ScriptsInv, NEW tx, ProperTx(tx), Execute(tx)
  PROVE  /\ programs' = [a \in Addresses |-> programs'[a]]
         /\ \A a \in Addresses :
              /\ ProgramInv(programs'[a])
              /\ Grows(programs[a], programs'[a])
              /\ Kept(programs[a], programs'[a])
         /\ programs'[tx.at].exists /\ Initialized(programs'[tx.at])
         /\ tx.instruction = "configure_route" => tx.route \in programs'[tx.at].routes
<1> DEFINE p == programs[tx.at]
           q == Changed(p, tx)
<1>1. tx.at \in Addresses
  BY DEF ProperTx, IsTx
<1>2. p.exists /\ (Initialized(p) <=> tx.instruction # "initialize")
  BY BothSucceed DEF Execute, TxVerdict, Check, Ok
<1>3. programs' = [programs EXCEPT ![tx.at] = q]
  BY DEF Execute
<1>4. ProgramInv(p)
  BY <1>1 DEF ScriptsInv
<1>5. /\ ProgramInv(q) /\ Grows(p, q) /\ Kept(p, q) /\ q.exists /\ Initialized(q)
      /\ tx.instruction = "configure_route" => tx.route \in q.routes
  <2> HIDE DEF p
  <2> QED BY <1>2, <1>4, ChangedIsSound
<1> HIDE DEF q
<1>6. /\ programs' = [a \in Addresses |-> programs'[a]]
      /\ programs'[tx.at] = q
      /\ \A a \in Addresses : ProgramInv(programs'[a]) /\ Grows(programs[a], programs'[a])
  BY <1>1, <1>3, <1>5, ProgramsFollow
<1>7. ASSUME NEW a \in Addresses PROVE Kept(programs[a], programs'[a])
  <2>1. CASE a = tx.at
    BY <1>5, <1>6, <2>1
  <2>2. CASE a # tx.at
    <3>1. programs'[a] = programs[a]
      BY <1>3, <2>2 DEF ScriptsInv
    <3> QED BY <3>1 DEF Kept
  <2> QED BY <2>1, <2>2
<1> QED BY <1>5, <1>6, <1>7

LEMMA LandKeeps ==
  ASSUME ScriptsInv, NEW t \in Terminals, Land(t)
  PROVE  ScriptsInv'
<1> DEFINE j == job[t]
<1>1. JobInv(j, IsBuilt, Seen(programs, j.at)) /\ JobType(j)
  BY JobAt DEF JobInv
<1>2. j.tx # NONE /\ Execute(j.tx) /\ UNCHANGED <<tree, late>>
  BY DEF Land
<1>3. PICK tx : tx = j.tx
  OBVIOUS
<1>4. ProperTx(tx) /\ j.todo # <<>> /\ Sent(Head(j.todo), tx) /\ tx.at = j.at
  BY <1>1, <1>2, <1>3 DEF JobType
<1>5. Execute(tx)
  BY <1>2, <1>3
<1>6. /\ programs' = [a \in Addresses |-> programs'[a]]
      /\ \A a \in Addresses : ProgramInv(programs'[a]) /\ Grows(programs[a], programs'[a])
      /\ programs'[tx.at].exists /\ Initialized(programs'[tx.at])
      /\ tx.instruction = "configure_route" => tx.route \in programs'[tx.at].routes
  BY <1>4, <1>5, ExecuteEffect
<1>7. j.at \in Addresses /\ Seen(programs', j.at) = programs'[tx.at]
  BY <1>4 DEF ProperTx, IsTx, Seen
<1>8. IsBuilt' = IsBuilt /\ TreeInv'
  BY <1>2 DEF ScriptsInv, TreeInv, IsBuilt, tree
<1> DEFINE p == programs'[tx.at]
<1>9. JobInv(j, IsBuilt', p)
  <2>1. Grows(Seen(programs, j.at), p)
    BY <1>6, <1>7, GrowsAtAll
  <2> HIDE DEF IsBuilt, p, j
  <2> QED BY <1>1, <1>8, <2>1, ProgramsMayGrow
<1>10. Jobs' /\ job' = [u \in Terminals |-> job'[u]]
  <2>1. ASSUME NEW report, Report(t, report), Claim(report, p)
        PROVE  Jobs' /\ job' = [u \in Terminals |-> job'[u]]
    <3> DEFINE k == [Nothing EXCEPT !.at = j.at, !.key = j.key, !.report = report]
    <3>1. k.at = j.at /\ j.key \in HotKeys \cup {NONE}
      BY <1>1 DEF Nothing, JobType
    <3>2. job' = [job EXCEPT ![t] = k]
      BY <2>1 DEF Report
    <3>3. JobInv(k, IsBuilt', p)
      <4> HIDE DEF p, j
      <4> QED BY <2>1, <3>1, EndedIsSound
    <3> HIDE DEF k, j
    <3> QED BY <1>6, <1>7, <1>8, <3>1, <3>2, <3>3, JobsFollow
  <2>2. CASE At(t, "initialize")
    <3>1. Claim("INITIALIZED", p)
      BY <1>6 DEF Claim
    <3>2. Report(t, "INITIALIZED")
      BY <2>2 DEF Land, Confirmed, At
    <3> QED BY <2>1, <3>1, <3>2
  <2>3. CASE At(t, "merchant")
    <3>1. Head(j.todo) = "merchant"
      BY <2>3 DEF At
    <3>2. tx.route = MERCHANT_AIFP1 /\ tx.instruction = "configure_route"
      BY <1>4, <3>1 DEF Sent
    <3>3. AGENT_X402 \in p.routes
      <4>1. ~Awaits(j.todo, "merchant", {"agent"})
        BY <1>1, <1>4, <3>1, FirstStepAwaitsNothing DEF JobType
      <4> QED BY <1>9, <4>1 DEF JobInv
    <3>4. Claim("CONFIGURED", p)
      BY <1>6, <3>2, <3>3 DEF Claim, Routes
    <3>5. Report(t, "CONFIGURED")
      BY <2>3, <3>1 DEF Land, Confirmed, At
    <3> QED BY <2>1, <3>4, <3>5
  <2>4. CASE ~At(t, "initialize") /\ ~At(t, "merchant")
    <3> DEFINE k == Advanced(j)
    <3>1. job' = [job EXCEPT ![t] = k] /\ k.at = j.at
      BY <1>1, <2>4 DEF Land, Confirmed, Advance, Advanced, JobType
    <3>2. Head(j.todo) \in {"agent", "rotate"}
      BY <1>4, <2>4 DEF Sent, At
    <3>3. Head(j.todo) = "agent" => AGENT_X402 \in p.routes
      BY <1>4, <1>6 DEF Sent
    <3>4. JobInv(k, IsBuilt', p)
      <4> HIDE DEF p, j
      <4> QED BY <1>4, <1>7, <1>9, <3>2, <3>3, AdvancedIsSound
    <3> HIDE DEF k, j
    <3> QED BY <1>6, <1>7, <1>8, <3>1, <3>4, JobsFollow
  <2> QED BY <2>2, <2>3, <2>4
<1>11. UNCHANGED late
  BY <1>2
<1> QED BY <1>6, <1>8, <1>10, <1>11 DEF ScriptsInv


(* An interrupted script leaves a transaction of its kind under way.       *)
LEMMA AbortKeeps ==
  ASSUME ScriptsInv, NEW t \in Terminals, Abort(t)
  PROVE  ScriptsInv'
<1>1. /\ late' = late \cup ({job[t].tx} \ {NONE})
      /\ job' = [job EXCEPT ![t] = Nothing]
      /\ UNCHANGED <<tree, programs>>
  BY DEF Abort, Stop
<1>2. job[t].tx = NONE \/ ProperTx(job[t].tx)
  BY JobAt DEF JobInv, JobType
<1>3. \A tx \in late' : ProperTx(tx)
  BY <1>1, <1>2 DEF ScriptsInv
<1>4. IsBuilt' = IsBuilt /\ TreeInv'
  BY <1>1 DEF ScriptsInv, TreeInv, IsBuilt, tree
<1>5. Jobs' /\ job' = [u \in Terminals |-> job'[u]]
  <2>1. \A a \in Addresses : Grows(programs[a], programs'[a])
    BY <1>1 DEF Grows
  <2>2. JobInv(Nothing, IsBuilt', Seen(programs', Nothing.at))
    BY NothingIsSound
  <2> QED BY <1>1, <1>4, <2>1, <2>2, JobsFollow
<1> QED BY <1>1, <1>3, <1>4, <1>5 DEF ScriptsInv

LEMMA SettleKeeps ==
  ASSUME ScriptsInv, NEW t \in Terminals, Settle(t)
  PROVE  ScriptsInv'
<1>1. ASSUME Refuse(t) \/ Expire(t) PROVE Stop(t) /\ UNCHANGED <<tree, programs, late>>
  BY <1>1 DEF Refuse, Expire
<1> QED BY <1>1, LandKeeps, StopKeeps DEF Settle

(* A transaction whose script is gone lands, or never will.                *)
LEMMA LateKeeps ==
  ASSUME ScriptsInv, NEW tx \in late, LandLate(tx) \/ LoseLate(tx)
  PROVE  ScriptsInv'
<1>1. ProperTx(tx)
  BY DEF ScriptsInv
<1>2. late' = late \ {tx} /\ UNCHANGED <<tree, job>>
  BY DEF LandLate, LoseLate
<1>3. /\ programs' = [a \in Addresses |-> programs'[a]]
      /\ \A a \in Addresses : ProgramInv(programs'[a]) /\ Grows(programs[a], programs'[a])
  <2>1. CASE LandLate(tx)
    BY <1>1, <2>1, ExecuteEffect DEF LandLate
  <2>2. CASE LoseLate(tx)
    BY <2>2 DEF LoseLate, ScriptsInv, Grows
  <2> QED BY <2>1, <2>2
<1>4. IsBuilt' = IsBuilt /\ TreeInv'
  BY <1>2 DEF ScriptsInv, TreeInv, IsBuilt, tree
<1>5. Jobs' /\ job' = [u \in Terminals |-> job'[u]]
  BY <1>2, <1>3, <1>4, JobsRemain
<1> QED BY <1>2, <1>3, <1>4, <1>5 DEF ScriptsInv

-----------------------------------------------------------------------------
(* The invariant.                                                          *)

LEMMA ScriptsInit == Init => ScriptsInv
<1> SUFFICES ASSUME Init PROVE ScriptsInv
  OBVIOUS
<1>1. TreeInv
  <2>1. binary = NONE \/ IsBuilt
    BY DEF Init, IsBuilt, BinaryType, Ids, Deployers
  <2>2. env_local.exists \in BOOLEAN /\ env_local.env = <<>>
    BY DEF Init
  <2>3. IsEnv(<<>>)
    <3>1. DOMAIN <<>> = {}
      OBVIOUS
    <3> QED BY <3>1 DEF IsEnv
  <2> QED BY <2>1, <2>2, <2>3 DEF TreeInv, Init
<1>2. ProgramInv(NoProgram)
  BY DEF ProgramInv, ProgramType, NoProgram
<1>3. ASSUME NEW id \in Ids PROVE ProgramInv(Live(id))
  BY ScriptsAssumption DEF ProgramInv, ProgramType, Live, Initialized, Deployers
<1>4. /\ programs = [at \in Addresses |-> programs[at]]
      /\ \A at \in Addresses : ProgramInv(programs[at])
  <2>1. \A at \in Addresses : at[2] \in Ids
    BY DEF Addresses
  <2>2. \A at \in Addresses : programs[at] = Live(at[2]) \/ programs[at] = NoProgram
    BY DEF Init
  <2>3. programs = [at \in Addresses |-> programs[at]]
    BY DEF Init
  <2> QED BY <1>2, <1>3, <2>1, <2>2, <2>3
<1>5. job = [t \in Terminals |-> job[t]] /\ Jobs
  BY NothingIsSound DEF Init, Jobs
<1> QED BY <1>1, <1>4, <1>5 DEF ScriptsInv, Init

LEMMA ScriptsNext == ScriptsInv /\ [Next]_vars => ScriptsInv'
<1> SUFFICES ASSUME ScriptsInv, [Next]_vars PROVE ScriptsInv'
  OBVIOUS
<1>1. ASSUME NEW t \in Terminals, Start(t) \/ Work(t) \/ Settle(t) \/ Answer(t) \/ Abort(t)
      PROVE  ScriptsInv'
  BY <1>1, StartKeeps, WorkKeeps, SettleKeeps, AnswerKeeps, AbortKeeps
<1>2. ASSUME NEW tx \in late, LandLate(tx) \/ LoseLate(tx) PROVE ScriptsInv'
  BY <1>2, LateKeeps
<1>3. CASE UNCHANGED vars
  <2>1. IsBuilt' = IsBuilt /\ TreeInv'
    BY <1>3 DEF ScriptsInv, TreeInv, IsBuilt, vars, tree
  <2>2. UNCHANGED <<programs, job, late>>
    BY <1>3 DEF vars
  <2>3. \A a \in Addresses : Grows(programs[a], programs'[a])
    BY <2>2 DEF Grows
  <2>4. Jobs' /\ job' = [u \in Terminals |-> job'[u]]
    BY <2>1, <2>2, <2>3, JobsRemain
  <2> QED BY <2>1, <2>2, <2>4 DEF ScriptsInv
<1> QED BY <1>1, <1>2, <1>3, BuildByHandKeeps DEF Next

LEMMA ScriptsInvariance == Spec => []ScriptsInv
  BY ScriptsInit, ScriptsNext, PTL DEF Spec

(* The types, whatever was built in whatever environment: a program has    *)
(* the deployer somebody named or build.rs's fallback, and no other.       *)
THEOREM ScriptTypes == Spec => []TypeOK
<1>1. ScriptsInv => TypeOK
  BY DEF ScriptsInv, TreeInv, IsBuilt, BinaryType, ProgramInv, Jobs, JobInv, JobType, ProperTx,
         TypeOK
<1> QED BY <1>1, ScriptsInvariance, PTL

(* "deployed", "initialized", "configured" and "READY" stay true of the    *)
(* program they were said of, on whatever cluster and under whatever id,   *)
(* with any number of terminals, transactions that land late and binaries  *)
(* deployed over it.                                                       *)
THEOREM ReportsStayTrue == Spec => []ReportsHold
<1>1. ScriptsInv => ReportsHold
  <2> SUFFICES ASSUME ScriptsInv, NEW t \in Terminals, job[t].report \in Reports
               PROVE  LET p == programs[job[t].at] IN
                        /\ p.exists
                        /\ job[t].report # "DEPLOYED" => Initialized(p)
                        /\ job[t].report \in {"CONFIGURED", "READY"} => Routes \subseteq p.routes
    BY DEF ReportsHold, Reports
  <2>1. Claim(job[t].report, Seen(programs, job[t].at))
    BY JobAt DEF JobInv
  <2>2. job[t].at \in Addresses
    BY <2>1 DEF Claim, Seen, NoProgram
  <2> QED BY <2>1, <2>2 DEF Claim, Seen
<1> QED BY <1>1, ScriptsInvariance, PTL

(* A deployment or a build changes no account.                             *)
LEMMA OnlyTransactionsChange ==
  ASSUME ScriptsInv, [Next]_vars, NEW at \in Addresses
  PROVE  Kept(programs[at], programs'[at])
<1>1. CASE UNCHANGED programs
  BY <1>1 DEF Kept
<1>2. ASSUME NEW t \in Terminals, Deploy(t) PROVE Kept(programs[at], programs'[at])
  <2>1. programs' = [programs EXCEPT ![job[t].at] = Deployed(programs[job[t].at])]
    BY <1>2 DEF Deploy
  <2>2. CASE at = job[t].at
    <3>1. programs'[at] = Deployed(programs[at])
      BY <2>1, <2>2 DEF ScriptsInv
    <3> DEFINE p == programs[at]
               q == Deployed(p)
    <3>2. q.admin = p.admin /\ q.signer = p.signer /\ q.routes = p.routes
      <4>1. p \in ProgramType
        BY DEF ScriptsInv, ProgramInv
      <4> HIDE DEF p
      <4> QED BY <4>1 DEF Deployed, ProgramType, NoProgram
    <3> HIDE DEF q
    <3>3. Kept(p, q)
      BY <3>2 DEF Kept
    <3> QED BY <3>1, <3>3 DEF q
  <2>3. CASE at # job[t].at
    <3>1. programs'[at] = programs[at]
      BY <2>1, <2>3 DEF ScriptsInv
    <3> QED BY <3>1 DEF Kept
  <2> QED BY <2>2, <2>3
<1>3. ASSUME NEW tx, ProperTx(tx), Execute(tx) PROVE Kept(programs[at], programs'[at])
  BY <1>3, ExecuteEffect
<1>4. ASSUME NEW t \in Terminals, Land(t) PROVE Kept(programs[at], programs'[at])
  <2>1. PICK tx : tx = job[t].tx
    OBVIOUS
  <2>2. Execute(tx)
    BY <1>4, <2>1 DEF Land
  <2>3. ProperTx(tx)
    BY <1>4, <2>1, JobAt DEF Land, JobInv, JobType
  <2> QED BY <1>3, <2>2, <2>3
<1>5. ASSUME NEW tx \in late, LandLate(tx) PROVE Kept(programs[at], programs'[at])
  BY <1>3, <1>5 DEF LandLate, ScriptsInv
<1>6. ASSUME NEW t \in Terminals,
             Start(t) \/ Answer(t) \/ Abort(t) \/ (Work(t) /\ ~Deploy(t)) \/ (Settle(t) /\ ~Land(t))
      PROVE  UNCHANGED programs
  <2>1. CASE Start(t)
    BY <2>1 DEF Start, StartDevnetDeploy, StartLocalnetDeploy, StartDevnetScript, StartCheck,
                StartRotation, Begin
  <2>2. CASE Answer(t) \/ Abort(t) \/ (Settle(t) /\ ~Land(t))
    BY <2>2 DEF Answer, Abort, Settle, Refuse, Expire
  <2>3. CASE Work(t) /\ ~Deploy(t)
    BY <2>3 DEF Work, BuildIfMissing, WriteId, FindConfig, SendInitialize, SendRoute, SendRotation,
                Sends, ReadProgram, ReadConfig, ReadRoutes, ReadBack
  <2> QED BY <1>6, <2>1, <2>2, <2>3
<1>7. CASE BuildByHand \/ UNCHANGED vars \/ \E tx \in late : LoseLate(tx)
  BY <1>1, <1>7 DEF BuildByHand, LoseLate, vars
<1>8. ASSUME NEW t \in Terminals, Start(t) \/ Work(t) \/ Settle(t) \/ Answer(t) \/ Abort(t)
      PROVE  Kept(programs[at], programs'[at])
  BY <1>1, <1>2, <1>4, <1>6, <1>8
<1> QED BY <1>5, <1>7, <1>8 DEF Next

(* Nothing an operator runs or confirms, and nothing that lands when he is *)
(* gone, takes the admin or a route from a program that is initialized, or *)
(* gives it a signer that nobody asked for.                                *)
THEOREM NothingIsLost == Spec => NothingIsInitializedTwice
<1>1. ScriptsInv /\ [Next]_vars =>
        \A at \in Addresses :
          Initialized(programs[at]) =>
            /\ programs'[at].admin = programs[at].admin
            /\ programs[at].routes \subseteq programs'[at].routes
            /\ programs'[at].signer # programs[at].signer => programs'[at].signer \in HotKeys
  BY OnlyTransactionsChange DEF Kept
<1> QED BY <1>1, ScriptsInvariance, PTL DEF Spec, NothingIsInitializedTwice

=============================================================================
