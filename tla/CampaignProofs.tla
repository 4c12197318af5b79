---------------------------- MODULE CampaignProofs ----------------------------
(***************************************************************************)
(* What holds of a campaign for every project, every set of Node versions  *)
(* and every end of its commands: what the caller denied is not done, and  *)
(* what the campaign says of the target it did; of the run it ends with,   *)
(* for every number of stages: what the sequential runner opens it closes  *)
(* again, and its verdicts are those of the stage graph, as the concurrent *)
(* runner's are (StageRunnerProofs); of the builds its workspace needs     *)
(* first, for every workspace; of the reports on the campaigns of a        *)
(* corpus, for every corpus and gate; and of the checkouts they run in,    *)
(* for any nesting of sources and whenever the process dies.               *)
(***************************************************************************)
EXTENDS Campaign, SequentialRunner, WorkspaceOrder, Benchmark, Corpus, SequenceTheorems, FiniteSetTheorems,
        WellFoundedInduction, TLAPS

\* The runtimes a campaign on a project may choose.
Chosen == {0, Select(project.range), Select(Combine(project.range, project.hidden))}
Names == {"install", "workspace", "moon build", "moon update", "run"}
Ends == {"ok", "failed", "timeout", "absent", "unlisted"}
            \cup {"pass", "quality_gate_failed", "execution_failed", "none"}
Commands == [what : Names, network : BOOLEAN, node : Chosen, end : Ends]

\* The steps behind the question whether to prepare.
Preparing == {"prepare", "prepare-again", "recheck", "moon-update", "moon-again"}

\* What the options allow of a command.
Allowed(c) ==
    /\ ~request.prepare => c.what = "run" /\ ~c.network
    /\ request.offline /\ c.what \in {"install", "run"} => ~c.network

CampaignTypeOK ==
    /\ request \in Requests /\ node \in Chosen /\ calls \in Seq(Commands)

\* The steps taken are those allowed: nothing is prepared where that was denied, and a
\* project to be reviewed first gets no further than its inspection.
Restrained ==
    /\ ~request.prepare => phase \notin Preparing
    /\ project.review # "none" => phase \in {"inspect", "done"} /\ calls = <<>>

CampaignInv == CampaignTypeOK /\ Restrained /\ \A i \in DOMAIN calls : Allowed(calls[i])

-----------------------------------------------------------------------------
\* A command that is allowed joins those that were.
LEMMA CalledIsAllowed ==
    ASSUME calls \in Seq(Commands), \A i \in DOMAIN calls : Allowed(calls[i]),
           NEW c \in Commands, Allowed(c), calls' = Append(calls, c)
    PROVE  calls' \in Seq(Commands) /\ \A i \in DOMAIN calls' : Allowed(calls'[i])
  <1>1. /\ calls' \in Seq(Commands) /\ Len(calls') = Len(calls) + 1 /\ Len(calls) \in Nat
        /\ DOMAIN calls' = 1 .. Len(calls) + 1 /\ DOMAIN calls = 1 .. Len(calls)
        /\ calls'[Len(calls) + 1] = c
        /\ \A i \in 1 .. Len(calls) : calls'[i] = calls[i]
    OBVIOUS
  <1>2. ASSUME NEW i \in 1 .. Len(calls) + 1 PROVE Allowed(calls'[i])
    <2>1. i \in 1 .. Len(calls) \/ i = Len(calls) + 1
      BY <1>1
    <2> QED BY <1>1, <2>1
  <1> QED BY <1>1, <1>2

\* A step that calls nothing, or something allowed, keeps the invariant if the next step
\* is not one that was denied.
LEMMA StepKeeps ==
    ASSUME CampaignInv, UNCHANGED <<project, request>>, node' \in Chosen,
           calls' = calls \/ \E c \in Commands : Allowed(c) /\ calls' = Append(calls, c),
           ~request.prepare => phase' \notin Preparing,
           project.review # "none" => phase' \in {"inspect", "done"} /\ calls' = calls
    PROVE  CampaignInv'
  <1>1. calls' \in Seq(Commands) /\ \A i \in DOMAIN calls' : Allowed(calls'[i])
    BY CalledIsAllowed DEF CampaignInv, CampaignTypeOK
  <1>2. Chosen' = Chosen /\ Commands' = Commands
    BY DEF Chosen, Commands
  <1>3. \A i \in DOMAIN calls' : (Allowed(calls[i]))'
    BY <1>1 DEF Allowed
  <1>4. CampaignTypeOK'
    BY <1>1, <1>2 DEF CampaignInv, CampaignTypeOK
  <1>5. Restrained'
    BY DEF CampaignInv, Restrained
  <1> QED BY <1>3, <1>4, <1>5 DEF CampaignInv

\* The options of a call are two-valued.
LEMMA RequestType ==
    ASSUME CampaignTypeOK
    PROVE  request.prepare \in BOOLEAN /\ request.offline \in BOOLEAN /\ request.enforced \in BOOLEAN
  BY CampaignAssumption DEF CampaignTypeOK

-----------------------------------------------------------------------------
\* A campaign begins with no command.
LEMMA CampaignInitially == CampaignInit => CampaignInv
  BY DEF CampaignInit, CampaignInv, CampaignTypeOK, Restrained, Preparing, Chosen

USE DEF Intervene, Conclude, Go

\* Past its inspection, a project has nothing to be reviewed.
LEMMA Reviewed ==
    ASSUME CampaignInv, phase \notin {"inspect", "done"}
    PROVE  project.review = "none" /\ (phase \in Preparing => request.prepare)
  BY DEF CampaignInv, Restrained

\* Every step keeps the invariant: each of the campaign's steps calls what its options allow.
LEMMA CampaignStep == CampaignInv /\ [CampaignNext]_campaignVars => CampaignInv'
  <1> SUFFICES ASSUME CampaignInv, [CampaignNext]_campaignVars PROVE CampaignInv'
    OBVIOUS
  <1>0. node \in Chosen /\ CampaignTypeOK
    BY DEF CampaignInv, CampaignTypeOK
  <1>1. CASE Inspect
    <2>1. phase' \in {"runtime", "done"} /\ (project.review # "none" => phase' = "done")
      BY <1>1 DEF Inspect
    <2>2. UNCHANGED <<project, request, node, calls>>
      BY <1>1 DEF Inspect
    <2> QED BY <1>0, <2>1, <2>2, StepKeeps DEF Preparing
  <1>2. CASE ChooseRuntime
    <2>1. project.review = "none"
      BY <1>2, Reviewed DEF ChooseRuntime
    <2>2. UNCHANGED <<project, request, calls>> /\ node' \in Chosen
      BY <1>2 DEF ChooseRuntime, Chosen
    <2>3. phase' \in {"done", "ready", "prepare"} /\ (phase' = "prepare" => request.prepare)
      BY <1>2 DEF ChooseRuntime
    <2> QED BY <2>1, <2>2, <2>3, StepKeeps DEF Preparing
  <1>3. CASE PrepareProject
    <2>1. project.review = "none" /\ request.prepare
      BY <1>3, Reviewed DEF PrepareProject, Preparing
    <2>2. UNCHANGED <<project, request>> /\ node' \in Chosen
      BY <1>0, <1>3 DEF PrepareProject, Chosen
    <2>3. phase' \in {"done", "recheck", "prepare-again"}
      BY <1>3 DEF PrepareProject
    <2>4. calls' = calls \/ \E c \in Commands : Allowed(c) /\ calls' = Append(calls, c)
      <3>1. CASE ~project.install
        BY <1>3, <3>1 DEF PrepareProject
      <3>2. CASE project.install
        <4>1. PICK end \in {"ok", "failed", "timeout"} : Called("install", ~request.offline, end)
          BY <1>3, <3>2 DEF PrepareProject, Install
        <4> DEFINE c == [what |-> "install", network |-> ~request.offline, node |-> node, end |-> end]
        <4>2. c \in Commands /\ Allowed(c) /\ calls' = Append(calls, c)
          BY <1>0, <2>1, <4>1, RequestType DEF Commands, Names, Ends, Allowed, Called
        <4> QED BY <4>2
      <3> QED BY <3>1, <3>2
    <2> QED BY <2>1, <2>2, <2>3, <2>4, StepKeeps
  <1>4. CASE Recheck
    <2>1. project.review = "none" /\ UNCHANGED <<project, request, node, calls>> /\ phase' = "ready"
      BY <1>4, Reviewed DEF Recheck
    <2> QED BY <1>0, <2>1, StepKeeps DEF Preparing
  <1>5. CASE CheckReady
    <2>1. project.review = "none" /\ UNCHANGED <<project, request, node, calls>>
          /\ phase' \in {"done", "workspace"}
      BY <1>5, Reviewed DEF CheckReady
    <2> QED BY <1>0, <2>1, StepKeeps DEF Preparing
  <1>6. CASE PrepareWorkspace
    <2>1. project.review = "none" /\ UNCHANGED <<project, request, node>>
          /\ phase' \in {"done", "sandbox"}
      BY <1>6, Reviewed DEF PrepareWorkspace, CompileManifest
    <2>2. calls' = calls \/ \E c \in Commands : Allowed(c) /\ calls' = Append(calls, c)
      <3>1. CASE project.workspace \in {"none", "refused"} \/ ~request.prepare
        BY <1>6, <3>1 DEF PrepareWorkspace
      <3>2. CASE project.workspace \notin {"none", "refused"} /\ request.prepare
        <4>1. PICK end \in {"ok", "failed", "timeout", "absent"} : Called("workspace", FALSE, end)
          BY <1>6, <3>2 DEF PrepareWorkspace
        <4> DEFINE c == [what |-> "workspace", network |-> FALSE, node |-> node, end |-> end]
        <4>2. c \in Commands /\ Allowed(c) /\ calls' = Append(calls, c)
          BY <1>0, <3>2, <4>1 DEF Commands, Names, Ends, Allowed, Called
        <4> QED BY <4>2
      <3> QED BY <3>1, <3>2
    <2> QED BY <1>0, <2>1, <2>2, StepKeeps DEF Preparing
  <1>7. CASE PrepareSandbox
    <2>1. project.review = "none" /\ UNCHANGED <<project, request, node>>
          /\ phase' \in {"done", "run", "moon-update"} /\ (phase' = "moon-update" => request.prepare)
      BY <1>7, Reviewed DEF PrepareSandbox
    <2>2. calls' = calls \/ \E c \in Commands : Allowed(c) /\ calls' = Append(calls, c)
      <3>1. CASE ~(project.moon /\ request.enforced /\ request.prepare)
        BY <1>7, <3>1 DEF PrepareSandbox
      <3>2. CASE project.moon /\ request.enforced /\ request.prepare
        <4>1. PICK end \in {"ok", "failed", "timeout", "unlisted"} : Called("moon build", TRUE, end)
          BY <1>7, <3>2 DEF PrepareSandbox, MoonBuild
        <4> DEFINE c == [what |-> "moon build", network |-> TRUE, node |-> node, end |-> end]
        <4>2. c \in Commands /\ Allowed(c) /\ calls' = Append(calls, c)
          BY <1>0, <3>2, <4>1 DEF Commands, Names, Ends, Allowed, Called
        <4> QED BY <4>2
      <3> QED BY <3>1, <3>2
    <2> QED BY <1>0, <2>1, <2>2, StepKeeps DEF Preparing
  <1>8. ASSUME UpdateRegistry \/ BuildAgain PROVE CampaignInv'
    <2>1. project.review = "none" /\ request.prepare /\ UNCHANGED <<project, request, node>>
          /\ phase' \in {"done", "run", "moon-again"}
      BY <1>8, Reviewed DEF UpdateRegistry, BuildAgain, Preparing
    <2>2. PICK end \in {"ok", "failed", "timeout"} :
              Called("moon update", TRUE, end) \/ Called("moon build", TRUE, end)
      BY <1>8 DEF UpdateRegistry, BuildAgain, MoonBuild
    <2>3. \E c \in Commands : Allowed(c) /\ calls' = Append(calls, c)
      <3> DEFINE C(what) == [what |-> what, network |-> TRUE, node |-> node, end |-> end]
      <3>1. C("moon update") \in Commands /\ Allowed(C("moon update"))
            /\ C("moon build") \in Commands /\ Allowed(C("moon build"))
        BY <1>0, <2>1 DEF Commands, Names, Ends, Allowed
      <3> QED BY <2>2, <3>1 DEF Called
    <2> QED BY <1>0, <2>1, <2>3, StepKeeps
  <1>9. CASE RunProject
    <2>1. project.review = "none" /\ UNCHANGED <<project, request, node>> /\ phase' = "done"
      BY <1>9, Reviewed DEF RunProject
    <2>2. calls' = calls \/ \E c \in Commands : Allowed(c) /\ calls' = Append(calls, c)
      <3> SUFFICES ASSUME calls' # calls
                   PROVE  \E c \in Commands : Allowed(c) /\ calls' = Append(calls, c)
        OBVIOUS
      <3>1. PICK build \in Builds :
                Called("run", request.enforced /\ request.prepare /\ ~request.offline, build.status)
        BY <1>9 DEF RunProject
      <3>2. build.status \in Ends
        BY DEF Builds, NotRun, Ends
      <3> DEFINE c == [what |-> "run", network |-> request.enforced /\ request.prepare /\ ~request.offline,
                       node |-> node, end |-> build.status]
      <3>3. c \in Commands
        BY <1>0, <3>2, RequestType DEF Commands, Names
      <3>4. Allowed(c) /\ calls' = Append(calls, c)
        BY <1>0, <3>1, RequestType DEF Allowed, Called
      <3> QED BY <3>3, <3>4
    <2> QED BY <1>0, <2>1, <2>2, StepKeeps DEF Preparing
  <1>10. CASE UNCHANGED campaignVars
    BY <1>0, <1>10, StepKeeps DEF campaignVars, CampaignInv, Restrained
  <1> QED BY <1>1, <1>2, <1>3, <1>4, <1>5, <1>6, <1>7, <1>8, <1>9, <1>10 DEF CampaignNext

\* For every project, every set of Node versions and every end of the commands: without
\* "prepare" nothing of the target runs before its stages, and they with the network closed;
\* offline neither an install nor a stage has it; a project to be reviewed runs nothing.
THEOREM DenialsAlwaysHold == CampaignSpec => []DenialsHold
  <1>1. CampaignInv => DenialsHold
    BY DEF CampaignInv, CampaignTypeOK, Restrained, Allowed, DenialsHold, OfKind
  <1> QED BY <1>1, CampaignInitially, CampaignStep, PTL DEF CampaignSpec

HIDE DEF Intervene, Conclude, Go

-----------------------------------------------------------------------------
\* The steps on which the dependencies have been prepared, and found ready.
Readied == {"workspace", "sandbox", "moon-update", "moon-again", "run"}
Installs == OfKind("install")

\* The runtime chosen fits the range of the project, and one chosen again also the range
\* it was chosen for, where each is a single alternative.
Fits == phase \notin {"inspect", "runtime", "done"} => node # 0 /\ RuntimeFits

\* The installs that succeeded ran on the runtime that is kept, and the last did succeed.
OnNode == \A i \in Installs : calls[i].end = "ok" => calls[i].node = node
LastSucceeded == \A i \in Installs : (\A j \in Installs : j <= i) => calls[i].end = "ok"

\* Before an install there was none, or one that failed.
InstallsKept ==
    /\ OnNode
    /\ phase \in {"inspect", "runtime", "prepare"} => Installs = {}
    /\ phase = "prepare-again" => project.install /\ \A i \in Installs : calls[i].end # "ok"
    /\ phase \in {"recheck", "ready"} \cup Readied => LastSucceeded

Found == phase \in Readied => deps # "missing" /\ (project.install => manager = "ready")

EarnedInv ==
    /\ project \in Projects /\ Fits /\ InstallsKept /\ Found
    /\ phase # "done" => verdict.status = "none"
    /\ VerdictIsEarned

-----------------------------------------------------------------------------
\* A set of naturals that is not empty has a smallest element.
LEMMA SmallestIsIn ==
    ASSUME NEW S \in SUBSET Nat, S # {}
    PROVE  Min(S) \in S /\ \A y \in S : Min(S) <= y
  <1>0. \A x \in S : x \in Nat
    OBVIOUS
  <1> DEFINE less == OpToRel(<, Nat)
  <1>1. PICK x \in S : \A y \in S : ~(<<y, x>> \in less)
    BY NatLessThanWellFounded, WFMin
  <1>2. \A y \in S : <<y, x>> \in less <=> y < x
    BY DEF OpToRel
  <1> HIDE DEF less
  <1>3. ASSUME NEW y \in S PROVE x <= y
    <2>1. ~(y < x)
      BY <1>1, <1>2
    <2> QED BY <1>0, <2>1
  <1> QED BY <1>3 DEF Min

\* And a largest, if it is finite: one that the fewest are larger than.
LEMMA LargestIsIn ==
    ASSUME NEW S \in SUBSET Nat, S # {}, IsFiniteSet(S)
    PROVE  Max(S) \in S /\ \A y \in S : y <= Max(S)
  <1>0. \A y \in S : y \in Nat
    OBVIOUS
  <1> DEFINE Above(x) == {y \in S : y > x}
             sizes == {Cardinality(Above(x)) : x \in S}
  <1>1. \A x \in S : IsFiniteSet(Above(x)) /\ Cardinality(Above(x)) \in Nat
    BY FS_Subset, FS_CardinalityType
  <1>2. sizes \in SUBSET Nat /\ sizes # {}
    BY <1>1
  <1>3. PICK x \in S : \A y \in S : Cardinality(Above(x)) <= Cardinality(Above(y))
    <2>1. Min(sizes) \in sizes /\ \A n \in sizes : Min(sizes) <= n
      BY <1>2, SmallestIsIn
    <2> QED BY <2>1
  <1>4. ASSUME NEW y \in S, y > x PROVE FALSE
    <2>1. Above(y) \subseteq Above(x)
      <3> SUFFICES ASSUME NEW z \in S, z > y PROVE z > x
        OBVIOUS
      <3>1. x \in Nat /\ y \in Nat /\ z \in Nat
        BY <1>0
      <3> QED BY <1>4, <3>1
    <2>3. y \in Above(x) /\ y \notin Above(y)
      BY <1>0, <1>4
    <2>2. Cardinality(Above(y)) <= Cardinality(Above(x)) /\ Cardinality(Above(y)) # Cardinality(Above(x))
      BY <1>1, <2>1, <2>3, FS_Subset
    <2> QED BY <1>1, <1>3, <2>2
  <1>5. \A y \in S : x >= y
    BY <1>4
  <1> QED BY <1>5 DEF Max

\* A runtime that is chosen fits the range it was chosen for.
LEMMA SelectFits ==
    ASSUME NEW range, Select(range) # 0
    PROVE  InRange(range, Select(range))
  <1> DEFINE fit == {v \in Installed : InRange(range, v)}
  <1>1. CASE range = <<>>
    BY <1>1 DEF InRange
  <1>2. CASE range # <<>>
    <2>1. fit # {}
      BY <1>2 DEF Select
    <2>2. fit \in SUBSET Nat /\ IsFiniteSet(fit)
      BY CampaignAssumption, FS_Subset
    <2> HIDE DEF fit
    <2>3. Min(fit) \in fit /\ Max(fit) \in fit
      BY <2>1, <2>2, SmallestIsIn, LargestIsIn
    <2>4. Select(range) \in {Min(fit), Max(fit)} \/ (Select(range) = Current /\ Current \in fit)
      BY <1>2, <2>1 DEF Select, fit
    <2>5. Select(range) \in fit
      BY <2>3, <2>4
    <2> QED BY <2>5 DEF fit
  <1> QED BY <1>1, <1>2

\* Of two ranges of one alternative each, the range written from both is within both.
LEMMA CombinedFits ==
    ASSUME NEW a \in Seq(SUBSET Versions), NEW b \in Seq(SUBSET Versions), b # <<>>,
           Len(a) <= 1, Len(b) <= 1, NEW v, InRange(Combine(a, b), v)
    PROVE  InRange(a, v) /\ InRange(b, v)
  <1>1. CASE a = <<>>
    BY <1>1 DEF InRange, Combine
  <1>2. CASE a # <<>>
    <2>1. Len(a) = 1 /\ Len(b) = 1 /\ a[1] \in SUBSET Versions /\ b[1] \in SUBSET Versions
      <3>1. Len(a) \in Nat /\ Len(a) # 0 /\ Len(b) \in Nat /\ Len(b) # 0
        BY <1>2, EmptySeq
      <3>2. \A n \in Nat : n # 0 /\ n <= 1 => n = 1
        OBVIOUS
      <3>3. Len(a) = 1 /\ Len(b) = 1
        BY <3>1, <3>2
      <3> QED BY <3>3, ElementOfSeq
    <2> DEFINE start == SubSeq(a, 1, Len(a) - 1)
               middle == <<a[Len(a)] \cap b[1]>>
    <2>2. start \in Seq(SUBSET Versions) /\ Len(start) = 0
      BY <2>1, SubSeqProperties
    <2>3. middle \in Seq(SUBSET Versions) /\ Len(middle) = 1 /\ middle[1] = a[1] \cap b[1]
      BY <2>1
    <2>4. Tail(b) \in Seq(SUBSET Versions) /\ Len(Tail(b)) = 0
      BY <2>1, HeadTailProperties
    <2>5. Combine(a, b) = (start \o middle) \o Tail(b)
      BY <1>2 DEF Combine
    <2> HIDE DEF start, middle
    <2>6. start \o middle \in Seq(SUBSET Versions) /\ Len(start \o middle) = 1
          /\ (start \o middle)[1] = a[1] \cap b[1]
      BY <2>2, <2>3, ConcatProperties
    <2>7. Combine(a, b) \in Seq(SUBSET Versions) /\ Len(Combine(a, b)) = 1
          /\ Combine(a, b)[1] = a[1] \cap b[1]
      BY <2>4, <2>5, <2>6, ConcatProperties
    <2>8. v \in a[1] /\ v \in b[1]
      <3>1. Combine(a, b) # <<>> /\ DOMAIN Combine(a, b) = {1}
        BY <2>7
      <3> QED BY <2>7, <3>1 DEF InRange
    <2> QED BY <2>1, <2>8 DEF InRange
  <1> QED BY <1>1, <1>2

\* A command that is called joins the commands of its kind, and leaves the others as they were.
LEMMA InstallsAfter ==
    ASSUME calls \in Seq(Commands), NEW c \in Commands, calls' = Append(calls, c)
    PROVE  /\ Len(calls) \in Nat /\ Installs \subseteq 1 .. Len(calls)
           /\ DOMAIN calls' = 1 .. (Len(calls) + 1)
           /\ calls'[Len(calls) + 1] = c
           /\ \A i \in 1 .. Len(calls) : calls'[i] = calls[i]
           /\ c.what # "install" => Installs' = Installs
           /\ c.what = "install" => Installs' = Installs \cup {Len(calls) + 1}
  <1>1. /\ Len(calls) \in Nat /\ DOMAIN calls = 1 .. Len(calls)
        /\ DOMAIN calls' = 1 .. (Len(calls) + 1)
        /\ calls'[Len(calls) + 1] = c
        /\ \A i \in 1 .. Len(calls) : calls'[i] = calls[i]
    OBVIOUS
  <1>2. Installs \subseteq 1 .. Len(calls)
    BY <1>1 DEF Installs, OfKind
  <1>3. 1 .. (Len(calls) + 1) = 1 .. Len(calls) \cup {Len(calls) + 1}
    BY <1>1
  <1>4. Installs' = {i \in 1 .. (Len(calls) + 1) : calls'[i].what = "install"}
    BY <1>1 DEF Installs, OfKind
  <1>5. Installs = {i \in 1 .. Len(calls) : calls[i].what = "install"}
    BY <1>1 DEF Installs, OfKind
  <1> QED BY <1>1, <1>2, <1>3, <1>4, <1>5

\* The runtime fits as long as the project, the runtime and the installs are the same.
LEMMA FitsKept ==
    ASSUME UNCHANGED <<project, node>>, Installs' = Installs, \A i \in Installs : calls'[i] = calls[i],
           RuntimeFits
    PROVE  RuntimeFits'
  <1>1. Negotiated' <=> Negotiated
    BY DEF Negotiated, Installs
  <1> QED BY <1>1 DEF RuntimeFits, SingleRanges, InRange

\* What is called besides the installs leaves what is known of them.
LEMMA OtherCalls ==
    ASSUME calls \in Seq(Commands), UNCHANGED node,
           calls' = calls \/ \E c \in Commands : c.what # "install" /\ calls' = Append(calls, c)
    PROVE  /\ Installs' = Installs /\ \A i \in Installs : calls'[i] = calls[i]
           /\ OnNode => OnNode'
           /\ LastSucceeded => LastSucceeded'
  <1>1. Installs' = Installs /\ \A i \in Installs : calls'[i] = calls[i]
    <2>1. CASE calls' = calls
      BY <2>1 DEF Installs, OfKind
    <2>2. ASSUME NEW c \in Commands, c.what # "install", calls' = Append(calls, c)
          PROVE  Installs' = Installs /\ \A i \in Installs : calls'[i] = calls[i]
      BY <2>2, InstallsAfter
    <2> QED BY <2>1, <2>2
  <1> QED BY <1>1 DEF OnNode, LastSucceeded

-----------------------------------------------------------------------------
\* A human asked for before the stages ran is not told that the browser was reached, and
\* the target is blamed of the commands that prepare it only.
LEMMA UnreachedViability ==
    ASSUME NEW code, code \notin {"none", "project_build_failed", "server_readiness_failed"}
    PROVE  /\ Viability(code, Unreached) # "qualified"
           /\ Viability(code, Unreached) = "failed" =>
                \/ code = "prepare_failed"
                \/ code = "workspace_prepare_failed" /\ phase = "workspace"
  <1>1. Unreached.build.exit = "none" /\ Unreached.browser.status = "none"
    BY DEF Unreached, NotRun
  <1> QED BY <1>1 DEF Viability

\* So asking for one keeps the verdict earned, if what is blamed did fail.
LEMMA InterveneEarns ==
    ASSUME NEW code, Intervene(code), UNCHANGED project, project \in Projects,
           code \notin {"none", "project_build_failed", "server_readiness_failed"},
           code = "prepare_failed" \/ (code = "workspace_prepare_failed" /\ phase = "workspace") =>
             \E i \in DOMAIN calls' :
               \/ calls'[i].what # "run" /\ calls'[i].end \notin {"ok", "timeout"}
               \/ calls'[i].what = "workspace" /\ calls'[i].end = "timeout",
           OnNode'
    PROVE  EarnedInv'
  <1>1. phase' = "done" /\ verdict'.status = "intervention-required"
        /\ verdict'.viability = Viability(code, Unreached)
    BY DEF Intervene, Conclude
  <1>2. CompletedOnPrepared'
    BY <1>1 DEF CompletedOnPrepared
  <1>3. ViabilityIsEarned'
    BY <1>1, UnreachedViability DEF ViabilityIsEarned, OfKind
  <1> QED BY <1>1, <1>2, <1>3 DEF EarnedInv, VerdictIsEarned, Fits, InstallsKept, Found, Readied

\* A step that concludes nothing keeps it, with what is known of the runtime and the installs.
LEMMA GoEarns ==
    ASSUME NEW p, Go(p), EarnedInv, UNCHANGED project, phase # "done", p # "done",
           Fits', InstallsKept', Found'
    PROVE  EarnedInv'
  <1>1. phase' # "done" /\ verdict'.status = "none"
    BY DEF Go, EarnedInv
  <1> QED BY <1>1 DEF EarnedInv, VerdictIsEarned, CompletedOnPrepared, ViabilityIsEarned

\* The stages of a run end in a verdict that is earned.
LEMMA RunEarns ==
    ASSUME CampaignInv, EarnedInv, phase = "run", UNCHANGED <<project, node, manager, deps>>,
           NEW build \in Builds, NEW browser \in Browsers(build), OnNode',
           Installs' = Installs, \A i \in Installs : calls'[i] = calls[i],
           Conclude(StageCode([build |-> build, browser |-> browser]), [build |-> build, browser |-> browser])
    PROVE  EarnedInv'
  <1> DEFINE stages == [build |-> build, browser |-> browser]
             code == StageCode(stages)
  <1>1. /\ phase' = "done" /\ verdict'.stages = stages
        /\ verdict'.status = IF code = "none" THEN "completed" ELSE "intervention-required"
        /\ verdict'.viability = Viability(code, stages)
    BY DEF Conclude
  <1>2. stages.build = build /\ stages.browser = browser
    OBVIOUS
  <1>3. /\ code = "none" => build.status \in {"pass", "none"} /\ browser.status \in Completed
        /\ code = "project_build_failed" => build.status \notin {"pass", "none", "timeout"}
        /\ code = "server_readiness_failed" => browser.status = "unready"
        /\ code \notin {"prepare_failed", "workspace_prepare_failed"}
    BY <1>2 DEF StageCode, Completed, Builds, Browsers, NotRun
  <1>4. build.exit = "nonzero" => build.status \notin {"pass", "none", "timeout"}
    BY DEF Builds, NotRun
  <1>5. project.build => build.status # "none"
    BY DEF Builds
  <1>6. OnNode /\ LastSucceeded /\ deps # "missing" /\ (project.install => manager = "ready")
        /\ RuntimeFits /\ project \in Projects
    BY DEF EarnedInv, Fits, InstallsKept, Found, Readied
  <1>7. Installs # {} => calls[Max(Installs)].end = "ok" /\ Max(Installs) \in Installs
    <2>1. Installs \in SUBSET Nat /\ IsFiniteSet(Installs)
      <3>1. calls \in Seq(Commands)
        BY DEF CampaignInv, CampaignTypeOK
      <3>2. Len(calls) \in Nat /\ Installs \in SUBSET (1 .. Len(calls))
        BY <3>1 DEF Installs, OfKind
      <3>3. IsFiniteSet(1 .. Len(calls)) /\ Installs \subseteq Nat
        BY <3>2, FS_Interval
      <3> QED BY <3>2, <3>3, FS_Subset
    <2> QED BY <1>6, <2>1, LargestIsIn DEF LastSucceeded
  <1> HIDE DEF stages, code
  <1>8. CompletedOnPrepared'
    <2> SUFFICES ASSUME code = "none" PROVE CompletedOnPrepared'
      BY <1>1 DEF CompletedOnPrepared
    <2>1. /\ verdict'.stages.browser.status \in Completed
          /\ project'.build => verdict'.stages.build.status = "pass"
      BY <1>1, <1>2, <1>3, <1>5
    <2>2. RuntimeFits'
      BY <1>6, FitsKept
    <2>3. Installs' # {} => calls'[Max(Installs')].end = "ok"
      BY <1>7
    <2> QED BY <1>6, <2>1, <2>2, <2>3 DEF CompletedOnPrepared, OnNode, Installs
  <1>9. ViabilityIsEarned'
    <2>1. Viability(code, stages) = "qualified" => browser.status \notin {"none", "blocked"}
      BY <1>2, <1>3 DEF Viability, Blamed, Completed
    <2>2. Viability(code, stages) = "failed" =>
            project.declared /\ (build.status \notin {"pass", "none", "timeout"} \/ browser.status = "unready")
      BY <1>2, <1>3, <1>4 DEF Viability, Blamed
    <2> QED BY <1>1, <1>2, <2>1, <2>2 DEF ViabilityIsEarned
  <1> QED BY <1>1, <1>6, <1>8, <1>9 DEF EarnedInv, VerdictIsEarned, Fits, InstallsKept, Found, Readied

-----------------------------------------------------------------------------
\* A campaign that has not begun has said nothing.
LEMMA EarnedInitially == CampaignInit => EarnedInv
  BY DEF CampaignInit, EarnedInv, Fits, InstallsKept, OnNode, LastSucceeded, Installs, OfKind, Found,
         Readied, VerdictIsEarned, CompletedOnPrepared, ViabilityIsEarned

\* An install keeps what is known of them, or ends the campaign.
LEMMA PrepareEarns ==
    ASSUME CampaignInv, EarnedInv, PrepareProject
    PROVE  EarnedInv'
  <1>1. /\ phase \in {"prepare", "prepare-again"} /\ UNCHANGED <<project, request, manager, deps>>
        /\ calls \in Seq(Commands) /\ node \in Chosen /\ project \in Projects
        /\ node # 0 /\ RuntimeFits
    BY DEF PrepareProject, CampaignInv, CampaignTypeOK, EarnedInv, Fits
  <1>2. OnNode /\ \A i \in Installs : calls[i].end # "ok"
    BY <1>1 DEF EarnedInv, InstallsKept
  <1>3. CASE ~project.install
    <2>1. Go("recheck") /\ UNCHANGED <<node, calls>> /\ Installs = {}
      BY <1>1, <1>3 DEF PrepareProject, EarnedInv, InstallsKept
    <2>2. Fits'
      <3>1. Installs' = Installs
        BY <2>1 DEF Installs, OfKind
      <3> QED BY <1>1, <2>1, <3>1, FitsKept DEF Fits
    <2>3. InstallsKept'
      BY <2>1 DEF InstallsKept, OnNode, LastSucceeded, Installs, OfKind, Go
    <2>4. Found'
      BY <2>1 DEF Found, Readied, Go
    <2> QED BY <1>1, <2>1, <2>2, <2>3, <2>4, GoEarns
  <1>4. CASE project.install
    <2> DEFINE other == Select(Combine(project.range, project.hidden))
    <2>1. PICK end \in {"ok", "failed", "timeout"}, named \in BOOLEAN :
            /\ Called("install", ~request.offline, end)
            /\ named => end = "failed" /\ project.hidden # <<>>
            /\ node' = IF named /\ phase = "prepare" THEN other ELSE node
            /\ CASE named /\ phase = "prepare" /\ other = 0 -> Intervene("node_runtime_required")
                 [] named /\ phase = "prepare" /\ other \notin {0, node} -> Go("prepare-again")
                 [] end = "ok" -> Go("recheck")
                 [] OTHER -> Intervene(IF end = "timeout" THEN "prepare_timeout"
                                                          ELSE "prepare_failed")
      BY <1>4 DEF PrepareProject, Install
    <2> DEFINE c == [what |-> "install", network |-> ~request.offline, node |-> node, end |-> end]
               last == Len(calls) + 1
    <2>2. c \in Commands /\ calls' = Append(calls, c)
      BY <1>1, <2>1, RequestType DEF Commands, Names, Ends, Called, CampaignInv
    <2>3. c.what = "install" /\ c.node = node /\ c.end = end
      OBVIOUS
    <2> HIDE DEF c, other
    <2>4. /\ Installs \subseteq 1 .. Len(calls) /\ Installs' = Installs \cup {last} /\ last \in DOMAIN calls'
          /\ calls'[last].what = "install" /\ calls'[last].node = node /\ calls'[last].end = end
          /\ \A i \in Installs : calls'[i] = calls[i]
          /\ Len(calls) \in Nat
      BY <1>1, <2>2, <2>3, InstallsAfter
    <2>5. OnNode'
      BY <1>2, <2>1, <2>4 DEF OnNode
    <2> HIDE DEF last
    <2>6. CASE named /\ phase = "prepare" /\ other = 0
      <3>1. Intervene("node_runtime_required")
        BY <2>1, <2>6
      <3> QED BY <1>1, <2>5, <3>1, InterveneEarns
    <2>7. CASE named /\ phase = "prepare" /\ other # 0 /\ other # node
      <3>1. Go("prepare-again") /\ end = "failed" /\ node' = other /\ project.hidden # <<>>
        BY <2>1, <2>7
      <3>2. SingleRanges => InRange(project.range, other) /\ InRange(project.hidden, other)
        <4>1. InRange(Combine(project.range, project.hidden), other)
          BY <2>7, SelectFits DEF other
        <4>2. project.range \in Seq(SUBSET Versions) /\ project.hidden \in Seq(SUBSET Versions)
          BY <1>1, CampaignAssumption
        <4> QED BY <3>1, <4>1, <4>2, CombinedFits DEF SingleRanges
      <3>3. Fits'
        <4>1. Negotiated'
          BY <2>4, <3>1 DEF Negotiated, OfKind
        <4>2. RuntimeFits'
          BY <1>1, <3>1, <3>2, <4>1 DEF RuntimeFits, SingleRanges, InRange
        <4> QED BY <1>1, <2>7, <3>1, <4>2 DEF Fits
      <3>4. InstallsKept'
        BY <1>1, <1>2, <1>4, <2>4, <2>5, <3>1 DEF InstallsKept, Readied, Go
      <3>5. Found'
        BY <3>1 DEF Found, Readied, Go
      <3> QED BY <1>1, <3>1, <3>3, <3>4, <3>5, GoEarns
    <2>8. CASE ~(named /\ phase = "prepare" /\ other # node) /\ end = "ok"
      <3>1. Go("recheck") /\ node' = node
        BY <1>1, <2>1, <2>8
      <3>2. Fits'
        <4>1. Negotiated' <=> Negotiated
          BY <2>4, <2>8 DEF Negotiated, Installs
        <4>2. RuntimeFits'
          BY <1>1, <3>1, <4>1 DEF RuntimeFits, SingleRanges, InRange
        <4> QED BY <1>1, <3>1, <4>2 DEF Fits
      <3>3. LastSucceeded'
        <4>1. ASSUME NEW i \in Installs', \A j \in Installs' : j <= i PROVE calls'[i].end = "ok"
          <5>1. last <= i /\ (i = last \/ i \in Installs)
            BY <2>4, <4>1
          <5>2. i = last
            BY <2>4, <5>1 DEF last
          <5> QED BY <2>4, <2>8, <5>2
        <4> QED BY <4>1 DEF LastSucceeded
      <3>4. InstallsKept'
        BY <2>5, <3>1, <3>3 DEF InstallsKept, Go
      <3>5. Found'
        BY <3>1 DEF Found, Readied, Go
      <3> QED BY <1>1, <3>1, <3>2, <3>4, <3>5, GoEarns
    <2>9. CASE ~(named /\ phase = "prepare" /\ other # node) /\ end # "ok"
      <3>1. Intervene(IF end = "timeout" THEN "prepare_timeout" ELSE "prepare_failed")
        BY <1>1, <2>1, <2>9
      <3>2. CASE end = "timeout"
        <4>1. Intervene("prepare_timeout")
          BY <3>1, <3>2
        <4> QED BY <1>1, <2>5, <4>1, InterveneEarns
      <3>3. CASE end = "failed"
        <4>1. Intervene("prepare_failed")
          BY <3>1, <3>3
        <4> QED BY <1>1, <2>4, <2>5, <3>3, <4>1, InterveneEarns
      <3> QED BY <2>1, <2>9, <3>2, <3>3
    <2> QED BY <1>1, <2>6, <2>7, <2>8, <2>9
  <1> QED BY <1>3, <1>4

\* A step on which no install is called, and the runtime is kept, keeps what is known of
\* them, or ends the campaign.
LEMMA LaterStep ==
    ASSUME CampaignInv, EarnedInv, UNCHANGED <<project, request, node>>, phase \in Readied \cup {"recheck", "ready"},
           calls' = calls \/ \E c \in Commands : c.what # "install" /\ calls' = Append(calls, c),
           phase' \in Readied \cup {"ready", "done"}
    PROVE  /\ project \in Projects /\ OnNode' /\ Fits' /\ InstallsKept' /\ phase # "done"
           /\ Installs' = Installs /\ \A i \in Installs : calls'[i] = calls[i]
  <1>1. calls \in Seq(Commands) /\ project \in Projects /\ OnNode /\ LastSucceeded
        /\ node # 0 /\ RuntimeFits /\ phase # "done"
    BY DEF CampaignInv, CampaignTypeOK, EarnedInv, InstallsKept, Fits, Readied
  <1>2. /\ OnNode' /\ LastSucceeded' /\ Installs' = Installs
        /\ \A i \in Installs : calls'[i] = calls[i]
    BY <1>1, OtherCalls
  <1>3. Fits'
    BY <1>1, <1>2, FitsKept DEF Fits
  <1>4. InstallsKept'
    BY <1>2 DEF InstallsKept, Readied
  <1> QED BY <1>1, <1>2, <1>3, <1>4

\* Such a step concludes nothing, or asks for a human.
LEMMA LaterEarns ==
    ASSUME CampaignInv, EarnedInv, UNCHANGED <<project, request, node>>, phase \in Readied \cup {"recheck", "ready"},
           calls' = calls \/ \E c \in Commands : c.what # "install" /\ calls' = Append(calls, c),
           NEW to,
           \/ Go(to) /\ to \in Readied \cup {"ready"} /\ Found'
           \/ /\ Intervene(to)
              /\ to \notin {"none", "project_build_failed", "server_readiness_failed", "prepare_failed"}
              /\ to = "workspace_prepare_failed" /\ phase = "workspace" =>
                   \E i \in DOMAIN calls' :
                     \/ calls'[i].what # "run" /\ calls'[i].end \notin {"ok", "timeout"}
                     \/ calls'[i].what = "workspace" /\ calls'[i].end = "timeout"
    PROVE  EarnedInv'
  <1>1. phase' \in Readied \cup {"ready", "done"}
    BY DEF Go, Intervene, Conclude
  <1>2. project \in Projects /\ OnNode' /\ Fits' /\ InstallsKept' /\ phase # "done"
    BY <1>1, LaterStep
  <1>3. CASE Go(to) /\ to \in Readied \cup {"ready"} /\ Found'
    BY <1>2, <1>3, GoEarns DEF Readied
  <1>4. CASE Intervene(to)
    BY <1>2, <1>4, InterveneEarns DEF Go, Intervene, Conclude, Readied
  <1> QED BY <1>3, <1>4

\* Found stays found where the probes and the project are kept.
LEMMA FoundKept ==
    ASSUME EarnedInv, UNCHANGED <<project, manager, deps>>, phase \in Readied
    PROVE  Found'
  BY DEF EarnedInv, Found

\* Every step keeps the invariant.
LEMMA EarnedStep == CampaignInv /\ EarnedInv /\ [CampaignNext]_campaignVars => EarnedInv'
  <1> SUFFICES ASSUME CampaignInv, EarnedInv, [CampaignNext]_campaignVars PROVE EarnedInv'
    OBVIOUS
  <1>0. project \in Projects /\ calls \in Seq(Commands) /\ node \in Chosen
    BY DEF EarnedInv, CampaignInv, CampaignTypeOK
  <1>1. CASE Inspect
    <2>1. phase = "inspect" /\ UNCHANGED <<project, node, calls>> /\ Installs = {}
      BY <1>1 DEF Inspect, EarnedInv, InstallsKept
    <2>2. Installs' = {} /\ OnNode'
      BY <2>1 DEF Installs, OfKind, OnNode
    <2>3. CASE project.review = "none"
      <3>1. Go("runtime")
        BY <1>1, <2>3 DEF Inspect
      <3>2. Fits' /\ InstallsKept' /\ Found'
        BY <2>2, <3>1 DEF Go, Fits, InstallsKept, Found, Readied
      <3> QED BY <2>1, <3>1, <3>2, GoEarns
    <2>4. CASE project.review # "none"
      <3>1. Intervene(project.review)
        BY <1>1, <2>4 DEF Inspect
      <3>2. project.review \notin {"none", "project_build_failed", "server_readiness_failed",
                                   "prepare_failed", "workspace_prepare_failed"}
        BY <1>0, <2>4, CampaignAssumption DEF Reviews
      <3> QED BY <1>0, <2>1, <2>2, <3>1, <3>2, InterveneEarns
    <2> QED BY <2>3, <2>4
  <1>2. CASE ChooseRuntime
    <2>1. phase = "runtime" /\ UNCHANGED <<project, calls>> /\ Installs = {} /\ node' = Select(project.range)
      BY <1>2 DEF ChooseRuntime, EarnedInv, InstallsKept
    <2>2. Installs' = {} /\ OnNode'
      BY <2>1 DEF Installs, OfKind, OnNode
    <2>3. ASSUME NEW code \in {"node_runtime_required", "package_manager_runtime_unavailable", "prepare_required"},
                 Intervene(code)
          PROVE  EarnedInv'
      BY <1>0, <2>1, <2>2, <2>3, InterveneEarns
    <2>4. ASSUME NEW p \in {"ready", "prepare"}, Go(p), node' # 0 PROVE EarnedInv'
      <3>1. Fits'
        <4>1. InRange(project'.range, node') /\ ~Negotiated'
          BY <2>1, <2>2, <2>4, SelectFits DEF Negotiated, Installs
        <4>2. RuntimeFits'
          BY <4>1 DEF RuntimeFits, InRange
        <4> QED BY <2>4, <4>2 DEF Fits
      <3>2. InstallsKept' /\ Found'
        BY <2>2, <2>4 DEF Go, InstallsKept, LastSucceeded, Found, Readied
      <3> QED BY <2>1, <2>4, <3>1, <3>2, GoEarns
    <2>5. \/ \E code \in {"node_runtime_required", "package_manager_runtime_unavailable", "prepare_required"} :
               Intervene(code)
          \/ node' # 0 /\ \E p \in {"ready", "prepare"} : Go(p)
      BY <1>2 DEF ChooseRuntime
    <2> QED BY <2>3, <2>4, <2>5
  <1>3. CASE PrepareProject
    BY <1>3, PrepareEarns
  <1>4. CASE Recheck
    <2>1. /\ UNCHANGED <<project, request, node, calls>> /\ phase = "recheck" /\ Go("ready")
      BY <1>4 DEF Recheck
    <2>2. Found'
      BY <2>1 DEF Found, Readied, Go
    <2> QED BY <2>1, <2>2, LaterEarns
  <1>5. CASE CheckReady
    <2>1. UNCHANGED <<project, request, node, manager, deps, calls>> /\ phase = "ready"
      BY <1>5 DEF CheckReady
    <2>2. CASE (project.install /\ manager # "ready") \/ deps = "missing"
      <3>1. PICK code \in {"package_manager_prepare_incomplete", "dependency_prepare_incomplete"} : Intervene(code)
        BY <1>5, <2>2 DEF CheckReady
      <3> QED BY <2>1, <3>1, LaterEarns
    <2>3. CASE ~(project.install /\ manager # "ready") /\ deps # "missing"
      <3>1. Go("workspace")
        BY <1>5, <2>3 DEF CheckReady
      <3>2. Found'
        BY <2>1, <2>3 DEF Found
      <3> QED BY <2>1, <3>1, <3>2, LaterEarns DEF Readied
    <2> QED BY <2>2, <2>3
  <1>6. CASE PrepareWorkspace
    <2>1. UNCHANGED <<project, request, node, manager, deps>> /\ phase = "workspace"
      BY <1>6 DEF PrepareWorkspace
    <2>2. Found'
      BY <2>1, FoundKept DEF Readied
    <2>3. \/ calls' = calls
          \/ \E end \in {"ok", "failed", "timeout", "absent"} : Called("workspace", FALSE, end)
      BY <1>6 DEF PrepareWorkspace
    <2>4. calls' = calls \/ \E c \in Commands :
            c.what # "install" /\ calls' = Append(calls, c) /\ c.what = "workspace"
      <3>1. ASSUME NEW end \in {"ok", "failed", "timeout", "absent"}, Called("workspace", FALSE, end)
            PROVE  \E c \in Commands : c.what # "install" /\ calls' = Append(calls, c) /\ c.what = "workspace"
        <4> DEFINE c == [what |-> "workspace", network |-> FALSE, node |-> node, end |-> end]
        <4>1. c \in Commands
          BY <1>0 DEF Commands, Names, Ends
        <4>2. c.what = "workspace" /\ calls' = Append(calls, c)
          BY <3>1 DEF Called
        <4> QED BY <4>1, <4>2
      <3> QED BY <2>3, <3>1
    <2>5. ASSUME Go("sandbox") PROVE EarnedInv'
      BY <2>1, <2>2, <2>4, <2>5, LaterEarns DEF Readied
    <2>6. ASSUME NEW code \in {"workspace_review_required", "workspace_prepare_required", "compile_review_required"},
                 Intervene(code)
          PROVE  EarnedInv'
      BY <2>1, <2>4, <2>6, LaterEarns DEF Readied
    <2>7. ASSUME Intervene("workspace_prepare_failed"), calls' # calls, calls'[Len(calls')].end # "ok"
          PROVE  EarnedInv'
      <3>1. PICK c \in Commands : c.what # "install" /\ calls' = Append(calls, c) /\ c.what = "workspace"
        BY <2>4, <2>7
      <3>2. Len(calls') \in DOMAIN calls' /\ calls'[Len(calls')].what = "workspace"
        BY <1>0, <3>1
      <3>3. \E i \in DOMAIN calls' :
               \/ calls'[i].what # "run" /\ calls'[i].end \notin {"ok", "timeout"}
               \/ calls'[i].what = "workspace" /\ calls'[i].end = "timeout"
        BY <2>7, <3>2
      <3> QED BY <2>1, <2>4, <2>7, <3>3, LaterEarns DEF Readied
    <2>8. \/ Go("sandbox")
          \/ \E code \in {"workspace_review_required", "workspace_prepare_required", "compile_review_required"} :
               Intervene(code)
          \/ Intervene("workspace_prepare_failed") /\ calls' # calls /\ calls'[Len(calls')].end # "ok"
      BY <1>6 DEF PrepareWorkspace, CompileManifest
    <2> QED BY <2>5, <2>6, <2>7, <2>8
  <1>7. ASSUME PrepareSandbox \/ UpdateRegistry \/ BuildAgain PROVE EarnedInv'
    <2>1. /\ UNCHANGED <<project, request, node, manager, deps>>
          /\ phase \in {"sandbox", "moon-update", "moon-again"}
      BY <1>7 DEF PrepareSandbox, UpdateRegistry, BuildAgain
    <2>2. Found'
      BY <2>1, FoundKept DEF Readied
    <2>3. \/ calls' = calls
          \/ \E end \in {"ok", "failed", "timeout", "unlisted"}, what \in {"moon build", "moon update"} :
               Called(what, TRUE, end)
      BY <1>7 DEF PrepareSandbox, UpdateRegistry, BuildAgain, MoonBuild
    <2>4. calls' = calls \/ \E c \in Commands : c.what # "install" /\ calls' = Append(calls, c)
      <3>1. ASSUME NEW end \in {"ok", "failed", "timeout", "unlisted"}, NEW what \in {"moon build", "moon update"},
                   Called(what, TRUE, end)
            PROVE  \E c \in Commands : c.what # "install" /\ calls' = Append(calls, c)
        <4> DEFINE c == [what |-> what, network |-> TRUE, node |-> node, end |-> end]
        <4>1. c \in Commands
          BY <1>0 DEF Commands, Names, Ends
        <4>2. c.what = what /\ calls' = Append(calls, c)
          BY <3>1 DEF Called
        <4> QED BY <4>1, <4>2
      <3> QED BY <2>3, <3>1
    <2>5. \/ \E p \in {"run", "moon-update", "moon-again"} : Go(p)
          \/ \E code \in {"workspace_prepare_required", "workspace_prepare_failed"} : Intervene(code)
      BY <1>7 DEF PrepareSandbox, UpdateRegistry, BuildAgain
    <2>6. ASSUME NEW p \in {"run", "moon-update", "moon-again"}, Go(p) PROVE EarnedInv'
      BY <2>1, <2>2, <2>4, <2>6, LaterEarns DEF Readied
    <2>7. ASSUME NEW code \in {"workspace_prepare_required", "workspace_prepare_failed"}, Intervene(code)
          PROVE  EarnedInv'
      BY <2>1, <2>4, <2>7, LaterEarns DEF Readied
    <2> QED BY <2>5, <2>6, <2>7
  <1>8. CASE RunProject
    <2>1. UNCHANGED <<project, request, node, manager, deps>> /\ phase = "run"
      BY <1>8 DEF RunProject
    <2>2. CASE Intervene("campaign_execution_failed") /\ UNCHANGED calls
      BY <2>1, <2>2, LaterEarns DEF Readied
    <2>3. ASSUME NEW build \in Builds, NEW browser \in Browsers(build),
                 Called("run", request.enforced /\ request.prepare /\ ~request.offline, build.status),
                 Conclude(StageCode([build |-> build, browser |-> browser]), [build |-> build, browser |-> browser])
          PROVE  EarnedInv'
      <3> DEFINE c == [what |-> "run", network |-> request.enforced /\ request.prepare /\ ~request.offline,
                       node |-> node, end |-> build.status]
      <3>1. c \in Commands
        <4>1. build.status \in Ends
          BY DEF Builds, NotRun, Ends
        <4> QED BY <1>0, <4>1, RequestType DEF Commands, Names, CampaignInv
      <3>2. c.what # "install" /\ calls' = Append(calls, c)
        BY <2>3 DEF Called
      <3>3. phase' = "done"
        BY <2>3 DEF Conclude
      <3>4. OnNode' /\ Installs' = Installs /\ \A i \in Installs : calls'[i] = calls[i]
        BY <2>1, <3>1, <3>2, <3>3, LaterStep DEF Readied
      <3> QED BY <2>1, <2>3, <3>4, RunEarns
    <2> QED BY <1>8, <2>2, <2>3 DEF RunProject
  <1>9. CASE UNCHANGED campaignVars
    BY <1>9 DEF campaignVars, EarnedInv, Fits, Negotiated, RuntimeFits, SingleRanges, InRange, InstallsKept,
                OnNode, LastSucceeded, Installs, OfKind, Found, VerdictIsEarned, CompletedOnPrepared,
                ViabilityIsEarned
  <1> QED BY <1>1, <1>2, <1>3, <1>4, <1>5, <1>6, <1>7, <1>8, <1>9 DEF CampaignNext

\* For every project, every set of Node versions and every end of the commands: a campaign
\* that is completed ran every stage, on dependencies and a runtime that were found ready,
\* the runtime being that of the last install and one that the project's range allows and,
\* where an install named another range, that range too (of one alternative each); it says
\* that the browser was reached only when it was, and blames the target only of a command
\* that did not succeed.
THEOREM VerdictAlwaysEarned == CampaignSpec => []VerdictIsEarned
  <1>1. EarnedInv => VerdictIsEarned
    BY DEF EarnedInv
  <1> QED BY <1>1, CampaignInitially, CampaignStep, EarnedInitially, EarnedStep, PTL DEF CampaignSpec

-----------------------------------------------------------------------------
\* The builds that a project of a workspace needs first: the walk over the dependencies.
Frames == [package : Packages, rest : SUBSET Packages]
Deps(p) == workspace.deps[p]
\* The pairs of packages of which the first needs the second, and whether none needs itself.
Needs == {e \in Packages \X Packages : e[2] \in Reach(e[1])}
Acyclic == \A p \in Packages : p \notin Reach(p)

OrderTypeOK ==
    /\ workspace \in Workspaces /\ path \in Seq(Frames) /\ visited \in SUBSET Packages
    /\ order \in Seq(Packages) /\ doing \in {"walk", "refused", "build", "built", "failed"}

\* The packages the walk is in, without the project's own frame.
OnPath == {path[i].package : i \in Visiting}

\* The path is one of dependencies, through no package twice.
PathDepends ==
    /\ path # <<>> /\ path[1].package = Project
    /\ \A i, j \in Visiting : path[i].package = path[j].package => i = j
    /\ \A i, j \in DOMAIN path : i < j => <<path[i].package, path[j].package>> \in Needs

\* What the walk has left is needed by the project, and what it depends on was met.
WalkCovers ==
    /\ OnPath \cap visited = {} /\ visited \subseteq Reach(Project)
    /\ \A i \in DOMAIN path : path[i].rest \subseteq Deps(path[i].package)
    /\ \A i \in DOMAIN path : Deps(path[i].package) \ path[i].rest \subseteq visited \cup OnPath
    /\ \A q \in visited : Deps(q) \subseteq visited \cup OnPath

\* The packages left that have a build script make up the order, each once.
OrderIsOf(S) == ToSet(order) = S /\ Len(order) = Cardinality(S)
Left == (visited \cap workspace.builders) \ {Project}

\* Without a cycle, what has been left is closed, and ordered.
DependenciesFirst ==
    \A q \in Left : \A p \in (Reach(q) \cap workspace.builders) \ {Project} : Before(p, q)
LeftIsClosed == \A q \in visited : Deps(q) \subseteq visited

WalkInv ==
    /\ PathDepends /\ WalkCovers /\ OrderIsOf(Left)
    /\ Acyclic => LeftIsClosed /\ DependenciesFirst

OrderInv == OrderTypeOK /\ (doing = "walk" => WalkInv) /\ BuildsAreOrdered

-----------------------------------------------------------------------------
\* A property of 0 that goes from each number to the next, up to n, holds up to n.
LEMMA UpTo ==
    ASSUME NEW n \in Nat, NEW S, 0 \in S, \A k \in 0 .. n - 1 : k \in S => k + 1 \in S
    PROVE  \A k \in 0 .. n : k \in S
  <1> SUFFICES ASSUME NEW j \in 0 .. n, j \notin S PROVE FALSE
    OBVIOUS
  <1> DEFINE less == OpToRel(<, Nat)
             T == {k \in 0 .. n : k \notin S}
  <1>1. T \subseteq Nat /\ T # {}
    OBVIOUS
  <1>2. PICK k \in T : \A i \in T : ~(<<i, k>> \in less)
    BY <1>1, NatLessThanWellFounded, WFMin
  <1>3. \A i \in T : <<i, k>> \in less <=> i < k
    BY <1>1 DEF OpToRel
  <1> HIDE DEF less
  <1>4. k \in 0 .. n /\ k # 0 /\ k \notin S
    OBVIOUS
  <1>5. k - 1 \notin T
    <2>1. k - 1 < k
      BY <1>4
    <2> QED BY <1>2, <1>3, <2>1
  <1>6. k - 1 \in S /\ k - 1 \in 0 .. n - 1
    BY <1>4, <1>5
  <1> QED BY <1>4, <1>6

\* What is in a set or one dependency away from it.
Widened(s) == s \cup UNION {workspace.deps[q] : q \in s}

\* The packages within n + 1 dependencies of p.
IsNear(f, p, n) ==
    f = [k \in 0 .. n |->
           IF k = 0 THEN workspace.deps[p]
           ELSE Widened(f[k - 1])]

\* There is such a function, so that the one Reach chooses is one.
LEMMA NearExists ==
    ASSUME NEW n \in Nat, NEW p
    PROVE  \E f : IsNear(f, p, n)
  <1> DEFINE S == {m \in 0 .. n : \E f : IsNear(f, p, m)}
  <1>1. 0 \in S
    <2> DEFINE f == [k \in 0 .. 0 |-> workspace.deps[p]]
    <2>1. IsNear(f, p, 0)
      BY DEF IsNear
    <2> QED BY <2>1
  <1>2. ASSUME NEW m \in 0 .. n - 1, m \in S PROVE m + 1 \in S
    <2>1. PICK f : IsNear(f, p, m)
      BY <1>2
    <2> DEFINE g == [k \in 0 .. m + 1 |-> IF k <= m THEN f[k] ELSE Widened(f[m])]
    <2>2. ASSUME NEW k \in 0 .. m + 1
          PROVE  g[k] = IF k = 0 THEN workspace.deps[p] ELSE Widened(g[k - 1])
      <3>1. CASE k = 0
        BY <2>1, <3>1 DEF IsNear
      <3>2. CASE k # 0 /\ k <= m
        <4>1. f[k] = Widened(f[k - 1])
          BY <2>1, <3>2 DEF IsNear
        <4>2. g[k] = f[k] /\ g[k - 1] = f[k - 1]
          BY <3>2
        <4> QED BY <3>2, <4>1, <4>2
      <3>3. CASE k = m + 1
        <4>1. g[k] = Widened(f[m]) /\ g[k - 1] = f[m] /\ k # 0
          BY <3>3
        <4> QED BY <4>1
      <3> QED BY <3>1, <3>2, <3>3
    <2>3. g = [k \in 0 .. m + 1 |-> IF k = 0 THEN workspace.deps[p] ELSE Widened(g[k - 1])]
      <3>1. DOMAIN g = 0 .. m + 1
        OBVIOUS
      <3> HIDE DEF g
      <3> DEFINE h == [k \in 0 .. m + 1 |-> IF k = 0 THEN workspace.deps[p] ELSE Widened(g[k - 1])]
      <3>2. \A k \in 0 .. m + 1 : h[k] = g[k]
        BY <2>2
      <3>3. g = [k \in 0 .. m + 1 |-> g[k]]
        <4>1. g = [k \in DOMAIN g |-> g[k]]
          BY DEF g
        <4> QED BY <3>1, <4>1
      <3> QED BY <3>2, <3>3
    <2>4. IsNear(g, p, m + 1)
      <3> HIDE DEF g
      <3> QED BY <2>3 DEF IsNear
    <2> QED BY <2>4
  <1>3. \A m \in 0 .. n : m \in S
    BY <1>1, <1>2, UpTo
  <1> QED BY <1>3

Near(p) == CHOOSE f : IsNear(f, p, Cardinality(Packages))

\* How the packages near p come about, up to those Reach is made of.
LEMMA NearSteps ==
    ASSUME NEW p
    PROVE  /\ Cardinality(Packages) \in Nat
           /\ Near(p)[0] = Deps(p)
           /\ \A k \in 1 .. Cardinality(Packages) :
                Near(p)[k] = Widened(Near(p)[k - 1])
           /\ Reach(p) = Near(p)[Cardinality(Packages)]
  <1>1. Cardinality(Packages) \in Nat
    BY WorkspaceAssumption, FS_CardinalityType
  <1>2. IsNear(Near(p), p, Cardinality(Packages))
    BY <1>1, NearExists DEF Near
  <1>3. Reach(p) = Near(p)[Cardinality(Packages)]
    BY DEF Reach, Near, IsNear, Widened
  <1> DEFINE near == Near(p)
  <1> HIDE DEF near
  <1>4. near[0] = Deps(p) /\ \A k \in 1 .. Cardinality(Packages) :
          near[k] = Widened(near[k - 1])
    <2>1. \A k \in 0 .. Cardinality(Packages) :
            near[k] = IF k = 0 THEN Deps(p) ELSE Widened(near[k - 1])
      BY <1>1, <1>2 DEF IsNear, Deps, near
    <2> QED BY <1>1, <2>1
  <1> QED BY <1>1, <1>3, <1>4 DEF near

Closed(S) == \A q \in S : Deps(q) \subseteq S

\* Dependencies are packages of the workspace.
LEMMA DepsIn ==
    ASSUME workspace \in Workspaces, NEW q \in Packages
    PROVE  Deps(q) \subseteq Packages
  BY WorkspaceAssumption DEF Deps

\* The packages reachable from p are the least set that has its dependencies and those
\* of every package in it.
LEMMA ReachFacts ==
    ASSUME workspace \in Workspaces, NEW p \in Packages
    PROVE  Deps(p) \subseteq Reach(p) /\ Reach(p) \subseteq Packages /\ Closed(Reach(p))
  <1> DEFINE n == Cardinality(Packages)
             near == Near(p)
  <1>0. n \in Nat /\ IsFiniteSet(Packages)
    BY NearSteps, WorkspaceAssumption
  <1>1. near[0] = Deps(p) /\ Reach(p) = near[n]
    BY NearSteps
  <1>2. ASSUME NEW k \in 1 .. n
        PROVE  near[k] = Widened(near[k - 1])
    BY NearSteps
  <1> HIDE DEF n, near
  <1> DEFINE S == {k \in 0 .. n : Deps(p) \subseteq near[k] /\ near[k] \subseteq Packages
                                    /\ (Closed(near[k]) \/ Cardinality(near[k]) >= k)}
  <1>3. 0 \in S
    <2>1. near[0] \subseteq Packages
      BY <1>1, DepsIn
    <2>2. Cardinality(near[0]) \in Nat
      BY <1>0, <2>1, FS_Subset, FS_CardinalityType
    <2> QED BY <1>0, <1>1, <2>1, <2>2
  <1>4. ASSUME NEW k \in 0 .. n - 1, k \in S PROVE k + 1 \in S
    <2> DEFINE a == near[k]
               b == near[k + 1]
               More == UNION {Deps(q) : q \in a}
    <2>1. b = a \cup More
      <3>1. k + 1 \in 1 .. n /\ (k + 1) - 1 = k
        BY <1>0
      <3>2. b = Widened(a)
        BY <1>2, <3>1
      <3> QED BY <3>2 DEF Widened, Deps
    <2>2. Deps(p) \subseteq a /\ a \subseteq Packages /\ (Closed(a) \/ Cardinality(a) >= k)
      BY <1>4
    <2> HIDE DEF a, b
    <2>3. More \subseteq Packages
      BY <2>2, DepsIn
    <2>4. \A q \in a : Deps(q) \subseteq More
      OBVIOUS
    <2> HIDE DEF More
    <2>5. Deps(p) \subseteq b /\ b \subseteq Packages
      BY <2>1, <2>2, <2>3
    <2>6. CASE Closed(a)
      <3>1. b = a
        <4>1. More \subseteq a
          BY <2>6 DEF Closed, More
        <4> QED BY <2>1, <4>1
      <3> QED BY <1>0, <2>5, <2>6, <3>1 DEF b
    <2>7. CASE ~Closed(a)
      <3>1. PICK q \in a : ~(Deps(q) \subseteq a)
        BY <2>7 DEF Closed
      <3>2. a # b /\ a \in SUBSET b
        BY <2>1, <2>4, <3>1
      <3>3. IsFiniteSet(b)
        BY <1>0, <2>5, FS_Subset
      <3>4. IsFiniteSet(a) /\ Cardinality(a) <= Cardinality(b) /\ Cardinality(a) # Cardinality(b)
        BY <3>2, <3>3, FS_Subset
      <3>5. Cardinality(a) \in Nat /\ Cardinality(b) \in Nat /\ Cardinality(a) >= k
        BY <2>2, <2>7, <3>3, <3>4, FS_CardinalityType
      <3>6. Cardinality(b) >= k + 1
        BY <1>0, <3>4, <3>5
      <3> QED BY <1>0, <2>5, <3>6 DEF b
    <2> QED BY <2>6, <2>7
  <1>5. n \in S
    <2> HIDE DEF S
    <2>1. \A k \in 0 .. n : k \in S
      BY <1>0, <1>3, <1>4, UpTo
    <2> QED BY <1>0, <2>1
  <1>6. CASE Closed(near[n])
    BY <1>1, <1>5, <1>6
  <1>7. CASE Cardinality(near[n]) >= n
    <2>1. near[n] \in SUBSET Packages
      BY <1>5
    <2>2. Cardinality(near[n]) <= n /\ Cardinality(near[n]) \in Nat
      BY <1>0, <2>1, FS_Subset, FS_CardinalityType DEF n
    <2>3. Cardinality(near[n]) = n
      BY <1>0, <1>7, <2>2
    <2>4. near[n] = Packages
      BY <1>0, <2>1, <2>3, FS_Subset DEF n
    <2> QED BY <1>1, <1>5, <2>4, DepsIn DEF Closed
  <1> QED BY <1>5, <1>6, <1>7

\* A closed set with the dependencies of p has all p needs.
LEMMA ReachLeast ==
    ASSUME workspace \in Workspaces, NEW p \in Packages, NEW T, Deps(p) \subseteq T, Closed(T)
    PROVE  Reach(p) \subseteq T
  <1> DEFINE n == Cardinality(Packages)
             near == Near(p)
  <1>1. n \in Nat /\ near[0] = Deps(p) /\ Reach(p) = near[n]
    BY NearSteps
  <1>2. ASSUME NEW k \in 1 .. n
        PROVE  near[k] = Widened(near[k - 1])
    BY NearSteps
  <1> HIDE DEF n, near
  <1> DEFINE S == {k \in 0 .. n : near[k] \subseteq T}
  <1>3. 0 \in S
    BY <1>1
  <1>4. ASSUME NEW k \in 0 .. n - 1, k \in S PROVE k + 1 \in S
    <2>1. k + 1 \in 1 .. n /\ (k + 1) - 1 = k
      BY <1>1
    <2>2. near[k + 1] = near[k] \cup UNION {Deps(q) : q \in near[k]}
      <3>1. near[k + 1] = Widened(near[k])
        BY <1>2, <2>1
      <3> QED BY <3>1 DEF Widened, Deps
    <2>3. UNION {Deps(q) : q \in near[k]} \subseteq T
      BY <1>4 DEF Closed
    <2> QED BY <1>1, <1>4, <2>2, <2>3
  <1>5. n \in S
    <2> HIDE DEF S
    <2>1. \A k \in 0 .. n : k \in S
      BY <1>1, <1>3, <1>4, UpTo
    <2> QED BY <1>1, <2>1
  <1> QED BY <1>1, <1>5

\* What a needed package needs is needed.
LEMMA ReachOn ==
    ASSUME workspace \in Workspaces, NEW p \in Packages, NEW q \in Reach(p)
    PROVE  q \in Packages /\ Deps(q) \subseteq Reach(p) /\ Reach(q) \subseteq Reach(p)
  <1>1. q \in Packages /\ Closed(Reach(p)) /\ Deps(q) \subseteq Reach(p)
    BY ReachFacts DEF Closed
  <1> QED BY <1>1, ReachLeast

-----------------------------------------------------------------------------
\* What needs what is a matter of the workspace alone.
LEMMA ReachKept ==
    ASSUME UNCHANGED workspace
    PROVE  /\ \A p : Reach(p)' = Reach(p) /\ Deps(p)' = Deps(p)
           /\ Needs' = Needs /\ Acyclic' = Acyclic
  <1>1. \A p : Reach(p)' = Reach(p) /\ Deps(p)' = Deps(p)
    BY DEF Reach, Deps
  <1> QED BY <1>1 DEF Needs, Acyclic

\* Needing goes over dependencies and is transitive.
LEMMA NeedsFacts ==
    ASSUME workspace \in Workspaces, NEW p \in Packages
    PROVE  /\ \A q \in Packages : <<p, q>> \in Needs <=> q \in Reach(p)
           /\ \A q \in Deps(p) : <<p, q>> \in Needs
           /\ \A q, r : <<p, q>> \in Needs /\ <<q, r>> \in Needs => <<p, r>> \in Needs
  <1>1. \A q : <<p, q>> \in Needs <=> q \in Reach(p) /\ q \in Packages
    BY DEF Needs
  <1>2. \A q \in Deps(p) : q \in Reach(p) /\ q \in Packages
    BY ReachFacts
  <1>3. ASSUME NEW q, NEW r, <<p, q>> \in Needs, <<q, r>> \in Needs PROVE <<p, r>> \in Needs
    <2>1. q \in Packages /\ q \in Reach(p) /\ r \in Reach(q) /\ r \in Packages
      BY <1>3 DEF Needs
    <2>2. Reach(q) \subseteq Reach(p)
      BY <2>1, ReachOn
    <2> QED BY <1>1, <2>1, <2>2
  <1> QED BY <1>1, <1>2, <1>3

\* The path after a dependency of its last frame has been taken from what is to be visited.
Taken(s, p) == [s EXCEPT ![Len(s)].rest = @ \ {p}]

\* Taking it changes the rest of the last frame and nothing else.
LEMMA RestFacts ==
    ASSUME NEW s \in Seq(Frames), s # <<>>, NEW p, NEW r, r = Taken(s, p)
    PROVE  /\ r \in Seq(Frames) /\ Len(r) = Len(s) /\ Len(s) \in Nat \ {0}
           /\ \A i \in 1 .. Len(s) : r[i].package = s[i].package
           /\ \A i \in 1 .. Len(s) : i # Len(s) => r[i].rest = s[i].rest
           /\ r[Len(s)].rest = s[Len(s)].rest \ {p}
  <1>1. Len(s) \in Nat \ {0} /\ Len(s) \in DOMAIN s /\ DOMAIN s = 1 .. Len(s)
    BY EmptySeq
  <1>2. s[Len(s)] \in Frames
    BY <1>1
  <1> DEFINE f == [s[Len(s)] EXCEPT !.rest = @ \ {p}]
  <1>3. f.package = s[Len(s)].package /\ f.rest = s[Len(s)].rest \ {p} /\ f \in Frames
    BY <1>2 DEF Frames
  <1>4. r = [s EXCEPT ![Len(s)] = f]
    BY DEF Taken
  <1> HIDE DEF f
  <1>5. r \in Seq(Frames) /\ Len(r) = Len(s) /\ \A i \in 1 .. Len(s) : r[i] = IF i = Len(s) THEN f ELSE s[i]
    <2>0. ASSUME NEW k \in 1 .. Len(s) PROVE [s EXCEPT ![k] = f] \in Seq(Frames) /\ Len([s EXCEPT ![k] = f]) = Len(s)
      BY <1>3, ExceptSeq
    <2>1. r \in Seq(Frames) /\ Len(r) = Len(s)
      BY <1>1, <1>4, <2>0
    <2>2. \A i \in 1 .. Len(s) : r[i] = IF i = Len(s) THEN f ELSE s[i]
      BY <1>1, <1>4
    <2> QED BY <2>1, <2>2
  <1> QED BY <1>1, <1>3, <1>5

\* What the walk is about to look at.
LEMMA TopFacts ==
    ASSUME OrderTypeOK, WalkInv, NEW n, n = Len(path)
    PROVE  /\ n \in Nat \ {0} /\ DOMAIN path = 1 .. n
           /\ \A i \in 1 .. n : path[i] \in Frames /\ path[i].package \in Packages /\ path[i].rest \in SUBSET Packages
           /\ \A x : x \in OnPath <=> \E i \in 2 .. n : path[i].package = x
           /\ \A i \in 1 .. n : i < n => <<path[i].package, path[n].package>> \in Needs
  <1>1. n \in Nat \ {0} /\ DOMAIN path = 1 .. n
    BY EmptySeq DEF OrderTypeOK, WalkInv, PathDepends
  <1>2. \A i \in 1 .. n : path[i] \in Frames
    BY <1>1 DEF OrderTypeOK
  <1>3. \A i \in 1 .. n : path[i].package \in Packages /\ path[i].rest \in SUBSET Packages
    BY <1>2 DEF Frames
  <1>4. \A x : x \in OnPath <=> \E i \in 2 .. n : path[i].package = x
    BY DEF OnPath, Visiting
  <1>5. \A i \in 1 .. n : i < n => <<path[i].package, path[n].package>> \in Needs
    BY <1>1 DEF WalkInv, PathDepends
  <1> QED BY <1>1, <1>2, <1>3, <1>4, <1>5

\* The dependency a frame visits next is one of its dependencies still to be visited.
LEMMA NextIsThere ==
    ASSUME NEW s \in SUBSET Packages, s # {}
    PROVE  Min(s) \in s
  BY WorkspaceAssumption, SmallestIsIn

LEMMA OrderInitially == WorkspaceInit => OrderInv
  <1> SUFFICES ASSUME WorkspaceInit PROVE OrderInv
    OBVIOUS
  <1> USE DEF WorkspaceInit
  <1> DEFINE f == [package |-> Project, rest |-> workspace.deps[Project]]
  <1>1. f \in Frames /\ f.package = Project /\ f.rest = Deps(Project)
    BY WorkspaceAssumption DEF Frames, Deps
  <1> HIDE DEF f
  <1>2. path = <<f>>
    BY DEF f
  <1>3. path \in Seq(Frames) /\ Len(path) = 1 /\ path # <<>> /\ path[1] = f /\ DOMAIN path = {1}
    BY <1>1, <1>2
  <1>4. OrderTypeOK
    BY <1>3 DEF OrderTypeOK
  <1>5. OnPath = {}
    BY <1>3 DEF OnPath, Visiting
  <1>6. Visiting = {}
    BY <1>3 DEF Visiting
  <1>7. PathDepends
    BY <1>1, <1>3, <1>6 DEF PathDepends
  <1>8. WalkCovers
    BY <1>1, <1>3, <1>5 DEF WalkCovers
  <1>9. Left = {}
    BY DEF Left
  <1>10. OrderIsOf({})
    BY FS_EmptySet DEF OrderIsOf, ToSet
  <1>11. LeftIsClosed /\ DependenciesFirst
    BY <1>9 DEF LeftIsClosed, DependenciesFirst
  <1>12. BuildsAreOrdered
    BY DEF BuildsAreOrdered
  <1> QED BY <1>4, <1>7, <1>8, <1>9, <1>10, <1>11, <1>12 DEF OrderInv, WalkInv

-----------------------------------------------------------------------------
\* Two packages of a cycle need each other.
LEMMA CycleNeeds ==
    ASSUME OrderTypeOK, WalkInv, NEW p \in Deps(path[Len(path)].package),
           \E i \in Visiting : path[i].package = p,
           NEW a \in CycleOf(p), NEW b \in CycleOf(p)
    PROVE  a \in Reach(b)
  <1> DEFINE n == Len(path)
             start == CHOOSE i \in Visiting : path[i].package = p
  <1>1. n \in Nat \ {0} /\ \A i \in 1 .. n : path[i].package \in Packages
    BY TopFacts
  <1>2. start \in 2 .. n /\ path[start].package = p
    BY DEF Visiting
  <1>3. CycleOf(p) = {path[i].package : i \in start .. n}
    BY DEF CycleOf
  <1> HIDE DEF start, n
  <1>4. PICK i \in start .. n : path[i].package = a
    BY <1>3
  <1>5. PICK j \in start .. n : path[j].package = b
    BY <1>3
  <1>6. \A x, y \in 1 .. n : x < y => <<path[x].package, path[y].package>> \in Needs
    <2>1. DOMAIN path = 1 .. n
      BY TopFacts DEF n
    <2> QED BY <2>1 DEF WalkInv, PathDepends
  <1>7. workspace \in Workspaces /\ i \in 1 .. n /\ j \in 1 .. n /\ start \in 1 .. n
    BY <1>1, <1>2 DEF OrderTypeOK
  <1> DEFINE t == path[n].package
  <1>8. t \in Packages /\ a \in Packages /\ b \in Packages
    BY <1>1, <1>4, <1>5, <1>7
  <1>9. <<t, p>> \in Needs
    BY <1>7, <1>8, NeedsFacts DEF n
  <1>10. <<b, p>> \in Needs
    <2>1. CASE j = n
      BY <1>5, <1>9, <2>1
    <2>2. CASE j # n
      <3>1. <<b, t>> \in Needs
        BY <1>1, <1>5, <1>6, <1>7, <2>2
      <3> QED BY <1>7, <1>8, <1>9, <3>1, NeedsFacts
    <2> QED BY <2>1, <2>2
  <1>11. <<b, a>> \in Needs
    <2>1. CASE i = start
      BY <1>2, <1>4, <1>10, <2>1
    <2>2. CASE i # start
      <3>1. <<p, a>> \in Needs
        BY <1>1, <1>2, <1>4, <1>6, <1>7, <2>2
      <3> QED BY <1>7, <1>8, <1>10, <3>1, NeedsFacts
    <2> QED BY <2>1, <2>2
  <1> QED BY <1>7, <1>8, <1>11, NeedsFacts

\* A set of more than one element has two.
LEMMA TwoOf ==
    ASSUME NEW S, IsFiniteSet(S), Cardinality(S) > 1
    PROVE  \E a, b \in S : a # b
  <1>1. S # {}
    BY FS_EmptySet
  <1>2. PICK a \in S : TRUE
    BY <1>1
  <1>3. S # {a}
    BY FS_Singleton
  <1> QED BY <1>2, <1>3

\* What a visit may be refused for.
LEMMA RefusalStep ==
    ASSUME OrderTypeOK, WalkInv, doing = "walk", path[Len(path)].rest # {},
           NEW p, p = Min(path[Len(path)].rest),
           \E i \in Visiting : path[i].package = p,
           Cardinality(CycleOf(p) \cap workspace.builders) > 1,
           doing' = "refused", UNCHANGED <<workspace, path, visited, order, built>>
    PROVE  OrderInv'
  <1> DEFINE n == Len(path)
  <1>1. n \in 1 .. Len(path) /\ path[n].rest \in SUBSET Packages /\ path[n].package \in Packages
    BY TopFacts
  <1>2. p \in path[n].rest
    BY <1>1, NextIsThere
  <1>3. p \in Deps(path[n].package)
    BY <1>1, <1>2 DEF WalkInv, WalkCovers, OrderTypeOK
  <1> DEFINE S == CycleOf(p) \cap workspace.builders
  <1>4. IsFiniteSet(S)
    <2>1. S \in SUBSET Packages
      BY WorkspaceAssumption DEF OrderTypeOK
    <2> QED BY <2>1, WorkspaceAssumption, FS_Subset
  <1>5. PICK a \in S, b \in S : a # b
    BY <1>4, TwoOf
  <1>6. a \in Reach(b) /\ b \in Reach(a)
    BY <1>3, <1>5, CycleNeeds
  <1>7. \E x, y \in workspace.builders : x # y /\ x \in Reach(y) /\ y \in Reach(x)
    BY <1>5, <1>6
  <1>8. (\E x, y \in workspace.builders : x # y /\ x \in Reach(y) /\ y \in Reach(x))'
    BY <1>7, ReachKept
  <1>9. BuildsAreOrdered'
    BY <1>8 DEF BuildsAreOrdered
  <1>10. OrderTypeOK'
    BY DEF OrderTypeOK
  <1> QED BY <1>9, <1>10 DEF OrderInv

\* A dependency that was left or is on the path is passed over.
LEMMA PassStep ==
    ASSUME OrderTypeOK, WalkInv, doing = "walk", path[Len(path)].rest # {},
           NEW p, p = Min(path[Len(path)].rest),
           p \in visited \/ \E i \in Visiting : path[i].package = p,
           path' = [path EXCEPT ![Len(path)].rest = @ \ {p}],
           UNCHANGED <<workspace, visited, order, doing, built>>
    PROVE  OrderInv'
  <1>1. PICK n : n = Len(path)
    OBVIOUS
  <1>2. path \in Seq(Frames) /\ path # <<>>
    BY DEF OrderTypeOK, WalkInv, PathDepends
  <1>3. /\ path' \in Seq(Frames) /\ Len(path') = n /\ n \in Nat \ {0}
        /\ \A i \in 1 .. n : path'[i].package = path[i].package
        /\ \A i \in 1 .. n : i # n => path'[i].rest = path[i].rest
        /\ path'[n].rest = path[n].rest \ {p}
    <2>0. PICK r : r = path'
      OBVIOUS
    <2>1. r = Taken(path, p)
      BY <2>0 DEF Taken
    <2>2. /\ r \in Seq(Frames) /\ Len(r) = Len(path) /\ Len(path) \in Nat \ {0}
          /\ \A i \in 1 .. Len(path) : r[i].package = path[i].package
          /\ \A i \in 1 .. Len(path) : i # Len(path) => r[i].rest = path[i].rest
          /\ r[Len(path)].rest = path[Len(path)].rest \ {p}
      BY <1>2, <2>1, RestFacts
    <2> QED BY <1>1, <2>0, <2>2
  <1>4. DOMAIN path = 1 .. n /\ DOMAIN path' = 1 .. n
    BY <1>1, <1>2, <1>3
  <1>5. p \in visited \cup OnPath
    BY DEF OnPath
  <1>6. OnPath' = OnPath
    <2>1. \A x : x \in OnPath <=> \E i \in 2 .. n : path[i].package = x
      BY <1>1 DEF OnPath, Visiting
    <2>2. \A x : x \in OnPath' <=> \E i \in 2 .. n : path'[i].package = x
      BY <1>3 DEF OnPath, Visiting
    <2>3. \A i \in 2 .. n : path'[i].package = path[i].package
      BY <1>3
    <2>4. \A x : x \in OnPath' <=> x \in OnPath
      BY <2>1, <2>2, <2>3
    <2> QED BY <2>4
  <1>7. PathDepends'
    <2>1. path' # <<>> /\ path'[1].package = Project
      BY <1>3, EmptySeq DEF WalkInv, PathDepends
    <2>2. \A i, j \in 2 .. n : path'[i].package = path'[j].package => i = j
      BY <1>1, <1>3 DEF WalkInv, PathDepends, Visiting
    <2>3. \A i, j \in 1 .. n : i < j => <<path'[i].package, path'[j].package>> \in Needs
      BY <1>3, <1>4 DEF WalkInv, PathDepends
    <2>4. Needs' = Needs
      BY ReachKept
    <2> QED BY <1>3, <1>4, <2>1, <2>2, <2>3, <2>4 DEF PathDepends, Visiting
  <1>8. WalkCovers'
    <2>1. \A i \in 1 .. n : path'[i].rest \subseteq Deps(path[i].package)
      BY <1>3, <1>4 DEF WalkInv, WalkCovers
    <2>2. \A i \in 1 .. n : Deps(path[i].package) \ path'[i].rest \subseteq visited \cup OnPath
      BY <1>3, <1>4, <1>5 DEF WalkInv, WalkCovers
    <2>3. \A i \in 1 .. n : workspace'.deps[path'[i].package] = Deps(path[i].package)
      BY <1>3 DEF Deps
    <2>4. \A i \in 1 .. n : path'[i].rest \subseteq workspace'.deps[path'[i].package]
      BY <2>1, <2>3
    <2>5. \A i \in 1 .. n : workspace'.deps[path'[i].package] \ path'[i].rest \subseteq visited' \cup OnPath'
      BY <1>6, <2>2, <2>3
    <2>6. (OnPath \cap visited = {} /\ visited \subseteq Reach(Project) /\ \A q \in visited : Deps(q) \subseteq visited \cup OnPath)'
      BY <1>6, ReachKept DEF WalkInv, WalkCovers
    <2> QED BY <1>4, <2>4, <2>5, <2>6 DEF WalkCovers, Deps
  <1>9. (OrderIsOf(Left) /\ (Acyclic => LeftIsClosed /\ DependenciesFirst))'
    <2>1. OrderIsOf(Left)'
      BY DEF WalkInv, OrderIsOf, Left
    <2>2. Acyclic => LeftIsClosed'
      BY ReachKept DEF WalkInv, LeftIsClosed
    <2>3. Acyclic => DependenciesFirst'
      BY ReachKept DEF WalkInv, DependenciesFirst, Left, Before
    <2> QED BY <2>1, <2>2, <2>3, ReachKept
  <1>10. OrderTypeOK' /\ BuildsAreOrdered'
    BY <1>3 DEF OrderTypeOK, BuildsAreOrdered
  <1> QED BY <1>7, <1>8, <1>9, <1>10 DEF OrderInv, WalkInv

\* A dependency not met before is entered.
LEMMA EnterStep ==
    ASSUME OrderTypeOK, WalkInv, doing = "walk", path[Len(path)].rest # {},
           NEW p, p = Min(path[Len(path)].rest),
           p \notin visited, ~ \E i \in Visiting : path[i].package = p,
           path' = Append(Taken(path, p), Frame(p)),
           UNCHANGED <<workspace, visited, order, doing, built>>
    PROVE  OrderInv'
  <1>1. PICK n : n = Len(path)
    OBVIOUS
  <1>2. path \in Seq(Frames) /\ path # <<>> /\ workspace \in Workspaces
    BY DEF OrderTypeOK, WalkInv, PathDepends
  <1>3. PICK r : r = Taken(path, p)
    OBVIOUS
  <1>4. /\ r \in Seq(Frames) /\ Len(r) = n /\ n \in Nat \ {0}
        /\ \A i \in 1 .. n : r[i].package = path[i].package
        /\ \A i \in 1 .. n : i # n => r[i].rest = path[i].rest
        /\ r[n].rest = path[n].rest \ {p}
    BY <1>1, <1>2, <1>3, RestFacts
  <1>5. path[n].package \in Packages /\ path[n].rest \in SUBSET Packages /\ DOMAIN path = 1 .. n
    BY <1>1, <1>4, TopFacts
  <1>6. p \in path[n].rest /\ p \in Packages
    BY <1>1, <1>5, NextIsThere
  <1>7. p \in Deps(path[n].package)
    BY <1>4, <1>5, <1>6 DEF WalkInv, WalkCovers
  <1>8. PICK f : f = Frame(p)
    OBVIOUS
  <1>9. f \in Frames /\ f.package = p /\ f.rest = Deps(p)
    BY <1>2, <1>6, <1>8, WorkspaceAssumption DEF Frame, Frames, Deps
  <1>10. PICK s : s = Append(r, f)
    OBVIOUS
  <1>11. path' = s
    BY <1>3, <1>8, <1>10
  <1>12. /\ s \in Seq(Frames) /\ Len(s) = n + 1 /\ s # <<>> /\ s[n + 1] = f
         /\ \A i \in 1 .. n : s[i] = r[i]
    BY <1>4, <1>9, <1>10, AppendProperties
  <1>13. DOMAIN s = 1 .. n + 1 /\ s[n + 1].package = p /\ s[n + 1].rest = Deps(p)
         /\ \A i \in 1 .. n : s[i].package = path[i].package
    BY <1>4, <1>9, <1>12
  <1>14. \A i \in 1 .. n + 1 : i # n + 1 => i \in 1 .. n
    <2>1. n \in Nat
      BY <1>4
    <2> QED BY <2>1
  <1>15. OnPath' = OnPath \cup {p} /\ p \notin OnPath
    <2>1. \A x : x \in OnPath <=> \E i \in 2 .. n : path[i].package = x
      BY <1>1 DEF OnPath, Visiting
    <2>2. \A x : x \in OnPath' <=> \E i \in 2 .. n + 1 : s[i].package = x
      BY <1>11, <1>12 DEF OnPath, Visiting
    <2>3. \A x : x \in OnPath' <=> x \in OnPath \/ x = p
      <3>1. n \in Nat /\ n >= 1
        BY <1>4
      <3>2. n + 1 \in 2 .. n + 1 /\ \A i \in 2 .. n + 1 : i = n + 1 \/ i \in 2 .. n
        BY <3>1
      <3>3. \A i \in 2 .. n : i \in 2 .. n + 1 /\ s[i].package = path[i].package
        BY <1>13, <3>1
      <3> QED BY <1>13, <2>1, <2>2, <3>2, <3>3
    <2>4. p \notin OnPath
      BY DEF OnPath
    <2> QED BY <2>3, <2>4
  <1>16. PathDepends'
    <2>1. s # <<>> /\ s[1].package = Project
      BY <1>4, <1>12, <1>13 DEF WalkInv, PathDepends
    <2>2. \A i, j \in 2 .. n : s[i].package = s[j].package => i = j
      BY <1>1, <1>4, <1>13 DEF WalkInv, PathDepends, Visiting
    <2>3. \A i \in 2 .. n : s[i].package # p
      BY <1>1, <1>4, <1>13 DEF Visiting
    <2>4. \A i, j \in 2 .. n + 1 : s[i].package = s[j].package => i = j
      <3>1. \A i \in 2 .. n + 1 : i = n + 1 \/ i \in 2 .. n
        BY <1>4
      <3> QED BY <1>13, <2>2, <2>3, <3>1
    <2>5. \A i, j \in 1 .. n : i < j => <<s[i].package, s[j].package>> \in Needs
      BY <1>5, <1>13 DEF WalkInv, PathDepends
    <2>6. <<path[n].package, p>> \in Needs
      BY <1>2, <1>5, <1>7, NeedsFacts
    <2>7. \A i \in 1 .. n : <<s[i].package, p>> \in Needs
      <3> TAKE i \in 1 .. n
      <3>1. CASE i = n
        BY <1>13, <2>6, <3>1
      <3>2. CASE i # n
        <4>1. <<path[i].package, path[n].package>> \in Needs /\ path[i].package \in Packages
          BY <1>1, <1>4, <3>2, TopFacts
        <4> QED BY <1>2, <1>13, <2>6, <4>1, NeedsFacts
      <3> QED BY <3>1, <3>2
    <2>8. \A i, j \in 1 .. n + 1 : i < j => <<s[i].package, s[j].package>> \in Needs
      <3> SUFFICES ASSUME NEW i \in 1 .. n + 1, NEW j \in 1 .. n + 1, i < j
                   PROVE  <<s[i].package, s[j].package>> \in Needs
        OBVIOUS
      <3>1. i \in 1 .. n
        BY <1>4
      <3>2. CASE j \in 1 .. n
        BY <2>5, <3>1, <3>2
      <3>3. CASE j = n + 1
        BY <1>13, <2>7, <3>1, <3>3
      <3> QED BY <1>14, <3>2, <3>3
    <2>9. Needs' = Needs
      BY ReachKept
    <2> QED BY <1>11, <1>12, <1>13, <2>1, <2>4, <2>8, <2>9 DEF PathDepends, Visiting
  <1>17. WalkCovers'
    <2>1. \A i \in 1 .. n + 1 : s[i].rest \subseteq Deps(s[i].package)
      <3> TAKE i \in 1 .. n + 1
      <3>1. CASE i = n + 1
        BY <1>13, <3>1
      <3>2. CASE i \in 1 .. n
        <4>1. s[i].rest \subseteq path[i].rest
          BY <1>4, <1>12, <3>2
        <4> QED BY <1>5, <1>13, <3>2, <4>1 DEF WalkInv, WalkCovers
      <3> QED BY <1>14, <3>1, <3>2
    <2>2. \A i \in 1 .. n + 1 : Deps(s[i].package) \ s[i].rest \subseteq visited \cup OnPath'
      <3> TAKE i \in 1 .. n + 1
      <3>1. CASE i = n + 1
        BY <1>13, <3>1
      <3>2. CASE i \in 1 .. n
        <4>1. path[i].rest \subseteq s[i].rest \cup {p}
          BY <1>4, <1>12, <3>2
        <4>2. Deps(path[i].package) \ path[i].rest \subseteq visited \cup OnPath
          BY <1>5, <3>2 DEF WalkInv, WalkCovers
        <4> QED BY <1>13, <1>15, <3>2, <4>1, <4>2
      <3> QED BY <1>14, <3>1, <3>2
    <2>3. (OnPath \cap visited = {} /\ visited \subseteq Reach(Project) /\ \A q \in visited : Deps(q) \subseteq visited \cup OnPath)'
      BY <1>15, ReachKept DEF WalkInv, WalkCovers
    <2>4. \A i \in 1 .. n + 1 : s[i].rest \subseteq workspace'.deps[s[i].package]
      BY <2>1 DEF Deps
    <2>5. \A i \in 1 .. n + 1 : workspace'.deps[s[i].package] \ s[i].rest \subseteq visited' \cup OnPath'
      BY <2>2 DEF Deps
    <2> QED BY <1>11, <1>13, <2>3, <2>4, <2>5 DEF WalkCovers, Deps
  <1>18. (OrderIsOf(Left) /\ (Acyclic => LeftIsClosed /\ DependenciesFirst))'
    <2>1. OrderIsOf(Left)'
      BY DEF WalkInv, OrderIsOf, Left
    <2>2. Acyclic => LeftIsClosed'
      BY ReachKept DEF WalkInv, LeftIsClosed
    <2>3. Acyclic => DependenciesFirst'
      BY ReachKept DEF WalkInv, DependenciesFirst, Left, Before
    <2> QED BY <2>1, <2>2, <2>3, ReachKept
  <1>19. OrderTypeOK' /\ BuildsAreOrdered'
    BY <1>11, <1>12 DEF OrderTypeOK, BuildsAreOrdered
  <1> QED BY <1>16, <1>17, <1>18, <1>19 DEF OrderInv, WalkInv

\* A package that is left was met once, and what it depends on was met.
LEMMA LeavingFacts ==
    ASSUME OrderTypeOK, WalkInv, path[Len(path)].rest = {}, NEW n, n = Len(path), NEW t, t = path[n].package
    PROVE  /\ n \in Nat \ {0} /\ t \in Packages /\ workspace \in Workspaces
           /\ n = 1 => t = Project /\ OnPath = {}
           /\ n # 1 => t \in OnPath /\ t \notin visited /\ t \in Reach(Project)
           /\ Deps(t) \subseteq visited \cup OnPath
           /\ Acyclic => Deps(t) \subseteq visited
  <1>1. n \in Nat \ {0} /\ DOMAIN path = 1 .. n /\ \A i \in 1 .. n : path[i].package \in Packages
    BY TopFacts
  <1>2. \A x : x \in OnPath <=> \E i \in 2 .. n : path[i].package = x
    BY TopFacts
  <1>3. t \in Packages /\ workspace \in Workspaces /\ path[1].package = Project
    BY <1>1 DEF OrderTypeOK, WalkInv, PathDepends
  <1>4. n = 1 => t = Project /\ OnPath = {}
    <2> SUFFICES ASSUME n = 1 PROVE t = Project /\ OnPath = {}
      OBVIOUS
    <2>1. \A x : x \notin OnPath
      BY <1>2
    <2> QED BY <1>3, <2>1
  <1>5. n # 1 => t \in OnPath /\ t \notin visited /\ t \in Reach(Project)
    <2> SUFFICES ASSUME n # 1 PROVE t \in OnPath /\ t \notin visited /\ t \in Reach(Project)
      OBVIOUS
    <2>1. n \in 2 .. n /\ 1 \in 1 .. n /\ 1 < n
      BY <1>1
    <2>2. t \in OnPath
      BY <1>2, <2>1
    <2>3. t \notin visited
      BY <2>2 DEF WalkInv, WalkCovers
    <2>4. <<Project, t>> \in Needs
      BY <1>3, <2>1, TopFacts
    <2> QED BY <1>3, <2>2, <2>3, <2>4, NeedsFacts, WorkspaceAssumption
  <1>6. Deps(t) \subseteq visited \cup OnPath
    BY <1>1 DEF WalkInv, WalkCovers
  <1>7. Acyclic => Deps(t) \subseteq visited
    <2> SUFFICES ASSUME Acyclic, NEW x \in Deps(t), x \notin visited PROVE FALSE
      OBVIOUS
    <2>1. PICK i \in 2 .. n : path[i].package = x
      BY <1>2, <1>6
    <2>2. <<t, x>> \in Needs
      BY <1>3, NeedsFacts
    <2>3. i \in 1 .. n /\ x \in Packages
      BY <1>1, <2>1
    <2>4. <<x, x>> \in Needs
      <3>1. CASE i = n
        BY <2>1, <2>2, <3>1
      <3>2. CASE i # n
        <4>1. <<x, t>> \in Needs
          <5>1. i < n
            BY <1>1, <3>2
          <5> QED BY <2>1, <2>3, <5>1, TopFacts
        <4> QED BY <1>3, <2>2, <2>3, <4>1, NeedsFacts
      <3> QED BY <3>1, <3>2
    <2> QED BY <1>3, <2>3, <2>4, NeedsFacts DEF Acyclic
  <1> QED BY <1>1, <1>3, <1>4, <1>5, <1>6, <1>7

\* The order after a package has been left.
LEMMA LeavingOrders ==
    ASSUME OrderTypeOK, WalkInv, NEW t \in Packages, t \in visited => t = Project,
           Acyclic => Deps(t) \subseteq visited,
           visited' = visited \cup {t}, UNCHANGED workspace,
           order' = IF t \in workspace.builders \ {Project} THEN Append(order, t) ELSE order
    PROVE  (OrderIsOf(Left) /\ (Acyclic => LeftIsClosed /\ DependenciesFirst))'
  <1>0. /\ workspace \in Workspaces /\ visited \in SUBSET Packages /\ order \in Seq(Packages)
        /\ Len(order) \in Nat /\ DOMAIN order = 1 .. Len(order)
        /\ OrderIsOf(Left) /\ (Acyclic => LeftIsClosed /\ DependenciesFirst)
    BY DEF OrderTypeOK, WalkInv
  <1>1. IsFiniteSet(Left) /\ Cardinality(Left) \in Nat
    <2>1. Left \in SUBSET Packages
      BY <1>0 DEF Left
    <2> QED BY <2>1, WorkspaceAssumption, FS_Subset, FS_CardinalityType
  <1>2. Acyclic => LeftIsClosed'
    <2>1. Acyclic => \A q \in visited \cup {t} : Deps(q) \subseteq visited
      BY <1>0 DEF LeftIsClosed
    <2> QED BY <2>1, ReachKept DEF LeftIsClosed
  <1>3. CASE t \notin workspace.builders \ {Project}
    <2>1. Left' = Left /\ order' = order
      BY <1>3 DEF Left
    <2>2. OrderIsOf(Left)'
      BY <1>0, <2>1 DEF OrderIsOf
    <2>3. Acyclic => DependenciesFirst'
      <3>1. \A p, q : Before(p, q)' = Before(p, q)
        BY <2>1 DEF Before
      <3>2. \A q : Reach(q)' = Reach(q)
        BY ReachKept
      <3> QED BY <1>0, <2>1, <3>1, <3>2 DEF DependenciesFirst
    <2> QED BY <1>2, <2>2, <2>3, ReachKept
  <1>4. CASE t \in workspace.builders \ {Project}
    <2>1. t \notin Left /\ Left' = Left \cup {t}
      BY <1>4 DEF Left
    <2>2. PICK o : o = order'
      OBVIOUS
    <2>3. PICK m : m = Len(order)
      OBVIOUS
    <2>4. o \in Seq(Packages) /\ Len(o) = m + 1 /\ o[m + 1] = t /\ (\A i \in 1 .. m : o[i] = order[i]) /\ m \in Nat
      BY <1>0, <1>4, <2>2, <2>3, AppendProperties
    <2>5. DOMAIN o = 1 .. m + 1 /\ DOMAIN order = 1 .. m /\ m + 1 \in 1 .. m + 1
          /\ (\A i \in 1 .. m : i \in 1 .. m + 1 /\ i < m + 1) /\ \A i \in 1 .. m + 1 : i \in 1 .. m \/ i = m + 1
      <3>1. m \in Nat
        BY <2>4
      <3> QED BY <1>0, <2>3, <2>4, <3>1
    <2>6. OrderIsOf(Left)'
      <3>1. \A x : x \in ToSet(order) <=> \E i \in 1 .. m : order[i] = x
        BY <2>5 DEF ToSet
      <3>2. \A x : x \in ToSet(o) <=> \E i \in 1 .. m + 1 : o[i] = x
        BY <2>5 DEF ToSet
      <3>3. \A x : x \in ToSet(o) <=> x \in ToSet(order) \/ x = t
        BY <2>4, <2>5, <3>1, <3>2
      <3>4. ToSet(o) = Left \cup {t}
        BY <1>0, <3>3 DEF OrderIsOf
      <3>5. Len(o) = Cardinality(Left \cup {t})
        <4>1. Cardinality(Left \cup {t}) = Cardinality(Left) + 1
          BY <1>1, <2>1, FS_AddElement
        <4> QED BY <1>0, <2>3, <2>4, <4>1 DEF OrderIsOf
      <3> QED BY <2>1, <2>2, <3>4, <3>5 DEF OrderIsOf
    <2>7. ASSUME Acyclic PROVE DependenciesFirst'
      <3>1. Reach(t) \subseteq visited
        <4>1. Closed(visited) /\ Deps(t) \subseteq visited
          BY <1>0, <2>7 DEF Closed, LeftIsClosed
        <4> QED BY <1>0, <4>1, ReachLeast
      <3>2. ASSUME NEW q \in Left, NEW p \in (Reach(q) \cap workspace.builders) \ {Project}
            PROVE  \E i, j \in 1 .. m + 1 : i < j /\ o[i] = p /\ o[j] = q
        <4>1. PICK i \in 1 .. m, j \in 1 .. m : i < j /\ order[i] = p /\ order[j] = q
          <5>1. Before(p, q)
            BY <1>0, <2>7, <3>2 DEF DependenciesFirst
          <5> QED BY <2>5, <5>1 DEF Before
        <4> QED BY <2>4, <2>5, <4>1
      <3>3. ASSUME NEW p \in (Reach(t) \cap workspace.builders) \ {Project}
            PROVE  \E i, j \in 1 .. m + 1 : i < j /\ o[i] = p /\ o[j] = t
        <4>1. p \in ToSet(order)
          BY <1>0, <3>1 DEF OrderIsOf, Left
        <4>2. PICK i \in 1 .. m : order[i] = p
          BY <2>5, <4>1 DEF ToSet
        <4> QED BY <2>4, <2>5, <4>2
      <3>4. \A q \in Left \cup {t} : \A p \in (Reach(q) \cap workspace.builders) \ {Project} :
              \E i, j \in DOMAIN o : i < j /\ o[i] = p /\ o[j] = q
        BY <2>5, <3>2, <3>3
      <3> QED BY <2>1, <2>2, <3>4, ReachKept DEF DependenciesFirst, Before
    <2> QED BY <1>2, <2>6, <2>7, ReachKept
  <1> QED BY <1>3, <1>4

\* A package is left: the walk goes on, or its outcome is the property.
LEMMA LeaveStep ==
    ASSUME OrderTypeOK, WalkInv, Leave
    PROVE  OrderInv'
  <1>1. PICK n : n = Len(path)
    OBVIOUS
  <1>2. PICK t : t = path[n].package
    OBVIOUS
  <1>3. /\ doing = "walk" /\ path[Len(path)].rest = {} /\ UNCHANGED <<workspace, built>>
        /\ path' = SubSeq(path, 1, n - 1) /\ visited' = visited \cup {t}
        /\ order' = IF t \in workspace.builders \ {Project} THEN Append(order, t) ELSE order
        /\ doing' = IF path' = <<>> THEN "build" ELSE doing
    BY <1>1, <1>2 DEF Leave, Top
  <1>4. /\ n \in Nat \ {0} /\ t \in Packages /\ workspace \in Workspaces
        /\ n = 1 => t = Project /\ OnPath = {}
        /\ n # 1 => t \in OnPath /\ t \notin visited /\ t \in Reach(Project)
        /\ Deps(t) \subseteq visited \cup OnPath
        /\ Acyclic => Deps(t) \subseteq visited
    BY <1>1, <1>2, <1>3, LeavingFacts
  <1>5. (OrderIsOf(Left) /\ (Acyclic => LeftIsClosed /\ DependenciesFirst))'
    BY <1>3, <1>4, LeavingOrders
  <1>6. path \in Seq(Frames) /\ DOMAIN path = 1 .. n /\ \A i \in 1 .. n : path[i] \in Frames
    BY <1>1, TopFacts DEF OrderTypeOK
  <1>7. PICK s : s = path'
    OBVIOUS
  <1>8. s \in Seq(Frames) /\ Len(s) = n - 1 /\ \A i \in 1 .. n - 1 : s[i] = path[i]
    <2>1. n - 1 \in Int /\ \A i \in 1 .. n - 1 : path[i] \in Frames
      BY <1>4, <1>6
    <2>2. /\ SubSeq(path, 1, n - 1) \in Seq(Frames)
          /\ Len(SubSeq(path, 1, n - 1)) = IF 1 <= n - 1 THEN (n - 1) - 1 + 1 ELSE 0
          /\ \A i \in 1 .. (n - 1) - 1 + 1 : SubSeq(path, 1, n - 1)[i] = path[1 + i - 1]
      BY <2>1, SubSeqProperties
    <2>3. Len(s) = n - 1
      BY <1>3, <1>4, <1>7, <2>2
    <2>4. ASSUME NEW i \in 1 .. n - 1 PROVE s[i] = path[i]
      <3>1. (n - 1) - 1 + 1 = n - 1 /\ 1 + i - 1 = i
        BY <1>4
      <3> QED BY <1>3, <1>7, <2>2, <3>1
    <2> QED BY <1>3, <1>7, <2>2, <2>3, <2>4
  <1>9. OrderTypeOK'
    <2>1. order' \in Seq(Packages)
      BY <1>3, <1>4 DEF OrderTypeOK
    <2> QED BY <1>3, <1>4, <1>7, <1>8, <2>1 DEF OrderTypeOK
  <1>10. CASE n = 1
    <2>1. path' = <<>> /\ doing' = "build"
      BY <1>3, <1>7, <1>8, <1>10, EmptySeq
    <2>2. t = Project /\ OnPath = {}
      BY <1>4, <1>10
    <2>3. Reach(Project) \subseteq visited
      <3>1. Closed(visited) /\ Deps(Project) \subseteq visited
        BY <1>4, <2>2 DEF WalkInv, WalkCovers, Closed
      <3> QED BY <1>4, <3>1, ReachLeast, WorkspaceAssumption
    <2>4. Left' = Needed'
      <3>1. visited = Reach(Project)
        BY <2>3 DEF WalkInv, WalkCovers
      <3>2. Reach(Project)' = Reach(Project)
        BY <1>3, ReachKept
      <3> QED BY <1>3, <2>2, <3>1, <3>2 DEF Left, Needed
    <2>5. (ToSet(order) = Needed /\ Len(order) = Cardinality(Needed))'
      BY <1>5, <2>4 DEF OrderIsOf
    <2>6. Acyclic' => (\A q \in Needed : \A p \in (Reach(q) \cap workspace.builders) \ {Project} : Before(p, q))'
      BY <1>5, <2>4 DEF DependenciesFirst
    <2>7. BuildsAreOrdered'
      BY <2>1, <2>5, <2>6 DEF BuildsAreOrdered, Acyclic
    <2> QED BY <1>9, <2>1, <2>7 DEF OrderInv
  <1>11. CASE n # 1
    <2>1. n - 1 \in Nat \ {0} /\ DOMAIN s = 1 .. n - 1 /\ (\A i \in 1 .. n - 1 : i \in 1 .. n) /\ n \in Nat
      BY <1>4, <1>8, <1>11
    <2>2. s # <<>> /\ doing' = "walk"
      BY <1>3, <1>7, <1>8, <2>1, EmptySeq
    <2>3. \A x : x \in OnPath <=> \E i \in 2 .. n : path[i].package = x
      BY <1>1 DEF OnPath, Visiting
    <2>4. \A x : x \in OnPath' <=> \E i \in 2 .. n - 1 : path[i].package = x
      <3>1. \A x : x \in OnPath' <=> \E i \in 2 .. n - 1 : s[i].package = x
        BY <1>7, <1>8 DEF OnPath, Visiting
      <3> QED BY <1>8, <2>1, <3>1
    <2>5. \A i, j \in 2 .. n : path[i].package = path[j].package => i = j
      BY <1>1 DEF WalkInv, PathDepends, Visiting
    <2>6. t \notin OnPath' /\ OnPath = OnPath' \cup {t}
      <3>1. n \in 2 .. n /\ \A i \in 2 .. n - 1 : i \in 2 .. n /\ i # n
        BY <1>11, <2>1
      <3>2. t \notin OnPath'
        BY <1>2, <2>4, <2>5, <3>1
      <3>3. \A i \in 2 .. n : i = n \/ i \in 2 .. n - 1
        BY <2>1
      <3>4. \A x : x \in OnPath <=> x \in OnPath' \/ x = t
        BY <1>2, <2>3, <2>4, <3>1, <3>3
      <3> QED BY <3>2, <3>4
    <2>7. PathDepends'
      <3>1. s[1].package = Project
        BY <1>8, <2>1 DEF WalkInv, PathDepends
      <3>2. \A i, j \in 2 .. n - 1 : s[i].package = s[j].package => i = j
        BY <1>8, <2>1, <2>5
      <3>3. \A i, j \in 1 .. n - 1 : i < j => <<s[i].package, s[j].package>> \in Needs
        BY <1>6, <1>8, <2>1 DEF WalkInv, PathDepends
      <3>4. Needs' = Needs
        BY <1>3, ReachKept
      <3> QED BY <1>7, <1>8, <2>1, <2>2, <3>1, <3>2, <3>3, <3>4 DEF PathDepends, Visiting
    <2>8. WalkCovers'
      <3>1. visited' \cup OnPath' = visited \cup OnPath
        BY <1>3, <2>6
      <3>2. OnPath' \cap visited' = {}
        BY <1>3, <2>6 DEF WalkInv, WalkCovers
      <3>3. visited' \subseteq Reach(Project)'
        <4>1. Reach(Project)' = Reach(Project)
          BY <1>3, ReachKept
        <4> QED BY <1>3, <1>4, <1>11, <4>1 DEF WalkInv, WalkCovers
      <3>4. \A q \in visited' : Deps(q) \subseteq visited' \cup OnPath'
        BY <1>3, <1>4, <3>1 DEF WalkInv, WalkCovers
      <3>5. \A i \in 1 .. n - 1 : s[i].rest \subseteq Deps(s[i].package)
        BY <1>6, <1>8, <2>1 DEF WalkInv, WalkCovers
      <3>6. \A i \in 1 .. n - 1 : Deps(s[i].package) \ s[i].rest \subseteq visited' \cup OnPath'
        BY <1>6, <1>8, <2>1, <3>1 DEF WalkInv, WalkCovers
      <3>7. \A x : workspace'.deps[x] = Deps(x)
        BY <1>3 DEF Deps
      <3>8. \A i \in 1 .. n - 1 : /\ s[i].rest \subseteq workspace'.deps[s[i].package]
                                   /\ workspace'.deps[s[i].package] \ s[i].rest \subseteq visited' \cup OnPath'
        BY <3>5, <3>6, <3>7
      <3>9. (\A q \in visited : Deps(q) \subseteq visited \cup OnPath)'
        BY <3>4, <3>7 DEF Deps
      <3> QED BY <1>7, <2>1, <3>2, <3>3, <3>8, <3>9 DEF WalkCovers, Deps
    <2>9. BuildsAreOrdered'
      BY <2>2 DEF BuildsAreOrdered
    <2> QED BY <1>5, <1>9, <2>7, <2>8, <2>9 DEF OrderInv, WalkInv
  <1> QED BY <1>10, <1>11

LEMMA OrderStep == OrderInv /\ [WorkspaceNext]_workspaceVars => OrderInv'
  <1> SUFFICES ASSUME OrderInv, [WorkspaceNext]_workspaceVars PROVE OrderInv'
    OBVIOUS
  <1>0. OrderTypeOK /\ (doing = "walk" => WalkInv) /\ BuildsAreOrdered
    BY DEF OrderInv
  <1>1. CASE VisitDependency
    <2>1. PICK p : p = Min(path[Len(path)].rest)
      OBVIOUS
    <2>2. doing = "walk" /\ path[Len(path)].rest # {} /\ UNCHANGED <<workspace, visited, order, built>>
      BY <1>1 DEF VisitDependency, Top
    <2> DEFINE cyclic == \E i \in Visiting : path[i].package = p
    <2>3. IF cyclic /\ Cardinality(CycleOf(p) \cap workspace.builders) > 1
          THEN doing' = "refused" /\ UNCHANGED path
          ELSE /\ path' = IF p \in visited \/ cyclic THEN Taken(path, p) ELSE Append(Taken(path, p), Frame(p))
               /\ UNCHANGED doing
      BY <1>1, <2>1 DEF VisitDependency, Top, Taken
    <2>4. CASE cyclic /\ Cardinality(CycleOf(p) \cap workspace.builders) > 1
      BY <1>0, <2>1, <2>2, <2>3, <2>4, RefusalStep
    <2>5. CASE ~(cyclic /\ Cardinality(CycleOf(p) \cap workspace.builders) > 1) /\ (p \in visited \/ cyclic)
      <3>1. path' = Taken(path, p) /\ UNCHANGED doing
        BY <2>3, <2>5
      <3>2. path' = [path EXCEPT ![Len(path)].rest = @ \ {p}]
        BY <3>1 DEF Taken
      <3> QED BY <1>0, <2>1, <2>2, <2>5, <3>1, <3>2, PassStep
    <2>6. CASE ~(p \in visited \/ cyclic)
      <3>1. path' = Append(Taken(path, p), Frame(p)) /\ UNCHANGED doing
        BY <2>3, <2>6
      <3> QED BY <1>0, <2>1, <2>2, <2>6, <3>1, EnterStep
    <2> QED BY <2>4, <2>5, <2>6
  <1>2. CASE Leave
    <2>1. doing = "walk"
      BY <1>2 DEF Leave
    <2> QED BY <1>0, <1>2, <2>1, LeaveStep
  <1>3. CASE Build \/ UNCHANGED workspaceVars
    <2>1. /\ UNCHANGED <<workspace, path, visited, order>>
          /\ \/ doing = "build" /\ doing' \in {"build", "built", "failed"}
             \/ UNCHANGED doing
      BY <1>3 DEF Build, workspaceVars
    <2>2. OrderTypeOK'
      BY <1>0, <2>1 DEF OrderTypeOK
    <2>3. /\ \A q : Reach(q)' = Reach(q)
          /\ \A p, q : Before(p, q)' = Before(p, q)
      BY <2>1, ReachKept DEF Before
    <2>4. Needed' = Needed
      BY <2>1, <2>3 DEF Needed
    <2>5. BuildsAreOrdered'
      BY <1>0, <2>1, <2>3, <2>4 DEF BuildsAreOrdered
    <2>6. doing' = "walk" => WalkInv'
      <3> SUFFICES ASSUME doing' = "walk" PROVE WalkInv'
        OBVIOUS
      <3>1. doing = "walk" /\ WalkInv
        BY <1>0, <2>1
      <3>2. Needs' = Needs /\ Acyclic' = Acyclic /\ OnPath' = OnPath /\ Left' = Left /\ \A p : Deps(p)' = Deps(p)
        BY <2>1, ReachKept DEF OnPath, Visiting, Left
      <3>3. PathDepends'
        BY <2>1, <3>1, <3>2 DEF WalkInv, PathDepends, Visiting
      <3>4. WalkCovers'
        BY <2>1, <2>3, <3>1, <3>2 DEF WalkInv, WalkCovers, Deps
      <3>5. OrderIsOf(Left)'
        BY <2>1, <3>1, <3>2 DEF WalkInv, OrderIsOf
      <3>6. Acyclic => LeftIsClosed' /\ DependenciesFirst'
        BY <2>1, <2>3, <3>1, <3>2 DEF WalkInv, LeftIsClosed, DependenciesFirst
      <3> QED BY <3>2, <3>3, <3>4, <3>5, <3>6 DEF WalkInv
    <2> QED BY <2>2, <2>5, <2>6 DEF OrderInv
  <1> QED BY <1>1, <1>2, <1>3 DEF WorkspaceNext

\* For every workspace, of any number of packages and any dependencies between them: the
\* builds are those of the packages the project needs, each once; it is refused only for
\* packages that need each other; and where no package needs itself, a build comes after
\* all the builds its package needs, over packages without a build script too.
THEOREM BuildsAlwaysOrdered == WorkspaceSpec => []BuildsAreOrdered
  <1>1. OrderInv => BuildsAreOrdered
    BY DEF OrderInv
  <1> QED BY <1>1, OrderInitially, OrderStep, PTL DEF WorkspaceSpec

-----------------------------------------------------------------------------
\* The reports on the campaigns of a corpus.
\* The summaries are of targets, with results a campaign may have.
SummaryOK(s) ==
    /\ s.content \in DOMAIN Corpora
    /\ \E ids \in SUBSET Targets : s.results \in [ids -> Results]

BenchmarkTypeOK == content \in DOMAIN Corpora /\ \A s \in summaries : SummaryOK(s)

LEMMA BenchmarkInitially == BenchmarkInit => BenchmarkTypeOK
  BY DEF BenchmarkInit, BenchmarkTypeOK

LEMMA BenchmarkStep == BenchmarkTypeOK /\ [BenchmarkNext]_benchmarkVars => BenchmarkTypeOK'
  <1> SUFFICES ASSUME BenchmarkTypeOK, [BenchmarkNext]_benchmarkVars PROVE BenchmarkTypeOK'
    OBVIOUS
  <1> USE DEF BenchmarkTypeOK
  <1>1. CASE RunShard
    <2>1. PICK ids \in {s \in SUBSET Targets : Selectable(s)} : \E results \in [ids -> Results] :
            summaries' = summaries \cup {[content |-> content, results |-> results]}
      BY <1>1 DEF RunShard
    <2>2. PICK results \in [ids -> Results] :
            summaries' = summaries \cup {[content |-> content, results |-> results]}
      BY <2>1
    <2> DEFINE one == [content |-> content, results |-> results]
    <2>3. one.content \in DOMAIN Corpora /\ one.results \in [ids -> Results]
      OBVIOUS
    <2>4. SummaryOK(one)
      BY <2>1, <2>3 DEF SummaryOK
    <2> HIDE DEF one
    <2>5. summaries' = summaries \cup {one} /\ content' = content
      BY <1>1, <2>2 DEF RunShard, one
    <2>6. \A s \in summaries' : SummaryOK(s)
      BY <2>4, <2>5
    <2> QED BY <2>5, <2>6 DEF SummaryOK
  <1>2. CASE LoseSummary
    <2>1. summaries' \subseteq summaries /\ content' = content
      BY <1>2 DEF LoseSummary
    <2> QED BY <2>1 DEF SummaryOK
  <1>3. CASE EditCorpus
    <2>1. content' \in DOMAIN Corpora /\ summaries' = summaries
      BY <1>3 DEF EditCorpus
    <2> QED BY <2>1 DEF SummaryOK
  <1>4. CASE BenchmarkCorpus \/ Aggregate \/ KeepBaseline \/ UNCHANGED benchmarkVars
    <2>1. UNCHANGED <<content, summaries>>
      BY <1>4 DEF BenchmarkCorpus, Aggregate, KeepBaseline, benchmarkVars
    <2> QED BY <2>1 DEF SummaryOK
  <1> QED BY <1>1, <1>2, <1>3, <1>4 DEF BenchmarkNext

\* The one summary of a target is found.
LEMMA ResultOfOne ==
    ASSUME Compatible, NEW s \in summaries, NEW t \in DOMAIN s.results
    PROVE  ResultOf(t) = s.results[t]
  <1> DEFINE other == CHOOSE u \in summaries : t \in DOMAIN u.results
  <1>1. other \in summaries /\ t \in DOMAIN other.results
    OBVIOUS
  <1>2. ResultOf(t) = other.results[t]
    BY DEF ResultOf
  <1> HIDE DEF other
  <1>3. other = s
    BY <1>1 DEF Compatible
  <1> QED BY <1>2, <1>3

\* A step that aggregates has compatible summaries of all targets.
LEMMA AggregateFacts ==
    ASSUME [BenchmarkNext]_benchmarkVars, report' # report, report'.made = "aggregate"
    PROVE  /\ Compatible /\ CoveredTargets = Corpora[content]
           /\ Report("aggregate", [t \in Corpora[content] |-> ResultOf(t)], NoReport)
  <1>1. ~BenchmarkCorpus
    <2> SUFFICES ASSUME BenchmarkCorpus PROVE FALSE
      OBVIOUS
    <2>1. report'.made = "benchmark"
      BY DEF BenchmarkCorpus, Report
    <2> QED BY <2>1
  <1>2. report' # Nothing
    BY DEF Nothing
  <1>3. Aggregate
    BY <1>1, <1>2 DEF BenchmarkNext, RunShard, LoseSummary, EditCorpus, KeepBaseline, benchmarkVars
  <1> QED BY <1>2, <1>3 DEF Aggregate

\* For every corpus and however its shards were made, lost, doubled or made of an earlier
\* corpus: what is put together is whole, and of the corpus as it is.
THEOREM AggregatesAreWhole == BenchmarkSpec => AggregateIsWhole
  <1>1. ASSUME [BenchmarkNext]_benchmarkVars, report' # report, report'.made = "aggregate"
        PROVE  /\ DOMAIN report'.results = Corpora[content]
               /\ \A s \in summaries : s.content = content
               /\ \A t \in Corpora[content] : \A s \in summaries :
                    (\E u \in DOMAIN s.results : Checkout[u] = Checkout[t]) =>
                        t \in DOMAIN s.results /\ report'.results[t] = s.results[t]
    <2>1. Compatible /\ report'.results = [t \in Corpora[content] |-> ResultOf(t)]
      BY <1>1, AggregateFacts DEF Report
    <2>2. ASSUME NEW t \in Corpora[content], NEW s \in summaries, NEW u \in DOMAIN s.results,
                 Checkout[u] = Checkout[t]
          PROVE  t \in DOMAIN s.results /\ report'.results[t] = s.results[t]
      <3>1. Selectable(DOMAIN s.results)
        BY <2>1 DEF Compatible
      <3>2. t \in {v \in Corpora[content] : Checkout[v] = Checkout[u]}
        BY <2>2
      <3>3. t \in DOMAIN s.results
        BY <3>1, <3>2 DEF Selectable
      <3> QED BY <2>1, <3>3, ResultOfOne
    <2> QED BY <2>1, <2>2 DEF Compatible
  <1> QED BY <1>1, PTL DEF BenchmarkSpec, AggregateIsWhole

-----------------------------------------------------------------------------
\* What is reported is a result of every target there is.
LEMMA ReportFacts ==
    ASSUME BenchmarkTypeOK, [BenchmarkNext]_benchmarkVars, report' # report, report'.made # "none"
    PROVE  \E made : \E results \in [Corpora[content] -> Results] : \E previous : Report(made, results, previous)
  <1>1. CASE BenchmarkCorpus
    BY <1>1 DEF BenchmarkCorpus
  <1>2. CASE ~BenchmarkCorpus
    <2>1. report' # Nothing
      BY DEF Nothing
    <2>2. Aggregate
      BY <1>2, <2>1 DEF BenchmarkNext, RunShard, LoseSummary, EditCorpus, KeepBaseline, benchmarkVars
    <2>3. /\ Compatible /\ CoveredTargets = Corpora[content]
          /\ Report("aggregate", [t \in Corpora[content] |-> ResultOf(t)], NoReport)
      BY <2>1, <2>2 DEF Aggregate
    <2>4. ASSUME NEW t \in Corpora[content] PROVE ResultOf(t) \in Results
      <3>1. PICK s \in summaries : t \in DOMAIN s.results
        BY <2>3 DEF CoveredTargets
      <3>2. PICK ids : s.results \in [ids -> Results]
        BY DEF BenchmarkTypeOK, SummaryOK
      <3>3. ResultOf(t) = s.results[t]
        BY <2>3, <3>1, ResultOfOne
      <3> QED BY <3>1, <3>2, <3>3
    <2>5. [t \in Corpora[content] |-> ResultOf(t)] \in [Corpora[content] -> Results]
      BY <2>4
    <2> QED BY <2>3, <2>5
  <1> QED BY <1>1, <1>2

\* A part of the targets can be counted, and there is one of it when the count is positive.
LEMMA CountOf ==
    ASSUME content \in DOMAIN Corpora, NEW S \in SUBSET Corpora[content]
    PROVE  /\ IsFiniteSet(S) /\ Cardinality(S) \in Nat
           /\ Cardinality(S) = 0 <=> S = {}
           /\ Cardinality(Corpora[content]) \in Nat /\ Cardinality(Corpora[content]) > 0
  <1>1. Corpora[content] # {} /\ IsFiniteSet(Corpora[content])
    BY BenchmarkAssumption
  <1>2. IsFiniteSet(S)
    BY <1>1, FS_Subset
  <1>3. Cardinality(Corpora[content]) \in Nat /\ Cardinality(Corpora[content]) # 0
    BY <1>1, FS_CardinalityType, FS_EmptySet
  <1> QED BY <1>2, <1>3, FS_CardinalityType, FS_EmptySet

\* What the gate of the baseline lets pass has got worse nowhere.
LEMMA NoTargetWorse ==
    ASSUME content \in DOMAIN Corpora, NEW results \in [Corpora[content] -> Results],
           BaselineGate(results), baseline # Nothing, Gate.maxRegressions = 0,
           NEW t \in DOMAIN baseline.results
    PROVE  /\ t \in DOMAIN results
           /\ baseline.results[t].onboarded => results[t].onboarded
           /\ baseline.results[t].replay = "same" => results[t].replay = "same"
  <1> DEFINE before == baseline.results
             Worse == {u \in DOMAIN before : \/ before[u].onboarded /\ ~results[u].onboarded
                                             \/ before[u].replay = "same" /\ results[u].replay # "same"
                                             \/ before[u].interventions < results[u].interventions}
  <1>1. DOMAIN before = Corpora[content] /\ Cardinality(Worse) <= 0
    BY DEF BaselineGate
  <1>2. Worse \in SUBSET Corpora[content]
    BY <1>1
  <1>3. Worse = {}
    <2> HIDE DEF Worse
    <2>1. Cardinality(Worse) \in Nat /\ (Cardinality(Worse) = 0 <=> Worse = {})
      BY <1>2, CountOf
    <2> QED BY <1>1, <2>1
  <1> QED BY <1>1, <1>3

\* What passes a gate that asks for reproduced targets has one.
LEMMA SomeReplayed ==
    ASSUME content \in DOMAIN Corpora, NEW results \in [Corpora[content] -> Results], NEW previous,
           QualityGate(results, previous), Gate.minReplay > 0
    PROVE  \E t \in Corpora[content] : results[t].replay = "same"
  <1> DEFINE Observed == {t \in Corpora[content] : results[t].replay # "none"}
             Same == {t \in Corpora[content] : results[t].replay = "same"}
             o == Cardinality(Observed)
             s == Cardinality(Same)
  <1>1. Summary(results).observed = o /\ Summary(results).same = s
    BY DEF Summary
  <1>2. IF o = 0 THEN Gate.minReplay = 0 ELSE Reached(s, o, Gate.minReplay)
    <2> HIDE DEF o, s
    <2> QED BY <1>1 DEF QualityGate
  <1>3. o \in Nat /\ s \in Nat /\ (s = 0 <=> Same = {})
    <2>1. Observed \in SUBSET Corpora[content] /\ Same \in SUBSET Corpora[content]
      OBVIOUS
    <2> HIDE DEF Observed, Same
    <2> QED BY <2>1, CountOf
  <1> HIDE DEF o, s
  <1>4. Gate.minReplay \in Nat
    BY BenchmarkAssumption
  <1>5. o # 0 /\ s * 100 >= Gate.minReplay * o
    BY <1>2, <1>4 DEF Reached
  <1>6. \A x, y \in Nat : x > 0 /\ y # 0 => x * y > 0
    OBVIOUS
  <1>7. s # 0
    BY <1>3, <1>4, <1>5, <1>6
  <1> QED BY <1>3, <1>7

\* A part in a hundred of a number is no more than the number.
LEMMA PartOf == ASSUME NEW m \in 0 .. 100, NEW c \in Nat PROVE c * 100 >= m * c /\ m * c >= 0
  <1>1. \A x, y \in Nat : x * y \in Nat
    OBVIOUS
  <1>2. m \in Nat /\ 100 - m \in Nat
    OBVIOUS
  <1>3. m * c \in Nat /\ (100 - m) * c \in Nat
    BY <1>1, <1>2
  <1>4. \A x, y \in Int : x * y + (100 - x) * y = y * 100
    OBVIOUS
  <1>5. m * c + (100 - m) * c = c * 100
    BY <1>2, <1>4
  <1> QED BY <1>2, <1>3, <1>5

\* A corpus in which every target did as it should passes every gate it is broad enough for.
LEMMA PromotablePasses ==
    ASSUME content \in DOMAIN Corpora, NEW results \in [Corpora[content] -> Results], NEW previous,
           Promotable(results), Broad, DOMAIN previous = {}, baseline = Nothing
    PROVE  QualityGate(results, previous) /\ BaselineGate(results)
  <1> DEFINE T == Corpora[content]
             c == Cardinality(T)
  <1>1. \A t \in T : /\ results[t] \in Results /\ results[t].onboarded
                     /\ results[t].replay = "same" /\ results[t].interventions = 0
    BY BenchmarkAssumption DEF Promotable
  <1>2. /\ {t \in DOMAIN results : results[t].onboarded} = T
        /\ {t \in DOMAIN results : results[t].interventions > 0} = {}
        /\ {t \in DOMAIN results : results[t].replay # "none"} = T
        /\ {t \in DOMAIN results : results[t].replay = "same"} = T
        /\ DOMAIN results = T
    BY <1>1
  <1>3. Summary(results) = [projects |-> c, onboarded |-> c, intervened |-> 0, observed |-> c, same |-> c]
    BY <1>2, FS_EmptySet DEF Summary
  <1>4. c \in Nat /\ c > 0
    <2>1. T \in SUBSET T
      OBVIOUS
    <2> QED BY <2>1, CountOf
  <1> HIDE DEF c
  <1>5. /\ Gate.minOnboarding \in 0 .. 100 /\ Gate.maxIntervention \in 0 .. 100
        /\ Gate.minReplay \in 0 .. 100 /\ Gate.maxRegressions \in Nat /\ Gate.maxAdapterLoc \in Nat
    BY BenchmarkAssumption
  <1>6. ASSUME NEW m \in 0 .. 100 PROVE c * 100 >= m * c /\ m * c >= 0
    BY <1>4, PartOf
  <1>7. Lost(previous, results) = {}
    BY DEF Lost
  <1>8. Cardinality(Lost(previous, results)) = 0
    BY <1>7, FS_EmptySet
  <1>9. /\ Reached(c, c, Gate.minOnboarding) /\ Reached(c, c, Gate.minReplay)
        /\ 0 * 100 <= Gate.maxIntervention * c
    <2>1. c * 100 >= Gate.minOnboarding * c /\ c * 100 >= Gate.minReplay * c
      BY <1>5, <1>6
    <2>2. Gate.maxIntervention * c >= 0
      BY <1>5, <1>6
    <2>3. 0 * 100 <= Gate.maxIntervention * c
      BY <1>4, <1>5, <2>2
    <2> QED BY <2>1, <2>3 DEF Reached
  <1>10. AdapterLoc = 0
    BY DEF Promotable
  <1>11. QualityGate(results, previous)
    BY <1>3, <1>4, <1>5, <1>8, <1>9, <1>10 DEF QualityGate
  <1> QED BY <1>11 DEF BaselineGate

\* For every corpus, gate and baseline: a report passes only on its own merit, and a corpus
\* that may be promoted passes unless it is not as broad as its gate asks.
THEOREM ReportsPassOnMerit == BenchmarkSpec => PassesOnMerit
  <1>1. ASSUME BenchmarkTypeOK, [BenchmarkNext]_benchmarkVars, report' # report, report'.made # "none"
        PROVE  /\ report'.ok /\ baseline # Nothing /\ Gate.maxRegressions = 0 =>
                    \A t \in DOMAIN baseline.results :
                        /\ t \in DOMAIN report'.results
                        /\ baseline.results[t].onboarded => report'.results[t].onboarded
                        /\ baseline.results[t].replay = "same" => report'.results[t].replay = "same"
               /\ report'.ok /\ Gate.minReplay > 0 =>
                    \E t \in DOMAIN report'.results : report'.results[t].replay = "same"
               /\ report'.promotable /\ ~report'.compared /\ baseline = Nothing => report'.ok \/ ~Broad
    <2>0. PICK made : \E results \in [Corpora[content] -> Results] : \E previous : Report(made, results, previous)
      BY <1>1, ReportFacts
    <2>1. PICK results \in [Corpora[content] -> Results] : \E previous : Report(made, results, previous)
      BY <2>0
    <2>2. PICK previous : Report(made, results, previous)
      BY <2>1
    <2>3. /\ report'.results = results /\ report'.compared = (DOMAIN previous # {})
          /\ report'.ok = (QualityGate(results, previous) /\ BaselineGate(results))
          /\ report'.promotable = Promotable(results)
      BY <2>2 DEF Report
    <2>4. content \in DOMAIN Corpora /\ DOMAIN results = Corpora[content]
      BY <1>1 DEF BenchmarkTypeOK
    <2>5. report'.ok /\ baseline # Nothing /\ Gate.maxRegressions = 0 =>
            \A t \in DOMAIN baseline.results :
                /\ t \in DOMAIN report'.results
                /\ baseline.results[t].onboarded => report'.results[t].onboarded
                /\ baseline.results[t].replay = "same" => report'.results[t].replay = "same"
      BY <2>3, <2>4, NoTargetWorse
    <2>6. report'.ok /\ Gate.minReplay > 0 =>
            \E t \in DOMAIN report'.results : report'.results[t].replay = "same"
      BY <2>3, <2>4, SomeReplayed
    <2>7. report'.promotable /\ ~report'.compared /\ baseline = Nothing => report'.ok \/ ~Broad
      BY <2>3, <2>4, PromotablePasses
    <2> QED BY <2>5, <2>6, <2>7
  <1> QED BY <1>1, BenchmarkInitially, BenchmarkStep, PTL DEF BenchmarkSpec, PassesOnMerit

-----------------------------------------------------------------------------
Trees == [at : Places, work : BOOLEAN, junk : SUBSET {"kept", "new"}]
RestoreTypes ==
    [does : {"restore", "put back"}, groups : SUBSET Roots, left : SUBSET Sources,
     failed : BOOLEAN, broken : SUBSET Roots, thrown : BOOLEAN]
CommandTypes ==
    {Idle, [does |-> "run"]}
    \cup [does : {"group"}, groups : SUBSET Roots]
    \cup [does : {"nested", "checkout"}, groups : SUBSET Roots, left : SUBSET Sources, fresh : BOOLEAN]
    \cup RestoreTypes

CorpusTypeOK ==
    /\ disk \in [Sources -> Trees] /\ staging \in [Sources -> Trees]
    /\ ignored \in [Sources -> SUBSET {"kept", "new"}]
    /\ command \in CommandTypes

\* Nothing is where there is no checkout, nor in what would be nested in it.
Placed ==
    \A n \in Sources :
        /\ disk[n].at = "absent" => disk[n] = Absent
        /\ Parent[n] # 0 /\ disk[Parent[n]] = Absent => disk[n] = Absent

\* A group being updated is there; a source about to be checked out has nothing to lose.
MakesInPlace ==
    command.does \in {"nested", "checkout"} =>
        /\ command.groups # {} /\ command.left \subseteq Nested(Min(command.groups))
        /\ command.does = "checkout" => command.left # {}
        /\ ~command.fresh =>
             /\ disk[Min(command.groups)].at # "absent"
             /\ command.does = "checkout" => ~disk[Min(command.left)].work
                    /\ disk[Min(command.left)].at \notin {"absent", "plain", "foreign"}

\* What targets and restoration leave is a checkout, or nothing.
Kept ==
    command.does \in {"run", "restore", "put back"} =>
        \A n \in Sources : disk[n].at \in {"pinned", "old", "absent"}

PutBack(n) == Whole(disk[n]) /\ disk[n].junk \subseteq ignored[n]
AsBefore(r) == \A n \in Group(r) : PutBack(n)
Excused(r) ==
    (\E n \in Group(r) : ~Whole(disk[n])) =>
        \/ r \in command.broken
        \/ \E n \in Group(r) : Gone(n) \/ (~Whole(disk[n]) /\ \E m \in Sources : Parent[m] = n /\ Parent[n] # 0)

\* A group that was tried is as before, or is told of; and what is not restored is excused.
\* So it is with every source that was tried of the group at hand.
Tried ==
    /\ command.does \in {"restore", "put back"} =>
         \A r \in Roots \ command.groups : (command.failed \/ AsBefore(r)) /\ Excused(r)
    /\ command.does = "put back" =>
         \A r : r = Min(command.groups) =>
           /\ command.groups # {} /\ command.left \subseteq Group(r)
           /\ \A n \in Group(r) \ command.left :
                /\ command.failed \/ PutBack(n)
                /\ r \in command.broken \/ Gone(n) \/ Whole(disk[n])

CorpusInv == CorpusTypeOK /\ Placed /\ MakesInPlace /\ Kept /\ Tried

-----------------------------------------------------------------------------
\* What a source lies in: itself, and what its parent lies in.
LEMMA AroundIs ==
    ASSUME NEW n \in Sources
    PROVE  /\ n \in Around[n] /\ Around[n] \subseteq Sources
           /\ Parent[n] = 0 => Around[n] = {n}
           /\ Parent[n] # 0 => Parent[n] \in Sources /\ Around[n] = {n} \cup Around[Parent[n]]
  <1> DEFINE Upward(S) == \A s \in S : Parent[s] # 0 => Parent[s] \in S
  <1>1. ASSUME NEW m \in Sources
        PROVE  Around[m] = {a \in Sources : \A S \in SUBSET Sources : m \in S /\ Upward(S) => a \in S}
    BY DEF Around
  <1>2. n \in Around[n] /\ Around[n] \subseteq Sources
    BY <1>1
  <1>3. ASSUME Parent[n] = 0 PROVE Around[n] = {n}
    <2>1. Upward({n}) /\ {n} \in SUBSET Sources
      BY <1>3
    <2> HIDE DEF Upward
    <2>2. \A a \in Around[n] : a \in {n}
      BY <1>1, <2>1
    <2> QED BY <1>2, <2>2
  <1>4. ASSUME Parent[n] # 0 PROVE Parent[n] \in Sources /\ Around[n] = {n} \cup Around[Parent[n]]
    <2>1. Parent[n] \in Sources
      BY <1>4, CorpusAssumption
    <2>2. ASSUME NEW a \in Around[Parent[n]] PROVE a \in Around[n]
      <3>1. a \in Sources
        BY <1>1, <2>1
      <3>2. ASSUME NEW S \in SUBSET Sources, n \in S, Upward(S) PROVE a \in S
        <4>1. Parent[n] \in S
          BY <1>4, <3>2
        <4> HIDE DEF Upward
        <4> QED BY <1>1, <2>1, <2>2, <3>2, <4>1
      <3> HIDE DEF Upward
      <3> QED BY <1>1, <3>1, <3>2
    <2>3. ASSUME NEW a \in Around[n], a # n PROVE a \in Around[Parent[n]]
      <3>1. a \in Sources
        BY <1>2
      <3>2. ASSUME NEW S \in SUBSET Sources, Parent[n] \in S, Upward(S) PROVE a \in S
        <4>1. Upward(S \cup {n}) /\ S \cup {n} \in SUBSET Sources
          BY <3>2
        <4> HIDE DEF Upward
        <4>2. a \in S \cup {n}
          BY <1>1, <4>1
        <4> QED BY <2>3, <4>2
      <3> HIDE DEF Upward
      <3> QED BY <1>1, <2>1, <3>1, <3>2
    <2> QED BY <1>2, <2>1, <2>2, <2>3
  <1> QED BY <1>2, <1>3, <1>4

\* A group is made of what lies in its root.
LEMMA InGroup ==
    ASSUME NEW r \in Sources, NEW n \in Sources
    PROVE  n \in Group(r) <=> r \in Around[n]
  BY AroundIs DEF Group, Nested

\* Every source is in one group.
LEMMA OneGroup ==
    ASSUME NEW n \in Sources
    PROVE  /\ \E r \in Roots : n \in Group(r)
           /\ \A r, q \in Roots : n \in Group(r) /\ n \in Group(q) => r = q
  <1> DEFINE less == OpToRel(<, Nat)
             Fine(m) == /\ \E r \in Roots : r \in Around[m]
                        /\ \A r, q \in Roots : r \in Around[m] /\ q \in Around[m] => r = q
             Bad == {m \in Sources : ~Fine(m)}
  <1>1. Bad = {}
    <2> SUFFICES ASSUME Bad # {} PROVE FALSE
      OBVIOUS
    <2>1. Sources \subseteq Nat /\ 0 \notin Sources
      BY CorpusAssumption
    <2>2. Bad \subseteq Nat
      BY <2>1
    <2>3. PICK m \in Bad : \A i \in Bad : ~(<<i, m>> \in less)
      BY <2>2, NatLessThanWellFounded, WFMin
    <2>4. \A i \in Bad : <<i, m>> \in less <=> i < m
      BY <2>2 DEF OpToRel
    <2> HIDE DEF less
    <2>5. CASE Parent[m] = 0
      <3>1. Around[m] = {m} /\ m \in Roots
        BY <2>5, AroundIs DEF Roots
      <3> QED BY <3>1
    <2>6. CASE Parent[m] # 0
      <3>1. Parent[m] \in Sources /\ Around[m] = {m} \cup Around[Parent[m]] /\ Parent[m] < m
        BY <2>6, AroundIs, CorpusAssumption
      <3>2. Fine(Parent[m])
        <4> HIDE DEF Fine
        <4> QED BY <2>3, <2>4, <3>1
      <3>3. m \notin Roots
        BY <2>6 DEF Roots
      <3> QED BY <3>1, <3>2, <3>3
    <2> QED BY <2>5, <2>6
  <1>2. Fine(n)
    <2> HIDE DEF Fine
    <2> QED BY <1>1
  <1>3. \A r \in Roots : n \in Group(r) <=> r \in Around[n]
    BY InGroup DEF Roots
  <1> QED BY <1>2, <1>3

\* A nested source has its parent in the same group.
LEMMA NestedIs ==
    ASSUME NEW r \in Roots, NEW n \in Nested(r)
    PROVE  /\ n \in Sources /\ n # r /\ n \in Group(r) /\ Parent[n] # 0
           /\ Parent[n] \in Sources /\ Parent[n] \in Group(r)
           /\ Parent[n] \in Roots => Parent[n] = r
  <1>1. n \in Sources /\ n # r /\ n \in Group(r) /\ r \in Around[n] /\ r \in Sources
    BY DEF Nested, Group, Roots
  <1>2. Parent[n] # 0 /\ Parent[n] \in Sources /\ r \in Around[Parent[n]]
    BY <1>1, AroundIs
  <1>3. Parent[n] \in Group(r)
    BY <1>1, <1>2, InGroup
  <1>4. Parent[n] \in Roots => Parent[n] \in Group(Parent[n])
    BY DEF Group
  <1> QED BY <1>1, <1>2, <1>3, <1>4, OneGroup

\* And what is nested in a source of a group is in the group.
LEMMA ChildInGroup ==
    ASSUME NEW r \in Roots, NEW n \in Sources, Parent[n] \in Group(r), Parent[n] # 0
    PROVE  n \in Group(r)
  <1>1. r \in Sources /\ Parent[n] \in Sources /\ Around[n] = {n} \cup Around[Parent[n]]
    BY AroundIs DEF Roots
  <1> QED BY <1>1, InGroup

\* Where there is no root there is no group.
LEMMA GroupAbsent ==
    ASSUME Placed, NEW r \in Roots, disk[r] = Absent, NEW n \in Group(r)
    PROVE  disk[n] = Absent
  <1>1. r \in Sources /\ n \in Sources
    BY DEF Group, Nested, Roots
  <1>2. r \in Around[n]
    BY <1>1, InGroup
  <1> DEFINE S == {a \in Sources : disk[a] = Absent => disk[n] = Absent}
  <1>3. S \in SUBSET Sources /\ n \in S
    BY <1>1
  <1>4. ASSUME NEW s \in S, Parent[s] # 0 PROVE Parent[s] \in S
    BY <1>4, CorpusAssumption DEF Placed
  <1> HIDE DEF S
  <1>5. r \in S
    BY <1>1, <1>2, <1>3, <1>4 DEF Around
  <1> QED BY <1>5 DEF S

\* A call that makes a group, updates one or restores knows what it has to do.
LEMMA CommandIs ==
    ASSUME command \in CommandTypes
    PROVE  /\ command = Idle <=> command.does = "nothing"
           /\ command.does = "group" => command \in [does : {"group"}, groups : SUBSET Roots]
           /\ command.does \in {"nested", "checkout"} =>
                command \in [does : {"nested", "checkout"}, groups : SUBSET Roots, left : SUBSET Sources, fresh : BOOLEAN]
           /\ command.does \in {"restore", "put back"} => command \in RestoreTypes
  <1>0. Idle.does = "nothing"
    BY DEF Idle
  <1>1. CASE command = Idle
    BY <1>0, <1>1
  <1>2. CASE command = [does |-> "run"]
    BY <1>0, <1>2
  <1>3. CASE command \in [does : {"group"}, groups : SUBSET Roots]
    <2>1. command.does = "group"
      BY <1>3
    <2> QED BY <1>0, <1>3, <2>1
  <1>4. CASE command \in [does : {"nested", "checkout"}, groups : SUBSET Roots, left : SUBSET Sources, fresh : BOOLEAN]
    <2>1. command.does \in {"nested", "checkout"}
      BY <1>4
    <2> QED BY <1>0, <1>4, <2>1
  <1>5. CASE command \in RestoreTypes
    <2>1. command.does \in {"restore", "put back"}
      BY <1>5 DEF RestoreTypes
    <2> QED BY <1>0, <1>5, <2>1
  <1> QED BY <1>1, <1>2, <1>3, <1>4, <1>5 DEF CommandTypes

\* The source taken next is one of those left.
LEMMA FirstIsIn == ASSUME NEW S \in SUBSET Sources, S # {} PROVE Min(S) \in S
  BY CorpusAssumption, SmallestIsIn

\* What is in a place, and what is where nothing is.
LEMMA TreeIs == ASSUME NEW at \in Places PROVE Tree(at) \in Trees /\ Tree(at).at = at /\ ~Tree(at).work
  BY DEF Tree, Trees
LEMMA AbsentIs == Absent \in Trees /\ Absent.at = "absent"
  BY DEF Absent, Tree, Trees, Places

-----------------------------------------------------------------------------
\* At first there are whole checkouts, each with what it is nested in.
LEMMA CorpusInitially == CorpusInit => CorpusInv
  <1> SUFFICES ASSUME CorpusInit PROVE CorpusInv
    OBVIOUS
  <1> USE DEF CorpusInit
  <1> DEFINE there == [Tree("pinned") EXCEPT !.junk = {"kept"}]
  <1>1. there \in Trees /\ there.at = "pinned"
    BY DEF Tree, Trees, Places
  <1>2. disk \in [Sources -> {Absent, there}]
    OBVIOUS
  <1> HIDE DEF there
  <1>3. CorpusTypeOK
    BY <1>1, <1>2, AbsentIs DEF CorpusTypeOK, CommandTypes
  <1>4. Placed
    BY <1>1, <1>2, CorpusAssumption DEF Placed
  <1>5. command.does = "nothing"
    BY DEF Idle
  <1>6. MakesInPlace /\ Kept /\ Tried
    BY <1>5 DEF MakesInPlace, Kept, Tried
  <1> QED BY <1>3, <1>4, <1>6 DEF CorpusInv

\* The end of a call leaves what is on the disk.
LEMMA EndKeeps ==
    ASSUME CorpusInv, NEW word, End(word), UNCHANGED disk
    PROVE  CorpusInv'
  <1>1. command' = Idle /\ staging' = [n \in Sources |-> Absent] /\ UNCHANGED <<ignored, disk>>
    BY DEF End
  <1>2. command'.does = "nothing"
    BY <1>1 DEF Idle
  <1>3. CorpusTypeOK'
    BY <1>1, AbsentIs DEF CorpusInv, CorpusTypeOK, CommandTypes
  <1>4. Placed'
    BY <1>1 DEF CorpusInv, Placed
  <1>5. MakesInPlace' /\ Kept' /\ Tried'
    BY <1>2 DEF MakesInPlace, Kept, Tried
  <1> QED BY <1>3, <1>4, <1>5 DEF CorpusInv

\* One source changes, and something stays or comes where there is a place for it.
LEMMA PlacedStays ==
    ASSUME CorpusTypeOK, Placed, NEW n \in Sources, NEW t \in Trees, t.at # "absent",
           disk' = [disk EXCEPT ![n] = t], Parent[n] # 0 => disk[Parent[n]] # Absent
    PROVE  Placed'
  <1>1. \A m \in Sources : disk'[m] = IF m = n THEN t ELSE disk[m]
    BY DEF CorpusTypeOK
  <1>2. t # Absent
    BY AbsentIs
  <1>3. ASSUME NEW m \in Sources
        PROVE  disk'[m].at = "absent" => disk'[m] = Absent
    BY <1>1 DEF Placed
  <1>4. ASSUME NEW m \in Sources, Parent[m] # 0, disk'[Parent[m]] = Absent
        PROVE  disk'[m] = Absent
    <2>1. Parent[m] \in Sources
      BY <1>4, CorpusAssumption
    <2>2. Parent[m] # n /\ disk[Parent[m]] = Absent
      BY <1>1, <1>2, <1>4, <2>1
    <2> QED BY <1>1, <1>4, <2>2 DEF Placed
  <1> QED BY <1>3, <1>4 DEF Placed

\* What is there has its parent there.
LEMMA ParentThere ==
    ASSUME Placed, NEW n \in Sources, disk[n].at # "absent"
    PROVE  Parent[n] # 0 => Parent[n] \in Sources /\ disk[Parent[n]] # Absent
  BY AbsentIs, CorpusAssumption DEF Placed

\* The next group is one of the groups there are.
LEMMA NextGroup ==
    ASSUME CorpusTypeOK, command.groups \in SUBSET Roots, command.groups # {}
    PROVE  Min(command.groups) \in command.groups /\ Min(command.groups) \in Roots /\ Min(command.groups) \in Sources
  <1>1. command.groups \in SUBSET Sources
    BY DEF Roots
  <1> QED BY <1>1, FirstIsIn DEF Roots

\* A root is made beside its place, or brought to its revision.
LEMMA EnterKeeps == ASSUME CorpusInv, EnterGroup PROVE CorpusInv'
  <1> DEFINE r == Min(command.groups)
  <1>0. CorpusTypeOK /\ Placed
    BY DEF CorpusInv
  <1>1. command.does = "group" /\ command.groups \in SUBSET Roots /\ command.groups # {}
    BY <1>0, CommandIs DEF EnterGroup, CorpusTypeOK
  <1>2. r \in Roots /\ r \in Sources /\ r \in command.groups
    BY <1>0, <1>1, NextGroup
  <1>3. CASE \E code : Fail(code)
    BY <1>3, EndKeeps DEF Fail
  <1>4. CASE ~\E code : Fail(code)
    <2>1. /\ disk[r].at \in {"absent", "old", "pinned"} /\ ~Dirty(disk[r])
          /\ IF disk[r].at = "absent"
             THEN staging' = [staging EXCEPT ![r] = Tree("pinned")] /\ UNCHANGED disk
             ELSE disk' = [disk EXCEPT ![r].at = "pinned"] /\ UNCHANGED staging
          /\ Proceed(NextNested(r, disk[r].at = "absent"))
      BY <1>4 DEF EnterGroup
    <2> DEFINE fresh == disk[r].at = "absent"
    <2> HIDE DEF r
    <2>2. /\ command' = [does |-> "nested", groups |-> command.groups, left |-> Nested(r), fresh |-> fresh]
          /\ ignored' = ignored
      BY <2>1 DEF Proceed, NextNested
    <2>3. Nested(r) \in SUBSET Sources /\ fresh \in BOOLEAN
      BY DEF Nested
    <2>4. command' \in [does : {"nested", "checkout"}, groups : SUBSET Roots, left : SUBSET Sources, fresh : BOOLEAN]
      BY <1>1, <2>2, <2>3
    <2>5. /\ command'.does = "nested" /\ command'.groups = command.groups /\ command'.left = Nested(r)
          /\ command'.fresh = fresh
      BY <2>2
    <2> DEFINE t == [disk[r] EXCEPT !.at = "pinned"]
    <2>6. t \in Trees /\ t.at = "pinned"
      BY <1>0, <1>2 DEF CorpusTypeOK, Trees, Places
    <2>7. ~fresh => disk' = [disk EXCEPT ![r] = t] /\ staging' = staging
      BY <2>1
    <2>8. fresh => disk' = disk /\ staging' = [staging EXCEPT ![r] = Tree("pinned")]
      BY <2>1
    <2> HIDE DEF t
    <2>9. Tree("pinned") \in Trees
      BY TreeIs DEF Places
    <2>10. disk' \in [Sources -> Trees] /\ staging' \in [Sources -> Trees]
      BY <1>0, <1>2, <2>6, <2>7, <2>8, <2>9 DEF CorpusTypeOK
    <2>11. CorpusTypeOK'
      BY <1>0, <2>2, <2>4, <2>10 DEF CorpusTypeOK, CommandTypes
    <2>12. Placed'
      <3>1. CASE fresh
        BY <1>0, <2>8, <3>1 DEF Placed
      <3>2. CASE ~fresh
        <4>1. Parent[r] # 0 => disk[Parent[r]] # Absent
          BY <1>2 DEF Roots
        <4> HIDE DEF fresh
        <4> QED BY <1>0, <1>2, <2>6, <2>7, <3>2, <4>1, PlacedStays
      <3> QED BY <3>1, <3>2
    <2>13. MakesInPlace'
      <3>1. ~fresh => disk'[r].at = "pinned"
        <4> HIDE DEF fresh
        <4> QED BY <1>0, <1>2, <2>6, <2>7 DEF CorpusTypeOK
      <3> HIDE DEF fresh
      <3> QED BY <1>1, <2>5, <3>1 DEF MakesInPlace, r
    <2>14. Kept' /\ Tried'
      BY <2>5 DEF Kept, Tried
    <2> QED BY <2>11, <2>12, <2>13, <2>14 DEF CorpusInv
  <1> QED BY <1>3, <1>4

\* The nested source worked on next.
LEMMA NextNestedIs ==
    ASSUME CorpusInv, command.does \in {"nested", "checkout"}, command.left # {}
    PROVE  /\ Min(command.left) \in command.left /\ Min(command.left) \in Sources
           /\ Min(command.groups) \in Roots /\ Min(command.groups) \in Sources
           /\ Min(command.left) \in Nested(Min(command.groups))
           /\ command \in [does : {"nested", "checkout"}, groups : SUBSET Roots, left : SUBSET Sources, fresh : BOOLEAN]
           /\ Here \in [Sources -> Trees]
  <1>1. command \in [does : {"nested", "checkout"}, groups : SUBSET Roots, left : SUBSET Sources, fresh : BOOLEAN]
    BY CommandIs DEF CorpusInv, CorpusTypeOK
  <1>2. Min(command.left) \in command.left
    BY <1>1, FirstIsIn
  <1>3. command.groups # {} /\ command.left \subseteq Nested(Min(command.groups))
    BY DEF CorpusInv, MakesInPlace
  <1>4. Min(command.groups) \in Roots /\ Min(command.groups) \in Sources
    BY <1>1, <1>3, NextGroup DEF CorpusInv
  <1>5. Here \in [Sources -> Trees]
    BY DEF Here, CorpusInv, CorpusTypeOK
  <1> QED BY <1>1, <1>2, <1>3, <1>4, <1>5

\* Placing a nested source, in place only where its parent is.
LEMMA PlaceKeeps ==
    ASSUME CorpusInv, command.does \in {"nested", "checkout"}, command.left # {},
           NEW n, n = Min(command.left), NEW t \in Trees, t.at # "absent", Place(n, t),
           ~command.fresh => disk[Parent[n]] # Absent
    PROVE  /\ disk' \in [Sources -> Trees] /\ staging' \in [Sources -> Trees] /\ Placed'
           /\ command.fresh => disk' = disk /\ staging'[n] = t
           /\ ~command.fresh => /\ disk'[n] = t
                                /\ \A m \in Sources \ {n} : disk'[m] = disk[m]
                                /\ disk'[Min(command.groups)] = disk[Min(command.groups)]
  <1>0. CorpusTypeOK /\ Placed
    BY DEF CorpusInv
  <1>1. n \in Sources /\ n \in Nested(Min(command.groups)) /\ Min(command.groups) \in Roots /\ Min(command.groups) \in Sources
    BY NextNestedIs
  <1>2. n # Min(command.groups)
    BY <1>1 DEF Nested
  <1>3. CASE command.fresh
    <2>1. staging' = [staging EXCEPT ![n] = t] /\ disk' = disk
      BY <1>3 DEF Place
    <2> QED BY <1>0, <1>1, <1>3, <2>1 DEF CorpusTypeOK, Placed
  <1>4. CASE ~command.fresh
    <2>1. disk' = [disk EXCEPT ![n] = t] /\ staging' = staging
      BY <1>4 DEF Place
    <2>2. Placed'
      BY <1>0, <1>1, <1>4, <2>1, PlacedStays
    <2> QED BY <1>0, <1>1, <1>2, <1>4, <2>1, <2>2 DEF CorpusTypeOK
  <1> QED BY <1>3, <1>4

\* A nested source is cloned where its parent is.
LEMMA CloneKeeps == ASSUME CorpusInv, CloneNested PROVE CorpusInv'
  <1>1. CASE \E code : Fail(code)
    BY <1>1, EndKeeps DEF Fail
  <1>2. CASE ~\E code : Fail(code)
    <2> DEFINE n == Min(command.left)
               r == Min(command.groups)
    <2>1. command.does = "nested" /\ command.left # {}
      BY DEF CloneNested
    <2>2. /\ Declared(n, Here) /\ Here[n].at \notin {"plain", "foreign"} /\ ~Dirty(Here[n])
          /\ IF Here[n] = Absent THEN Place(n, Tree("bare")) ELSE UNCHANGED <<disk, staging>>
          /\ Proceed([command EXCEPT !.does = "checkout"])
      BY <1>2 DEF CloneNested
    <2>3. /\ n \in Sources /\ r \in Roots /\ r \in Sources /\ n \in Nested(r)
          /\ command \in [does : {"nested", "checkout"}, groups : SUBSET Roots, left : SUBSET Sources, fresh : BOOLEAN]
          /\ Here \in [Sources -> Trees]
      BY <2>1, NextNestedIs
    <2>4. command' = [command EXCEPT !.does = "checkout"] /\ ignored' = ignored
      BY <2>2 DEF Proceed
    <2>5. /\ command' \in [does : {"nested", "checkout"}, groups : SUBSET Roots, left : SUBSET Sources, fresh : BOOLEAN]
          /\ command'.does = "checkout" /\ command'.groups = command.groups /\ command'.left = command.left
          /\ command'.fresh = command.fresh
      BY <2>3, <2>4
    <2>6. Tree("bare") \in Trees /\ Tree("bare").at = "bare" /\ ~Tree("bare").work
      BY TreeIs DEF Places
    <2>7. ~command.fresh => disk[Parent[n]] # Absent
      <3> SUFFICES ASSUME ~command.fresh PROVE disk[Parent[n]] # Absent
        OBVIOUS
      <3>1. Here = disk
        BY DEF Here
      <3>2. CASE Parent[n] \in Roots
        <4>1. Parent[n] = r
          BY <2>3, <3>2, NestedIs
        <4>2. disk[r].at # "absent"
          BY <2>1 DEF CorpusInv, MakesInPlace
        <4> QED BY <4>1, <4>2, AbsentIs
      <3>3. CASE Parent[n] \notin Roots
        BY <2>2, <3>1, <3>3, AbsentIs DEF Declared, Whole
      <3> QED BY <3>2, <3>3
    <2>8. disk' \in [Sources -> Trees] /\ staging' \in [Sources -> Trees] /\ Placed'
      <3>1. CASE Here[n] = Absent
        <4> HIDE DEF n
        <4> QED BY <2>1, <2>2, <2>6, <2>7, <3>1, PlaceKeeps DEF n
      <3>2. CASE Here[n] # Absent
        BY <2>2, <3>2 DEF CorpusInv, CorpusTypeOK, Placed
      <3> QED BY <3>1, <3>2
    <2>9. CorpusTypeOK'
      BY <2>4, <2>5, <2>8 DEF CorpusInv, CorpusTypeOK, CommandTypes
    <2>10. ~command.fresh => ~disk'[n].work /\ disk'[n].at \notin {"absent", "plain", "foreign"} /\ disk'[r].at # "absent"
      <3> SUFFICES ASSUME ~command.fresh
                   PROVE  ~disk'[n].work /\ disk'[n].at \notin {"absent", "plain", "foreign"} /\ disk'[r].at # "absent"
        OBVIOUS
      <3>1. Here = disk /\ disk[r].at # "absent"
        BY <2>1 DEF Here, CorpusInv, MakesInPlace
      <3>2. CASE disk[n] = Absent
        <4>1. Place(n, Tree("bare"))
          BY <2>2, <3>1, <3>2
        <4> HIDE DEF n
        <4>2. disk'[n] = Tree("bare") /\ disk'[r] = disk[r]
          BY <2>1, <2>6, <2>7, <4>1, PlaceKeeps DEF n
        <4> QED BY <2>6, <3>1, <4>2
      <3>3. CASE disk[n] # Absent
        <4>1. disk' = disk
          BY <2>2, <3>1, <3>3
        <4>2. disk[n].at # "absent"
          BY <2>3, <3>3 DEF CorpusInv, Placed
        <4> QED BY <2>2, <3>1, <4>1, <4>2 DEF Dirty
      <3> QED BY <3>2, <3>3
    <2>11. MakesInPlace'
      <3>1. command.groups # {} /\ command.left \subseteq Nested(r)
        BY <2>1 DEF CorpusInv, MakesInPlace
      <3> QED BY <2>1, <2>5, <2>10, <3>1 DEF MakesInPlace
    <2>12. Kept' /\ Tried'
      BY <2>5 DEF Kept, Tried
    <2> QED BY <2>8, <2>9, <2>11, <2>12 DEF CorpusInv
  <1> QED BY <1>1, <1>2

\* And checked out where it was cloned, or was clean.
LEMMA CheckoutKeeps == ASSUME CorpusInv, CheckoutNested PROVE CorpusInv'
  <1>1. CASE \E code : Fail(code)
    BY <1>1, EndKeeps DEF Fail
  <1>2. CASE ~\E code : Fail(code)
    <2> DEFINE n == Min(command.left)
               r == Min(command.groups)
               t == [Here[n] EXCEPT !.at = "pinned", !.work = FALSE]
    <2>1. command.does = "checkout" /\ command.left # {} /\ command.groups # {} /\ command.left \subseteq Nested(r)
      BY DEF CheckoutNested, CorpusInv, MakesInPlace
    <2>2. /\ Place(n, t)
          /\ Proceed([command EXCEPT !.does = "nested", !.left = @ \ {n}])
      BY <1>2 DEF CheckoutNested
    <2>3. /\ n \in Sources /\ r \in Roots /\ r \in Sources /\ n \in Nested(r)
          /\ command \in [does : {"nested", "checkout"}, groups : SUBSET Roots, left : SUBSET Sources, fresh : BOOLEAN]
          /\ Here \in [Sources -> Trees]
      BY <2>1, NextNestedIs
    <2>4. t \in Trees /\ t.at = "pinned"
      BY <2>3 DEF Trees, Places
    <2> HIDE DEF n, t
    <2>5. command' = [command EXCEPT !.does = "nested", !.left = @ \ {n}] /\ ignored' = ignored
      BY <2>2 DEF Proceed
    <2>6. /\ command' \in [does : {"nested", "checkout"}, groups : SUBSET Roots, left : SUBSET Sources, fresh : BOOLEAN]
          /\ command'.does = "nested" /\ command'.groups = command.groups /\ command'.left \subseteq command.left
          /\ command'.fresh = command.fresh
      BY <2>3, <2>5
    <2>7. ~command.fresh => disk[Parent[n]] # Absent
      <3> SUFFICES ASSUME ~command.fresh PROVE disk[Parent[n]] # Absent
        OBVIOUS
      <3>1. disk[n].at # "absent"
        BY <2>1 DEF CorpusInv, MakesInPlace, n
      <3>2. Parent[n] # 0
        BY <2>3, NestedIs
      <3> QED BY <2>3, <3>1, <3>2, ParentThere DEF CorpusInv
    <2>8. /\ disk' \in [Sources -> Trees] /\ staging' \in [Sources -> Trees] /\ Placed'
          /\ ~command.fresh => disk'[r] = disk[r]
      BY <2>1, <2>2, <2>4, <2>7, PlaceKeeps DEF n
    <2>9. CorpusTypeOK'
      BY <2>5, <2>6, <2>8 DEF CorpusInv, CorpusTypeOK, CommandTypes
    <2>10. MakesInPlace'
      <3>1. ~command.fresh => disk[r].at # "absent"
        BY <2>1 DEF CorpusInv, MakesInPlace
      <3> QED BY <2>1, <2>6, <2>8, <3>1 DEF MakesInPlace
    <2>11. Kept' /\ Tried'
      BY <2>6 DEF Kept, Tried
    <2> QED BY <2>8, <2>9, <2>10, <2>11 DEF CorpusInv
  <1> QED BY <1>1, <1>2

\* The group that was made takes its place, or the one updated is verified.
LEMMA FinishGroupKeeps == ASSUME CorpusInv, FinishGroup PROVE CorpusInv'
  <1>1. CASE \E code : Fail(code)
    BY <1>1, EndKeeps DEF Fail
  <1>2. CASE ~\E code : Fail(code)
    <2> DEFINE r == Min(command.groups)
    <2>1. /\ command.does = "nested" /\ command.left = {} /\ \A n \in Group(r) : Whole(Here[n])
          /\ ~(command.fresh /\ disk[r] # Absent)
          /\ disk' = [n \in Sources |-> IF n \in Group(r) THEN Here[n] ELSE disk[n]]
          /\ staging' = [n \in Sources |-> Absent]
          /\ Proceed([does |-> "group", groups |-> command.groups \ {r}])
      BY <1>2 DEF FinishGroup
    <2>2. /\ command' = [does |-> "group", groups |-> command.groups \ {r}] /\ ignored' = ignored
          /\ command'.does = "group"
      BY <2>1 DEF Proceed
    <2>3. /\ command \in [does : {"nested", "checkout"}, groups : SUBSET Roots, left : SUBSET Sources, fresh : BOOLEAN]
          /\ command.groups # {}
      BY <2>1, CommandIs DEF CorpusInv, CorpusTypeOK, MakesInPlace
    <2>4. r \in Roots /\ r \in Sources
      BY <2>3, NextGroup DEF CorpusInv
    <2> HIDE DEF r
    <2>5. Here \in [Sources -> Trees] /\ disk \in [Sources -> Trees] /\ Placed
      BY DEF Here, CorpusInv, CorpusTypeOK
    <2>6. disk' \in [Sources -> Trees] /\ staging' \in [Sources -> Trees]
      BY <2>1, <2>5, AbsentIs
    <2>7. CorpusTypeOK'
      BY <2>2, <2>3, <2>6 DEF CorpusInv, CorpusTypeOK, CommandTypes
    <2>8. Placed'
      <3>1. CASE ~command.fresh
        <4>1. disk' = disk
          BY <2>1, <2>5, <3>1 DEF Here
        <4> QED BY <2>5, <4>1 DEF Placed
      <3>2. CASE command.fresh
        <4>1. \A n \in Sources : disk'[n] = IF n \in Group(r) THEN Here[n] ELSE disk[n]
          BY <2>1
        <4>2. ASSUME NEW n \in Group(r) PROVE n \in Sources /\ disk'[n].at = "pinned" /\ disk'[n] # Absent
          <5>1. n \in Sources
            BY <2>4 DEF Group, Nested
          <5> QED BY <2>1, <4>1, <5>1, AbsentIs DEF Whole
        <4>3. ASSUME NEW n \in Sources, disk'[n].at = "absent" PROVE disk'[n] = Absent
          <5>1. n \notin Group(r)
            BY <4>2, <4>3
          <5> QED BY <2>5, <4>1, <4>3, <5>1 DEF Placed
        <4>4. ASSUME NEW n \in Sources, Parent[n] # 0, disk'[Parent[n]] = Absent PROVE disk'[n] = Absent
          <5>1. Parent[n] \in Sources /\ Parent[n] \notin Group(r)
            BY <4>2, <4>4, CorpusAssumption
          <5>2. n \notin Group(r)
            <6> SUFFICES ASSUME n \in Group(r) PROVE FALSE
              OBVIOUS
            <6>1. n # r
              BY <2>4, <4>4 DEF Roots
            <6>2. n \in Nested(r)
              BY <6>1 DEF Group
            <6> QED BY <2>4, <5>1, <6>2, NestedIs
          <5> QED BY <2>5, <4>1, <4>4, <5>1, <5>2 DEF Placed
        <4> QED BY <4>3, <4>4 DEF Placed
      <3> QED BY <3>1, <3>2
    <2>9. MakesInPlace' /\ Kept' /\ Tried'
      BY <2>2 DEF MakesInPlace, Kept, Tried
    <2> QED BY <2>7, <2>8, <2>9 DEF CorpusInv
  <1> QED BY <1>1, <1>2

-----------------------------------------------------------------------------
\* What is taken away is gone with what was in it.
LEMMA WithoutKeeps ==
    ASSUME CorpusTypeOK, Placed, NEW n \in Sources, disk' = Without(n)
    PROVE  disk' \in [Sources -> Trees] /\ Placed' /\ \A m \in Sources : disk'[m] \in {Absent, disk[m]}
  <1>1. \A m \in Sources : disk'[m] = IF n \in Around[m] THEN Absent ELSE disk[m]
    BY DEF Without
  <1>2. disk' \in [Sources -> Trees]
    BY AbsentIs DEF Without, CorpusTypeOK
  <1>3. ASSUME NEW m \in Sources, Parent[m] # 0, disk'[Parent[m]] = Absent PROVE disk'[m] = Absent
    <2>1. Parent[m] \in Sources /\ Around[m] = {m} \cup Around[Parent[m]]
      BY <1>3, AroundIs
    <2> QED BY <1>1, <1>3, <2>1 DEF Placed
  <1>4. \A m \in Sources : disk'[m].at = "absent" => disk'[m] = Absent
    BY <1>1 DEF Placed
  <1> QED BY <1>1, <1>2, <1>3, <1>4 DEF Placed

\* A target leaves a checkout or takes it away.
LEMMA WriteKeeps == ASSUME CorpusInv, TargetWrites PROVE CorpusInv'
  <1>0. CorpusTypeOK /\ Placed /\ Kept
    BY DEF CorpusInv
  <1>1. command.does = "run" /\ UNCHANGED <<staging, command, ignored>>
    BY DEF TargetWrites
  <1>2. PICK n \in Sources :
          /\ disk[n] # Absent
          /\ \/ disk' = [disk EXCEPT ![n].work = TRUE] \/ disk' = [disk EXCEPT ![n].at = "old"]
             \/ disk' = Without(n) \/ \E j \in SUBSET {"kept", "new"} : disk' = [disk EXCEPT ![n].junk = j]
    BY DEF TargetWrites
  <1>3. CASE disk' = Without(n)
    <2>1. disk' \in [Sources -> Trees] /\ Placed' /\ \A m \in Sources : disk'[m] \in {Absent, disk[m]}
      BY <1>0, <1>3, WithoutKeeps
    <2>2. Kept'
      BY <1>0, <1>1, <2>1, AbsentIs DEF Kept
    <2> QED BY <1>0, <1>1, <2>1, <2>2 DEF CorpusInv, CorpusTypeOK, MakesInPlace, Tried
  <1>4. CASE disk' # Without(n)
    <2>1. disk[n] \in Trees /\ disk[n].at \in {"pinned", "old"}
      BY <1>0, <1>1, <1>2 DEF CorpusTypeOK, Kept, Placed
    <2>2. PICK t \in Trees : t.at \in {"pinned", "old"} /\ disk' = [disk EXCEPT ![n] = t]
      <3>1. CASE disk' = [disk EXCEPT ![n].work = TRUE]
        <4>1. [disk[n] EXCEPT !.work = TRUE] \in Trees
          BY <2>1 DEF Trees
        <4> QED BY <2>1, <3>1, <4>1 DEF Trees
      <3>2. CASE disk' = [disk EXCEPT ![n].at = "old"]
        <4>1. [disk[n] EXCEPT !.at = "old"] \in Trees
          BY <2>1 DEF Trees, Places
        <4> QED BY <2>1, <3>2, <4>1 DEF Trees
      <3>3. ASSUME NEW j \in SUBSET {"kept", "new"}, disk' = [disk EXCEPT ![n].junk = j]
            PROVE  \E t \in Trees : t.at \in {"pinned", "old"} /\ disk' = [disk EXCEPT ![n] = t]
        <4>1. [disk[n] EXCEPT !.junk = j] \in Trees
          BY <2>1 DEF Trees
        <4> QED BY <2>1, <3>3, <4>1 DEF Trees
      <3> QED BY <1>2, <1>4, <3>1, <3>2, <3>3
    <2>3. Parent[n] # 0 => disk[Parent[n]] # Absent
      BY <1>0, <2>1, ParentThere
    <2>4. Placed'
      BY <1>0, <2>1, <2>2, <2>3, PlacedStays
    <2>5. \A m \in Sources : disk'[m] = IF m = n THEN t ELSE disk[m]
      BY <1>0, <2>2 DEF CorpusTypeOK
    <2>6. disk' \in [Sources -> Trees]
      BY <1>0, <2>2 DEF CorpusTypeOK
    <2>7. Kept'
      BY <1>0, <1>1, <2>1, <2>2, <2>5 DEF Kept
    <2> QED BY <1>0, <1>1, <2>4, <2>6, <2>7 DEF CorpusInv, CorpusTypeOK, MakesInPlace, Tried
  <1> QED BY <1>3, <1>4

\* Others work between the calls only.
LEMMA OthersKeep == ASSUME CorpusInv, OthersWork PROVE CorpusInv'
  <1>0. CorpusTypeOK /\ Placed
    BY DEF CorpusInv
  <1>1. command = Idle /\ UNCHANGED <<staging, command, ignored>>
    BY DEF OthersWork
  <1>2. command'.does = "nothing"
    BY <1>1 DEF Idle
  <1>3. MakesInPlace' /\ Kept' /\ Tried'
    BY <1>2 DEF MakesInPlace, Kept, Tried
  <1>4. disk' \in [Sources -> Trees] /\ Placed'
    <2>1. PICK n \in Sources :
            \/ disk[n].at \in {"old", "pinned"}
               /\ disk' \in {[disk EXCEPT ![n].work = TRUE], [disk EXCEPT ![n].at = "old"]}
            \/ disk[n] = Absent /\ (Parent[n] # 0 => disk[Parent[n]] # Absent)
               /\ \E at \in {"plain", "foreign"} : disk' = [disk EXCEPT ![n] = Tree(at)]
            \/ disk' = Without(n)
      BY DEF OthersWork
    <2>2. CASE disk' = Without(n)
      BY <1>0, <2>2, WithoutKeeps
    <2>3. ASSUME NEW t \in Trees, t.at # "absent", disk' = [disk EXCEPT ![n] = t],
                 Parent[n] # 0 => disk[Parent[n]] # Absent
          PROVE  disk' \in [Sources -> Trees] /\ Placed'
      BY <1>0, <2>3, PlacedStays DEF CorpusTypeOK
    <2>4. CASE disk[n].at \in {"old", "pinned"}
               /\ disk' \in {[disk EXCEPT ![n].work = TRUE], [disk EXCEPT ![n].at = "old"]}
      <3>1. Parent[n] # 0 => disk[Parent[n]] # Absent
        BY <1>0, <2>4, ParentThere
      <3>2. disk[n] \in Trees
        BY <1>0 DEF CorpusTypeOK
      <3>3. CASE disk' = [disk EXCEPT ![n].work = TRUE]
        <4> DEFINE t == [disk[n] EXCEPT !.work = TRUE]
        <4>1. t \in Trees /\ t.at # "absent"
          BY <2>4, <3>2 DEF Trees
        <4>2. disk' = [disk EXCEPT ![n] = t]
          BY <3>3
        <4> HIDE DEF t
        <4> QED BY <2>3, <3>1, <4>1, <4>2
      <3>4. CASE disk' = [disk EXCEPT ![n].at = "old"]
        <4> DEFINE t == [disk[n] EXCEPT !.at = "old"]
        <4>1. t \in Trees /\ t.at # "absent"
          BY <2>4, <3>2 DEF Trees, Places
        <4>2. disk' = [disk EXCEPT ![n] = t]
          BY <3>4
        <4> HIDE DEF t
        <4> QED BY <2>3, <3>1, <4>1, <4>2
      <3> QED BY <2>4, <3>3, <3>4
    <2>5. CASE disk[n] = Absent /\ (Parent[n] # 0 => disk[Parent[n]] # Absent)
               /\ \E at \in {"plain", "foreign"} : disk' = [disk EXCEPT ![n] = Tree(at)]
      <3>1. PICK at \in {"plain", "foreign"} : disk' = [disk EXCEPT ![n] = Tree(at)]
        BY <2>5
      <3>2. Tree(at) \in Trees /\ Tree(at).at # "absent"
        BY TreeIs DEF Places
      <3> QED BY <2>3, <2>5, <3>1, <3>2
    <2> QED BY <2>1, <2>2, <2>4, <2>5
  <1>5. CorpusTypeOK'
    BY <1>0, <1>1, <1>4 DEF CorpusTypeOK
  <1> QED BY <1>3, <1>4, <1>5 DEF CorpusInv

\* The calls begin, and the targets end.
LEMMA BeginsKeep == ASSUME CorpusInv, Materialize \/ Capture \/ TargetsEnd PROVE CorpusInv'
  <1>0. CorpusTypeOK /\ Placed
    BY DEF CorpusInv
  <1>1. CASE Materialize
    <2>1. /\ command' = [does |-> "group", groups |-> Roots] /\ UNCHANGED <<disk, staging, ignored>>
          /\ command'.does = "group"
      BY <1>1 DEF Materialize
    <2>2. CorpusTypeOK'
      BY <1>0, <2>1 DEF CorpusTypeOK, CommandTypes
    <2> QED BY <1>0, <2>1, <2>2 DEF CorpusInv, Placed, MakesInPlace, Kept, Tried
  <1>2. CASE Capture /\ Verified
    <2>1. /\ command' = [does |-> "run"] /\ ignored' = [n \in Sources |-> disk[n].junk]
          /\ UNCHANGED <<disk, staging>> /\ command'.does = "run"
      BY <1>2 DEF Capture
    <2>2. CorpusTypeOK'
      <3>1. \A n \in Sources : disk[n].junk \in SUBSET {"kept", "new"}
        BY <1>0 DEF CorpusTypeOK, Trees
      <3> QED BY <1>0, <2>1, <3>1 DEF CorpusTypeOK, CommandTypes
    <2>3. Kept'
      BY <1>2, <2>1 DEF Kept, Verified, Whole
    <2> QED BY <1>0, <2>1, <2>2, <2>3 DEF CorpusInv, Placed, MakesInPlace, Tried
  <1>3. CASE Capture /\ ~Verified
    <2>1. command = Idle /\ UNCHANGED <<command, ignored, disk, staging>>
      BY <1>3 DEF Capture
    <2>2. command'.does = "nothing"
      BY <2>1 DEF Idle
    <2> QED BY <1>0, <2>1, <2>2 DEF CorpusInv, CorpusTypeOK, Placed, MakesInPlace, Kept, Tried
  <1>4. CASE TargetsEnd
    <2>1. PICK thrown \in BOOLEAN :
            command' = [does |-> "restore", groups |-> Roots, left |-> {}, failed |-> FALSE,
                        broken |-> {}, thrown |-> thrown]
      BY <1>4 DEF TargetsEnd, Proceed
    <2>2. command.does = "run" /\ UNCHANGED <<disk, staging, ignored>>
      BY <1>4 DEF TargetsEnd, Proceed
    <2>3. CorpusTypeOK'
      BY <1>0, <2>1, <2>2 DEF CorpusTypeOK, CommandTypes, RestoreTypes
    <2>4. Kept'
      BY <2>2 DEF CorpusInv, Kept
    <2>5. MakesInPlace' /\ Tried'
      BY <2>1 DEF MakesInPlace, Tried
    <2> QED BY <1>0, <2>2, <2>3, <2>4, <2>5 DEF CorpusInv, Placed
  <1> QED BY <1>1, <1>2, <1>3, <1>4

\* A source that is put back is as pinned, with nothing ignored that was not noted.
LEMMA RestoredIs ==
    ASSUME NEW n \in Sources, disk[n] \in Trees, disk[n].at \in {"pinned", "old", "absent"}
    PROVE  /\ disk[n].at = "absent" => Restored(n) = disk[n] /\ Halfway(n) = {disk[n]}
           /\ disk[n].at # "absent" =>
                /\ Whole(Restored(n)) /\ Restored(n).junk \subseteq ignored[n]
                /\ \A t \in Halfway(n) \cup {Restored(n)} : t \in Trees /\ t.at \in {"pinned", "old"}
  <1>1. CASE disk[n].at = "absent"
    BY <1>1 DEF Restored, Halfway, Gone
  <1>2. CASE disk[n].at # "absent"
    <2>1. Restored(n) = [at |-> "pinned", work |-> FALSE, junk |-> disk[n].junk \cap ignored[n]]
      BY <1>2 DEF Restored, Gone
    <2>2. Whole(Restored(n)) /\ Restored(n).junk \subseteq ignored[n]
      BY <2>1 DEF Whole
    <2>3. /\ disk[n].junk \in SUBSET {"kept", "new"} /\ disk[n].work \in BOOLEAN
          /\ disk[n] = [at |-> disk[n].at, work |-> disk[n].work, junk |-> disk[n].junk]
      BY DEF Trees
    <2>4. Restored(n) \in Trees /\ Restored(n).at = "pinned"
      BY <2>1, <2>3 DEF Trees, Places
    <2>5. [disk[n] EXCEPT !.at = "pinned"] \in Trees /\ [disk[n] EXCEPT !.at = "pinned"].at = "pinned"
      BY DEF Trees, Places
    <2>6. /\ [Restored(n) EXCEPT !.junk = disk[n].junk] \in Trees
          /\ [Restored(n) EXCEPT !.junk = disk[n].junk].at = "pinned"
      BY <2>3, <2>4 DEF Trees
    <2>7. Halfway(n) = {disk[n], [disk[n] EXCEPT !.at = "pinned"],
                        [Restored(n) EXCEPT !.junk = disk[n].junk], Restored(n)}
      BY <1>2 DEF Halfway, Gone
    <2>8. ASSUME NEW t \in Halfway(n) \cup {Restored(n)} PROVE t \in Trees /\ t.at \in {"pinned", "old"}
      BY <1>2, <2>4, <2>5, <2>6, <2>7
    <2> QED BY <1>2, <2>2, <2>8
  <1> QED BY <1>1, <1>2

\* What keeps a group from being restored is a reason that stays.
LEMMA RefusedIsExcused ==
    ASSUME CorpusInv, command.does = "restore", NEW r \in Roots,
           Gone(r) \/ \E n \in Nested(r) : ~Declared(n, disk)
    PROVE  \E n \in Group(r) : Gone(n) \/ (~Whole(disk[n]) /\ \E m \in Sources : Parent[m] = n /\ Parent[n] # 0)
  <1>1. CASE Gone(r)
    BY <1>1 DEF Group
  <1>2. CASE ~Gone(r)
    <2>1. PICK k \in Nested(r) : ~Declared(k, disk)
      BY <1>2
    <2>2. k \in Sources /\ Parent[k] \in Sources /\ Parent[k] \in Group(r)
      BY NestedIs
    <2>3. Parent[k] \notin Roots /\ ~Whole(disk[Parent[k]])
      BY <2>1 DEF Declared
    <2>4. Parent[Parent[k]] # 0
      BY <2>2, <2>3 DEF Roots
    <2> QED BY <2>2, <2>3, <2>4
  <1> QED BY <1>1, <1>2

\* A group is taken up, or it is passed over, which is told and has its reason.
LEMMA EnterRestoreKeeps ==
    ASSUME CorpusInv, EnterRestore, NEW r, r = Min(command.groups)
    PROVE  CorpusInv'
  <1> DEFINE refused == Gone(r) \/ \E n \in Nested(r) : ~Declared(n, disk)
             told == [command EXCEPT !.groups = @ \ {r}, !.failed = TRUE]
  <1>0. CorpusTypeOK /\ Placed /\ Kept
    BY DEF CorpusInv
  <1>1. command.does = "restore" /\ command.groups # {} /\ UNCHANGED disk
    BY DEF EnterRestore
  <1>2. command \in RestoreTypes
    BY <1>0, <1>1, CommandIs DEF CorpusTypeOK
  <1>3. r \in command.groups /\ r \in Roots /\ r \in Sources
    BY <1>0, <1>1, <1>2, NextGroup DEF RestoreTypes
  <1>4. \/ ~refused /\ Proceed([command EXCEPT !.does = "put back", !.left = Group(r)])
        \/ refused /\ Proceed(told)
        \/ ~Gone(r) /\ Proceed([told EXCEPT !.broken = @ \cup {r}])
        \/ Fail("git unavailable")
    BY DEF EnterRestore
  <1>5. UNCHANGED staging
    BY DEF EnterRestore
  <1>6. \A q \in Roots \ command.groups : (command.failed \/ AsBefore(q)) /\ Excused(q)
    BY <1>1 DEF CorpusInv, Tried
  <1>7. ASSUME NEW q \in Roots, UNCHANGED ignored PROVE AsBefore(q) => AsBefore(q)'
    BY <1>1, <1>7 DEF AsBefore, PutBack
  <1>8. ASSUME NEW q \in Roots, Excused(q), command.broken \subseteq command'.broken PROVE Excused(q)'
    BY <1>1, <1>8 DEF Excused, Gone
  <1>9. ASSUME command' \in RestoreTypes, UNCHANGED ignored PROVE CorpusTypeOK' /\ Placed' /\ Kept' /\ MakesInPlace'
    <2>1. command'.does \in {"restore", "put back"}
      BY <1>9 DEF RestoreTypes
    <2>2. CorpusTypeOK'
      BY <1>0, <1>1, <1>5, <1>9 DEF CorpusTypeOK, CommandTypes
    <2>3. Placed'
      BY <1>0, <1>1 DEF Placed
    <2>4. Kept'
      BY <1>0, <1>1 DEF Kept
    <2>5. MakesInPlace'
      BY <2>1 DEF MakesInPlace
    <2> QED BY <2>2, <2>3, <2>4, <2>5
  <1>10. CASE Proceed([command EXCEPT !.does = "put back", !.left = Group(r)])
    <2>1. /\ command' = [command EXCEPT !.does = "put back", !.left = Group(r)]
          /\ UNCHANGED ignored
      BY <1>10 DEF Proceed
    <2>2. Group(r) \subseteq Sources
      BY <1>3 DEF Group, Nested
    <2>3. /\ command' \in RestoreTypes /\ command'.does = "put back" /\ command'.groups = command.groups
          /\ command'.left = Group(r) /\ command'.failed = command.failed /\ command'.broken = command.broken
      BY <1>2, <2>1, <2>2 DEF RestoreTypes
    <2>4. \A q \in Roots \ command'.groups : (command'.failed \/ AsBefore(q)') /\ Excused(q)'
      BY <1>6, <1>7, <1>8, <2>1, <2>3
    <2>5. ASSUME NEW q, q = Min(command'.groups) PROVE q = r
      BY <2>3, <2>5
    <2>6. Tried'
      BY <1>1, <2>3, <2>4, <2>5 DEF Tried
    <2> QED BY <1>9, <2>1, <2>3, <2>6 DEF CorpusInv
  <1>11. ASSUME NEW broken \in SUBSET Roots, command.broken \subseteq broken, r \in broken \/ refused,
                Proceed([told EXCEPT !.broken = broken])
         PROVE  CorpusInv'
    <2>1. command' = [told EXCEPT !.broken = broken] /\ UNCHANGED ignored
      BY <1>11 DEF Proceed
    <2>2. /\ command' \in RestoreTypes /\ command'.does = "restore" /\ command'.groups = command.groups \ {r}
          /\ command'.failed = TRUE /\ command'.broken = broken
      BY <1>1, <1>2, <1>11, <2>1 DEF RestoreTypes
    <2>3. Excused(r)'
      <3>1. CASE r \in broken
        BY <2>2, <3>1 DEF Excused
      <3>2. CASE refused
        <4>1. \E n \in Group(r) : Gone(n) \/ (~Whole(disk[n]) /\ \E m \in Sources : Parent[m] = n /\ Parent[n] # 0)
          BY <1>1, <1>3, <3>2, RefusedIsExcused
        <4> QED BY <1>1, <4>1 DEF Excused, Gone
      <3> QED BY <1>11, <3>1, <3>2
    <2>4. \A q \in Roots \ command'.groups : Excused(q)'
      BY <1>6, <1>8, <1>11, <2>2, <2>3
    <2>5. Tried'
      BY <2>2, <2>4 DEF Tried
    <2> QED BY <1>9, <2>1, <2>2, <2>5 DEF CorpusInv
  <1>12. CASE refused /\ Proceed(told)
    <2>1. told = [told EXCEPT !.broken = command.broken] /\ command.broken \in SUBSET Roots
      BY <1>2 DEF RestoreTypes
    <2> HIDE DEF told, refused
    <2> QED BY <1>11, <1>12, <2>1
  <1>13. CASE Proceed([told EXCEPT !.broken = @ \cup {r}])
    <2>1. /\ [told EXCEPT !.broken = @ \cup {r}] = [told EXCEPT !.broken = command.broken \cup {r}]
          /\ command.broken \cup {r} \in SUBSET Roots
      BY <1>2, <1>3 DEF RestoreTypes
    <2> HIDE DEF told, refused
    <2> QED BY <1>11, <1>13, <2>1
  <1>14. CASE Fail("git unavailable")
    BY <1>1, <1>14, EndKeeps DEF Fail
  <1> HIDE DEF refused, told
  <1> QED BY <1>4, <1>10, <1>12, <1>13, <1>14

\* A source is put back, or a command failed, which is told; the others stay as they are.
LEMMA RestoreSourceKeeps ==
    ASSUME CorpusInv, RestoreSource, NEW r, r = Min(command.groups)
    PROVE  CorpusInv'
  <1>0. CorpusTypeOK /\ Placed /\ Kept
    BY DEF CorpusInv
  <1>1. command.does = "put back" /\ command.groups # {} /\ command.left \subseteq Group(r)
    BY DEF RestoreSource, CorpusInv, Tried
  <1>2. command \in RestoreTypes
    BY <1>0, <1>1, CommandIs DEF CorpusTypeOK
  <1>3. r \in command.groups /\ r \in Roots /\ r \in Sources
    BY <1>0, <1>1, <1>2, NextGroup DEF RestoreTypes
  <1> DEFINE Puts(n, breaks, tree) ==
          /\ disk' = [disk EXCEPT ![n] = tree]
          /\ Proceed([does |-> IF command.left \ {n} = {} THEN "restore" ELSE "put back",
                      groups |-> IF command.left \ {n} = {} THEN command.groups \ {r} ELSE command.groups,
                      left |-> command.left \ {n}, failed |-> command.failed \/ breaks \/ ~Whole(tree),
                      broken |-> IF breaks THEN command.broken \cup {r} ELSE command.broken,
                      thrown |-> command.thrown])
  <1>a. PICK n \in command.left : \E breaks \in BOOLEAN :
          \E tree \in IF breaks THEN Halfway(n) ELSE {Restored(n)} : Puts(n, breaks, tree)
    BY DEF RestoreSource
  <1>b. PICK breaks \in BOOLEAN : \E tree \in IF breaks THEN Halfway(n) ELSE {Restored(n)} : Puts(n, breaks, tree)
    BY <1>a
  <1>c. PICK tree \in IF breaks THEN Halfway(n) ELSE {Restored(n)} : Puts(n, breaks, tree)
    BY <1>b
  <1>4. Puts(n, breaks, tree)
    BY <1>c
  <1> DEFINE rest == command.left \ {n}
             failed == command.failed \/ breaks \/ ~Whole(tree)
             broken == IF breaks THEN command.broken \cup {r} ELSE command.broken
             groups == IF rest = {} THEN command.groups \ {r} ELSE command.groups
             does == IF rest = {} THEN "restore" ELSE "put back"
  <1>5. command' = [does |-> does, groups |-> groups, left |-> rest, failed |-> failed,
                    broken |-> broken, thrown |-> command.thrown]
        /\ UNCHANGED <<staging, ignored>>
    BY <1>4 DEF Proceed, RestoreSource
  <1>6. /\ rest \subseteq Sources /\ rest \subseteq Group(r) /\ failed \in BOOLEAN /\ broken \in SUBSET Roots
        /\ groups \in SUBSET Roots /\ does \in {"restore", "put back"} /\ command.thrown \in BOOLEAN
    BY <1>1, <1>2, <1>3 DEF RestoreTypes
  <1>7. /\ n \in Sources /\ n \in Group(r)
        /\ \A m \in Group(r) : m \in Sources
    BY <1>1, <1>3 DEF Group, Nested
  <1>8. disk[n] \in Trees /\ disk[n].at \in {"pinned", "old", "absent"}
    BY <1>0, <1>1, <1>7 DEF CorpusTypeOK, Kept
  <1>9. /\ disk[n].at = "absent" => tree = disk[n]
        /\ disk[n].at # "absent" => tree \in Trees /\ tree.at \in {"pinned", "old"}
        /\ ~breaks /\ disk[n].at # "absent" => Whole(tree) /\ tree.junk \subseteq ignored[n]
    BY <1>c, <1>7, <1>8, RestoredIs
  <1>10. \A m \in Sources : disk'[m] = IF m = n THEN tree ELSE disk[m]
    BY <1>0, <1>4 DEF CorpusTypeOK
  <1>11. /\ failed <=> command.failed \/ breaks \/ ~Whole(tree)
         /\ broken = IF breaks THEN command.broken \cup {r} ELSE command.broken
         /\ rest = {} => groups = command.groups \ {r} /\ does = "restore"
         /\ rest # {} => groups = command.groups /\ does = "put back"
         /\ rest = command.left \ {n}
    <2>1. failed <=> command.failed \/ breaks \/ ~Whole(tree)
      OBVIOUS
    <2>2. broken = IF breaks THEN command.broken \cup {r} ELSE command.broken
      OBVIOUS
    <2>3. /\ rest = {} => groups = command.groups \ {r} /\ does = "restore"
          /\ rest # {} => groups = command.groups /\ does = "put back"
      <3> HIDE DEF rest
      <3> QED OBVIOUS
    <2>4. rest = command.left \ {n}
      OBVIOUS
    <2> HIDE DEF rest, failed, broken, groups, does
    <2> QED BY <2>1, <2>2, <2>3, <2>4
  <1> HIDE DEF rest, failed, broken, groups, does
  <1>12. /\ command'.does = does /\ command'.groups = groups /\ command'.left = rest
         /\ command'.failed = failed /\ command'.broken = broken /\ command' \in RestoreTypes
    BY <1>5, <1>6 DEF RestoreTypes
  <1>13. CorpusTypeOK'
    <2>1. disk' \in [Sources -> Trees]
      BY <1>0, <1>4, <1>8, <1>9 DEF CorpusTypeOK
    <2> QED BY <1>0, <1>5, <1>12, <2>1 DEF CorpusTypeOK, CommandTypes
  <1>14. Placed'
    <2>1. CASE disk[n].at = "absent"
      <3>1. \A m \in Sources : disk'[m] = disk[m]
        BY <1>9, <1>10, <2>1
      <3> QED BY <1>0, <3>1, CorpusAssumption DEF Placed
    <2>2. CASE disk[n].at # "absent"
      <3>1. Parent[n] # 0 => disk[Parent[n]] # Absent
        BY <1>0, <1>7, <2>2, ParentThere
      <3>2. tree \in Trees /\ tree.at # "absent"
        BY <1>9, <2>2
      <3> QED BY <1>0, <1>4, <1>7, <3>1, <3>2, PlacedStays
    <2> QED BY <2>1, <2>2
  <1>15. Kept' /\ MakesInPlace'
    <2>1. \A m \in Sources : disk'[m].at \in {"pinned", "old", "absent"}
      BY <1>0, <1>1, <1>8, <1>9, <1>10 DEF Kept
    <2>2. command'.does \in {"restore", "put back"}
      BY <1>6, <1>12
    <2> QED BY <2>1, <2>2 DEF Kept, MakesInPlace
  <1>16. ASSUME NEW q \in Roots \ command.groups
         PROVE  (failed \/ AsBefore(q)') /\ Excused(q)'
    <2>1. \A m \in Group(q) : m \in Sources
      BY DEF Group, Nested, Roots
    <2>2. n \notin Group(q)
      BY <1>3, <1>7, <1>16, OneGroup
    <2>3. \A m \in Group(q) : disk'[m] = disk[m] /\ ignored'[m] = ignored[m]
      BY <1>5, <1>10, <2>1, <2>2
    <2>4. (command.failed \/ AsBefore(q)) /\ Excused(q)
      BY <1>1 DEF CorpusInv, Tried
    <2>5. AsBefore(q) => AsBefore(q)'
      BY <2>3 DEF AsBefore, PutBack
    <2>6. command.broken \subseteq command'.broken
      BY <1>11, <1>12
    <2>7. Excused(q)'
      BY <2>3, <2>4, <2>6 DEF Excused, Gone
    <2> QED BY <1>11, <2>4, <2>5, <2>7
  <1>17. ASSUME NEW m \in Group(r) \ rest
         PROVE  /\ failed \/ PutBack(m)'
                /\ r \in broken \/ Gone(m)' \/ Whole(disk'[m])
    <2>1. CASE m = n
      <3>1. disk'[m] = tree
        BY <1>7, <1>10, <2>1
      <3>2. CASE breaks
        BY <1>11, <3>2
      <3>3. CASE ~breaks /\ disk[n].at = "absent"
        BY <1>9, <1>11, <3>1, <3>3 DEF Whole, Gone
      <3>4. CASE ~breaks /\ disk[n].at # "absent"
        BY <1>5, <1>9, <2>1, <3>1, <3>4 DEF PutBack
      <3> QED BY <3>2, <3>3, <3>4
    <2>2. CASE m # n
      <3>1. m \in Group(r) \ command.left /\ m \in Sources
        BY <1>7, <1>11, <2>2
      <3>2. disk'[m] = disk[m] /\ ignored'[m] = ignored[m]
        BY <1>5, <1>10, <2>2, <3>1
      <3>3. (command.failed \/ PutBack(m)) /\ (r \in command.broken \/ Gone(m) \/ Whole(disk[m]))
        BY <1>1, <3>1 DEF CorpusInv, Tried
      <3>4. PutBack(m) => PutBack(m)'
        BY <3>2 DEF PutBack
      <3>5. Gone(m) => Gone(m)'
        BY <3>2 DEF Gone
      <3> QED BY <1>11, <3>2, <3>3, <3>4, <3>5
    <2> QED BY <2>1, <2>2
  <1>18. Tried'
    <2>1. CASE rest = {}
      <3>1. does = "restore" /\ groups = command.groups \ {r}
        BY <1>11, <2>1
      <3>2. failed \/ AsBefore(r)'
        BY <1>17, <2>1 DEF AsBefore
      <3>3. Excused(r)'
        <4>1. \A m \in Group(r) : r \in broken \/ Gone(m)' \/ Whole(disk'[m])
          BY <1>17, <2>1
        <4> QED BY <1>12, <4>1 DEF Excused
      <3>4. ASSUME NEW q \in Roots \ groups PROVE (failed \/ AsBefore(q)') /\ Excused(q)'
        BY <1>16, <3>1, <3>2, <3>3
      <3> QED BY <1>12, <3>1, <3>4 DEF Tried
    <2>2. CASE rest # {}
      <3>1. does = "put back" /\ groups = command.groups
        BY <1>11, <2>2
      <3>2. Tried' <=>
              /\ \A q \in Roots \ groups : (failed \/ AsBefore(q)') /\ Excused(q)'
              /\ \A q : q = Min(groups) =>
                   /\ groups # {} /\ rest \subseteq Group(q)
                   /\ \A m \in Group(q) \ rest :
                        /\ failed \/ PutBack(m)'
                        /\ q \in broken \/ Gone(m)' \/ Whole(disk'[m])
        BY <1>12, <3>1 DEF Tried
      <3>3. r = Min(groups) /\ groups # {}
        BY <1>1, <3>1
      <3> QED BY <1>6, <1>16, <1>17, <3>1, <3>2, <3>3
    <2> QED BY <2>1, <2>2
  <1> QED BY <1>13, <1>14, <1>15, <1>18 DEF CorpusInv

LEMMA CorpusStep == CorpusInv /\ [CorpusNext]_corpusVars => CorpusInv'
  <1> SUFFICES ASSUME CorpusInv, [CorpusNext]_corpusVars PROVE CorpusInv'
    OBVIOUS
  <1>1. CASE EnterGroup \/ CloneNested \/ CheckoutNested \/ FinishGroup
    BY <1>1, EnterKeeps, CloneKeeps, CheckoutKeeps, FinishGroupKeeps
  <1>2. CASE Materialize \/ Capture \/ TargetsEnd
    BY <1>2, BeginsKeep
  <1>3. CASE TargetWrites \/ EnterRestore \/ RestoreSource \/ OthersWork
    <2>1. PICK r : r = Min(command.groups)
      OBVIOUS
    <2> QED BY <1>3, <2>1, WriteKeeps, EnterRestoreKeeps, RestoreSourceKeeps, OthersKeep
  <1>4. CASE FinishMaterialize \/ FinishRestore \/ Die
    <2>1. (\E word : End(word)) /\ UNCHANGED disk
      BY <1>4 DEF FinishMaterialize, FinishRestore, Die, Fail
    <2> QED BY <2>1, EndKeeps
  <1>5. CASE UNCHANGED corpusVars
    BY <1>5 DEF CorpusInv, corpusVars, CorpusTypeOK, Placed, MakesInPlace, Kept, Tried, AsBefore, Excused, PutBack, Gone, Whole, Here
  <1> QED BY <1>1, <1>2, <1>3, <1>4, <1>5 DEF CorpusNext

LEMMA CorpusAlways == CorpusSpec => []CorpusInv
  BY CorpusInitially, CorpusStep, PTL DEF CorpusSpec

-----------------------------------------------------------------------------
\* What a step that makes or updates groups may do to the disk.
MakesSafely ==
    /\ \A r \in Roots : disk[r] = Absent /\ disk'[r] # Absent => \A n \in Group(r) : Whole(disk'[n])
    /\ \A n \in Sources : disk[n].work \/ disk[n].at \in {"plain", "foreign"} => disk'[n] = disk[n]

\* Where nothing changes nothing is lost.
LEMMA SameDiskSafe == ASSUME disk' = disk PROVE MakesSafely
  BY DEF MakesSafely

\* A clean source changes where it stands.
LEMMA OneChangeSafe ==
    ASSUME CorpusTypeOK, NEW n \in Sources, NEW t, disk' = [disk EXCEPT ![n] = t],
           ~disk[n].work, disk[n].at \notin {"plain", "foreign"}, n \in Roots => disk[n] # Absent
    PROVE  MakesSafely
  <1>1. \A m \in Sources : disk'[m] = IF m = n THEN t ELSE disk[m]
    BY DEF CorpusTypeOK
  <1>2. \A r \in Roots : r \in Sources
    BY DEF Roots
  <1> QED BY <1>1, <1>2 DEF MakesSafely

\* The root of a group is only changed where it is clean.
LEMMA EnterSafe == ASSUME CorpusInv, EnterGroup PROVE MakesSafely
  <1> DEFINE r == Min(command.groups)
             t == [disk[r] EXCEPT !.at = "pinned"]
  <1>1. command.does = "group" /\ command.groups \in SUBSET Roots /\ command.groups # {}
    BY CommandIs DEF EnterGroup, CorpusInv, CorpusTypeOK
  <1>2. r \in Roots /\ r \in Sources
    BY <1>1, NextGroup DEF CorpusInv
  <1>3. disk' = disk \/ (/\ disk[r].at \in {"absent", "old", "pinned"} /\ ~Dirty(disk[r])
                         /\ disk[r].at # "absent" /\ disk' = [disk EXCEPT ![r] = t])
    BY DEF EnterGroup, Fail
  <1> HIDE DEF r, t
  <1>4. CASE disk' = disk
    BY <1>4, SameDiskSafe
  <1>5. CASE disk' # disk
    <2>1. ~disk[r].work /\ disk[r].at \notin {"plain", "foreign"} /\ disk[r] # Absent
      BY <1>3, <1>5, AbsentIs DEF Dirty
    <2> QED BY <1>2, <1>3, <1>5, <2>1, OneChangeSafe DEF CorpusInv
  <1> QED BY <1>4, <1>5

\* A nested source is only changed where it is absent or clean.
LEMMA NestedSafe == ASSUME CorpusInv, CloneNested \/ CheckoutNested PROVE MakesSafely
  <1> DEFINE n == Min(command.left)
  <1>1. CASE disk' = disk
    BY <1>1, SameDiskSafe
  <1>2. CASE disk' # disk
    <2>1. command.does \in {"nested", "checkout"} /\ command.left # {}
      BY DEF CloneNested, CheckoutNested, CorpusInv, MakesInPlace
    <2>2. n \in Sources /\ n \notin Roots
      <3>1. n \in Sources /\ Min(command.groups) \in Roots /\ n \in Nested(Min(command.groups))
        BY <2>1, NextNestedIs
      <3> QED BY <3>1, NestedIs DEF Roots
    <2>3. ~command.fresh
      BY <1>2 DEF CloneNested, CheckoutNested, Place, Fail
    <2>4. Here = disk
      BY <2>3 DEF Here
    <2>5. \E t : disk' = [disk EXCEPT ![n] = t]
      BY <1>2, <2>3 DEF CloneNested, CheckoutNested, Place, Fail
    <2>6. ~disk[n].work /\ disk[n].at \notin {"plain", "foreign"}
      <3>1. CASE CloneNested
        BY <1>2, <2>4, <3>1 DEF CloneNested, Fail, Dirty
      <3>2. CASE CheckoutNested
        BY <2>3, <3>2 DEF CheckoutNested, CorpusInv, MakesInPlace
      <3> QED BY <3>1, <3>2
    <2> HIDE DEF n
    <2> QED BY <2>2, <2>5, <2>6, OneChangeSafe DEF CorpusInv
  <1> QED BY <1>1, <1>2

\* A group that takes its place was not there, with all that is nested in it.
LEMMA FinishSafe == ASSUME CorpusInv, FinishGroup, NEW r, r = Min(command.groups) PROVE MakesSafely
  <1>1. CASE disk' = disk
    BY <1>1, SameDiskSafe
  <1>2. CASE disk' # disk
    <2>1. /\ command.does = "nested" /\ \A n \in Group(r) : Whole(Here[n])
          /\ ~(command.fresh /\ disk[r] # Absent)
          /\ disk' = [n \in Sources |-> IF n \in Group(r) THEN Here[n] ELSE disk[n]]
      BY <1>2 DEF FinishGroup, Fail
    <2>2. command.groups \in SUBSET Roots /\ command.groups # {}
      BY <2>1, CommandIs DEF CorpusInv, CorpusTypeOK, MakesInPlace
    <2>3. r \in Roots /\ r \in Sources
      BY <2>2, NextGroup DEF CorpusInv
    <2>4. command.fresh
      <3> SUFFICES ASSUME ~command.fresh PROVE disk' = disk
        BY <1>2
      <3>1. Here = disk /\ disk \in [Sources -> Trees]
        BY DEF Here, CorpusInv, CorpusTypeOK
      <3> QED BY <2>1, <3>1
    <2>5. ASSUME NEW n \in Group(r) PROVE n \in Sources /\ Whole(disk'[n]) /\ disk[n] = Absent
      BY <2>1, <2>3, <2>4, GroupAbsent DEF CorpusInv, Group, Nested
    <2>6. ASSUME NEW q \in Roots, disk[q] = Absent, disk'[q] # Absent, NEW n \in Group(q) PROVE Whole(disk'[n])
      <3>1. q \in Sources /\ q \in Group(q)
        BY DEF Roots, Group
      <3>2. q \in Group(r)
        BY <2>1, <2>6, <3>1
      <3>3. q = r
        BY <2>3, <3>1, <3>2, OneGroup
      <3> QED BY <2>5, <2>6, <3>3
    <2>7. ASSUME NEW n \in Sources, disk[n].work \/ disk[n].at \in {"plain", "foreign"} PROVE disk'[n] = disk[n]
      <3>1. disk[n] # Absent
        BY <2>7, AbsentIs, TreeIs DEF Absent, Places
      <3>2. n \notin Group(r)
        BY <2>5, <3>1
      <3> QED BY <2>1, <3>2
    <2> QED BY <2>6, <2>7 DEF MakesSafely
  <1> QED BY <1>1, <1>2

\* For any sources, nested in one another to any depth, and whenever the process dies: a group
\* that was not there appears whole or not at all, and what others left is not written over.
THEOREM MaterializationIsSafe == CorpusSpec => MaterializesSafely
  <1>1. ASSUME CorpusInv, [CorpusNext]_corpusVars PROVE [Making => MakesSafely]_corpusVars
    <2> SUFFICES ASSUME Making, CorpusNext PROVE MakesSafely
      BY <1>1
    <2>1. command.does \in {"group", "nested", "checkout"}
      BY DEF Making
    <2>2. CASE EnterGroup \/ CloneNested \/ CheckoutNested
      BY <1>1, <2>2, EnterSafe, NestedSafe
    <2>3. CASE FinishGroup
      <3>1. PICK r : r = Min(command.groups)
        OBVIOUS
      <3> QED BY <1>1, <2>3, <3>1, FinishSafe
    <2>4. CASE Materialize \/ FinishMaterialize \/ Capture \/ TargetsEnd \/ FinishRestore \/ Die
      <3>1. disk' = disk
        BY <2>4 DEF Materialize, FinishMaterialize, Capture, TargetsEnd, FinishRestore, Die, Fail
      <3> QED BY <3>1, SameDiskSafe
    <2>5. ~(TargetWrites \/ EnterRestore \/ RestoreSource)
      BY <2>1 DEF TargetWrites, EnterRestore, RestoreSource
    <2>6. ~OthersWork
      BY <2>1 DEF OthersWork, Idle
    <2> QED BY <1>1, <2>2, <2>3, <2>4, <2>5, <2>6 DEF CorpusNext
  <1>2. [Making => MakesSafely]_corpusVars <=>
          [Making =>
             /\ \A r \in Roots : disk[r] = Absent /\ disk'[r] # Absent => \A n \in Group(r) : Whole(disk'[n])
             /\ \A n \in Sources : disk[n].work \/ disk[n].at \in {"plain", "foreign"} => disk'[n] = disk[n]
          ]_corpusVars
    BY DEF MakesSafely
  <1> QED BY <1>1, <1>2, CorpusAlways, PTL DEF CorpusSpec, MaterializesSafely

-----------------------------------------------------------------------------
\* A benchmark that was told of no failure has every source as pinned.
LEMMA AllRestored ==
    ASSUME CorpusInv, FinishRestore, said' = "benchmarked"
    PROVE  Verified /\ \A n \in Sources : disk[n].junk \subseteq ignored[n]
  <1>1. command.does = "restore" /\ command.groups = {} /\ ~command.failed
    BY DEF FinishRestore, End
  <1>2. \A r \in Roots : AsBefore(r)
    BY <1>1 DEF CorpusInv, Tried
  <1>3. ASSUME NEW n \in Sources PROVE Whole(disk[n]) /\ disk[n].junk \subseteq ignored[n]
    BY <1>2, OneGroup DEF AsBefore, PutBack
  <1> QED BY <1>3 DEF Verified

\* For any sources, and whichever Git commands fail: targets run only in checkouts that are as
\* pinned, a benchmark that reports a result leaves them so, with no new ignored path, and one
\* group that cannot be restored costs no other.
THEOREM RestorationIsDone == CorpusSpec => RestoresWhatItCan
  <1> DEFINE Traceless == /\ command = Idle /\ command'.does = "run" => Verified
                          /\ FinishMaterialize /\ said' = "materialized" => Verified
                          /\ FinishRestore /\ said' = "benchmarked" =>
                               Verified /\ \A n \in Sources : disk[n].junk \subseteq ignored[n]
  <1>1. CorpusInv => RestoresTheOthers
    BY DEF CorpusInv, Tried, Excused, RestoresTheOthers
  <1>2. ASSUME CorpusInv, [CorpusNext]_corpusVars PROVE [Traceless]_corpusVars
    <2> SUFFICES ASSUME CorpusNext PROVE Traceless
      BY <1>2
    <2>1. ASSUME command = Idle, command'.does = "run" PROVE Verified
      <3>1. command.does = "nothing" /\ command'.does # "nothing"
        BY <2>1 DEF Idle
      <3>2. ~(EnterGroup \/ CloneNested \/ CheckoutNested \/ FinishGroup \/ FinishMaterialize)
        BY <3>1 DEF EnterGroup, CloneNested, CheckoutNested, FinishGroup, FinishMaterialize
      <3>3. ~(TargetWrites \/ TargetsEnd \/ EnterRestore \/ RestoreSource \/ FinishRestore \/ Die)
        BY <2>1, <3>1 DEF TargetWrites, TargetsEnd, EnterRestore, RestoreSource, FinishRestore, Die
      <3>4. ~Materialize
        <4> SUFFICES ASSUME Materialize PROVE FALSE
          OBVIOUS
        <4>1. command'.does = "group"
          BY DEF Materialize
        <4> QED BY <2>1, <4>1
      <3>5. ~OthersWork
        BY <3>1 DEF OthersWork
      <3>6. Capture
        BY <1>2, <3>2, <3>3, <3>4, <3>5 DEF CorpusNext
      <3> QED BY <3>1, <3>6 DEF Capture
    <2>2. ASSUME FinishMaterialize, said' = "materialized" PROVE Verified
      BY <2>2 DEF FinishMaterialize, End
    <2> QED BY <1>2, <2>1, <2>2, AllRestored
  <1>3. CorpusSpec => [][Traceless]_corpusVars
    <2> HIDE DEF Traceless
    <2> QED BY <1>2, CorpusAlways, PTL DEF CorpusSpec
  <1>4. CorpusSpec => LeavesNoTrace
    BY <1>3 DEF LeavesNoTrace
  <1> QED BY <1>1, <1>4, CorpusAlways, PTL DEF RestoresWhatItCan

-----------------------------------------------------------------------------
\* Dependencies come earlier in the manifest; exactly the stages behind the cursor have
\* a v, and a stage at it or after it names no dependency that blocks it.
Ordered ==
    /\ \A s \in Stages : dependsOn[s] \subseteq 1 .. (s - 1)
    /\ \A s \in Stages : status[s] = "none" <=> s >= cursor
    /\ \A s \in Stages : s >= cursor => blockedBy[s] = {}

\* A command runs at a stage of which no dependency failed, and a retry follows an
\* attempt without the network, where the run allows one.
Attempting ==
    /\ pc \in {"attempt", "retry"} => cursor \in Stages /\ Failing(cursor) = {}
    /\ pc = "retry" =>
         /\ cursor = BuildStage /\ network[cursor] = <<"deny">>
         /\ options.mode = "strict" /\ options.bootstrap = TRUE

\* A command is sandboxed while it runs, the overlay is held until the run ends, and only
\* the retry has the network open.
Confined ==
    /\ pc \in {"start", "stage", "done", "thrown"} => invocation = "none"
    /\ pc = "start" => overlay = "none"
    /\ pc \in {"stage", "attempt", "retry"} => overlay \in {"none", "held"}
    /\ pc = "done" => overlay \in {"none", "removed", "left"}
    /\ pc = "thrown" => overlay # "held"
    /\ pc = "attempt" => invocation # "bootstrap-allow"
    /\ \A s \in Stages : network[s] = <<"deny", "bootstrap-allow">> =>
         s = BuildStage /\ options.mode = "strict" /\ options.bootstrap = TRUE

\* Only strict runs have an overlay, only constrained ones directories of commands: held
\* by the attempt at the cursor, and staying where the run was thrown out.
Profiled ==
    /\ overlay # "none" => options.mode = "strict"
    /\ \A s \in Stages :
         /\ profile[s] # "none" => options.mode = "constrained"
         /\ profile[s] = "held" => pc = "attempt" /\ cursor = s
         /\ profile[s] \in Staying => pc = "thrown" /\ cursor = s
    /\ pc = "attempt" /\ options.mode = "constrained" => profile[cursor] = "held"

SequentialInv == TypeOK /\ Ordered /\ Attempting /\ Confined /\ Profiled

-----------------------------------------------------------------------------
\* What is appended to a sequence of one element makes a sequence of two.
LEMMA AppendToOne == ASSUME NEW x, NEW y PROVE Append(<<x>>, y) = <<x, y>>
  <1> DEFINE a == Append(<<x>>, y)
             b == <<x, y>>
  <1>1. a \in Seq({x, y}) /\ b \in Seq({x, y}) /\ Len(a) = 2 /\ Len(b) = 2
    OBVIOUS
  <1>2. a[1] = x /\ a[2] = y /\ b[1] = x /\ b[2] = y
    OBVIOUS
  <1> HIDE DEF a, b
  <1>3. \A i \in 1 .. 2 : i = 1 \/ i = 2
    OBVIOUS
  <1>4. \A i \in 1 .. 2 : a[i] = b[i]
    BY <1>2, <1>3
  <1>5. a = b
    BY <1>1, <1>4, SeqEqual
  <1> QED BY <1>5 DEF a, b

\* A run begins at the first stage, with nothing open.
LEMMA SequentialInitially == Init => SequentialInv
  <1> SUFFICES ASSUME Init PROVE SequentialInv
    OBVIOUS
  <1>1. TypeOK
    <2>1. 1 \in 1 .. (N + 1)
      BY SequentialAssumption
    <2>2. <<>> \in Attempts
      BY DEF Attempts
    <2> QED BY <2>1, <2>2 DEF Init, TypeOK, Directory
  <1>2. Ordered /\ Attempting
    BY SequentialAssumption DEF Init, Ordered, Attempting, Stages
  <1>3. Confined
    <2>1. \A s \in Stages : network[s] = <<>>
      BY DEF Init
    <2>2. <<>> # <<"deny", "bootstrap-allow">>
      OBVIOUS
    <2> QED BY <2>1, <2>2 DEF Init, Confined
  <1>4. Profiled
    BY DEF Init, Profiled, Staying
  <1> QED BY <1>1, <1>2, <1>3, <1>4 DEF SequentialInv

\* Leaving the try block gives the overlay back, and other steps do not touch it.
LEMMA OverlayLeft ==
    ASSUME TypeOK, LeaveTry("thrown")
    PROVE  /\ overlay' \in Directory
           /\ overlay' # "held"
           /\ overlay' # "none" => overlay # "none"
  BY DEF LeaveTry, TypeOK, Directory

\* A verdict for the stage at the cursor moves the cursor past it.
LEMMA VerdictKeepsOrder ==
    ASSUME TypeOK, Ordered, NEW s \in Stages, cursor = s, cursor' = s + 1,
           NEW v \in Executed \cup {"blocked"}, status' = [status EXCEPT ![s] = v],
           UNCHANGED dependsOn, \A t \in Stages : t > s => blockedBy'[t] = blockedBy[t]
    PROVE  Ordered' /\ cursor' \in 1 .. (N + 1) /\ status' \in [Stages -> Executed \cup {"blocked", "none"}]
  <1>1. s \in 1 .. N /\ N \in Nat /\ v # "none"
    BY SequentialAssumption DEF Stages, Executed
  <1>2. status' \in [Stages -> Executed \cup {"blocked", "none"}]
    BY DEF TypeOK
  <1>3. \A t \in Stages : status'[t] = "none" <=> t >= cursor'
    <2>1. \A t \in Stages : status'[t] = IF t = s THEN v ELSE status[t]
      BY DEF TypeOK
    <2>2. \A t \in Stages : t \in Nat /\ (status[t] = "none" <=> t >= s)
      BY DEF Ordered, Stages
    <2>3. \A t \in Nat : t >= s + 1 <=> t # s /\ t >= s
      BY <1>1
    <2> QED BY <1>1, <2>1, <2>2, <2>3
  <1>4. \A t \in Stages : t >= cursor' => blockedBy'[t] = {}
    BY <1>1 DEF Ordered, Stages
  <1>5. cursor' \in 1 .. (N + 1)
    BY <1>1
  <1> QED BY <1>2, <1>3, <1>4, <1>5 DEF Ordered

\* Every step keeps the invariant.
LEMMA SequentialStep == SequentialInv /\ [Next]_sequentialVars => SequentialInv'
  <1> SUFFICES ASSUME SequentialInv, [Next]_sequentialVars PROVE SequentialInv'
    OBVIOUS
  <1>0. TypeOK /\ Ordered /\ Attempting /\ Confined /\ N \in Nat
    BY SequentialAssumption DEF SequentialInv
  <1>p. Profiled
    BY DEF SequentialInv
  <1>1. CASE Start
    <2>1. TypeOK'
      BY <1>0, <1>1 DEF Start, TypeOK, Directory
    <2>2. Ordered' /\ Attempting'
      BY <1>0, <1>1 DEF Start, Ordered, Attempting
    <2>3. Confined'
      BY <1>0, <1>1 DEF Start, Confined
    <2>4. Profiled'
      BY <1>0, <1>p, <1>1 DEF Start, Profiled, Confined, Staying
    <2> QED BY <2>1, <2>2, <2>3, <2>4 DEF SequentialInv
  <1>2. CASE Finish
    <2>1. TypeOK'
      BY <1>0, <1>2 DEF Finish, TypeOK, LeaveTry, Directory
    <2>2. Ordered' /\ Attempting'
      BY <1>0, <1>2 DEF Finish, Ordered, Attempting
    <2>3. Confined'
      BY <1>0, <1>2 DEF Finish, Confined, LeaveTry
    <2>4. Profiled'
      BY <1>0, <1>p, <1>2 DEF Finish, Profiled, LeaveTry, Staying
    <2> QED BY <2>1, <2>2, <2>3, <2>4 DEF SequentialInv
  <1>3. ASSUME NEW s \in Stages, Blocked(s) PROVE SequentialInv'
    <2>1. Failing(s) \in SUBSET Stages
      BY <1>0 DEF TypeOK, Failing
    <2>2. Ordered' /\ cursor' \in 1 .. (N + 1)
          /\ status' \in [Stages -> Executed \cup {"blocked", "none"}]
      <3>1. \A t \in Stages : t > s => blockedBy'[t] = blockedBy[t]
        BY <1>0, <1>3 DEF Blocked, TypeOK, Stages
      <3> QED BY <1>0, <1>3, <3>1, VerdictKeepsOrder DEF Blocked
    <2>3. TypeOK'
      BY <1>0, <1>3, <2>1, <2>2 DEF Blocked, TypeOK
    <2>4. Attempting' /\ Confined'
      BY <1>0, <1>3 DEF Blocked, Attempting, Confined
    <2>5. Profiled'
      BY <1>p, <1>3 DEF Blocked, Profiled, Staying
    <2> QED BY <2>2, <2>3, <2>4, <2>5 DEF SequentialInv
  <1>4. ASSUME NEW s \in Stages, Prepare(s) PROVE SequentialInv'
    <2>1. /\ pc = "stage" /\ cursor = s /\ Failing(s) = {}
          /\ UNCHANGED <<dependsOn, options, network, cursor, status, blockedBy>>
      BY <1>4 DEF Prepare
    <2>2. Ordered'
      BY <1>0, <2>1 DEF Ordered
    <2>3. CASE pc' = "thrown" /\ LeaveTry("thrown") /\ UNCHANGED <<invocation, profile>>
      <3>1. TypeOK'
        BY <1>0, <2>1, <2>3, OverlayLeft DEF TypeOK
      <3>2. Attempting' /\ Confined'
        BY <1>0, <2>1, <2>3, OverlayLeft DEF Attempting, Confined
      <3>3. Profiled'
        BY <1>0, <1>p, <2>1, <2>3, OverlayLeft DEF Profiled, Staying
      <3> QED BY <2>2, <3>1, <3>2, <3>3 DEF SequentialInv
    <2>4. CASE /\ pc' = "thrown" /\ LeaveTry("thrown") /\ UNCHANGED invocation
               /\ options.mode = "constrained" /\ profile' = [profile EXCEPT ![s] = "lost"]
      <3>1. TypeOK'
        BY <1>0, <2>1, <2>4, OverlayLeft DEF TypeOK, Directory
      <3>2. Attempting' /\ Confined'
        BY <1>0, <2>1, <2>4, OverlayLeft DEF Attempting, Confined
      <3>3. Profiled'
        BY <1>0, <1>p, <2>1, <2>4, OverlayLeft DEF Profiled, Staying, TypeOK
      <3> QED BY <2>2, <3>1, <3>2, <3>3 DEF SequentialInv
    <2>5. CASE /\ pc' = "attempt" /\ invocation' = (IF Sandboxed THEN "deny" ELSE "none")
               /\ UNCHANGED overlay
               /\ profile' = IF options.mode = "constrained" THEN [profile EXCEPT ![s] = "held"] ELSE profile
      <3>1. TypeOK'
        BY <1>0, <2>1, <2>5 DEF TypeOK, Directory
      <3>2. Attempting' /\ Confined'
        BY <1>0, <2>1, <2>5 DEF Attempting, Confined, Failing
      <3>3. Profiled'
        BY <1>0, <1>p, <2>1, <2>5 DEF Profiled, Staying, TypeOK
      <3> QED BY <2>2, <3>1, <3>2, <3>3 DEF SequentialInv
    <2> QED BY <1>4, <2>3, <2>4, <2>5 DEF Prepare
  <1>5. ASSUME NEW s \in Stages, Attempt(s) PROVE SequentialInv'
    <2>1. /\ network' = [network EXCEPT ![s] = <<"deny">>] /\ pc = "attempt" /\ cursor = s
          /\ UNCHANGED <<dependsOn, options, blockedBy>>
      BY <1>5 DEF Attempt
    <2>2. network' \in [Stages -> Attempts] /\ network'[s] = <<"deny">>
      BY <1>0, <2>1 DEF TypeOK, Attempts
    <2>3. \A t \in Stages : network'[t] = <<"deny", "bootstrap-allow">> =>
            t = BuildStage /\ options.mode = "strict" /\ options.bootstrap = TRUE
      <3>1. <<"deny">> # <<"deny", "bootstrap-allow">>
        OBVIOUS
      <3> QED BY <1>0, <2>1, <3>1 DEF TypeOK, Confined
    <2>4. CASE \E v \in Executed : Record(s, v) /\ LeaveCommand(s, "removed")
      <3>1. Ordered' /\ cursor' \in 1 .. (N + 1)
            /\ status' \in [Stages -> Executed \cup {"blocked", "none"}]
        BY <1>0, <2>1, <2>4, VerdictKeepsOrder DEF Record
      <3>2. TypeOK'
        BY <1>0, <2>1, <2>2, <2>4, <3>1 DEF TypeOK, Record, LeaveCommand, Directory
      <3>3. Attempting' /\ Confined'
        BY <1>0, <2>1, <2>3, <2>4 DEF Attempting, Confined, Record, LeaveCommand
      <3>4. Profiled'
        BY <1>0, <1>p, <2>1, <2>4 DEF Profiled, Record, LeaveCommand, Staying, TypeOK
      <3> QED BY <3>1, <3>2, <3>3, <3>4 DEF SequentialInv
    <2>5. CASE /\ pc' = "thrown" /\ LeaveTry("thrown") /\ UNCHANGED <<cursor, status>>
               /\ LeaveCommand(s, "removed") \/ LeaveCommand(s, "left")
      <3>1. TypeOK'
        BY <1>0, <2>1, <2>2, <2>5, OverlayLeft DEF TypeOK, LeaveCommand, Directory
      <3>2. Ordered' /\ Attempting'
        BY <1>0, <2>1, <2>5 DEF Ordered, Attempting
      <3>3. Confined'
        BY <2>1, <2>3, <2>5, <1>0, OverlayLeft DEF Confined, LeaveCommand
      <3>4. Profiled'
        BY <1>0, <1>p, <2>1, <2>5, OverlayLeft DEF Profiled, LeaveCommand, Staying, TypeOK
      <3> QED BY <3>1, <3>2, <3>3, <3>4 DEF SequentialInv
    <2>6. CASE /\ \E v \in Executed : MayRetry(s, v)
               /\ pc' = "retry" /\ invocation' = "bootstrap-allow"
               /\ UNCHANGED <<overlay, profile, cursor, status>>
      <3>1. s = BuildStage /\ options.mode = "strict" /\ options.bootstrap
        BY <2>6 DEF MayRetry
      <3>2. TypeOK'
        BY <1>0, <2>1, <2>2, <2>6 DEF TypeOK
      <3>3. Ordered'
        BY <1>0, <2>1, <2>6 DEF Ordered
      <3>4. Attempting'
        BY <1>0, <2>1, <2>2, <2>6, <3>1 DEF Attempting, Failing, TypeOK
      <3>5. Confined'
        BY <1>0, <2>1, <2>3, <2>6 DEF Confined
      <3>6. Profiled'
        BY <1>p, <2>1, <2>6, <3>1 DEF Profiled, Staying
      <3> QED BY <3>2, <3>3, <3>4, <3>5, <3>6 DEF SequentialInv
    <2> QED BY <1>5, <2>4, <2>5, <2>6 DEF Attempt
  <1>6. ASSUME NEW s \in Stages, Retry(s) PROVE SequentialInv'
    <2>1. /\ pc = "retry" /\ cursor = s /\ invocation' = "none"
          /\ UNCHANGED <<dependsOn, options, profile, blockedBy>>
      BY <1>6 DEF Retry
    <2>2. /\ s = BuildStage /\ options.mode = "strict" /\ options.bootstrap = TRUE
          /\ network' = [network EXCEPT ![s] = <<"deny", "bootstrap-allow">>]
      <3>1. Append(<<"deny">>, "bootstrap-allow") = <<"deny", "bootstrap-allow">>
        BY AppendToOne
      <3>2. /\ s = BuildStage /\ options.mode = "strict" /\ options.bootstrap = TRUE
            /\ network[s] = <<"deny">>
        BY <1>0, <2>1 DEF Attempting
      <3>3. network' = [network EXCEPT ![s] = Append(network[s], "bootstrap-allow")]
        BY <1>6 DEF Retry
      <3> QED BY <3>1, <3>2, <3>3
    <2>3. /\ network' \in [Stages -> Attempts]
          /\ \A t \in Stages : t # s => network'[t] = network[t]
      BY <1>0, <2>2 DEF TypeOK, Attempts
    <2>4. CASE pc' = "thrown" /\ LeaveTry("thrown") /\ UNCHANGED <<cursor, status>>
      <3>1. TypeOK'
        BY <1>0, <2>1, <2>3, <2>4, OverlayLeft DEF TypeOK
      <3>2. Ordered' /\ Attempting'
        BY <1>0, <2>1, <2>4 DEF Ordered, Attempting
      <3>3. Confined'
        BY <1>0, <2>1, <2>2, <2>3, <2>4, OverlayLeft DEF Confined
      <3>4. Profiled'
        BY <1>0, <1>p, <2>1, <2>4, OverlayLeft DEF Profiled, Staying
      <3> QED BY <3>1, <3>2, <3>3, <3>4 DEF SequentialInv
    <2>5. CASE \E v \in Executed : Record(s, v)
      <3>1. Ordered' /\ cursor' \in 1 .. (N + 1)
            /\ status' \in [Stages -> Executed \cup {"blocked", "none"}]
        BY <1>0, <2>1, <2>5, VerdictKeepsOrder DEF Record
      <3>2. TypeOK'
        BY <1>0, <2>1, <2>3, <2>5, <3>1 DEF TypeOK, Record
      <3>3. Attempting'
        BY <2>5 DEF Attempting, Record
      <3>4. Confined'
        BY <1>0, <2>1, <2>2, <2>3, <2>5 DEF Confined, Record
      <3>5. Profiled'
        BY <1>p, <2>1, <2>2, <2>5 DEF Profiled, Record, Staying
      <3> QED BY <3>1, <3>2, <3>3, <3>4, <3>5 DEF SequentialInv
    <2> QED BY <1>6, <2>4, <2>5 DEF Retry
  <1>7. CASE UNCHANGED sequentialVars
    BY <1>0, <1>p, <1>7
       DEF sequentialVars, SequentialInv, TypeOK, Ordered, Attempting, Confined, Profiled, Failing
  <1> QED BY <1>1, <1>2, <1>3, <1>4, <1>5, <1>6, <1>7 DEF Next

\* However many stages there are and wherever a run ends, by its report or by an exception,
\* every directory it made was removed, unless its own removal failed or the call that made
\* it threw; at most one stays.  What a command works in is there while it runs.  And the
\* network was opened only for the build stage, once, in a strict run that allows it,
\* after an attempt without it.
THEOREM RunnerClosesWhatItOpens == Spec => []ClosesWhatItOpens
  <1>1. SequentialInv => ClosesWhatItOpens
    <2> SUFFICES ASSUME SequentialInv PROVE ClosesWhatItOpens
      OBVIOUS
    <2>0. TypeOK /\ Confined /\ Profiled
      BY DEF SequentialInv
    <2>1. LeftOnlyByFailure
      <3>1. pc \in {"done", "thrown"} =>
              invocation = "none" /\ overlay # "held" /\ \A s \in Stages : profile[s] # "held"
        BY <2>0 DEF Confined, Profiled
      <3>2. overlay = "lost" => pc = "thrown"
        BY <2>0 DEF TypeOK, Confined
      <3>3. ASSUME NEW s \in Stages, profile[s] \in Staying
            PROVE  pc = "thrown" /\ cursor = s /\ overlay \notin Staying
                     /\ \A t \in Stages \ {s} : profile[t] \notin Staying
        BY <2>0, <3>3 DEF Profiled, Staying
      <3> QED BY <2>0, <3>1, <3>2, <3>3 DEF LeftOnlyByFailure
    <2>3. InPlace
      BY <2>0 DEF Confined, Profiled, InPlace
    <2>2. ASSUME NEW s \in Stages,
                 (invocation = "bootstrap-allow" /\ cursor = s) \/ network[s] = <<"deny", "bootstrap-allow">>
          PROVE  /\ s = BuildStage /\ options = [mode |-> "strict", bootstrap |-> TRUE]
                 /\ network[s] # <<>>
      <3>1. s = BuildStage /\ options.mode = "strict" /\ options.bootstrap = TRUE
        <4>1. CASE network[s] = <<"deny", "bootstrap-allow">>
          BY <4>1 DEF SequentialInv, Confined
        <4>2. CASE invocation = "bootstrap-allow" /\ cursor = s
          BY <4>2 DEF SequentialInv, Confined, Attempting, TypeOK
        <4> QED BY <2>2, <4>1, <4>2
      <3>2. network[s] \in {<<"deny">>, <<"deny", "bootstrap-allow">>}
        BY <2>2 DEF SequentialInv, Confined, Attempting, TypeOK
      <3>3. <<"deny">> # <<>> /\ <<"deny", "bootstrap-allow">> # <<>>
        OBVIOUS
      <3>4. options = [mode |-> "strict", bootstrap |-> TRUE]
        BY <3>1 DEF SequentialInv, TypeOK
      <3> QED BY <3>1, <3>2, <3>3, <3>4
    <2> QED BY <2>1, <2>2, <2>3 DEF ClosesWhatItOpens, NetworkOpensOnce
  <1> QED BY <1>1, SequentialInitially, SequentialStep, PTL DEF Spec

-----------------------------------------------------------------------------
\* A verdict recorded in a run is a report of the stage graph.
LEMMA RecordReports ==
    ASSUME SequentialInv, NEW s \in Stages, cursor = s, Failing(s) = {},
           NEW v \in Executed, Record(s, v), UNCHANGED <<dependsOn, blockedBy>>
    PROVE  Graph!Report(s)
  <1>1. Graph!Failing(s) = {} /\ status[s] = "none" /\ blockedBy[s] = {}
    BY DEF SequentialInv, Ordered, Failing, Graph!Failing, Stages
  <1>2. \A d \in dependsOn[s] : status[d] # "none"
    BY SequentialAssumption DEF SequentialInv, Ordered, Stages
  <1>3. blockedBy' = [blockedBy EXCEPT ![s] = Graph!Failing(s)]
    BY <1>1 DEF SequentialInv, TypeOK
  <1>4. v \in Graph!Statuses /\ v # "blocked"
    BY DEF Graph!Statuses, Graph!Executed, Executed
  <1> QED BY <1>1, <1>2, <1>3, <1>4 DEF Graph!Report, Record

\* Every step of the runner is a report of the stage graph, or none that it sees.
LEMMA SequentialGraphStep ==
    SequentialInv /\ [Next]_sequentialVars => [Graph!GraphNext]_Graph!graphVars
  <1> SUFFICES ASSUME SequentialInv, [Next]_sequentialVars
               PROVE  Graph!GraphNext \/ UNCHANGED <<dependsOn, status, blockedBy>>
    BY DEF Graph!graphVars
  <1>0. Graph!Stages = Stages
    BY DEF Graph!Stages, Stages
  <1>1. CASE Start \/ Finish \/ UNCHANGED sequentialVars
    BY <1>1 DEF Start, Finish, sequentialVars
  <1>2. ASSUME NEW s \in Stages, Prepare(s) PROVE UNCHANGED <<dependsOn, status, blockedBy>>
    BY <1>2 DEF Prepare
  <1>3. ASSUME NEW s \in Stages, Blocked(s) PROVE Graph!Report(s)
    <2>1. Failing(s) = Graph!Failing(s)
      BY DEF Failing, Graph!Failing
    <2>2. status[s] = "none" /\ \A d \in dependsOn[s] : status[d] # "none"
      BY <1>3, SequentialAssumption DEF Blocked, SequentialInv, Ordered, Stages
    <2>3. "blocked" \in Graph!Statuses
      BY DEF Graph!Statuses
    <2> QED BY <1>3, <2>1, <2>2, <2>3 DEF Blocked, Graph!Report
  <1>4. ASSUME NEW s \in Stages, Attempt(s) \/ Retry(s)
        PROVE  Graph!Report(s) \/ UNCHANGED <<dependsOn, status, blockedBy>>
    <2>1. cursor = s /\ Failing(s) = {} /\ UNCHANGED <<dependsOn, blockedBy>>
      BY <1>4 DEF Attempt, Retry, SequentialInv, Attempting
    <2>2. UNCHANGED status \/ \E v \in Executed : Record(s, v)
      BY <1>4 DEF Attempt, Retry
    <2> QED BY <2>1, <2>2, RecordReports
  <1> QED BY <1>0, <1>1, <1>2, <1>3, <1>4 DEF Next, Graph!GraphNext

\* For every number of stages and every graph the sequential runner gives the verdicts the
\* stage graph promises: one to each stage, after those it depends on, "blocked" exactly
\* when one of them did not pass, and never a second one.
THEOREM SequentialImplementsGraph == Spec => ImplementsStageGraph
  <1>1. Init => Graph!GraphInit
    BY DEF Init, Graph!GraphInit, Stages, Graph!Stages
  <1> QED BY <1>1, SequentialInitially, SequentialStep, SequentialGraphStep, PTL
          DEF Spec, ImplementsStageGraph, Graph!GraphSpec
===============================================================================
