-------------------------- MODULE BuildAgentProofs --------------------------
(***************************************************************************)
(* Theorems about module BuildAgent, for every number of builds, slots,    *)
(* rounds and assets.                                                      *)
(***************************************************************************)
EXTENDS BuildAgentProperties, BuildRunnerProofs

(* A step of one agent that the runner does not see.                       *)
Edits(b, w) ==
    /\ work[b] # Idle
    /\ work' = [work EXCEPT ![b] = w]
    /\ UNCHANGED runnerVars

(* What the last step of an agent reports are results.                     *)
LEMMA MadeIsResult ==
    ASSUME work \in [Builds -> Work], NEW b \in Builds
    PROVE  Made(b) \in Results
<1>1. work[b].db \in BOOLEAN /\ work[b].contract \in BOOLEAN
  BY DEF Work
<1> QED BY <1>1, ResultsAssumption DEF Made

(***************************************************************************)
(* Every step of an agent is one of the runner's.                          *)
(***************************************************************************)

(* An agent goes through the steps of in-memory-build.ts, and what it      *)
(* tells the service is a report the runner allows, or nothing.            *)
LEMMA AgentStepIsRunnerStep ==
    ASSUME work \in [Builds -> Work], [AgentNext]_agentVars
    PROVE  [Next]_runnerVars
<1>1. ASSUME NEW b \in Builds, Accept(b) PROVE Next
  BY <1>1 DEF Accept, Next
<1>2. ASSUME NEW b \in Builds, Progress(b) PROVE Next
  BY <1>2 DEF Progress, Next, AgentStep
<1>3. ASSUME NEW b \in Builds, Reports(b) PROVE Next
  <2>1. ReportDone(b, Made(b)) \/ ReportFailed(b) \/ ReportLost(b)
    BY <1>3 DEF Reports
  <2> QED BY <2>1, MadeIsResult DEF Next, AgentStep
<1>4. ASSUME NEW b \in Builds, Finishes(b) PROVE Next
  BY <1>4 DEF Finishes, Next, AgentStep
<1>5. ASSUME NEW b \in Builds,
             \/ Seed(b) \/ Provision(b) \/ ModelEnds(b) \/ InstallAwaited(b)
             \/ NextBuild(b) \/ Gate(b) \/ DeployContract(b) \/ Deploy(b)
             \/ Throws(b) \/ AssetStarts(b) \/ AssetEnds(b) \/ InstallEnds(b)
      PROVE  UNCHANGED runnerVars
  BY <1>5 DEF Seed, Provision, ModelEnds, InstallAwaited, NextBuild, Gate,
     DeployContract, Deploy, Throws, AssetStarts, AssetEnds, InstallEnds
<1>6. ASSUME NEW d \in resolving, EntryUrlResolved(d) PROVE Next
  BY <1>6 DEF Next
<1>7. CASE GoesDown
  BY <1>7 DEF GoesDown, Next
<1>8. CASE UNCHANGED agentVars
  BY <1>8 DEF agentVars
<1> QED BY <1>1, <1>2, <1>3, <1>4, <1>5, <1>6, <1>7, <1>8 DEF AgentNext, Works

(***************************************************************************)
(* What an agent has made.                                                 *)
(***************************************************************************)

(* The work of a build that is done, or is being recorded as done.         *)
ShippedAs(b, w, r) ==
    /\ w.at \in {"answered", "ended"}
    /\ DryRun \/ w.live = "complete"
    /\ r = [db |-> b \in NeedsData, contract |-> b \in Onchain /\ ~DryRun]
    /\ w.install = "ok" /\ w.drawing = 0

(* What an agent has made when it stands at each of its steps: the source  *)
(* is complete once it has passed the gate, the install is awaited before  *)
(* the first build, and no tool call outlives a round.                     *)
MadeBy(b, w) ==
    /\ w.live \in {Null, "complete"}
    /\ w.at = "seed" => w.round = 0 /\ ~w.db
    /\ w.at = "database" => w.round = 0 /\ b \in NeedsData
    /\ w.at \in {"model", "install", "build", "gate", "contract", "deploy", "done"} =>
          (w.db <=> b \in NeedsData)
    /\ w.at \in {"seed", "database", "model", "install", "build", "gate", "contract"} =>
          ~w.contract
    /\ w.at \in {"install", "build", "gate", "contract", "deploy", "done"} =>
          w.drawing = 0
    /\ (\/ w.at \in {"build", "gate", "contract", "deploy", "done"}
        \/ w.at = "model" /\ w.round > 0) => w.install = "ok"
    /\ w.at \in {"contract", "deploy"} => w.source = "complete" /\ ~DryRun
    /\ w.at = "contract" => b \in Onchain
    /\ w.at = "deploy" => (w.contract <=> b \in Onchain)
    /\ w.at = "done" => /\ DryRun \/ w.live = "complete"
                        /\ w.contract <=> b \in Onchain /\ ~DryRun

(* The images and voices made and being made.                              *)
WithinBudget(w) ==
    \/ w.assets + w.drawing <= AssetBudget + ParallelTools - 1
    \/ w.assets + w.drawing = 0

(* An agent that was not accepted has made nothing, every other has made   *)
(* what belongs to its step, and what is done, or about to be, shipped.    *)
AgentInv ==
    /\ work \in [Builds -> Work]
    /\ \A b \in Builds : agents[b] = "none" => work[b] = Idle
    /\ \A b \in Builds : MadeBy(b, work[b]) /\ WithinBudget(work[b])
    /\ \A d \in resolving : ShippedAs(d.build, work[d.build], d.result)
    /\ \A b \in Builds : (builds[b] # Null /\ builds[b].status = "done") =>
          ShippedAs(b, work[b], builds[b].result)

(* The work of an agent before its first step.                             *)
LEMMA IdleWork ==
    ASSUME NEW b
    PROVE  /\ Idle \in Work /\ MadeBy(b, Idle) /\ WithinBudget(Idle)
           /\ LET w == [Idle EXCEPT !.at = "seed"]
              IN  w \in Work /\ MadeBy(b, w) /\ WithinBudget(w)
<1> DEFINE w == [Idle EXCEPT !.at = "seed"]
<1>1. 0 \in 0 .. MaxRounds - 1 /\ 0 \in 0 .. ParallelTools
  BY AgentAssumption
<1>2. Idle \in Work
  BY <1>1 DEF Idle, Starter, Work, Steps, Sources
<1>3. w \in Work
  BY <1>1 DEF Idle, Starter, Work, Steps, Sources
<1>4. MadeBy(b, Idle) /\ WithinBudget(Idle)
  BY DEF MadeBy, WithinBudget, Idle
<1>5. MadeBy(b, w) /\ WithinBudget(w)
  BY DEF MadeBy, WithinBudget, Idle
<1> QED BY <1>2, <1>3, <1>4, <1>5

(* A step of an agent that leaves work of the same kind, and none that was *)
(* shipped, keeps the invariant.                                           *)
LEMMA EditKeeps ==
    ASSUME RunnerInv, AgentInv, NEW b \in Builds, NEW w, Edits(b, w),
           w \in Work, MadeBy(b, w), WithinBudget(w),
           \/ work[b].at \notin {"answered", "ended"}
           \/ work[b].drawing > 0 \/ work[b].install = "running"
    PROVE  AgentInv'
<1>1. work' \in [Builds -> Work] /\ work'[b] = w
  BY DEF Edits, AgentInv
<1>2. \A c \in Builds : c # b => work'[c] = work[c]
  BY DEF Edits, AgentInv
<1>3. agents[b] # "none"
  BY DEF Edits, AgentInv
<1>4. \A r : ~ShippedAs(b, work[b], r)
  BY DEF ShippedAs
<1>5. /\ UNCHANGED <<builds, agents, resolving>>
      /\ \A d \in resolving : d.build # b
      /\ ~(builds[b] # Null /\ builds[b].status = "done")
  BY <1>4 DEF Edits, runnerVars, AgentInv
<1>6. \A d \in resolving : ShippedAs(d.build, work'[d.build], d.result)
  BY <1>2, <1>5 DEF AgentInv, RunnerInv, TypeOK, DoneReport
<1> QED BY <1>1, <1>2, <1>3, <1>5, <1>6 DEF AgentInv

(* A step that leaves sound work.                                          *)
Keeps(b) ==
    \E w : /\ Edits(b, w)
           /\ w \in Work /\ MadeBy(b, w) /\ WithinBudget(w)
           /\ \/ work[b].at \notin {"answered", "ended"}
              \/ work[b].drawing > 0 \/ work[b].install = "running"

(* So do the steps before the first build.                                 *)
LEMMA Prepares ==
    ASSUME AgentInv, NEW b \in Builds,
           \/ Seed(b) \/ Provision(b) \/ ModelEnds(b)
           \/ InstallAwaited(b) \/ InstallEnds(b)
    PROVE  Keeps(b)
<1> USE DEF Keeps, Edits, AgentInv, At, Goto
<1>a. work[b].at # "none" \/ work[b].install = "running" => work[b] # Idle
  BY DEF Idle
<1>0. work[b] \in Work /\ MadeBy(b, work[b]) /\ WithinBudget(work[b])
  OBVIOUS
<1>1. CASE Seed(b)
  <2>1. CASE b \in NeedsData
    <3> DEFINE w == [work[b] EXCEPT !.at = IF HasNeon THEN "database" ELSE "failed"]
    <3>1. Edits(b, w)
      BY <1>1, <1>a, <2>1 DEF Seed
    <3>2. w \in Work /\ MadeBy(b, w) /\ WithinBudget(w)
      BY <1>0, <1>1, <2>1 DEF Seed, Work, Steps, MadeBy, WithinBudget
    <3> QED BY <1>1, <3>1, <3>2 DEF Seed
  <2>2. CASE b \notin NeedsData
    <3> DEFINE w == [work[b] EXCEPT !.at = "model", !.install = "running"]
    <3>1. Edits(b, w)
      BY <1>1, <1>a, <2>2 DEF Seed
    <3>2. w \in Work
      BY <1>0, <1>1, <2>2 DEF Seed, Work, Steps
    <3>3. WithinBudget(w)
      BY <1>0, <1>1, <2>2 DEF Seed, Work, WithinBudget
    <3>4. work[b].db = FALSE
      BY <1>0, <1>1 DEF Seed, MadeBy, Work
    <3>5. w.db <=> b \in NeedsData
      BY <1>0, <1>1, <2>2, <3>4 DEF Work
    <3>6. MadeBy(b, w)
      BY <1>0, <1>1, <2>2, <3>5 DEF Seed, Work, Steps, MadeBy
    <3> QED BY <1>1, <3>1, <3>2, <3>3, <3>6 DEF Seed
  <2> QED BY <2>1, <2>2
<1>2. CASE Provision(b)
  <2> DEFINE w == [work[b] EXCEPT !.at = "model", !.db = TRUE, !.install = "running"]
  <2>1. Edits(b, w)
    BY <1>2, <1>a DEF Provision
  <2>2. w \in Work /\ WithinBudget(w)
    BY <1>0, <1>2 DEF Provision, Work, Steps, WithinBudget
  <2>3. w.db <=> b \in NeedsData
    BY <1>0, <1>2 DEF Provision, Work, MadeBy
  <2>4. MadeBy(b, w)
    BY <1>0, <1>2, <2>3 DEF Provision, Work, MadeBy
  <2> QED BY <1>2, <2>1, <2>2, <2>4 DEF Provision
<1>3. CASE ModelEnds(b)
  <2>1. PICK source \in Sources :
           work' = [work EXCEPT ![b].source = source,
                                ![b].at = IF work[b].round = 0 THEN "install" ELSE "build"]
    BY <1>3 DEF ModelEnds
  <2> DEFINE w == [work[b] EXCEPT !.source = source,
                                  !.at = IF work[b].round = 0 THEN "install" ELSE "build"]
  <2>2. Edits(b, w)
    BY <1>3, <1>a, <2>1 DEF ModelEnds
  <2>3. work[b].round \in Nat
    BY <1>0, AgentAssumption DEF Work
  <2>4. w \in Work /\ WithinBudget(w)
    BY <1>0, <1>3 DEF ModelEnds, Work, Steps, WithinBudget
  <2>5. work[b].at = "model" /\ work[b].drawing = 0
    BY <1>3 DEF ModelEnds
  <2>6. /\ w.at \in {"install", "build"}
        /\ (w.at = "build" => work[b].round > 0)
        /\ w.live = work[b].live /\ w.db = work[b].db /\ w.contract = work[b].contract
        /\ w.drawing = work[b].drawing /\ w.install = work[b].install
    BY <1>0, <2>3 DEF Work
  <2> HIDE DEF w
  <2>7. MadeBy(b, w)
    BY <1>0, <2>5, <2>6 DEF MadeBy
  <2> QED BY <1>3, <2>2, <2>4, <2>7 DEF ModelEnds
<1>4. CASE InstallAwaited(b)
  <2> DEFINE w == [work[b] EXCEPT !.at = IF work[b].install = "ok" THEN "build" ELSE "failed"]
  <2>1. Edits(b, w)
    BY <1>4, <1>a DEF InstallAwaited
  <2>2. w \in Work /\ MadeBy(b, w) /\ WithinBudget(w)
    BY <1>0, <1>4 DEF InstallAwaited, Work, Steps, MadeBy, WithinBudget
  <2> QED BY <1>4, <2>1, <2>2 DEF InstallAwaited
<1>5. CASE InstallEnds(b)
  <2>1. PICK outcome \in {"ok", "error"} : work' = [work EXCEPT ![b].install = outcome]
    BY <1>5 DEF InstallEnds
  <2> DEFINE w == [work[b] EXCEPT !.install = outcome]
  <2>2. Edits(b, w)
    BY <1>5, <1>a, <2>1 DEF InstallEnds
  <2>3. w \in Work /\ MadeBy(b, w) /\ WithinBudget(w)
    BY <1>0, <1>5 DEF InstallEnds, Work, Steps, MadeBy, WithinBudget
  <2> QED BY <1>5, <2>2, <2>3 DEF InstallEnds
<1> QED BY <1>1, <1>2, <1>3, <1>4, <1>5

(* A round that fails leaves an installed workspace to the next.           *)
LEMMA RoundFails ==
    ASSUME AgentInv, NEW b \in Builds, work[b].at \in {"build", "gate"},
           NextRound(b), UNCHANGED runnerVars
    PROVE  Keeps(b)
<1> USE DEF Keeps, Edits, AgentInv
<1>a. work[b] # Idle
  BY DEF Idle
<1>0. /\ work[b] \in Work /\ MadeBy(b, work[b]) /\ WithinBudget(work[b])
      /\ MaxRounds \in Nat
  BY AgentAssumption
<1>1. CASE work[b].round + 1 < MaxRounds
  <2> DEFINE w == [work[b] EXCEPT !.at = "model", !.round = @ + 1]
  <2>1. Edits(b, w)
    BY <1>1, <1>a DEF NextRound
  <2>2. work[b].round + 1 \in 0 .. MaxRounds - 1
    BY <1>0, <1>1 DEF Work
  <2>3. w \in Work /\ WithinBudget(w)
    BY <1>0, <2>2 DEF Work, Steps, WithinBudget
  <2>4. MadeBy(b, w)
    BY <1>0 DEF Work, MadeBy
  <2> QED BY <2>1, <2>3, <2>4
<1>2. CASE ~(work[b].round + 1 < MaxRounds)
  <2> DEFINE w == [work[b] EXCEPT !.at = "failed"]
  <2>1. Edits(b, w)
    BY <1>2, <1>a DEF NextRound
  <2>2. w \in Work /\ MadeBy(b, w) /\ WithinBudget(w)
    BY <1>0 DEF Work, Steps, MadeBy, WithinBudget
  <2> QED BY <2>1, <2>2
<1> QED BY <1>1, <1>2

(* A step that only goes elsewhere leaves the work as it was.              *)
LEMMA Goes ==
    ASSUME AgentInv, NEW b \in Builds, NEW step \in Steps,
           work[b].at \notin {"none", "answered", "ended"},
           Goto(b, step), UNCHANGED runnerVars,
           MadeBy(b, [work[b] EXCEPT !.at = step])
    PROVE  Keeps(b)
<1> DEFINE w == [work[b] EXCEPT !.at = step]
<1>1. work[b] \in Work /\ WithinBudget(work[b])
  BY DEF AgentInv
<1>2. Edits(b, w)
  BY DEF Edits, Goto, AgentInv, Idle
<1>3. w \in Work /\ WithinBudget(w)
  BY <1>1 DEF Work, WithinBudget
<1> QED BY <1>2, <1>3 DEF Keeps

(* So do the builds, the gate and what follows it: the gate is passed by a *)
(* complete source alone, and what is deployed is the source that passed.  *)
LEMMA BuildsAndDeploys ==
    ASSUME AgentInv, NEW b \in Builds,
           NextBuild(b) \/ Gate(b) \/ DeployContract(b) \/ Deploy(b) \/ Throws(b)
    PROVE  Keeps(b)
<1>0. work[b] \in Work /\ MadeBy(b, work[b]) /\ WithinBudget(work[b])
  BY DEF AgentInv
<1>1. CASE NextBuild(b)
  <2>1. CASE NextRound(b)
    BY <1>1, <2>1, RoundFails DEF NextBuild, At
  <2>2. CASE Goto(b, "gate")
    <3>1. MadeBy(b, [work[b] EXCEPT !.at = "gate"])
      BY <1>0, <1>1 DEF NextBuild, At, MadeBy, Work
    <3> QED BY <1>1, <2>2, <3>1, Goes DEF NextBuild, At, Steps
  <2> QED BY <1>1, <2>1, <2>2 DEF NextBuild
<1>2. CASE Gate(b)
  <2>1. CASE ~PassesGate(work[b].source)
    BY <1>2, <2>1, RoundFails DEF Gate, At
  <2>2. CASE PassesGate(work[b].source)
    <3> DEFINE next == IF DryRun THEN "done"
                       ELSE IF b \in Onchain THEN "contract" ELSE "deploy"
    <3>1. MadeBy(b, [work[b] EXCEPT !.at = next])
      BY <1>0, <1>2, <2>2, AgentAssumption DEF Gate, At, MadeBy, Work, PassesGate
    <3>2. Goto(b, next) /\ next \in Steps
      BY <1>2, <2>2 DEF Gate, Ships, Steps
    <3> QED BY <1>2, <3>1, <3>2, Goes DEF Gate, At
  <2> QED BY <2>1, <2>2
<1>3. CASE DeployContract(b)
  <2>1. PICK o \in Outcomes :
           work' = [work EXCEPT ![b].contract = o.landed,
                                ![b].at = IF o.ok THEN "deploy" ELSE "failed"]
    BY <1>3 DEF DeployContract
  <2> DEFINE w == [work[b] EXCEPT !.contract = o.landed,
                                  !.at = IF o.ok THEN "deploy" ELSE "failed"]
  <2>a. work[b] # Idle
    BY <1>3 DEF DeployContract, At, Idle
  <2>2. Edits(b, w)
    BY <1>3, <2>1, <2>a DEF DeployContract, Edits, AgentInv
  <2>3. o.landed \in BOOLEAN /\ (o.ok => o.landed)
    BY DEF Outcomes
  <2>4. w \in Work /\ WithinBudget(w)
    BY <1>0, <2>3 DEF Work, Steps, WithinBudget
  <2>5. w.at = "deploy" => w.contract = TRUE
    BY <1>0, <2>3 DEF Work
  <2>6. MadeBy(b, w)
    BY <1>0, <1>3, <2>5 DEF DeployContract, At, MadeBy, Work
  <2> QED BY <1>3, <2>2, <2>4, <2>6 DEF DeployContract, At, Keeps
<1>4. CASE Deploy(b)
  <2>1. PICK o \in Outcomes :
           work' = [work EXCEPT ![b].live = IF o.landed THEN work[b].source ELSE @,
                                ![b].at = IF o.ok THEN "done" ELSE "failed"]
    BY <1>4 DEF Deploy
  <2> DEFINE w == [work[b] EXCEPT !.live = IF o.landed THEN work[b].source ELSE @,
                                  !.at = IF o.ok THEN "done" ELSE "failed"]
  <2>a. work[b] # Idle
    BY <1>4 DEF Deploy, At, Idle
  <2>2. Edits(b, w)
    BY <1>4, <2>1, <2>a DEF Deploy, Edits, AgentInv
  <2>3. o.ok => o.landed
    BY DEF Outcomes
  <2>4. w \in Work /\ WithinBudget(w)
    BY <1>0 DEF Work, Steps, WithinBudget
  <2>5. MadeBy(b, w)
    BY <1>0, <1>4, <2>3 DEF Deploy, At, MadeBy, Work
  <2> QED BY <1>4, <2>2, <2>4, <2>5 DEF Deploy, At, Keeps
<1>5. CASE Throws(b)
  <2>1. MadeBy(b, [work[b] EXCEPT !.at = "failed"])
    BY <1>0 DEF MadeBy, Work
  <2> QED BY <1>5, <2>1, Goes DEF Throws, Tries, Steps
<1> QED BY <1>1, <1>2, <1>3, <1>4, <1>5

(* So do the tool calls of the model.                                      *)
LEMMA Draws ==
    ASSUME AgentInv, NEW b \in Builds, AssetStarts(b) \/ AssetEnds(b)
    PROVE  Keeps(b)
<1>0. /\ work[b] \in Work /\ MadeBy(b, work[b]) /\ WithinBudget(work[b])
      /\ ParallelTools \in Nat \ {0} /\ AssetBudget \in Nat
      /\ work[b].drawing \in Nat /\ work[b].drawing <= ParallelTools
      /\ work[b].assets \in Nat
  BY AgentAssumption DEF AgentInv, Work
<1>1. CASE AssetStarts(b)
  <2> DEFINE w == [work[b] EXCEPT !.drawing = @ + 1]
  <2>1. Edits(b, w)
    BY <1>1 DEF AssetStarts, At, Edits, Idle, AgentInv
  <2>2. /\ work[b].drawing + 1 \in 0 .. ParallelTools
        /\ work[b].assets + (work[b].drawing + 1) <= AssetBudget + ParallelTools - 1
    BY <1>0, <1>1 DEF AssetStarts
  <2>3. w \in Work
    BY <1>0, <2>2 DEF Work
  <2>4. WithinBudget(w)
    BY <1>0, <2>2 DEF WithinBudget, Work
  <2>5. MadeBy(b, w)
    BY <1>0, <1>1 DEF AssetStarts, At, MadeBy, Work
  <2> QED BY <1>1, <2>1, <2>3, <2>4, <2>5 DEF AssetStarts, At, Keeps
<1>2. CASE AssetEnds(b)
  <2>1. PICK made \in {0, 1} :
           work' = [work EXCEPT ![b].drawing = @ - 1, ![b].assets = @ + made]
    BY <1>2 DEF AssetEnds
  <2> DEFINE w == [work[b] EXCEPT !.drawing = @ - 1, !.assets = @ + made]
  <2>a. work[b] # Idle
    BY <1>2 DEF AssetEnds, Idle
  <2>2. Edits(b, w)
    BY <1>2, <2>1, <2>a DEF AssetEnds, Edits, AgentInv
  <2>3. /\ work[b].drawing - 1 \in 0 .. ParallelTools
        /\ work[b].assets + made \in Nat
    BY <1>0, <1>2 DEF AssetEnds
  <2>4. w \in Work
    BY <1>0, <2>3 DEF Work
  <2>5. WithinBudget(w)
    BY <1>0, <1>2, <2>3 DEF AssetEnds, WithinBudget, Work
  <2>6. MadeBy(b, w)
    BY <1>0, <1>2 DEF AssetEnds, MadeBy, Work
  <2> QED BY <1>2, <2>2, <2>4, <2>5, <2>6 DEF AssetEnds, Keeps
<1> QED BY <1>1, <1>2

(***************************************************************************)
(* What the service does with the reports.                                 *)
(***************************************************************************)

(* A step that leaves every agent's work, and shows nothing new as done.   *)
LEMMA WorkStands ==
    ASSUME RunnerInv, AgentInv, UNCHANGED <<work, resolving>>,
           \A b \in Builds : agents'[b] = "none" => agents[b] = "none",
           \A b \in Builds :
              (builds'[b] # Null /\ builds'[b].status = "done") =>
                 /\ builds[b] # Null /\ builds[b].status = "done"
                 /\ builds'[b].result = builds[b].result
    PROVE  AgentInv'
BY DEF AgentInv

(* A build is accepted with an agent that has made nothing.                *)
LEMMA AcceptKeeps ==
    ASSUME RunnerInv, AgentInv, NEW b \in Builds, Accept(b)
    PROVE  AgentInv'
<1> DEFINE w == [Idle EXCEPT !.at = "seed"]
<1>1. w \in Work /\ MadeBy(b, w) /\ WithinBudget(w)
  BY IdleWork
<1>2. work[b] = Idle /\ builds[b] = Null /\ agents[b] = "none"
  BY DEF Accept, Start, AgentInv, RunnerInv
<1>3. work' = [work EXCEPT ![b] = w]
  BY <1>2 DEF Accept, Goto, AgentInv
<1> HIDE DEF w
<1>4. work' \in [Builds -> Work] /\ work'[b] = w
  BY <1>1, <1>3 DEF AgentInv
<1>5. \A c \in Builds : c # b =>
         work'[c] = work[c] /\ builds'[c] = builds[c] /\ agents'[c] = agents[c]
  BY <1>3 DEF Accept, Start, AgentInv, RunnerInv, TypeOK
<1>6. UNCHANGED resolving /\ \A d \in resolving : d.build \in Builds \ {b}
  BY <1>2 DEF Accept, Start, RunnerInv, TypeOK, DoneReport
<1>7. agents'[b] = "working" /\ builds'[b].status = "running"
  BY DEF Accept, Start, RunnerInv, TypeOK
<1>8. \A d \in resolving' : ShippedAs(d.build, work'[d.build], d.result)
  BY <1>5, <1>6 DEF AgentInv
<1> QED BY <1>1, <1>4, <1>5, <1>7, <1>8 DEF AgentInv

(* A progress report adds an event to a build that runs.                   *)
LEMMA ProgressKeeps ==
    ASSUME RunnerInv, AgentInv, NEW b \in Builds, Progress(b)
    PROVE  AgentInv'
<1>1. builds[b] \in BuildState /\ Running(b)
  BY DEF Progress, ReportStatus, TakesReports, Running, RunnerInv, TypeOK
<1>2. /\ builds'[b].status = "running"
      /\ \A c \in Builds : c # b => builds'[c] = builds[c]
  BY <1>1 DEF Progress, ReportStatus, Running, BuildState, RunnerInv, TypeOK
<1>3. UNCHANGED <<work, resolving, agents>>
  BY DEF Progress, ReportStatus
<1> QED BY <1>2, <1>3, WorkStands

(* The final report of a done build says what was made.                    *)
LEMMA ReportsKeep ==
    ASSUME RunnerInv, AgentInv, NEW b \in Builds, Reports(b)
    PROVE  AgentInv'
<1> DEFINE w == [work[b] EXCEPT !.at = "answered"]
<1>1. work[b] \in Work /\ MadeBy(b, work[b]) /\ WithinBudget(work[b])
  BY DEF AgentInv
<1>2. work[b].at \in {"done", "failed"} /\ work' = [work EXCEPT ![b] = w]
  BY DEF Reports, At, Goto, AgentInv
<1>3. w \in Work /\ WithinBudget(w) /\ w.at = "answered"
  BY <1>1 DEF Work, Steps, WithinBudget
<1>4. MadeBy(b, w)
  BY <1>1 DEF MadeBy, Work
<1>5. work[b].at = "done" => ShippedAs(b, w, Made(b))
  <2> SUFFICES ASSUME work[b].at = "done" PROVE ShippedAs(b, w, Made(b))
    OBVIOUS
  <2>1. /\ w.live = work[b].live /\ w.install = work[b].install
        /\ w.drawing = work[b].drawing
    BY <1>1 DEF Work
  <2>2. /\ DryRun \/ work[b].live = "complete"
        /\ work[b].install = "ok" /\ work[b].drawing = 0
    BY <1>1 DEF MadeBy
  <2>3. /\ work[b].db <=> b \in NeedsData
        /\ work[b].contract <=> b \in Onchain /\ ~DryRun
    BY <1>1 DEF MadeBy
  <2>4. work[b].db \in BOOLEAN /\ work[b].contract \in BOOLEAN
    BY <1>1 DEF Work
  <2>5. /\ work[b].db = (b \in NeedsData)
        /\ work[b].contract = (b \in Onchain /\ ~DryRun)
    BY <2>3, <2>4
  <2>6. Made(b) = [db |-> b \in NeedsData, contract |-> b \in Onchain /\ ~DryRun]
    BY <2>5, Zenon DEF Made
  <2> HIDE DEF w
  <2> QED BY <1>3, <2>1, <2>2, <2>6 DEF ShippedAs
<1> HIDE DEF w
<1>6. work' \in [Builds -> Work] /\ work'[b] = w
  BY <1>2, <1>3 DEF AgentInv
<1>7. \A c \in Builds : c # b => work'[c] = work[c]
  BY <1>2 DEF AgentInv
<1>8. \A r : ~ShippedAs(b, work[b], r)
  BY <1>2 DEF ShippedAs
<1>9. /\ \A c \in Builds : agents'[c] = "none" => agents[c] = "none"
      /\ agents[b] # "none"
  BY DEF Reports, ReportDone, ReportFailed, ReportLost, Reporting, Reported,
     RunnerInv, TypeOK
<1>10. \A c \in Builds : (builds'[c] # Null /\ builds'[c].status = "done") =>
          c # b /\ builds'[c] = builds[c]
  <2>1. ~(builds[b] # Null /\ builds[b].status = "done")
    BY <1>8 DEF AgentInv
  <2>2. \/ builds' = builds
        \/ Running(b) /\ builds' = [builds EXCEPT ![b].status = "failed"]
    BY DEF Reports, ReportDone, ReportFailed, ReportLost, TakesReports
  <2> QED BY <2>1, <2>2 DEF Running, RunnerInv, TypeOK, BuildState
<1>11. \A d \in resolving' :
          \/ d \in resolving /\ d.build \in Builds \ {b}
          \/ d.build = b /\ ShippedAs(b, w, d.result)
  <2>1. \A d \in resolving : d.build \in Builds \ {b}
    BY <1>8 DEF AgentInv, RunnerInv, TypeOK, DoneReport
  <2>2. \/ resolving' \subseteq resolving
        \/ /\ work[b].at = "done"
           /\ resolving' = resolving \cup {[build |-> b, result |-> Made(b)]}
    BY DEF Reports, ReportDone, ReportFailed, ReportLost, At
  <2> QED BY <1>5, <2>1, <2>2
<1>12. \A d \in resolving' : ShippedAs(d.build, work'[d.build], d.result)
  BY <1>6, <1>7, <1>11 DEF AgentInv
<1> QED BY <1>3, <1>4, <1>6, <1>7, <1>9, <1>10, <1>12 DEF AgentInv

(* An agent that ends leaves what it shipped.                              *)
LEMMA FinishesKeeps ==
    ASSUME RunnerInv, AgentInv, NEW b \in Builds, Finishes(b)
    PROVE  AgentInv'
<1> DEFINE w == [work[b] EXCEPT !.at = "ended"]
<1>1. work[b] \in Work /\ MadeBy(b, work[b]) /\ WithinBudget(work[b])
  BY DEF AgentInv
<1>2. work' = [work EXCEPT ![b] = w]
  BY DEF Finishes, Goto, AgentInv
<1>3. w \in Work /\ MadeBy(b, w) /\ WithinBudget(w)
  BY <1>1 DEF Work, Steps, MadeBy, WithinBudget
<1>4. \A r : ShippedAs(b, work[b], r) => ShippedAs(b, w, r)
  BY <1>1 DEF ShippedAs, Work
<1> HIDE DEF w
<1>5. work' \in [Builds -> Work] /\ work'[b] = w
  BY <1>2, <1>3 DEF AgentInv
<1>6. \A c \in Builds : c # b => work'[c] = work[c]
  BY <1>2 DEF AgentInv
<1>7. UNCHANGED resolving /\ \A d \in resolving : d.build \in Builds
  BY DEF Finishes, AgentEnds, RunnerInv, TypeOK, DoneReport
<1>8. /\ \A c \in Builds : agents'[c] = "none" => agents[c] = "none"
      /\ agents[b] # "none"
  BY DEF Finishes, AgentEnds, RunnerInv, TypeOK
<1>9. \A c \in Builds : (builds'[c] # Null /\ builds'[c].status = "done") =>
         builds'[c] = builds[c]
  BY DEF Finishes, AgentEnds, Running, RunnerInv, TypeOK, BuildState
<1>10. \A d \in resolving' : ShippedAs(d.build, work'[d.build], d.result)
  BY <1>4, <1>5, <1>6, <1>7 DEF AgentInv
<1> QED BY <1>3, <1>4, <1>5, <1>6, <1>8, <1>9, <1>10 DEF AgentInv

(* What is recorded as done is what was reported.                          *)
LEMMA ResolvedKeeps ==
    ASSUME RunnerInv, AgentInv, NEW d \in resolving, EntryUrlResolved(d), UNCHANGED work
    PROVE  AgentInv'
<1>1. d.build \in Builds /\ builds[d.build] \in BuildState
  BY DEF RunnerInv, TypeOK, DoneReport
<1>2. builds'[d.build].result = d.result
  BY <1>1 DEF EntryUrlResolved, RunnerInv, TypeOK, BuildState
<1>3. \A c \in Builds : c # d.build => builds'[c] = builds[c]
  BY DEF EntryUrlResolved, RunnerInv, TypeOK
<1>4. \A c \in Builds : agents'[c] = "none" => agents[c] = "none"
  BY DEF EntryUrlResolved, RunnerInv, TypeOK
<1>5. resolving' \subseteq resolving
  BY DEF EntryUrlResolved
<1>6. \A e \in resolving' : ShippedAs(e.build, work'[e.build], e.result)
  BY <1>5 DEF AgentInv
<1> QED BY <1>1, <1>2, <1>3, <1>4, <1>6 DEF AgentInv

(* A restart of the service takes the agents and what they report with it. *)
LEMMA GoesDownKeeps ==
    ASSUME RunnerInv, AgentInv, GoesDown
    PROVE  AgentInv'
<1>1. ASSUME NEW b \in Builds
      PROVE  work'[b] \in Work /\ MadeBy(b, work'[b]) /\ WithinBudget(work'[b])
  <2>1. CASE At(b, "none")
    <3>1. work'[b] = Idle
      BY <2>1 DEF GoesDown
    <3> QED BY <3>1, IdleWork
  <2>2. CASE ~At(b, "none")
    <3> DEFINE w == [work[b] EXCEPT !.at = "ended", !.drawing = 0,
                        !.install = IF @ = "running" THEN "error" ELSE @]
    <3>1. work'[b] = w
      BY <2>2 DEF GoesDown
    <3>2. /\ work[b] \in Work /\ MadeBy(b, work[b]) /\ WithinBudget(work[b])
          /\ AssetBudget \in Nat /\ ParallelTools \in Nat \ {0}
      BY AgentAssumption DEF AgentInv
    <3>3. w \in Work
      <4>1. PICK i : i = IF work[b].install = "running" THEN "error" ELSE work[b].install
        OBVIOUS
      <4>2. i \in {"none", "running", "ok", "error"} /\ 0 \in 0 .. ParallelTools
        BY <3>2, <4>1 DEF Work
      <4>3. w = [work[b] EXCEPT !.at = "ended", !.drawing = 0, !.install = i]
        BY <4>1
      <4> QED BY <3>2, <4>2, <4>3 DEF Work, Steps
    <3>5. w.at = "ended" /\ w.live = work[b].live
      BY <3>2 DEF Work
    <3>6. MadeBy(b, w)
      BY <3>2, <3>5 DEF MadeBy
    <3>4. WithinBudget(w)
      BY <3>2 DEF Work, WithinBudget
    <3> QED BY <3>1, <3>3, <3>4, <3>6
  <2> QED BY <2>1, <2>2
<1>2. work' \in [Builds -> Work]
  <2>1. /\ DOMAIN work' = Builds
        /\ work' = [b \in Builds |-> work'[b]]
    BY DEF GoesDown
  <2> QED BY <1>1, <2>1
<1>3. ASSUME NEW b \in Builds, agents'[b] = "none" PROVE work'[b] = Idle
  <2>1. agents[b] = "none"
    BY <1>3 DEF GoesDown, Restart
  <2>2. At(b, "none")
    BY <2>1 DEF AgentInv, At, Idle
  <2> QED BY <2>2 DEF GoesDown
<1>4. resolving' = {} /\ \A b \in Builds : builds'[b] = Null
  BY DEF GoesDown, Restart
<1> QED BY <1>1, <1>2, <1>3, <1>4 DEF AgentInv

(* Every step of the agents and the service keeps what was made.           *)
LEMMA AgentStepKeeps ==
    ASSUME RunnerInv, AgentInv, [AgentNext]_agentVars
    PROVE  (RunnerInv /\ AgentInv)'
<1>1. RunnerInv'
  <2>1. [Next]_runnerVars
    BY AgentStepIsRunnerStep DEF AgentInv
  <2> QED BY <2>1, StepType
<1>2. ASSUME NEW b \in Builds, Keeps(b) PROVE AgentInv'
  BY <1>2, EditKeeps DEF Keeps
<1>3. ASSUME NEW b \in Builds, Works(b) PROVE AgentInv'
  BY <1>2, <1>3, Prepares, BuildsAndDeploys, ReportsKeep, FinishesKeeps DEF Works
<1>4. ASSUME NEW b \in Builds,
             \/ Accept(b) \/ Progress(b) \/ AssetStarts(b) \/ AssetEnds(b)
             \/ InstallEnds(b)
      PROVE  AgentInv'
  BY <1>2, <1>4, AcceptKeeps, ProgressKeeps, Draws, Prepares
<1>5. ASSUME NEW d \in resolving, EntryUrlResolved(d), UNCHANGED work PROVE AgentInv'
  BY <1>5, ResolvedKeeps
<1>6. ASSUME GoesDown PROVE AgentInv'
  BY <1>6, GoesDownKeeps
<1>7. ASSUME UNCHANGED agentVars PROVE AgentInv'
  BY <1>7, WorkStands DEF agentVars, runnerVars
<1>8. AgentInv'
  BY <1>3, <1>4, <1>5, <1>6, <1>7 DEF AgentNext
<1> QED BY <1>1, <1>8

(* Nothing is made before the first build.                                 *)
LEMMA AgentStarts ==
    ASSUME AgentInit
    PROVE  RunnerInv /\ AgentInv
<1>1. RunnerInv
  BY RunnerAssumption DEF AgentInit, Init, RunnerInv, TypeOK, AgentState
<1>2. \A b \in Builds : work[b] = Idle
  BY DEF AgentInit
<1>3. work \in [Builds -> Work]
  <2> HIDE DEF Idle
  <2> QED BY IdleWork DEF AgentInit
<1>4. resolving = {} /\ \A b \in Builds : builds[b] = Null
  BY DEF AgentInit, Init
<1> QED BY <1>1, <1>2, <1>3, <1>4, IdleWork DEF AgentInv

(* The agent of in-memory-build.ts is one of the agents that module        *)
(* BuildRunner allows: what it does between its reports the service does   *)
(* not see, and it reports as the service expects.                         *)
THEOREM AgentRefinesRunner == AgentSpec => Spec
<1>1. AgentInit => Init
  BY DEF AgentInit
<1>2. AgentInit => RunnerInv /\ AgentInv
  BY AgentStarts
<1>3. RunnerInv /\ AgentInv /\ [AgentNext]_agentVars => (RunnerInv /\ AgentInv)'
  BY AgentStepKeeps
<1>4. RunnerInv /\ AgentInv /\ [AgentNext]_agentVars => [Next]_runnerVars
  BY AgentStepIsRunnerStep DEF AgentInv
<1> QED BY <1>1, <1>2, <1>3, <1>4, PTL DEF AgentSpec, Spec

(* With the agents of in-memory-build.ts, too, no slot leaks and none is   *)
(* freed twice.                                                            *)
THEOREM AgentSlotsAreExact == AgentSpec => []SlotsExact
BY AgentRefinesRunner, SlotsAreExact, PTL

(* A build that the platform sees as done is live, complete, says truly    *)
(* whether it has a database and a contract, and has left nothing running. *)
THEOREM DoneMeansShipped == AgentSpec => []DoneIsShipped
<1>1. AgentInit => RunnerInv /\ AgentInv
  BY AgentStarts
<1>2. RunnerInv /\ AgentInv /\ [AgentNext]_agentVars => (RunnerInv /\ AgentInv)'
  BY AgentStepKeeps
<1>3. AgentInv => DoneIsShipped
  BY DEF AgentInv, DoneIsShipped, ShippedAs
<1> QED BY <1>1, <1>2, <1>3, PTL DEF AgentSpec

(* Whatever fails, and whenever the service goes down, only an app that    *)
(* passed the gate was put on the web: "Green build # done" (in-memory-    *)
(* build.ts:452).                                                          *)
THEOREM OnlyCompleteGoesLive == AgentSpec => []OnlyCompleteIsLive
<1>1. AgentInit => RunnerInv /\ AgentInv
  BY AgentStarts
<1>2. RunnerInv /\ AgentInv /\ [AgentNext]_agentVars => (RunnerInv /\ AgentInv)'
  BY AgentStepKeeps
<1>3. AgentInv => OnlyCompleteIsLive
  BY DEF AgentInv, OnlyCompleteIsLive, MadeBy
<1> QED BY <1>1, <1>2, <1>3, PTL DEF AgentSpec

(* The budget of images, checked before an await and counted after it, is  *)
(* passed by less than the number of tool calls the model makes at once    *)
(* and the rounds never pass theirs.                                       *)
THEOREM OvershootOfBudgetBounded == AgentSpec => []BudgetOvershootBounded
<1>1. AgentInit => RunnerInv /\ AgentInv
  BY AgentStarts
<1>2. RunnerInv /\ AgentInv /\ [AgentNext]_agentVars => (RunnerInv /\ AgentInv)'
  BY AgentStepKeeps
<1>3. AgentInv => BudgetOvershootBounded
  BY DEF AgentInv, BudgetOvershootBounded, WithinBudget
<1> QED BY <1>1, <1>2, <1>3, PTL DEF AgentSpec
=============================================================================
