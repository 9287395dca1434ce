----------------------------- MODULE BuildAgent -----------------------------
(***************************************************************************)
(* The agent that makes a jam, inside the builder service of BuildRunner:  *)
(* it seeds a workspace, lets the model edit it, builds and checks what    *)
(* the model wrote for a bounded number of rounds, deploys, and reports.   *)
(*                                                                         *)
(* Translated from apps/builder/src/in-memory-build.ts.  Each action is an *)
(* await of runInMemoryBuild with the code after it; the actions of the    *)
(* runner that the agent takes part in are conjoined to its own.           *)
(***************************************************************************)
EXTENDS BuildRunner

CONSTANTS
    NeedsData,      \* the builds whose spec has collections
    Onchain,        \* the builds whose spec has the skill "onchain"
    HasNeon,        \* the builder has a Neon key
    DryRun,         \* the builder stops before the deploy
    MaxRounds,      \* MAX_BUILD_ROUNDS
    AssetBudget,    \* IMAGE_BUDGET, and VOICE_BUDGET
    ParallelTools   \* bound: tool calls the model makes at once

VARIABLE work       \* where each agent stands, and what it has made

agentVars == <<runnerVars, work>>

ASSUME AgentAssumption ==
    /\ NeedsData \subseteq Builds /\ Onchain \subseteq Builds
    /\ HasNeon \in BOOLEAN /\ DryRun \in BOOLEAN
    /\ {MaxRounds, ParallelTools} \subseteq Nat \ {0}
    /\ AssetBudget \in Nat

(* What the done report says besides the URL and the model's usage.        *)
ASSUME ResultsAssumption == Results = [db : BOOLEAN, contract : BOOLEAN]

-----------------------------------------------------------------------------
(* The source in a workspace: the seeded starter compiles and is not an    *)
(* app; what the model leaves may not compile, may coast, or is complete.  *)
Sources == {"stub", "broken", "complete"}

Steps == {"none", "seed", "database", "model", "install", "build", "gate",
          "contract", "deploy", "done", "failed", "answered", "ended"}

Work ==
    [at : Steps, round : 0 .. MaxRounds - 1, source : Sources,
     install : {"none", "running", "ok", "error"},
     db : BOOLEAN, contract : BOOLEAN,      \* provisioned, on chain
     live : Sources \cup {Null},            \* what the web serves
     assets : Nat, drawing : 0 .. ParallelTools]

(* What generateApp and a kit write.                                       *)
Starter == "stub"

(* genericGate and the kit's own: a page that is the starter, or uses no   *)
(* SDK, or has no handlers, or fights the theme, is not an app.            *)
PassesGate(source) == source = "complete"

(* How a command ends: it may have had its effect although it failed, was  *)
(* killed for its time, or printed what cannot be read.                    *)
Outcomes == {o \in [landed : BOOLEAN, ok : BOOLEAN] : o.ok => o.landed}

Idle == [at |-> "none", round |-> 0, source |-> Starter, install |-> "none",
         db |-> FALSE, contract |-> FALSE, live |-> Null,
         assets |-> 0, drawing |-> 0]

AgentInit == Init /\ work = [b \in Builds |-> Idle]

At(b, step) == work[b].at = step

Goto(b, step) == work' = [work EXCEPT ![b].at = step]

(* An await inside the try of runInMemoryBuild.                            *)
Tries(b) == work[b].at \in {"seed", "database", "model", "install", "build",
                            "contract", "deploy"}

-----------------------------------------------------------------------------
Accept(b) == Start(b) /\ Goto(b, "seed")

(* The maker's uploads, the skeleton and a kit's starter are written.      *)
Seed(b) ==
    /\ At(b, "seed")
    /\ \/ b \in NeedsData /\ Goto(b, IF HasNeon THEN "database" ELSE "failed")
       \/ b \notin NeedsData
          /\ work' = [work EXCEPT ![b].at = "model", ![b].install = "running"]
    /\ UNCHANGED runnerVars

(* createProject, and then the install that runs beside the first round.   *)
Provision(b) ==
    /\ At(b, "database")
    /\ work' = [work EXCEPT ![b].at = "model", ![b].db = TRUE,
                            ![b].install = "running"]
    /\ UNCHANGED runnerVars

(* A progress report, which nobody waits for or whose answer nobody reads. *)
Progress(b) ==
    /\ work[b].at \in {"seed", "model", "build", "deploy"}
    /\ ReportStatus(b)
    /\ UNCHANGED work

(* The budget checked when the asset is there.                             *)
AssetStartsUnchecked(b) ==
    /\ At(b, "model")
    /\ work[b].drawing < ParallelTools
    /\ work' = [work EXCEPT ![b].drawing = @ + 1]
    /\ UNCHANGED runnerVars

(* generate_image or generate_voice, up to its await: calls the model      *)
(* makes together all see the same count.                                  *)
AssetStarts(b) ==
    /\ At(b, "model")
    /\ work[b].drawing < ParallelTools
    /\ work[b].assets < AssetBudget
    /\ work' = [work EXCEPT ![b].drawing = @ + 1]
    /\ UNCHANGED runnerVars

(* The asset is written and counted, or was refused.                       *)
AssetEnds(b) ==
    /\ work[b].drawing > 0
    /\ \E made \in {0, 1} :
          work' = [work EXCEPT ![b].drawing = @ - 1, ![b].assets = @ + made]
    /\ UNCHANGED runnerVars

(* generateText resolves when its tool calls have.                         *)
ModelEnds(b) ==
    /\ At(b, "model") /\ work[b].drawing = 0
    /\ \E source \in Sources :
          work' = [work EXCEPT ![b].source = source,
                               ![b].at = IF work[b].round = 0 THEN "install" ELSE "build"]
    /\ UNCHANGED runnerVars

(* The install is a process of its own: it goes on when the agent is gone. *)
InstallEnds(b) ==
    /\ work[b].install = "running"
    /\ \E outcome \in {"ok", "error"} : work' = [work EXCEPT ![b].install = outcome]
    /\ UNCHANGED runnerVars

InstallAwaited(b) ==
    /\ At(b, "install") /\ work[b].install # "running"
    /\ Goto(b, IF work[b].install = "ok" THEN "build" ELSE "failed")
    /\ UNCHANGED runnerVars

(* What is wrong goes back to the model, or the rounds are used up.        *)
NextRound(b) ==
    work' = IF work[b].round + 1 < MaxRounds
              THEN [work EXCEPT ![b].at = "model", ![b].round = @ + 1]
              ELSE [work EXCEPT ![b].at = "failed"]

(* next build: a source that does not compile fails, and any may time out. *)
NextBuild(b) ==
    /\ At(b, "build")
    /\ \/ work[b].source # "broken" /\ Goto(b, "gate")
       \/ NextRound(b)
    /\ UNCHANGED runnerVars

(* The app that passed: an onchain game has its contract deployed first.   *)
Ships(b) ==
    Goto(b, IF DryRun THEN "done" ELSE IF b \in Onchain THEN "contract" ELSE "deploy")

(* The last round ships what there is.                                     *)
GateTiresOut(b) ==
    /\ At(b, "gate")
    /\ IF PassesGate(work[b].source) \/ work[b].round + 1 = MaxRounds
         THEN Ships(b) ELSE NextRound(b)
    /\ UNCHANGED runnerVars

(* The quality gate: a page that compiles is not yet an app.               *)
Gate(b) ==
    /\ At(b, "gate")
    /\ IF PassesGate(work[b].source) THEN Ships(b) ELSE NextRound(b)
    /\ UNCHANGED runnerVars

(* contracts/deploy.sh on the host, once the app is green.                 *)
DeployContract(b) ==
    /\ At(b, "contract")
    /\ \E o \in Outcomes :
          work' = [work EXCEPT ![b].contract = o.landed,
                               ![b].at = IF o.ok THEN "deploy" ELSE "failed"]
    /\ UNCHANGED runnerVars

(* vercel deploy.                                                          *)
Deploy(b) ==
    /\ At(b, "deploy")
    /\ \E o \in Outcomes :
          work' = [work EXCEPT ![b].live = IF o.landed THEN work[b].source ELSE @,
                               ![b].at = IF o.ok THEN "done" ELSE "failed"]
    /\ UNCHANGED runnerVars

(* An await throws; tool calls and the install are left behind.            *)
Throws(b) == Tries(b) /\ Goto(b, "failed") /\ UNCHANGED runnerVars

(* The done report names the database only when there was a contract.      *)
MadeByContract(b) == [db |-> work[b].contract, contract |-> work[b].contract]

Made(b) == [db |-> work[b].db, contract |-> work[b].contract]

(* The one final report, or its loss.                                      *)
Reports(b) ==
    /\ \/ At(b, "done") /\ ReportDone(b, Made(b))
       \/ At(b, "failed") /\ ReportFailed(b)
       \/ work[b].at \in {"done", "failed"} /\ ReportLost(b)
    /\ Goto(b, "answered")

(* The agent does not wait for the answer.                                 *)
FinishesUnanswered(b) ==
    /\ At(b, "answered")
    /\ active' = active - 1
    /\ builds' = IF Running(b) THEN [builds EXCEPT ![b].status = "failed"] ELSE builds
    /\ agents' = [agents EXCEPT ![b] = "gone"]
    /\ UNCHANGED resolving
    /\ Goto(b, "ended")

(* The workspace is stripped and the agent's promise resolves.             *)
Finishes(b) == At(b, "answered") /\ AgentEnds(b) /\ Goto(b, "ended")

(* The service goes down with everything it runs.                          *)
GoesDown ==
    /\ Restart
    /\ work' = [b \in Builds |-> IF At(b, "none") THEN Idle ELSE
          [work[b] EXCEPT !.at = "ended", !.drawing = 0,
                          !.install = IF @ = "running" THEN "error" ELSE @]]

-----------------------------------------------------------------------------
(* What the agent does by itself, and waits for.                           *)
Works(b) ==
    \/ Seed(b) \/ Provision(b) \/ ModelEnds(b) \/ InstallAwaited(b)
    \/ NextBuild(b) \/ Gate(b) \/ DeployContract(b) \/ Deploy(b)
    \/ Throws(b) \/ Reports(b) \/ Finishes(b)

AgentNext ==
    \/ \E b \in Builds :
          \/ Accept(b) \/ Works(b) \/ Progress(b)
          \/ AssetStarts(b) \/ AssetEnds(b) \/ InstallEnds(b)
    \/ \E d \in resolving : EntryUrlResolved(d) /\ UNCHANGED work
    \/ GoesDown

AgentSpec == AgentInit /\ [][AgentNext]_agentVars

(* Every command has a timeout, a model call a bound on its steps, and a   *)
(* request is answered or fails: what the agent awaits comes.              *)
AgentFairness ==
    /\ \A b \in Builds : WF_agentVars(Works(b)) /\ WF_agentVars(AssetEnds(b))
                         /\ WF_agentVars(InstallEnds(b))
    /\ \A d \in DoneReport : WF_agentVars(EntryUrlResolved(d) /\ UNCHANGED work)

AgentFairSpec == AgentSpec /\ AgentFairness
=============================================================================
