------------------------ MODULE BuildAgentProperties ------------------------
(***************************************************************************)
(* What makes the agent of module BuildAgent correct, and what it adds to  *)
(* the promises of the builder service.                                    *)
(***************************************************************************)
EXTENDS BuildAgent, BuildRunnerProperties

(* A build the platform sees as done is live as an app that passed every   *)
(* check, names the database and the contract it was given, and has left   *)
(* nothing running behind: the install runs beside the first round and the *)
(* source changes in every one.                                            *)
DoneIsShipped ==
    \A b \in Builds : (builds[b] # Null /\ builds[b].status = "done") =>
        /\ DryRun \/ work[b].live = "complete"
        /\ builds[b].result = [db |-> b \in NeedsData,
                              contract |-> b \in Onchain /\ ~DryRun]
        /\ work[b].install = "ok" /\ work[b].drawing = 0

(* "Green build # done: the seeded stub compiles" (in-memory-build.ts:452): *)
(* whatever becomes of a build, only a complete app was put on the web.    *)
OnlyCompleteIsLive == \A b \in Builds : work[b].live \in {Null, "complete"}

(* What an agent may use is bounded: its rounds by MAX_BUILD_ROUNDS (the   *)
(* type of a state), its images and voices by the budget.  That is checked *)
(* before an await and counted after it: the model's parallel tool calls   *)
(* pass it, by at most the calls that were in flight with the one that     *)
(* used it up.                                                             *)
BudgetOvershootBounded ==
    /\ work \in [Builds -> Work]
    /\ \A b \in Builds :
        \/ work[b].assets + work[b].drawing <= AssetBudget + ParallelTools - 1
        \/ work[b].assets + work[b].drawing = 0

(* The agent is one that module BuildRunner allows, and fair to it: it     *)
(* makes one final report, waits for its answer, and ends.                 *)
ImplementsRunner == FairSpec
=============================================================================
