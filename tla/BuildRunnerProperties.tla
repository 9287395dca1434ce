----------------------- MODULE BuildRunnerProperties -----------------------
(***************************************************************************)
(* What makes the builder service of module BuildRunner correct.           *)
(***************************************************************************)
EXTENDS BuildRunner

(* "max-N concurrent" (queue.ts:1): the counter is the number of agent     *)
(* processes, so no slot leaks on any way a build ends and the limit holds, *)
(* although builds end by reports while slots are freed by processes.      *)
SlotsExact == active = Cardinality(Live) /\ active <= MaxConcurrent

(* A build that a poll may have seen as done stays done, with any agent and *)
(* any order of its reports; only a restart forgets it.                    *)
DoneIsFinal ==
    [][\A b \in Builds :
          (builds[b] # Null /\ builds[b].status = "done") =>
             builds'[b] = Null \/ builds'[b].status = "done"]_runnerVars

(* "A terminal build ignores further reports" (queue.ts:169): once done or  *)
(* failed, a build shows the same status, events and result for good.      *)
TerminalIsFinal ==
    [][\A b \in Builds :
          (builds[b] # Null /\ builds[b].status # "running") =>
             builds'[b] \in {builds[b], Null}]_runnerVars

(* A build the service accepted ends, whether or not its agent ever        *)
(* reports: "the agent process ending without a done report => failed"     *)
(* (queue.ts:10-11).                                                       *)
EveryBuildEnds == \A b \in Builds : Running(b) ~> ~Running(b)
=============================================================================
