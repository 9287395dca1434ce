---------------------------- MODULE BuildRunner ----------------------------
(***************************************************************************)
(* The builder service: which builds run, what their agents report, and    *)
(* what a poll sees.                                                       *)
(*                                                                         *)
(* Translated from apps/builder/src/queue.ts (createBuildRunner) and       *)
(* app.ts (its routes), with the agent as apps/builder/src/                *)
(* in-memory-build.ts drives it.  The service is one process that keeps    *)
(* its state in memory: a handler runs alone between two awaits, and only  *)
(* a done report awaits anything.                                          *)
(***************************************************************************)
EXTENDS Integers, FiniteSets

CONSTANTS
    Builds,         \* build ids; the platform posts each one once
    Results,        \* what done reports carry: a project and its URL
    MaxConcurrent,  \* MAX_CONCURRENT_BUILDS
    Impatient,      \* agents need not wait for the answer to a report, nor
                    \* make only one that is final
    Restarts,       \* the service may be restarted
    MaxEvents,      \* bound: events of a build
    Null            \* absent

ASSUME RunnerAssumption ==
    /\ IsFiniteSet(Builds)
    /\ MaxConcurrent \in Nat \ {0}
    /\ Impatient \in BOOLEAN
    /\ Restarts \in BOOLEAN
    /\ MaxEvents \in Nat
    /\ Null \notin Results

VARIABLES
    builds,     \* the map of build states; the error's text is left out
    active,     \* the count of agent processes
    agents,     \* where each agent stands
    resolving   \* done reports that await resolveEntryUrl

runnerVars == <<builds, active, agents, resolving>>

-----------------------------------------------------------------------------
(* Types                                                                   *)

Status == {"running", "done", "failed"}

BuildState ==
    [status: Status, events: 0 .. MaxEvents, result: Results \cup {Null}]

ASSUME NullIsNoState == Null \notin BuildState

(* An agent works, waits for the answer to its last report, has had it, or *)
(* is gone.                                                                *)
AgentState == {"none", "working", "waiting", "told", "gone"}

LiveAgent == {"working", "waiting", "told"}

DoneReport == [build: Builds, result: Results]

(* Everything is typed, and a build shows a result exactly when it is done: *)
(* a poll that sees done finds the URL.                                    *)
TypeOK ==
    /\ builds \in [Builds -> BuildState \cup {Null}]
    /\ active \in Int
    /\ agents \in [Builds -> AgentState]
    /\ resolving \subseteq DoneReport
    /\ \A b \in Builds : builds[b] # Null =>
          (builds[b].status = "done" <=> builds[b].result # Null)

Init ==
    /\ builds = [b \in Builds |-> Null]
    /\ active = 0
    /\ agents = [b \in Builds |-> "none"]
    /\ resolving = {}

-----------------------------------------------------------------------------
(* Helpers                                                                 *)

AtCapacityOffByOne == active > MaxConcurrent

AtCapacity == active >= MaxConcurrent

Live == {b \in Builds : agents[b] \in LiveAgent}

Running(b) == builds[b] # Null /\ builds[b].status = "running"

(* report: an unknown build answers 404, and a terminal one ignores what   *)
(* comes.                                                                  *)
TakesReports(b) == Running(b)

(* Who may report on a build.  The agent of in-memory-build.ts works, then *)
(* makes one final report and ends; any agent of the public protocol has   *)
(* the token for good.                                                     *)
Reporting(b) == agents[b] = "working" \/ (Impatient /\ agents[b] # "none")

-----------------------------------------------------------------------------
(* POST /builds: refused with 429 at capacity.                             *)
Start(b) ==
    /\ agents[b] = "none"
    /\ ~AtCapacity
    /\ builds' = [builds EXCEPT ![b] =
          [status |-> "running", events |-> 0, result |-> Null]]
    /\ active' = active + 1
    /\ agents' = [agents EXCEPT ![b] = "working"]
    /\ UNCHANGED resolving

(* A status report, which the agent does not always wait for: it may come  *)
(* when the agent is gone.                                                 *)
ReportStatus(b) ==
    /\ agents[b] # "none"
    /\ TakesReports(b)
    /\ builds[b].events < MaxEvents
    /\ builds' = [builds EXCEPT ![b].events = @ + 1]
    /\ UNCHANGED <<active, agents, resolving>>

(* An agent at work has made its last report: it waits, or it is answered. *)
Reported(b, state) ==
    agents' = IF agents[b] = "working" THEN [agents EXCEPT ![b] = state]
                                       ELSE agents

(* A done report: the real URL is awaited before anything is recorded.     *)
ReportDone(b, r) ==
    /\ Reporting(b)
    /\ IF TakesReports(b)
         THEN /\ resolving' = resolving \cup {[build |-> b, result |-> r]}
              /\ Reported(b, "waiting")
         ELSE Reported(b, "told") /\ UNCHANGED resolving
    /\ UNCHANGED <<builds, active>>

(* The URL is there: the build is done, whatever became of it meanwhile.   *)
EntryUrlResolved(d) ==
    /\ d \in resolving
    /\ resolving' = resolving \ {d}
    /\ builds' = [builds EXCEPT ![d.build] =
          [@ EXCEPT !.status = "done", !.result = d.result]]
    /\ agents' = IF agents[d.build] = "waiting"
                   THEN [agents EXCEPT ![d.build] = "told"] ELSE agents
    /\ UNCHANGED active

ReportFailed(b) ==
    /\ Reporting(b)
    /\ builds' = IF TakesReports(b)
                   THEN [builds EXCEPT ![b].status = "failed"] ELSE builds
    /\ Reported(b, "told")
    /\ UNCHANGED <<active, resolving>>

(* A final report that is lost or refused: the agent's client swallows the *)
(* error, and the agent goes on to its end.                                *)
ReportLost(b) ==
    /\ agents[b] = "working"
    /\ Reported(b, "told")
    /\ UNCHANGED <<builds, active, resolving>>

(* The end of the process fails the build without looking at its status.   *)
AgentEndsBlindly(b) ==
    /\ agents[b] \in {"working", "told"} \/ (Impatient /\ agents[b] = "waiting")
    /\ builds' = [builds EXCEPT ![b] =
          IF @ = Null THEN @ ELSE [@ EXCEPT !.status = "failed"]]
    /\ active' = active - 1
    /\ agents' = [agents EXCEPT ![b] = "gone"]
    /\ UNCHANGED resolving

(* The end of the process leaves the build as it is.                       *)
AgentEndsSilently(b) ==
    /\ agents[b] \in {"working", "told"} \/ (Impatient /\ agents[b] = "waiting")
    /\ active' = active - 1
    /\ agents' = [agents EXCEPT ![b] = "gone"]
    /\ UNCHANGED <<builds, resolving>>

(* The agent's process ends, or throws: a build that still runs has failed, *)
(* and the slot is freed.                                                  *)
AgentEnds(b) ==
    /\ agents[b] \in {"working", "told"} \/ (Impatient /\ agents[b] = "waiting")
    /\ builds' = IF Running(b)
                   THEN [builds EXCEPT ![b].status = "failed"] ELSE builds
    /\ active' = active - 1
    /\ agents' = [agents EXCEPT ![b] = "gone"]
    /\ UNCHANGED resolving

(* The service is restarted: the maps, the agents in the process and the   *)
(* reports it was handling are gone.                                       *)
Restart ==
    /\ Restarts
    /\ builds' = [b \in Builds |-> Null]
    /\ active' = 0
    /\ agents' = [b \in Builds |->
          IF agents[b] = "none" THEN "none" ELSE "gone"]
    /\ resolving' = {}

-----------------------------------------------------------------------------
AgentStep(b) ==
    \/ ReportStatus(b)
    \/ \E r \in Results : ReportDone(b, r)
    \/ ReportFailed(b)
    \/ ReportLost(b)
    \/ AgentEnds(b)

Next ==
    \/ \E b \in Builds : Start(b) \/ AgentStep(b)
    \/ \E d \in resolving : EntryUrlResolved(d)
    \/ Restart

Spec == Init /\ [][Next]_runnerVars

(* Assumed of the agent and of the alias lookup: an agent's process ends   *)
(* once it has had its answer, or had enough; a lookup answers.            *)
Fairness ==
    /\ \A b \in Builds : WF_runnerVars(AgentEnds(b))
    /\ \A d \in DoneReport : WF_runnerVars(EntryUrlResolved(d))

FairSpec == Spec /\ Fairness
=============================================================================
