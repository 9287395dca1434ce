--------------------------- MODULE BuildLifecycle ---------------------------
(***************************************************************************)
(* A build as the platform sees it: the rows of tables build and app, the  *)
(* call of builds.create that becomes the build's driver, the reaper, and  *)
(* the routes that move a jam in and out of the feeds meanwhile.  Composed *)
(* with the builder service of module BuildRunner, over HTTP.              *)
(*                                                                         *)
(* Translated from packages/api/src/routers/{builds,apps,publish}.ts and   *)
(* packages/api/src/lib/{builder-dispatch,reap-builds}.ts.  Every route is *)
(* an async function: one action is one awaited statement or request with  *)
(* the code after it.  All jams here ask for the same slug.                *)
(***************************************************************************)
EXTENDS Integers, FiniteSets

CONSTANTS
    Builds,         \* builds; each one is created at most once
    Results,        \* what the builder deploys: a project and its URL
    MaxConcurrent, Impatient, Restarts, MaxEvents, Null,    \* see BuildRunner
    Managed,        \* the jams whose owner discards them
    Published,      \* the jams whose owner publishes them
    Faults,         \* which faults happen: see FaultKinds
    Unlucky         \* the builds whose statements and requests may fail

VARIABLES
    builds, active, agents, resolving,  \* the builder, see BuildRunner
    build,      \* table build
    app,        \* table app, by the build the row was allocated for
    driver,     \* builds.create and then runBuild: where the call stands
    writes,     \* the builds with a progress write under way
    fresh,      \* of the builds that have not ended, those whose row was
                \* written within STALE_BUILD_MS
    publishing  \* the jams with a publish.submit past its checks

Runner == INSTANCE BuildRunner

platformVars == <<build, app, driver, writes, fresh, publishing>>

vars == <<builds, active, agents, resolving, platformVars>>

(* "db":    a database statement throws.                                   *)
(* "net":   a request to the builder throws, or is answered 5xx.           *)
(* "crash": the platform's server goes down.                               *)
FaultKinds == {"db", "net", "crash"}

(* The builder's constants are as BuildRunner assumes them.                *)
ASSUME BuilderAssumption ==
    /\ IsFiniteSet(Builds)
    /\ MaxConcurrent \in Nat \ {0} /\ MaxEvents \in Nat
    /\ Impatient \in BOOLEAN /\ Restarts \in BOOLEAN
    /\ Null \notin Runner!BuildState

ASSUME LifecycleAssumption ==
    /\ Managed \subseteq Builds /\ Published \subseteq Builds /\ Unlucky \subseteq Builds
    /\ Faults \subseteq FaultKinds
    /\ Null \notin Results

-----------------------------------------------------------------------------
(* Types                                                                   *)

Errors == {Null, "interrupted", "other"}

BuildRow == [status: {"queued", "generating", "done", "failed"},
             error: Errors, appId: BOOLEAN]

AppRow == [slug: 1 .. Cardinality(Builds), entryUrl: Results \cup {Null},
           status: {"building", "listed", "delisted"}]

ASSUME NullIsNoRow == Null \notin BuildRow \cup AppRow

(* Where a driver stands: the statement or request it awaits next.  The    *)
(* first three belong to builds.create, the others to runBuild.            *)
CreateSteps == {"slug", "allocate", "link"}

RunSteps == {"start", "post", "poll", "saveDone", "saveContract", "finalize",
             "saveFailed"}

DriverState == [at: {"none", "ended"} \cup CreateSteps \cup RunSteps,
                slug: 0 .. Cardinality(Builds), result: Results \cup {Null}]

Idle == [at |-> "none", slug |-> 0, result |-> Null]

(* Everything is typed, and whatever a driver does after create it does    *)
(* for a build that has its app.                                           *)
PlatformTypeOK ==
    /\ build \in [Builds -> BuildRow \cup {Null}]
    /\ app \in [Builds -> AppRow \cup {Null}]
    /\ driver \in [Builds -> DriverState]
    /\ writes \subseteq Builds /\ fresh \subseteq Builds
    /\ publishing \subseteq Builds
    /\ \A b \in Builds :
          driver[b].at \in RunSteps => app[b] # Null /\ build[b].appId

Init ==
    /\ Runner!Init
    /\ build = [b \in Builds |-> Null]
    /\ app = [b \in Builds |-> Null]
    /\ driver = [b \in Builds |-> Idle]
    /\ writes = {} /\ fresh = {} /\ publishing = {}

-----------------------------------------------------------------------------
(* Helpers                                                                 *)

Goto(b, step) == driver' = [driver EXCEPT ![b].at = step]

(* The call is over: nothing of it is left but what it wrote.              *)
Gone == [Idle EXCEPT !.at = "ended"]

End(b) == driver' = [driver EXCEPT ![b] = Gone]

Ends == {"done", "failed"}

Terminal(b) == build[b].status \in Ends

(* A row that is written is fresh: baseEntityFields bumps its updatedAt.   *)
Save(b, status, error) ==
    /\ build' = [build EXCEPT ![b].status = status, ![b].error = error]
    /\ fresh' = IF status \in Ends THEN fresh \ {b} ELSE fresh \cup {b}

(* build[b].error is only ever written with a failure.                     *)
SaveStatus(b, status) == Save(b, status, build[b].error)

SlugTaken(n) == \E b \in Builds : app[b] # Null /\ app[b].slug = n

(* A poll brings no event to write.                                        *)
NoNews(b) == builds[b] # Null => builds[b].events = 0

MayFail(kind, b) == kind \in Faults /\ b \in Unlucky

BuilderIdle == UNCHANGED <<builds, active, agents, resolving>>

-----------------------------------------------------------------------------
(* builds.create                                                           *)

(* The build is inserted first.                                            *)
Create(b) ==
    /\ build[b] = Null
    /\ build' = [build EXCEPT ![b] =
          [status |-> "queued", error |-> Null, appId |-> FALSE]]
    /\ fresh' = fresh \cup {b}
    /\ Goto(b, "slug")
    /\ UNCHANGED <<app, writes, publishing>> /\ BuilderIdle

(* dedupeSlug: the first candidate without a row.                          *)
PickSlug(b) ==
    /\ driver[b].at = "slug"
    /\ \E n \in 1 .. Cardinality(Builds) :
          /\ ~SlugTaken(n)
          /\ \A m \in 1 .. n - 1 : SlugTaken(m)
          /\ driver' = [driver EXCEPT ![b].at = "allocate", ![b].slug = n]
    /\ UNCHANGED <<build, app, writes, fresh, publishing>> /\ BuilderIdle

(* The app's insert is refused by the unique slug when another one took it *)
(* in between: create throws, and leaves a queued build without a driver.  *)
Allocate(b) ==
    /\ driver[b].at = "allocate"
    /\ IF SlugTaken(driver[b].slug)
         THEN End(b) /\ UNCHANGED app
         ELSE /\ app' = [app EXCEPT ![b] = [slug |-> driver[b].slug,
                            entryUrl |-> Null, status |-> "building"]]
              /\ Goto(b, "link")
    /\ UNCHANGED <<build, writes, fresh, publishing>> /\ BuilderIdle

(* The update left out.                                                    *)
(* build.appId is set, runBuild is fired, and create answers.              *)
Link(b) ==
    /\ driver[b].at = "link"
    /\ build' = [build EXCEPT ![b].appId = TRUE]
    /\ fresh' = fresh \cup {b}
    /\ driver' = [driver EXCEPT ![b].at = "start", ![b].slug = 0]
    /\ UNCHANGED <<app, writes, publishing>> /\ BuilderIdle

-----------------------------------------------------------------------------
(* runBuild, with the remote deployer inlined                              *)

StartRun(b) ==
    /\ driver[b].at = "start"
    /\ SaveStatus(b, "generating")
    /\ Goto(b, "post")
    /\ UNCHANGED <<app, writes, publishing>> /\ BuilderIdle

(* The builder took the build.                                             *)
PostAccepted(b) ==
    /\ driver[b].at = "post"
    /\ Runner!Start(b)
    /\ Goto(b, "poll")
    /\ UNCHANGED <<build, app, writes, fresh, publishing>>

(* 429: the deployer throws BUILDER_BUSY.                                  *)
PostBusy(b) ==
    /\ driver[b].at = "post"
    /\ Runner!AtCapacity
    /\ Goto(b, "saveFailed")
    /\ UNCHANGED <<build, app, writes, fresh, publishing>> /\ BuilderIdle

(* The request throws; the builder may have taken the build all the same.  *)
PostThrows(b) ==
    /\ MayFail("net", b)
    /\ driver[b].at = "post"
    /\ BuilderIdle \/ Runner!Start(b)
    /\ Goto(b, "saveFailed")
    /\ UNCHANGED <<build, app, writes, fresh, publishing>>

(* What a poll that is answered sees: onProgress starts a write, which     *)
(* nobody awaits, when there are events; a done build must have a result.  *)
Poll(b) ==
    LET seen == builds[b]
    IN  /\ driver[b].at = "poll"
        /\ seen # Null
        /\ writes' = IF seen.events > 0 THEN writes \cup {b} ELSE writes
        /\ driver' =
             IF seen.status = "done"
               THEN [driver EXCEPT ![b].at = "saveDone", ![b].result = seen.result]
             ELSE IF seen.status = "failed"
               THEN [driver EXCEPT ![b].at = "saveFailed"]
             ELSE driver
        /\ UNCHANGED <<build, app, fresh, publishing>> /\ BuilderIdle

(* The 24 hours are over and the poll is not answered with an end: the     *)
(* builder has forgotten the build, is down, or still runs it.             *)
PollExpired(b) ==
    /\ driver[b].at = "poll"
    /\ builds[b] = Null \/ Runner!Running(b) \/ MayFail("net", b)
    /\ Goto(b, "saveFailed")
    /\ UNCHANGED <<build, app, writes, fresh, publishing>> /\ BuilderIdle

PollThrows(b) ==
    /\ MayFail("net", b)
    /\ driver[b].at = "poll"
    /\ Goto(b, "saveFailed")
    /\ UNCHANGED <<build, app, writes, fresh, publishing>> /\ BuilderIdle

(* UPDATE build SET status = done WHERE id: whatever the status is by now. *)
SaveDone(b) ==
    /\ driver[b].at = "saveDone"
    /\ SaveStatus(b, "done")
    /\ \E contract \in BOOLEAN :
          Goto(b, IF contract THEN "saveContract" ELSE "finalize")
    /\ UNCHANGED <<app, writes, publishing>> /\ BuilderIdle

(* The contract of an onchain game is stored with the app.                 *)
SaveContract(b) ==
    /\ driver[b].at = "saveContract"
    /\ Goto(b, "finalize")
    /\ UNCHANGED <<build, app, writes, fresh, publishing>> /\ BuilderIdle

(* finalizeExternalApp: the URL, and listed, whatever the status was.      *)
Finalize(b) ==
    /\ driver[b].at = "finalize"
    /\ app' = [app EXCEPT ![b].entryUrl = driver[b].result,
                          ![b].status = "listed"]
    /\ End(b)
    /\ UNCHANGED <<build, writes, fresh, publishing>> /\ BuilderIdle

(* The catch of runBuild.                                                  *)
SaveFailed(b) ==
    /\ driver[b].at = "saveFailed"
    /\ Save(b, "failed", "other")
    /\ End(b)
    /\ UNCHANGED <<app, writes, publishing>> /\ BuilderIdle

(* A statement of the driver throws.  In create nothing catches it; in     *)
(* runBuild it fails the build, except where finalising is best effort and *)
(* where failing the build is what did not work.                           *)
StatementThrows(b) ==
    /\ MayFail("db", b)
    /\ \/ /\ driver[b].at \in {"start", "saveDone", "saveContract"}
          /\ Goto(b, "saveFailed")
       \/ /\ driver[b].at \in CreateSteps \cup {"finalize", "saveFailed"}
          /\ End(b)
    /\ UNCHANGED <<build, app, writes, fresh, publishing>> /\ BuilderIdle

(* The status written along with the events.                               *)
PersistProgressAndStatus(b) ==
    /\ b \in writes
    /\ writes' = writes \ {b}
    /\ SaveStatus(b, "generating")
    /\ UNCHANGED <<app, driver, publishing>> /\ BuilderIdle

(* A progress write lands, whatever became of the build since.             *)
PersistProgress(b) ==
    /\ b \in writes
    /\ writes' = writes \ {b}
    /\ fresh' = IF Terminal(b) THEN fresh ELSE fresh \cup {b}
    /\ UNCHANGED <<build, app, driver, publishing>> /\ BuilderIdle

-----------------------------------------------------------------------------
(* apps.mine, apps.discard, publish.submit                                 *)

(* 20 minutes pass without a write.  No single statement takes that long,  *)
(* and a poll that is answered with events writes each time.               *)
GoesQuiet(b) ==
    /\ b \in fresh \ writes
    /\ \/ driver[b].at = "ended"
       \/ driver[b].at = "poll" /\ (NoNews(b) \/ MayFail("net", b))
    /\ fresh' = fresh \ {b}
    /\ UNCHANGED <<build, app, driver, writes, publishing>> /\ BuilderIdle

(* Only the builds that generate are looked for.                           *)
ReapGenerating(b) ==
    /\ build[b] # Null /\ build[b].status = "generating"
    /\ b \notin fresh
    /\ Save(b, "failed", "interrupted")
    /\ UNCHANGED <<app, driver, writes, publishing>> /\ BuilderIdle

(* reapStaleBuilds, when the owner lists the jams.                         *)
Reap(b) ==
    /\ build[b] # Null
    /\ ~Terminal(b)
    /\ b \notin fresh
    /\ Save(b, "failed", "interrupted")
    /\ UNCHANGED <<app, driver, writes, publishing>> /\ BuilderIdle

Discard(b) ==
    /\ b \in Managed
    /\ app[b] # Null
    /\ app' = [app EXCEPT ![b].status = "delisted"]
    /\ UNCHANGED <<build, driver, writes, fresh, publishing>> /\ BuilderIdle

(* requireApp left out.                                                    *)
PublishStartAny(b) ==
    /\ b \in Published
    /\ app[b] # Null
    /\ publishing' = publishing \cup {b}
    /\ UNCHANGED <<build, app, driver, writes, fresh>> /\ BuilderIdle

(* requireApp refuses a delisted jam; the fee is then verified and stored. *)
PublishStart(b) ==
    /\ b \in Published
    /\ app[b] # Null /\ app[b].status # "delisted"
    /\ publishing' = publishing \cup {b}
    /\ UNCHANGED <<build, app, driver, writes, fresh>> /\ BuilderIdle

(* UPDATE app SET status = listed WHERE id, or the fee was refused.        *)
PublishEnds(b) ==
    /\ b \in publishing
    /\ publishing' = publishing \ {b}
    /\ \/ app' = [app EXCEPT ![b].status = "listed"]
       \/ UNCHANGED app
    /\ UNCHANGED <<build, driver, writes, fresh>> /\ BuilderIdle

(* The server goes down, and every call in it.                             *)
Crash ==
    /\ "crash" \in Faults
    /\ driver' = [b \in Builds |->
          IF driver[b].at = "none" THEN Idle ELSE Gone]
    /\ writes' = {} /\ publishing' = {}
    /\ UNCHANGED <<build, app, fresh>> /\ BuilderIdle

-----------------------------------------------------------------------------
(* What the driver does by itself, faults aside.                           *)
DriverStep(b) ==
    \/ PickSlug(b) \/ Allocate(b) \/ Link(b)
    \/ StartRun(b) \/ PostAccepted(b) \/ PostBusy(b)
    \/ Poll(b) \/ PollExpired(b)
    \/ SaveDone(b) \/ SaveContract(b) \/ Finalize(b) \/ SaveFailed(b)

BuilderStep ==
    /\ \/ \E b \in Builds : Runner!AgentStep(b)
       \/ \E d \in resolving : Runner!EntryUrlResolved(d)
       \/ Runner!Restart
    /\ UNCHANGED platformVars

Next ==
    \/ \E b \in Builds :
          \/ Create(b) \/ DriverStep(b)
          \/ PostThrows(b) \/ PollThrows(b) \/ StatementThrows(b)
          \/ PersistProgress(b) \/ GoesQuiet(b) \/ Reap(b)
          \/ Discard(b) \/ PublishStart(b) \/ PublishEnds(b)
    \/ Crash
    \/ BuilderStep

Spec == Init /\ [][Next]_vars

(* A driver in flight goes on, and its deadline comes; writes land; quiet  *)
(* time passes; and the owner looks at the jams (the reaper has no other   *)
(* clock).  Of the builder, as BuildRunner assumes.                        *)
Fairness ==
    /\ \A b \in Builds :
          /\ WF_vars(DriverStep(b)) /\ WF_vars(PollExpired(b))
          /\ WF_vars(PersistProgress(b)) /\ WF_vars(GoesQuiet(b))
          /\ WF_vars(Reap(b))
          /\ WF_vars(Runner!AgentEnds(b) /\ UNCHANGED platformVars)
    /\ \A r \in [build: Builds, result: Results] :
          WF_vars(Runner!EntryUrlResolved(r) /\ UNCHANGED platformVars)

FairSpec == Spec /\ Fairness
=============================================================================
