------------------------- MODULE BuildLifecycleProofs -------------------------
(***************************************************************************)
(* Theorems about module BuildLifecycle, for every set of builds, owners   *)
(* and faults: the pipeline keeps the promise of BuildPromise, the URL of  *)
(* a jam is its builder's, and a quiet discard is final.                   *)
(***************************************************************************)
EXTENDS BuildLifecycleProperties, FiniteSetTheorems, TLAPS

(* What is proved of the builder alone.                                    *)
R == INSTANCE BuildRunnerProofs

LEMMA RunnerConstants ==
    /\ R!IsFiniteSet(Builds) /\ Null \notin R!BuildState
    /\ MaxConcurrent \in Nat \ {0} /\ MaxEvents \in Nat
    /\ Impatient \in BOOLEAN /\ Restarts \in BOOLEAN /\ Null \notin Results
BY BuilderAssumption, LifecycleAssumption
DEF R!IsFiniteSet, IsFiniteSet, R!BuildState, Runner!BuildState, R!Status, Runner!Status

Url(b) == IF app[b] = Null THEN Null ELSE app[b].entryUrl

(* A verdict that finishing the build may still change.                    *)
Open(b) ==
    \/ build[b].status = "generating"
    \/ build[b].status = "failed" /\ build[b].error = "interrupted"

(* What the driver's place says of the rows of its build: only it ends the *)
(* build, or the reaper once it polls, so that it never turns a verdict.   *)
DriverInv(b) ==
    LET at == driver[b].at IN
    /\ at = "none" <=> build[b] = Null
    /\ at \in {"none", "slug", "allocate"} => app[b] = Null
    /\ at = "allocate" => driver[b].slug # 0
    /\ at = "link" => app[b] # Null
    /\ at \in CreateSteps \cup {"start"} => build[b].status = "queued" /\ b \in fresh
    /\ at = "post" => build[b].status = "generating" /\ b \in fresh
    /\ at \in {"poll", "saveDone"} => Open(b)
    /\ at \in {"saveContract", "finalize"} => build[b].status = "done"
    /\ at \in {"saveDone", "saveContract", "finalize"} => driver[b].result \in Results
    /\ at # "ended" => Url(b) = Null
    /\ Url(b) # Null => build[b].status = "done"
    /\ b \in writes => build[b] # Null
    /\ b \in publishing => app[b] # Null

LifeInv ==
    /\ R!RunnerInv
    /\ PlatformTypeOK
    /\ \A b \in Builds : DriverInv(b)

LEMMA StepNames ==
    /\ CreateSteps = {"slug", "allocate", "link"}
    /\ RunSteps = {"start", "post", "poll", "saveDone", "saveContract", "finalize",
                   "saveFailed"}
    /\ Ends = {"done", "failed"}
BY DEF CreateSteps, RunSteps, Ends

(* What the verbs of the actions do to the rows of a build.                *)
LEMMA GotoDoes ==
    ASSUME PlatformTypeOK, NEW b \in Builds,
           NEW step \in {"none", "ended"} \cup CreateSteps \cup RunSteps, Goto(b, step)
    PROVE  /\ driver' = [driver EXCEPT ![b] = driver'[b]] /\ driver'[b] \in DriverState
           /\ driver'[b].at = step /\ driver'[b].result = driver[b].result
BY DEF PlatformTypeOK, Goto, DriverState

LEMMA EndDoes ==
    ASSUME PlatformTypeOK, NEW b \in Builds, End(b)
    PROVE  /\ driver' = [driver EXCEPT ![b] = driver'[b]] /\ driver'[b] \in DriverState
           /\ driver'[b].at = "ended"
<1>1. Gone \in DriverState /\ Gone.at = "ended"
  <2>1. 0 \in 0 .. Cardinality(Builds)
    BY FS_CardinalityType, BuilderAssumption
  <2> QED BY <2>1 DEF Gone, Idle, DriverState
<1> QED BY <1>1 DEF PlatformTypeOK, End

LEMMA SaveDoes ==
    ASSUME PlatformTypeOK, NEW b \in Builds, build[b] # Null,
           NEW status \in {"queued", "generating", "done", "failed"}, NEW error \in Errors,
           Save(b, status, error)
    PROVE  /\ build' = [build EXCEPT ![b] = build'[b]] /\ build'[b] \in BuildRow
           /\ build'[b] # Null
           /\ build'[b].status = status /\ build'[b].error = error
           /\ build'[b].appId = build[b].appId
           /\ fresh' \subseteq fresh \cup {b} /\ fresh \ {b} \subseteq fresh'
           /\ status \notin Ends => b \in fresh'
<1>1. [build[b] EXCEPT !.status = status, !.error = error] \in BuildRow
  BY DEF PlatformTypeOK, BuildRow
<1> QED BY <1>1, NullIsNoRow DEF PlatformTypeOK, BuildRow, Save

(* A step of one build, which leaves its rows and its driver consistent.   *)
RowStep(b) ==
    /\ build' = [build EXCEPT ![b] = build'[b]] /\ build'[b] \in BuildRow \cup {Null}
    /\ app' = [app EXCEPT ![b] = app'[b]] /\ app'[b] \in AppRow \cup {Null}
    /\ driver' = [driver EXCEPT ![b] = driver'[b]] /\ driver'[b] \in DriverState
    /\ fresh' \subseteq fresh \cup {b} /\ fresh \ {b} \subseteq fresh'
    /\ writes' \subseteq writes \cup {b} /\ publishing' \subseteq publishing \cup {b}
    /\ DriverInv(b)'
    /\ driver'[b].at \in RunSteps => app'[b] # Null /\ build'[b].appId

LEMMA RowStepInv ==
    ASSUME LifeInv, NEW b \in Builds, RowStep(b)
    PROVE  /\ PlatformTypeOK' /\ \A c \in Builds : DriverInv(c)'
           /\ \A c \in Builds \ {b} : Verdict(c)' = Verdict(c) /\ Url(c)' = Url(c)
<1>1. \A c \in Builds \ {b} : /\ build'[c] = build[c] /\ app'[c] = app[c]
                              /\ driver'[c] = driver[c] /\ (c \in fresh <=> c \in fresh')
                              /\ (c \in writes' => c \in writes)
                              /\ (c \in publishing' => c \in publishing)
  BY DEF RowStep, LifeInv, PlatformTypeOK
<1>2. PlatformTypeOK'
  <2>1. /\ build' \in [Builds -> BuildRow \cup {Null}]
        /\ app' \in [Builds -> AppRow \cup {Null}] /\ driver' \in [Builds -> DriverState]
        /\ writes' \subseteq Builds /\ fresh' \subseteq Builds /\ publishing' \subseteq Builds
    BY DEF RowStep, LifeInv, PlatformTypeOK
  <2>2. ASSUME NEW c \in Builds, driver'[c].at \in RunSteps
        PROVE  app'[c] # Null /\ build'[c].appId
    BY <1>1, <2>2 DEF RowStep, LifeInv, PlatformTypeOK
  <2> QED BY <2>1, <2>2 DEF PlatformTypeOK
<1>3. ASSUME NEW c \in Builds \ {b} PROVE DriverInv(c)'
  BY <1>1, <1>3 DEF LifeInv, DriverInv, Open, Url
<1>4. \A c \in Builds \ {b} : Verdict(c)' = Verdict(c) /\ Url(c)' = Url(c)
  BY <1>1 DEF Verdict, Terminal, Url
<1> QED BY <1>2, <1>3, <1>4 DEF RowStep

(* An unchanged table, written as a step of one build.                     *)
LEMMA SameRow ==
    ASSUME PlatformTypeOK, NEW b \in Builds
    PROVE  /\ build = [build EXCEPT ![b] = build[b]] /\ app = [app EXCEPT ![b] = app[b]]
           /\ driver = [driver EXCEPT ![b] = driver[b]]
           /\ build[b] \in BuildRow \cup {Null} /\ app[b] \in AppRow \cup {Null}
           /\ driver[b] \in DriverState
BY DEF PlatformTypeOK

(* What a step may do to the promise: nothing, or one of its actions.      *)
Promised(b) ==
    \/ Verdict(b)' = Verdict(b) /\ Url(b)' = Url(b)
    \/ Verdict(b) = "pending" /\ Verdict(b)' = "interrupted" /\ Url(b)' = Url(b)
    \/ Verdict(b) \in {"pending", "interrupted"} /\ Verdict(b)' = "done" /\ Url(b)' = Url(b)
    \/ Verdict(b) # "failed" /\ Verdict(b)' = "failed" /\ Url(b) = Null /\ Url(b)' = Null
    \/ Verdict(b) = "done" /\ Verdict(b)' = "done" /\ Url(b) = Null /\ Url(b)' \in Results

LEMMA CreateStep ==
    ASSUME LifeInv, NEW b \in Builds, Create(b) PROVE RowStep(b) /\ Promised(b)
<1>1. /\ driver' = [driver EXCEPT ![b] = driver'[b]] /\ driver'[b] \in DriverState
      /\ driver'[b].at = "slug"
  BY GotoDoes, StepNames DEF Create, LifeInv
<1>2. [status |-> "queued", error |-> Null, appId |-> FALSE] \in BuildRow
  BY DEF BuildRow, Errors
<1>3. /\ build'[b] \in BuildRow /\ build'[b] # Null /\ build'[b].status = "queued"
      /\ build' = [build EXCEPT ![b] = build'[b]] /\ build[b] = Null /\ app' = app
      /\ fresh' = fresh \cup {b} /\ writes' = writes /\ publishing' = publishing
  BY <1>2, NullIsNoRow DEF Create, LifeInv, PlatformTypeOK
<1>4. DriverInv(b)' /\ app[b] = Null
  BY <1>1, <1>3, StepNames DEF LifeInv, DriverInv, Url
<1>5. RowStep(b)
  BY <1>1, <1>3, <1>4, SameRow, StepNames DEF RowStep, LifeInv
<1> QED BY <1>3, <1>4, <1>5, StepNames DEF Promised, Verdict, Terminal, Url

(* Most steps of a driver leave the tables alone.                          *)
LEMMA DriverOnly ==
    ASSUME LifeInv, NEW b \in Builds, UNCHANGED <<build, app, fresh, publishing>>,
           writes' \subseteq writes \cup {b}, driver[b].at # "none",
           driver' = [driver EXCEPT ![b] = driver'[b]], driver'[b] \in DriverState,
           driver'[b].at \in RunSteps => driver[b].at \in RunSteps,
           LET at == driver'[b].at IN
           /\ at = "allocate" => driver[b].at = "slug" /\ driver'[b].slug # 0
           /\ at \in {"poll", "saveDone"} => driver[b].at \in {"post", "poll"}
           /\ at = "finalize" => driver[b].at = "saveContract"
           /\ at = "saveDone" => driver'[b].result \in Results
           /\ at = "finalize" => driver'[b].result = driver[b].result
           /\ at \in {"allocate", "poll", "saveDone", "finalize", "saveFailed", "ended"}
           /\ at = "saveFailed" => driver[b].at \in RunSteps
    PROVE  RowStep(b) /\ Promised(b)
<1>1. DriverInv(b)'
  BY StepNames DEF LifeInv, DriverInv, Open, Url
<1>2. driver[b].at \in RunSteps => app[b] # Null /\ build[b].appId
  BY DEF LifeInv, PlatformTypeOK
<1>3. RowStep(b)
  BY <1>1, <1>2, SameRow DEF RowStep, LifeInv
<1> QED BY <1>3 DEF Promised, Verdict, Terminal, Url

LEMMA DriverOnlySteps ==
    ASSUME LifeInv, NEW b \in Builds,
           \/ PickSlug(b) \/ PostAccepted(b) \/ PostBusy(b) \/ PostThrows(b)
           \/ PollExpired(b) \/ PollThrows(b) \/ SaveContract(b) \/ StatementThrows(b)
    PROVE  RowStep(b) /\ Promised(b)
<1> USE StepNames
<1>0. PlatformTypeOK
  BY DEF LifeInv
<1>1. CASE PickSlug(b)
  <2>1. PICK n \in 1 .. Cardinality(Builds) :
          driver' = [driver EXCEPT ![b].at = "allocate", ![b].slug = n]
    BY <1>1 DEF PickSlug
  <2>2. n \in 0 .. Cardinality(Builds)
    BY FS_CardinalityType, BuilderAssumption
  <2>3. [driver[b] EXCEPT !.at = "allocate", !.slug = n] \in DriverState
    BY <1>0, <2>2 DEF PlatformTypeOK, DriverState
  <2>4. /\ driver'[b] = [driver[b] EXCEPT !.at = "allocate", !.slug = n]
        /\ driver' = [driver EXCEPT ![b] = driver'[b]]
    BY <1>0, <2>1 DEF PlatformTypeOK
  <2>5. driver'[b] \in DriverState /\ driver'[b].at = "allocate" /\ driver'[b].slug # 0
    BY <1>0, <2>3, <2>4 DEF PlatformTypeOK, DriverState
  <2> QED BY <1>1, <2>4, <2>5, DriverOnly DEF PickSlug
<1>2. CASE PostAccepted(b)
  BY <1>0, <1>2, GotoDoes, DriverOnly DEF PostAccepted
<1>3. CASE PostBusy(b) \/ PostThrows(b)
  BY <1>0, <1>3, GotoDoes, DriverOnly DEF PostBusy, PostThrows
<1>4. CASE PollExpired(b) \/ PollThrows(b)
  BY <1>0, <1>4, GotoDoes, DriverOnly DEF PollExpired, PollThrows
<1>5. CASE SaveContract(b)
  BY <1>0, <1>5, GotoDoes, DriverOnly DEF SaveContract
<1>6. CASE StatementThrows(b)
  <2>1. CASE driver[b].at \in {"start", "saveDone", "saveContract"} /\ Goto(b, "saveFailed")
    BY <1>0, <1>6, <2>1, GotoDoes, DriverOnly DEF StatementThrows
  <2>2. CASE driver[b].at \in CreateSteps \cup {"finalize", "saveFailed"} /\ End(b)
    BY <1>0, <1>6, <2>2, EndDoes, DriverOnly DEF StatementThrows
  <2> QED BY <1>6, <2>1, <2>2 DEF StatementThrows
<1> QED BY <1>1, <1>2, <1>3, <1>4, <1>5, <1>6

LEMMA PollStep ==
    ASSUME LifeInv, NEW b \in Builds, Poll(b) PROVE RowStep(b) /\ Promised(b)
<1> USE StepNames
<1>1. /\ UNCHANGED <<build, app, fresh, publishing>> /\ writes' \subseteq writes \cup {b}
      /\ driver[b].at = "poll" /\ PlatformTypeOK
  BY DEF Poll, LifeInv
<1>2. builds[b].status = "done" => builds[b].result \in Results
  BY DEF Poll, LifeInv, R!RunnerInv, R!TypeOK, R!BuildState
<1>3. CASE builds[b].status = "done"
  <2>1. driver' = [driver EXCEPT ![b].at = "saveDone", ![b].result = builds[b].result]
    BY <1>3 DEF Poll
  <2>2. /\ driver' = [driver EXCEPT ![b] = driver'[b]] /\ driver'[b] \in DriverState
        /\ driver'[b].at = "saveDone" /\ driver'[b].result \in Results
    BY <1>1, <1>2, <1>3, <2>1 DEF PlatformTypeOK, DriverState
  <2> QED BY <1>1, <2>2, DriverOnly
<1>4. CASE builds[b].status = "failed"
  <2>1. driver' = [driver EXCEPT ![b].at = "saveFailed"]
    BY <1>4 DEF Poll
  <2>2. Goto(b, "saveFailed")
    BY <2>1 DEF Goto
  <2> QED BY <1>1, <2>2, GotoDoes, DriverOnly
<1>5. CASE builds[b].status \notin {"done", "failed"}
  <2>1. driver' = driver
    BY <1>5 DEF Poll
  <2> QED BY <1>1, <2>1, SameRow, DriverOnly
<1> QED BY <1>3, <1>4, <1>5

LEMMA AllocateStep ==
    ASSUME LifeInv, NEW b \in Builds, Allocate(b) PROVE RowStep(b) /\ Promised(b)
<1> USE StepNames
<1>1. /\ UNCHANGED <<build, writes, fresh, publishing>> /\ driver[b].at = "allocate"
      /\ app[b] = Null /\ build[b] # Null /\ PlatformTypeOK
      /\ build[b].status = "queued" /\ b \in fresh
  BY DEF Allocate, LifeInv, DriverInv
<1>2. CASE SlugTaken(driver[b].slug)
  BY <1>1, <1>2, EndDoes, DriverOnly DEF Allocate
<1>3. CASE ~SlugTaken(driver[b].slug)
  <2> DEFINE jam == [slug |-> driver[b].slug, entryUrl |-> Null, status |-> "building"]
  <2>1. app' = [app EXCEPT ![b] = jam] /\ Goto(b, "link")
    BY <1>3 DEF Allocate
  <2>2. jam \in AppRow /\ jam.entryUrl = Null
    <3>1. driver[b].slug \in 1 .. Cardinality(Builds)
      BY <1>1, FS_CardinalityType, BuilderAssumption
      DEF PlatformTypeOK, DriverState, DriverInv, LifeInv
    <3> QED BY <3>1 DEF AppRow
  <2> HIDE DEF jam
  <2>3. app'[b] = jam /\ app'[b] # Null /\ app' = [app EXCEPT ![b] = app'[b]] /\ Url(b)' = Null
    BY <1>1, <2>1, <2>2, NullIsNoRow DEF PlatformTypeOK, Url
  <2>4. /\ driver' = [driver EXCEPT ![b] = driver'[b]] /\ driver'[b] \in DriverState
        /\ driver'[b].at = "link"
    BY <1>1, <2>1, GotoDoes
  <2>5. DriverInv(b)'
    BY <1>1, <2>3, <2>4 DEF LifeInv, DriverInv
  <2>6. RowStep(b)
    BY <1>1, <2>2, <2>3, <2>4, <2>5, SameRow DEF RowStep
  <2> QED BY <1>1, <2>3, <2>6 DEF Promised, Verdict, Terminal, Url
<1> QED BY <1>2, <1>3

LEMMA LinkStep ==
    ASSUME LifeInv, NEW b \in Builds, Link(b) PROVE RowStep(b) /\ Promised(b)
<1> USE StepNames
<1>1. /\ UNCHANGED <<app, writes, publishing>> /\ driver[b].at = "link"
      /\ build[b] # Null /\ PlatformTypeOK /\ build[b].status = "queued" /\ Url(b) = Null
      /\ fresh' = fresh \cup {b}
  BY DEF Link, LifeInv, DriverInv
<1>2. /\ build'[b] = [build[b] EXCEPT !.appId = TRUE] /\ build'[b] \in BuildRow
      /\ build' = [build EXCEPT ![b] = build'[b]]
      /\ build'[b].status = "queued" /\ build'[b].appId
  BY <1>1 DEF Link, PlatformTypeOK, BuildRow
<1>3. [driver[b] EXCEPT !.at = "start", !.slug = 0] \in DriverState
  <2>1. 0 \in 0 .. Cardinality(Builds)
    BY FS_CardinalityType, BuilderAssumption
  <2> QED BY <1>1, <2>1 DEF PlatformTypeOK, DriverState
<1>4. /\ driver' = [driver EXCEPT ![b] = driver'[b]] /\ driver'[b] \in DriverState
      /\ driver'[b].at = "start"
  BY <1>1, <1>3 DEF Link, PlatformTypeOK, DriverState
<1>5. app[b] # Null
  BY <1>1 DEF LifeInv, DriverInv
<1>6. DriverInv(b)'
  BY <1>1, <1>2, <1>4, <1>5, NullIsNoRow DEF DriverInv, Url
<1>7. RowStep(b)
  BY <1>1, <1>2, <1>4, <1>5, <1>6, SameRow DEF RowStep
<1> QED BY <1>1, <1>2, <1>7, NullIsNoRow DEF Promised, Verdict, Terminal, Url

(* A step that writes the build's status, and moves the driver.            *)
LEMMA StatusSteps ==
    ASSUME LifeInv, NEW b \in Builds, StartRun(b) \/ SaveDone(b) \/ SaveFailed(b)
    PROVE  RowStep(b) /\ Promised(b)
<1> USE StepNames
<1>1. /\ UNCHANGED <<app, writes, publishing>> /\ build[b] # Null /\ PlatformTypeOK
      /\ app[b] # Null /\ build[b].appId /\ Url(b) = Null /\ build[b].error \in Errors
  BY DEF StartRun, SaveDone, SaveFailed, LifeInv, PlatformTypeOK, DriverInv, BuildRow
<1>2. CASE StartRun(b)
  <2>1. /\ build' = [build EXCEPT ![b] = build'[b]] /\ build'[b] \in BuildRow
        /\ build'[b] # Null /\ build'[b].status = "generating" /\ build'[b].appId
        /\ fresh' \subseteq fresh \cup {b} /\ fresh \ {b} \subseteq fresh' /\ b \in fresh'
    BY <1>1, <1>2, SaveDoes DEF StartRun, SaveStatus
  <2>2. /\ driver' = [driver EXCEPT ![b] = driver'[b]] /\ driver'[b] \in DriverState
        /\ driver'[b].at = "post"
    BY <1>1, <1>2, GotoDoes DEF StartRun
  <2>3. build[b].status = "queued"
    BY <1>2 DEF StartRun, LifeInv, DriverInv
  <2>4. DriverInv(b)'
    BY <1>1, <2>1, <2>2 DEF DriverInv, Url
  <2>5. RowStep(b)
    BY <1>1, <2>1, <2>2, <2>4, SameRow DEF RowStep
  <2> QED BY <1>1, <2>1, <2>3, <2>5 DEF Promised, Verdict, Terminal, Url
<1>3. CASE SaveDone(b)
  <2>1. /\ build' = [build EXCEPT ![b] = build'[b]] /\ build'[b] \in BuildRow
        /\ build'[b] # Null /\ build'[b].status = "done" /\ build'[b].appId
        /\ fresh' \subseteq fresh \cup {b} /\ fresh \ {b} \subseteq fresh'
    BY <1>1, <1>3, SaveDoes DEF SaveDone, SaveStatus
  <2>2. /\ driver' = [driver EXCEPT ![b] = driver'[b]] /\ driver'[b] \in DriverState
        /\ driver'[b].at \in {"saveContract", "finalize"}
        /\ driver'[b].result = driver[b].result
    BY <1>1, <1>3, GotoDoes DEF SaveDone
  <2>3. Open(b) /\ driver[b].result \in Results
    BY <1>3 DEF SaveDone, LifeInv, DriverInv
  <2>4. DriverInv(b)'
    BY <1>1, <2>1, <2>2, <2>3 DEF DriverInv, Url
  <2>5. RowStep(b)
    BY <1>1, <2>1, <2>2, <2>4, SameRow DEF RowStep
  <2> QED BY <1>1, <2>1, <2>3, <2>5 DEF Promised, Verdict, Terminal, Url, Open
<1>4. CASE SaveFailed(b)
  <2>1. /\ build' = [build EXCEPT ![b] = build'[b]] /\ build'[b] \in BuildRow
        /\ build'[b] # Null /\ build'[b].status = "failed" /\ build'[b].error = "other"
        /\ fresh' \subseteq fresh \cup {b} /\ fresh \ {b} \subseteq fresh'
    BY <1>1, <1>4, SaveDoes DEF SaveFailed, Errors
  <2>2. /\ driver' = [driver EXCEPT ![b] = driver'[b]] /\ driver'[b] \in DriverState
        /\ driver'[b].at = "ended"
    BY <1>1, <1>4, EndDoes DEF SaveFailed
  <2>3. DriverInv(b)'
    BY <1>1, <2>1, <2>2 DEF DriverInv, Url
  <2>4. RowStep(b)
    BY <1>1, <2>1, <2>2, <2>3, SameRow DEF RowStep
  <2>5. Verdict(b)' = "failed" /\ Url(b)' = Null
    BY <1>1, <2>1 DEF Verdict, Terminal, Url
  <2>6. Verdict(b) = "failed" \/ Verdict(b) # "failed"
    OBVIOUS
  <2> QED BY <1>1, <2>4, <2>5, <2>6 DEF Promised
<1> QED BY <1>2, <1>3, <1>4

LEMMA FinalizeStep ==
    ASSUME LifeInv, NEW b \in Builds, Finalize(b) PROVE RowStep(b) /\ Promised(b)
<1> USE StepNames
<1>1. /\ UNCHANGED <<build, writes, fresh, publishing>> /\ driver[b].at = "finalize"
      /\ app[b] # Null /\ app[b] \in AppRow /\ build[b] # Null /\ PlatformTypeOK
      /\ build[b].status = "done" /\ driver[b].result \in Results /\ Url(b) = Null
  BY DEF Finalize, LifeInv, PlatformTypeOK, DriverInv
<1>2. [app[b] EXCEPT !.entryUrl = driver[b].result, !.status = "listed"] \in AppRow
  BY <1>1 DEF AppRow
<1>3. /\ app' = [app EXCEPT ![b] = app'[b]] /\ app'[b] \in AppRow /\ app'[b] # Null
      /\ app'[b].entryUrl = driver[b].result
  BY <1>1, <1>2, NullIsNoRow DEF Finalize, PlatformTypeOK, AppRow
<1>4. /\ driver' = [driver EXCEPT ![b] = driver'[b]] /\ driver'[b] \in DriverState
      /\ driver'[b].at = "ended"
  BY <1>1, EndDoes DEF Finalize
<1>5. DriverInv(b)'
  BY <1>1, <1>3, <1>4 DEF DriverInv, Url
<1>6. RowStep(b)
  BY <1>1, <1>3, <1>4, <1>5, SameRow DEF RowStep
<1>7. Verdict(b) = "done" /\ Verdict(b)' = "done" /\ Url(b)' \in Results
  BY <1>1, <1>3 DEF Verdict, Terminal, Url
<1> QED BY <1>1, <1>6, <1>7 DEF Promised

(* The steps of others: writes that land, time, the reaper, the owner.     *)
LEMMA OtherSteps ==
    ASSUME LifeInv, NEW b \in Builds,
           \/ PersistProgress(b) \/ GoesQuiet(b) \/ Reap(b)
           \/ Discard(b) \/ PublishStart(b) \/ PublishEnds(b)
    PROVE  RowStep(b) /\ Promised(b)
<1> USE StepNames
<1>1. PlatformTypeOK /\ driver' = driver /\ DriverInv(b)
  BY DEF PersistProgress, GoesQuiet, Reap, Discard, PublishStart, PublishEnds, LifeInv
<1>2. CASE PersistProgress(b) \/ GoesQuiet(b) \/ PublishStart(b)
  <2>1. /\ UNCHANGED <<build, app>> /\ writes' \subseteq writes
        /\ fresh' \subseteq fresh \cup {b} /\ fresh \ {b} \subseteq fresh'
        /\ publishing' \subseteq publishing \cup {b}
        /\ b \in fresh /\ b \notin fresh' => driver[b].at \in {"poll", "ended"}
        /\ b \in publishing' => b \in publishing \/ app[b] # Null
    BY <1>2 DEF PersistProgress, GoesQuiet, PublishStart
  <2>2. DriverInv(b)'
    BY <1>1, <2>1 DEF DriverInv, Open, Url
  <2>3. RowStep(b)
    BY <1>1, <2>1, <2>2, SameRow DEF RowStep, PlatformTypeOK
  <2> QED BY <2>1, <2>3 DEF Promised, Verdict, Terminal, Url
<1>3. CASE Reap(b)
  <2>1. /\ UNCHANGED <<app, writes, publishing>> /\ build[b] # Null
        /\ build[b].status \notin Ends /\ b \notin fresh
    BY <1>3 DEF Reap, Terminal
  <2>2. /\ build' = [build EXCEPT ![b] = build'[b]] /\ build'[b] \in BuildRow
        /\ build'[b] # Null /\ build'[b].status = "failed"
        /\ build'[b].error = "interrupted" /\ build'[b].appId = build[b].appId
        /\ fresh' \subseteq fresh \cup {b} /\ fresh \ {b} \subseteq fresh'
    BY <1>1, <1>3, <2>1, SaveDoes DEF Reap, Errors
  <2>3. DriverInv(b)'
    BY <1>1, <2>1, <2>2 DEF DriverInv, Open, Url
  <2>4. RowStep(b)
    BY <1>1, <2>1, <2>2, <2>3, SameRow DEF RowStep, PlatformTypeOK
  <2> QED BY <2>1, <2>2, <2>4 DEF Promised, Verdict, Terminal, Url
<1>4. CASE Discard(b) \/ PublishEnds(b)
  <2>1. /\ UNCHANGED <<build, writes, fresh>> /\ publishing' \subseteq publishing
        /\ app' = app \/ \E status \in {"listed", "delisted"} :
                            app' = [app EXCEPT ![b].status = status]
    BY <1>4 DEF Discard, PublishEnds
  <2>2. app[b] # Null /\ app[b] \in AppRow
    BY <1>1, <1>4 DEF Discard, PublishEnds, DriverInv, PlatformTypeOK
  <2>3. \A status \in {"listed", "delisted"} :
          LET jam == [app[b] EXCEPT !.status = status]
          IN  jam \in AppRow /\ jam.entryUrl = app[b].entryUrl
    BY <2>2 DEF AppRow
  <2>4. /\ app' = [app EXCEPT ![b] = app'[b]] /\ app'[b] \in AppRow
        /\ app'[b].entryUrl = app[b].entryUrl
    BY <1>1, <2>1, <2>2, <2>3 DEF PlatformTypeOK
  <2>5. Url(b)' = Url(b) /\ app'[b] # Null
    BY <2>2, <2>4, NullIsNoRow DEF Url
  <2>6. DriverInv(b)'
    BY <1>1, <2>1, <2>2, <2>5 DEF DriverInv, Open
  <2>7. RowStep(b)
    BY <1>1, <2>1, <2>4, <2>5, <2>6, SameRow DEF RowStep, PlatformTypeOK
  <2> QED BY <2>1, <2>5, <2>7 DEF Promised, Verdict, Terminal
<1> QED BY <1>2, <1>3, <1>4


LEMMA CrashStep ==
    ASSUME LifeInv, Crash
    PROVE  UNCHANGED <<build, app>> /\ PlatformTypeOK' /\ \A c \in Builds : DriverInv(c)'
<1> USE StepNames
<1>1. /\ UNCHANGED <<build, app, fresh>> /\ writes' = {} /\ publishing' = {} /\ PlatformTypeOK
      /\ driver' = [b \in Builds |-> IF driver[b].at = "none" THEN Idle ELSE Gone]
  BY DEF Crash, LifeInv
<1>2. /\ Idle \in DriverState /\ Idle.at = "none"
      /\ Gone \in DriverState /\ Gone.at = "ended"
  <2>1. 0 \in 0 .. Cardinality(Builds)
    BY FS_CardinalityType, BuilderAssumption
  <2> QED BY <2>1 DEF Gone, Idle, DriverState
<1>3. PlatformTypeOK'
  BY <1>1, <1>2 DEF PlatformTypeOK
<1>4. ASSUME NEW c \in Builds PROVE DriverInv(c)'
  <2>1. driver'[c].at = IF driver[c].at = "none" THEN "none" ELSE "ended"
    BY <1>1, <1>2
  <2> QED BY <1>1, <2>1 DEF LifeInv, DriverInv, Url
<1> QED BY <1>1, <1>3, <1>4

-----------------------------------------------------------------------------
(* The builder's part of a step is a step of BuildRunner.                  *)
LEMMA StartIsRunners == ASSUME NEW b \in Builds, Runner!Start(b) PROVE R!Start(b) /\ R!Next
<1>1. R!Start(b)
  BY DEF Runner!Start, R!Start, Runner!AtCapacity, R!AtCapacity
<1> QED BY <1>1 DEF R!Next

LEMMA RunnersStep == ASSUME [Next]_vars PROVE [R!Next]_(R!runnerVars)
<1>1. ASSUME NEW b \in Builds, Runner!AgentStep(b) PROVE R!Next
  <2>1. R!AgentStep(b)
    BY <1>1 DEF Runner!AgentStep, R!AgentStep, Runner!ReportStatus, R!ReportStatus,
       Runner!ReportDone, R!ReportDone, Runner!ReportFailed, R!ReportFailed,
       Runner!ReportLost, R!ReportLost, Runner!AgentEnds, R!AgentEnds, R!TakesReports,
       Runner!TakesReports, R!Running, Runner!Running, R!Reported, Runner!Reported,
       R!Reporting, Runner!Reporting
  <2> QED BY <2>1 DEF R!Next
<1>2. ASSUME NEW d \in resolving, Runner!EntryUrlResolved(d) PROVE R!Next
  <2>1. R!EntryUrlResolved(d)
    BY <1>2 DEF Runner!EntryUrlResolved, R!EntryUrlResolved
  <2> QED BY <2>1 DEF R!Next
<1>3. ASSUME Runner!Restart PROVE R!Next
  BY <1>3 DEF Runner!Restart, R!Restart, R!Next
<1>4. ASSUME NEW b \in Builds, PostAccepted(b) \/ PostThrows(b)
      PROVE  R!Next \/ UNCHANGED R!runnerVars
  BY <1>4, StartIsRunners DEF PostAccepted, PostThrows, BuilderIdle, R!runnerVars
<1>5. ASSUME UNCHANGED <<builds, active, agents, resolving>> PROVE UNCHANGED R!runnerVars
  BY <1>5 DEF R!runnerVars
<1>6. CASE BuilderStep
  BY <1>1, <1>2, <1>3, <1>6 DEF BuilderStep
<1>7. CASE Crash \/ UNCHANGED vars
  BY <1>5, <1>7 DEF Crash, BuilderIdle, vars
<1>8. ASSUME NEW b \in Builds,
             \/ Create(b) \/ StatementThrows(b) \/ PollThrows(b)
             \/ PersistProgress(b) \/ GoesQuiet(b) \/ Reap(b)
             \/ Discard(b) \/ PublishStart(b) \/ PublishEnds(b)
      PROVE  UNCHANGED R!runnerVars
  BY <1>5, <1>8 DEF Create, StatementThrows, PollThrows, PersistProgress, GoesQuiet, Reap,
     Discard, PublishStart, PublishEnds, BuilderIdle
<1>9. ASSUME NEW b \in Builds, DriverStep(b), ~PostAccepted(b)
      PROVE  UNCHANGED R!runnerVars
  BY <1>5, <1>9 DEF DriverStep, PickSlug, Allocate, Link, StartRun, PostBusy, Poll,
     PollExpired, SaveDone, SaveContract, Finalize, SaveFailed, BuilderIdle
<1> QED BY <1>4, <1>6, <1>7, <1>8, <1>9 DEF Next

LEMMA InitInv == ASSUME Init PROVE LifeInv
<1>1. R!RunnerInv
  <2>1. R!Init
    BY DEF Init, Runner!Init, R!Init
  <2> QED BY <2>1, RunnerConstants DEF R!Init, R!RunnerInv, R!TypeOK, R!AgentState
<1>2. Idle \in DriverState /\ Idle.at = "none"
  <2>1. 0 \in 0 .. Cardinality(Builds)
    BY FS_CardinalityType, BuilderAssumption
  <2> QED BY <2>1 DEF Idle, DriverState
<1>3. PlatformTypeOK
  BY <1>2, StepNames DEF Init, PlatformTypeOK
<1>4. ASSUME NEW b \in Builds PROVE DriverInv(b)
  BY <1>2, StepNames DEF Init, DriverInv, Url
<1> QED BY <1>1, <1>3, <1>4 DEF LifeInv

(* Every step is one of one build, a crash, or the builder's alone.        *)
LEMMA Steps ==
    ASSUME LifeInv, [Next]_vars
    PROVE  \/ \E b \in Builds : RowStep(b) /\ Promised(b)
           \/ Crash
           \/ UNCHANGED platformVars
<1>1. ASSUME NEW b \in Builds, DriverStep(b) PROVE RowStep(b) /\ Promised(b)
  BY <1>1, DriverOnlySteps, AllocateStep, LinkStep, StatusSteps, PollStep, FinalizeStep
  DEF DriverStep
<1> QED BY <1>1, CreateStep, DriverOnlySteps, OtherSteps DEF Next, BuilderStep, vars, platformVars

LEMMA StepInv == ASSUME LifeInv, [Next]_vars PROVE LifeInv'
<1>1. R!RunnerInv'
  <2>1. R!RunnerInv
    BY DEF LifeInv
  <2> QED BY <2>1, RunnersStep, RunnerConstants, R!StepType
<1>2. PlatformTypeOK' /\ \A b \in Builds : DriverInv(b)'
  <2>1. ASSUME NEW b \in Builds, RowStep(b) PROVE PlatformTypeOK' /\ \A c \in Builds : DriverInv(c)'
    BY <2>1, RowStepInv
  <2>2. CASE UNCHANGED platformVars
    BY <2>2 DEF platformVars, LifeInv, PlatformTypeOK, DriverInv, Open, Url
  <2> QED BY <2>1, <2>2, Steps, CrashStep
<1> QED BY <1>1, <1>2 DEF LifeInv

THEOREM LifeInvariant == Spec => []LifeInv
<1> QED BY InitInv, StepInv, PTL DEF Spec

(* Everything is typed, and a driver past create has its app               *)
(* (builds.ts:339-347), on both services.                                  *)
THEOREM LifecycleTypes == Spec => []TypeOK
<1>1. LifeInv => TypeOK
  BY DEF LifeInv, TypeOK, R!RunnerInv, R!TypeOK, Runner!TypeOK, R!BuildState,
     Runner!BuildState, R!Status, Runner!Status, R!AgentState, Runner!AgentState,
     R!DoneReport, Runner!DoneReport
<1> QED BY <1>1, LifeInvariant, PTL

(* The pipeline keeps the promise of BuildPromise.                         *)
LEMMA InitPromise == ASSUME Init PROVE Promise!Init
BY DEF Init, Promise!Init, Verdict

LEMMA StepPromise == ASSUME LifeInv, [Next]_vars PROVE [Promise!Next]_(Promise!vars)
<1> DEFINE v == [b \in Builds |-> Verdict(b)]
           u == [b \in Builds |-> IF app[b] = Null THEN Null ELSE app[b].entryUrl]
<1>1. ASSUME UNCHANGED <<build, app>> PROVE UNCHANGED Promise!vars
  BY <1>1 DEF Promise!vars, Verdict, Terminal
<1>2. ASSUME NEW b \in Builds, RowStep(b), Promised(b)
      PROVE  [Promise!Next]_(Promise!vars)
  <2>1. \A c \in Builds \ {b} : Verdict(c)' = Verdict(c) /\ Url(c)' = Url(c)
    BY <1>2, RowStepInv
  <2>2. /\ v' = [v EXCEPT ![b] = Verdict(b)'] /\ u' = [u EXCEPT ![b] = Url(b)']
        /\ v[b] = Verdict(b) /\ u[b] = Url(b)
        /\ v = [v EXCEPT ![b] = v[b]] /\ u = [u EXCEPT ![b] = u[b]]
    BY <2>1 DEF Url
  <2>3. /\ Promise!vars = <<v, u>> /\ Promise!vars' = <<v', u'>>
        /\ Promise!Interrupt(b) <=> /\ v[b] = "pending"
              /\ v' = [v EXCEPT ![b] = "interrupted"] /\ u' = u
        /\ Promise!Finish(b) <=> /\ v[b] \in {"pending", "interrupted"}
              /\ v' = [v EXCEPT ![b] = "done"] /\ u' = u
        /\ Promise!Fail(b) <=> /\ v[b] # "failed" /\ u[b] = Null
              /\ v' = [v EXCEPT ![b] = "failed"] /\ u' = u
        /\ \A r : Promise!Attach(b, r) <=> /\ v[b] = "done" /\ u[b] = Null
              /\ u' = [u EXCEPT ![b] = r] /\ v' = v
    BY DEF Promise!vars, Promise!Interrupt, Promise!Finish, Promise!Fail, Promise!Attach
  <2>4. (\/ Promise!Interrupt(b) \/ Promise!Finish(b) \/ Promise!Fail(b)
         \/ \E r \in Results : Promise!Attach(b, r)) => Promise!Next
    BY DEF Promise!Next
  <2> HIDE DEF v, u
  <2> QED BY <1>2, <2>2, <2>3, <2>4 DEF Promised
<1> QED BY <1>1, <1>2, Steps, CrashStep DEF platformVars

(* A build has one verdict, which only the reaper's may precede, and a URL *)
(* only once it is done, for good (builds.ts:158-246, reap-builds.ts).     *)
THEOREM KeepsPromise == Spec => ImplementsPromise
<1> QED BY InitPromise, StepPromise, LifeInvariant, PTL DEF Spec, Promise!Spec, ImplementsPromise

(* A discard with nothing under way: no step lists the jam again.          *)
LEMMA QuietStep ==
    ASSUME NEW b \in Builds, LifeInv, [Next]_vars, QuietlyDiscarded(b)
    PROVE  QuietlyDiscarded(b)'
<1> USE StepNames
<1>1. PlatformTypeOK /\ driver[b].at = "ended"
  BY DEF LifeInv, DriverInv, QuietlyDiscarded, Delisted
<1>2. ASSUME NEW c \in Builds \ {b}, RowStep(c) PROVE QuietlyDiscarded(b)'
  <2>1. /\ app'[b] = app[b] /\ driver'[b] = driver[b]
        /\ publishing' \subseteq publishing \cup {c}
    BY <1>1, <1>2 DEF RowStep, PlatformTypeOK
  <2> QED BY <2>1 DEF QuietlyDiscarded, Delisted
<1>3. CASE Crash
  <2>1. app' = app /\ publishing' = {} /\ driver'[b].at = "ended"
    BY <1>1, <1>3 DEF Crash, Gone, Idle
  <2> QED BY <2>1 DEF QuietlyDiscarded, Delisted
<1>4. CASE UNCHANGED platformVars
  BY <1>4 DEF platformVars, QuietlyDiscarded, Delisted
<1>5. ~Create(b) /\ ~DriverStep(b) /\ ~PostThrows(b) /\ ~PollThrows(b) /\ ~StatementThrows(b)
  <2>1. build[b] # Null
    BY <1>1 DEF LifeInv, DriverInv
  <2> QED BY <1>1, <2>1 DEF Create, DriverStep, PickSlug, Allocate, Link, StartRun,
          PostAccepted, PostBusy, Poll, PollExpired, SaveDone, SaveContract, Finalize,
          SaveFailed, PostThrows, PollThrows, StatementThrows
<1>6. CASE PersistProgress(b) \/ GoesQuiet(b) \/ Reap(b)
  BY <1>6 DEF PersistProgress, GoesQuiet, Reap, QuietlyDiscarded, Delisted
<1>7. CASE Discard(b)
  BY <1>1, <1>7, NullIsNoRow DEF Discard, QuietlyDiscarded, Delisted, PlatformTypeOK, AppRow
<1>8. ~PublishStart(b) /\ ~PublishEnds(b)
  BY DEF PublishStart, PublishEnds, QuietlyDiscarded, Delisted
<1>9. ASSUME NEW c \in Builds, DriverStep(c) PROVE RowStep(c)
  BY <1>9, DriverOnlySteps, AllocateStep, LinkStep, StatusSteps, PollStep, FinalizeStep
  DEF DriverStep
<1> QED BY <1>2, <1>3, <1>4, <1>5, <1>6, <1>7, <1>8, <1>9, CreateStep, DriverOnlySteps,
        OtherSteps DEF Next, BuilderStep, vars, platformVars

(* A jam discarded with nothing under way is gone for good, whatever is    *)
(* done later (apps.ts:527-528).                                           *)
THEOREM QuietDiscard == Spec => QuietDiscardIsFinal
<1>1. ASSUME NEW b \in Builds
      PROVE  Spec => [](QuietlyDiscarded(b) => []Delisted(b))
  <2>1. LifeInv /\ [Next]_vars /\ QuietlyDiscarded(b) => QuietlyDiscarded(b)'
    BY <1>1, QuietStep
  <2>2. QuietlyDiscarded(b) => Delisted(b)
    BY DEF QuietlyDiscarded
  <2> QED BY <2>1, <2>2, LifeInvariant, PTL DEF Spec
<1> QED BY <1>1 DEF QuietDiscardIsFinal
-----------------------------------------------------------------------------
(* What a driver that saw its build done, or a row it finalised, says the  *)
(* builder shows.                                                          *)
Claims(b, r) ==
    \/ driver[b].at \in {"saveDone", "saveContract", "finalize"} /\ driver[b].result = r
    \/ Url(b) = r

ClaimsHold ==
    \A b \in Builds : \A r \in Results :
        Claims(b, r) /\ builds[b] # Null => builds[b].status = "done" /\ builds[b].result = r

(* Only a poll makes a new claim, and it made it of what it saw.           *)
LEMMA NewClaim ==
    ASSUME LifeInv, [Next]_vars, NEW b \in Builds, NEW r \in Results, Claims(b, r)'
    PROVE  \/ Claims(b, r)
           \/ /\ builds' = builds /\ builds[b] # Null
              /\ builds[b].status = "done" /\ builds[b].result = r
<1> USE StepNames, LifecycleAssumption, NullIsNoRow
<1>1. PlatformTypeOK
  BY DEF LifeInv
<1>2. ASSUME NEW c \in Builds \ {b}, RowStep(c) PROVE Claims(b, r)
  <2>1. app'[b] = app[b] /\ driver'[b] = driver[b]
    BY <1>1, <1>2 DEF RowStep, PlatformTypeOK
  <2> QED BY <2>1 DEF Claims, Url
<1>3. ASSUME driver'[b].at \notin {"saveDone", "saveContract", "finalize"},
             Url(b)' = Url(b)
      PROVE  Claims(b, r)
  BY <1>3 DEF Claims
<1>4. CASE UNCHANGED <<app, driver>>
  BY <1>4 DEF Claims, Url
<1>5. CASE Crash
  <2>1. app' = app /\ driver'[b].at \in {"none", "ended"}
    BY <1>1, <1>5 DEF Crash, Gone, Idle
  <2> QED BY <1>3, <2>1 DEF Url
<1>6. CASE Create(b) \/ StatementThrows(b)
  <2>1. /\ app' = app
        /\ driver'[b].at \notin {"saveDone", "saveContract", "finalize"}
    BY <1>1, <1>6 DEF Create, StatementThrows, Goto, End, Gone, Idle, PlatformTypeOK, DriverState
  <2> QED BY <1>3, <2>1 DEF Url
<1>7. CASE PickSlug(b) \/ Link(b) \/ StartRun(b) \/ PostAccepted(b) \/ PostBusy(b)
           \/ PostThrows(b) \/ PollExpired(b) \/ PollThrows(b) \/ SaveFailed(b)
  <2>1. /\ app' = app
        /\ driver'[b].at \notin {"saveDone", "saveContract", "finalize"}
    BY <1>1, <1>7 DEF PickSlug, Link, StartRun, PostAccepted, PostBusy, PostThrows,
       PollExpired, PollThrows, SaveFailed, Goto, End, Gone, Idle, PlatformTypeOK, DriverState
  <2> QED BY <1>3, <2>1 DEF Url
<1>8. CASE Allocate(b)
  <2>1. /\ driver'[b].at \notin {"saveDone", "saveContract", "finalize"}
        /\ Url(b)' \in {Null, Url(b)}
    BY <1>1, <1>8 DEF Allocate, Goto, End, Gone, Idle, PlatformTypeOK, DriverState, Url
  <2> QED BY <2>1 DEF Claims
<1>9. CASE Poll(b)
  BY <1>1, <1>9 DEF Poll, BuilderIdle, Claims, Url, PlatformTypeOK, DriverState
<1>10. CASE SaveDone(b) \/ SaveContract(b)
  <2>1. app' = app /\ driver[b].at \in {"saveDone", "saveContract"} /\ driver'[b].result = driver[b].result
    BY <1>1, <1>10 DEF SaveDone, SaveContract, Goto, PlatformTypeOK, DriverState
  <2> QED BY <2>1 DEF Claims, Url
<1>11. CASE Finalize(b)
  <2>1. driver[b].at = "finalize" /\ driver'[b].at = "ended" /\ Url(b)' \in {driver[b].result, Null}
    BY <1>1, <1>11 DEF Finalize, End, Gone, Idle, PlatformTypeOK, Url
  <2> QED BY <2>1 DEF Claims
<1>12. CASE Discard(b) \/ PublishEnds(b)
  <2>1. app[b] \in AppRow
    BY <1>1, <1>12 DEF Discard, PublishEnds, PlatformTypeOK, LifeInv, DriverInv
  <2> DEFINE row(status) == [app[b] EXCEPT !.status = status]
  <2>2. \A status : row(status).entryUrl = app[b].entryUrl
    BY <2>1 DEF AppRow
  <2>3. driver' = driver /\ (app' = app \/ \E status : app'[b] = row(status))
    BY <1>1, <1>12 DEF Discard, PublishEnds, PlatformTypeOK
  <2>4. driver' = driver /\ Url(b)' \in {Null, Url(b)}
    BY <2>1, <2>2, <2>3 DEF Url
  <2> QED BY <2>4 DEF Claims
<1>13. CASE PersistProgress(b) \/ GoesQuiet(b) \/ Reap(b) \/ PublishStart(b)
  BY <1>4, <1>13 DEF PersistProgress, GoesQuiet, Reap, PublishStart
<1>14. ASSUME NEW c \in Builds, DriverStep(c) PROVE RowStep(c)
  BY <1>14, DriverOnlySteps, AllocateStep, LinkStep, StatusSteps, PollStep, FinalizeStep
  DEF DriverStep
<1>15. ASSUME NEW c \in Builds \ {b},
              \/ Create(c) \/ DriverStep(c) \/ PostThrows(c) \/ PollThrows(c)
              \/ StatementThrows(c) \/ PersistProgress(c) \/ GoesQuiet(c) \/ Reap(c)
              \/ Discard(c) \/ PublishStart(c) \/ PublishEnds(c)
       PROVE  Claims(b, r)
  BY <1>2, <1>14, <1>15, CreateStep, DriverOnlySteps, OtherSteps
<1>16. CASE BuilderStep \/ UNCHANGED vars
  BY <1>4, <1>16 DEF BuilderStep, vars, platformVars
<1> QED BY <1>5, <1>6, <1>7, <1>8, <1>9, <1>10, <1>11, <1>12, <1>13, <1>15, <1>16
        DEF Next, DriverStep

(* The builder gets to know a build only from its driver's POST.           *)
LEMMA OnlyPosted ==
    ASSUME LifeInv, [Next]_vars, NEW b \in Builds, builds[b] = Null, builds'[b] # Null
    PROVE  driver[b].at = "post"
<1>1. R!RunnerInv /\ builds \in [Builds -> R!BuildState \cup {Null}]
  BY DEF LifeInv, R!RunnerInv, R!TypeOK
<1>2. [R!Next]_(R!runnerVars)
  BY RunnersStep
<1>3. PICK c \in Builds : PostAccepted(c) \/ PostThrows(c)
  <2>1. ~BuilderStep /\ ~Crash /\ builds' # builds
    <3>1. ASSUME NEW c \in Builds, Runner!AgentStep(c) PROVE FALSE
      BY <1>1, <3>1 DEF Runner!AgentStep, Runner!ReportStatus, Runner!ReportDone,
         Runner!ReportFailed, Runner!ReportLost, Runner!AgentEnds, Runner!TakesReports,
         Runner!Running
    <3>2. ASSUME NEW d \in resolving, Runner!EntryUrlResolved(d) PROVE FALSE
      BY <1>1, <3>2 DEF Runner!EntryUrlResolved, R!RunnerInv
    <3>3. ~Runner!Restart
      BY DEF Runner!Restart
    <3> QED BY <3>1, <3>2, <3>3 DEF BuilderStep, Crash, BuilderIdle
  <2> QED BY <2>1 DEF Next, DriverStep, vars, BuilderIdle, Create, PickSlug, Allocate, Link,
          StartRun, PostBusy, Poll, PollExpired, SaveDone, SaveContract, Finalize, SaveFailed,
          PollThrows, StatementThrows, PersistProgress, GoesQuiet, Reap, Discard,
          PublishStart, PublishEnds
<1>4. c = b
  BY <1>1, <1>3 DEF PostAccepted, PostThrows, BuilderIdle, Runner!Start
<1> QED BY <1>3, <1>4 DEF PostAccepted, PostThrows

(* The builder shows what a jam's row says of it: with agents that wait    *)
(* for the answer to their report, no build changes after it was seen done *)
(* (queue.ts:169-188), and its driver stored what it saw                   *)
(* (builder-dispatch.ts:99-117, builds.ts:226-245).                        *)
THEOREM UrlsAgree == ASSUME ~Impatient PROVE Spec => []UrlIsTheBuilders
<1> DEFINE Inv == LifeInv /\ R!PatientInv /\ ClaimsHold
<1>1. Init => Inv
  <2> SUFFICES ASSUME Init PROVE Inv
    OBVIOUS
  <2>1. R!PatientInv
    BY DEF Init, Runner!Init, R!PatientInv
  <2> QED BY <2>1, InitInv DEF Init, Runner!Init, ClaimsHold
<1>2. Inv /\ [Next]_vars => Inv'
  <2> SUFFICES ASSUME Inv, [Next]_vars PROVE Inv'
    OBVIOUS
  <2>1. R!RunnerInv /\ [R!Next]_(R!runnerVars)
    BY RunnersStep DEF LifeInv
  <2>2. R!PatientInv'
    BY <2>1, RunnerConstants, R!PatientStep
  <2>3. ASSUME NEW b \in Builds, NEW r \in Results, Claims(b, r)', builds'[b] # Null
        PROVE  builds'[b].status = "done" /\ builds'[b].result = r
    <3>1. CASE Claims(b, r) /\ builds[b] # Null
      <4>1. builds[b].status = "done" /\ builds[b].result = r
        BY <3>1 DEF ClaimsHold
      <4>2. builds'[b] \in {builds[b], Null}
        BY <2>1, <3>1, <4>1, RunnerConstants, R!TerminalStep
      <4> QED BY <2>3, <4>1, <4>2
    <3>2. CASE Claims(b, r) /\ builds[b] = Null
      <4>1. driver[b].at = "post"
        BY <2>3, <3>2, OnlyPosted
      <4>2. Url(b) = Null
        BY <4>1 DEF LifeInv, DriverInv
      <4> QED BY <3>2, <4>1, <4>2, LifecycleAssumption DEF Claims
    <3> QED BY <2>3, <3>1, <3>2, NewClaim
  <2>4. ClaimsHold'
    BY <2>3 DEF ClaimsHold
  <2> QED BY <2>2, <2>4, StepInv
<1>3. Inv => UrlIsTheBuilders
  <2> SUFFICES ASSUME Inv, NEW b \in Builds, app[b] # Null, app[b].entryUrl # Null
               PROVE  /\ build[b].status = "done"
                      /\ builds[b] # Null => /\ builds[b].status = "done"
                                             /\ builds[b].result = app[b].entryUrl
    BY DEF UrlIsTheBuilders
  <2>1. Url(b) = app[b].entryUrl /\ app[b].entryUrl \in Results
    BY DEF Url, LifeInv, PlatformTypeOK, AppRow
  <2> QED BY <2>1 DEF LifeInv, DriverInv, ClaimsHold, Claims
<1> QED BY <1>1, <1>2, <1>3, PTL DEF Spec
==============================================================================
