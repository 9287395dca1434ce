------------------------- MODULE BuildRunnerProofs -------------------------
(***************************************************************************)
(* Theorems about module BuildRunner, for every number of builds and slots. *)
(***************************************************************************)
EXTENDS BuildRunnerProperties, FiniteSetTheorems, TLAPS

(* A build the service knows was started, and a done report is handled for *)
(* a build it knows.                                                       *)
RunnerInv ==
    /\ TypeOK
    /\ \A b \in Builds : agents[b] = "none" => builds[b] = Null
    /\ \A d \in resolving : builds[d.build] # Null

(* Each step keeps the types, and what is being resolved on the books.     *)
LEMMA StepType ==
    ASSUME RunnerInv, [Next]_runnerVars
    PROVE  RunnerInv'
<1> USE RunnerAssumption, NullIsNoState
<1>1. ASSUME NEW b \in Builds, Start(b) PROVE RunnerInv'
  <2>1. [status |-> "running", events |-> 0, result |-> Null] \in BuildState
    BY DEF BuildState, Status
  <2> QED BY <1>1, <2>1 DEF Start, RunnerInv, TypeOK, AgentState
<1>2. ASSUME NEW b \in Builds, ReportStatus(b) PROVE RunnerInv'
  <2>1. /\ b \in Builds /\ builds[b] \in BuildState
        /\ builds[b].events + 1 \in 0 .. MaxEvents
    BY <1>2 DEF ReportStatus, TakesReports, Running, RunnerInv, TypeOK, BuildState
  <2> DEFINE s == [builds[b] EXCEPT !.events = @ + 1]
  <2>2. /\ s \in BuildState
        /\ s.status = builds[b].status /\ s.result = builds[b].result
    BY <2>1 DEF BuildState
  <2>3. builds' = [builds EXCEPT ![b] = s] /\ UNCHANGED <<active, agents, resolving>>
    BY <1>2 DEF ReportStatus
  <2> HIDE DEF s
  <2> QED BY <2>1, <2>2, <2>3 DEF RunnerInv, TypeOK
<1>3. ASSUME NEW b \in Builds, NEW r \in Results, ReportDone(b, r)
      PROVE  RunnerInv'
  <2>1. /\ agents' \in [Builds -> AgentState]
        /\ \A c \in Builds : agents'[c] = "none" => agents[c] = "none"
        /\ UNCHANGED <<builds, active>>
    BY <1>3 DEF ReportDone, Reported, RunnerInv, TypeOK, AgentState
  <2>2. resolving' \subseteq DoneReport
    BY <1>3 DEF ReportDone, RunnerInv, TypeOK, DoneReport
  <2>3. \A d \in resolving' : builds[d.build] # Null
    BY <1>3 DEF ReportDone, RunnerInv, TakesReports, Running
  <2> QED BY <2>1, <2>2, <2>3 DEF RunnerInv, TypeOK
<1>4. ASSUME NEW d \in resolving, EntryUrlResolved(d) PROVE RunnerInv'
  <2> DEFINE b == d.build
             s == [builds[b] EXCEPT !.status = "done", !.result = d.result]
  <2>1. b \in Builds /\ d.result \in Results /\ builds[b] \in BuildState
    BY DEF RunnerInv, TypeOK, DoneReport
  <2>2. s \in BuildState /\ s.status = "done" /\ s.result # Null
    BY <2>1 DEF BuildState, Status
  <2>3. builds' = [builds EXCEPT ![b] = s]
    BY <1>4 DEF EntryUrlResolved
  <2>4. /\ agents' \in [Builds -> AgentState]
        /\ \A c \in Builds : agents'[c] = "none" => agents[c] = "none"
    BY <1>4 DEF EntryUrlResolved, RunnerInv, TypeOK, AgentState
  <2> HIDE DEF s
  <2>5. /\ builds' \in [Builds -> BuildState \cup {Null}]
        /\ \A c \in Builds : agents'[c] = "none" => builds'[c] = Null
        /\ \A c \in Builds : builds'[c] # Null =>
              (builds'[c].status = "done" <=> builds'[c].result # Null)
    BY <2>1, <2>2, <2>3, <2>4 DEF RunnerInv, TypeOK
  <2>6. \A e \in resolving' : builds'[e.build] # Null
    BY <1>4, <2>1, <2>2, <2>3 DEF EntryUrlResolved, RunnerInv, TypeOK, DoneReport
  <2> QED BY <1>4, <2>4, <2>5, <2>6 DEF EntryUrlResolved, RunnerInv, TypeOK
<1>5. ASSUME NEW b \in Builds,
             \/ builds' = builds
             \/ Running(b) /\ builds' = [builds EXCEPT ![b].status = "failed"],
             agents' \in [Builds -> AgentState], active' \in Int,
             \A c \in Builds : agents'[c] = "none" => agents[c] = "none",
             UNCHANGED resolving
      PROVE  RunnerInv'
  <2>1. CASE builds' = builds
    BY <1>5, <2>1 DEF RunnerInv, TypeOK
  <2>2. CASE /\ Running(b)
             /\ builds' = [builds EXCEPT ![b].status = "failed"]
    <3> DEFINE s == [builds[b] EXCEPT !.status = "failed"]
    <3>1. /\ builds[b] \in BuildState /\ builds[b].result = Null
          /\ s \in BuildState
          /\ s.status = "failed" /\ s.result = builds[b].result
      BY <2>2 DEF Running, RunnerInv, TypeOK, BuildState, Status
    <3>2. builds' = [builds EXCEPT ![b] = s]
      BY <2>2
    <3> HIDE DEF s
    <3> QED BY <1>5, <2>2, <3>1, <3>2 DEF Running, RunnerInv, TypeOK
  <2> QED BY <1>5, <2>1, <2>2
<1>6. ASSUME NEW b \in Builds, ReportFailed(b) \/ ReportLost(b) PROVE RunnerInv'
  <2>1. /\ agents' \in [Builds -> AgentState]
        /\ \A c \in Builds : agents'[c] = "none" => agents[c] = "none"
    BY <1>6 DEF ReportFailed, ReportLost, Reported, RunnerInv, TypeOK, AgentState
  <2>2. active' \in Int
    BY <1>6 DEF ReportFailed, ReportLost, RunnerInv, TypeOK
  <2> QED BY <1>5, <1>6, <2>1, <2>2 DEF ReportFailed, ReportLost, TakesReports
<1>7. ASSUME NEW b \in Builds, AgentEnds(b) PROVE RunnerInv'
  <2>1. /\ agents' \in [Builds -> AgentState]
        /\ \A c \in Builds : agents'[c] = "none" => agents[c] = "none"
    BY <1>7 DEF AgentEnds, RunnerInv, TypeOK, AgentState
  <2>2. active' \in Int
    BY <1>7 DEF AgentEnds, RunnerInv, TypeOK
  <2> QED BY <1>5, <1>7, <2>1, <2>2 DEF AgentEnds
<1>8. CASE Restart
  BY <1>8 DEF Restart, RunnerInv, TypeOK, AgentState
<1>9. CASE UNCHANGED runnerVars
  BY <1>9 DEF runnerVars, RunnerInv, TypeOK
<1> QED BY <1>1, <1>2, <1>3, <1>4, <1>6, <1>7, <1>8, <1>9 DEF Next, AgentStep

(* Every reachable state of the service is well typed.                     *)
THEOREM TypeCorrect == Spec => []TypeOK
<1>1. Init => RunnerInv
  BY RunnerAssumption DEF Init, RunnerInv, TypeOK, AgentState
<1>2. RunnerInv /\ [Next]_runnerVars => RunnerInv'
  BY StepType
<1>3. RunnerInv => TypeOK
  BY DEF RunnerInv
<1> QED BY <1>1, <1>2, <1>3, PTL DEF Spec

(***************************************************************************)
(* Slots.                                                                  *)
(***************************************************************************)

(* The live agents are finitely many, so they can be counted.              *)
LEMMA LiveFinite == IsFiniteSet(Live)
<1>1. Live \subseteq Builds
  BY DEF Live
<1> QED BY <1>1, FS_Subset, RunnerAssumption

(* A start adds one agent and takes one slot.                              *)
LEMMA StartSlots ==
    ASSUME RunnerInv, SlotsExact, NEW b \in Builds, Start(b)
    PROVE  SlotsExact'
<1>1. b \notin Live /\ Live' = Live \cup {b}
  BY DEF Start, Live, LiveAgent, RunnerInv, TypeOK
<1>2. Cardinality(Live') = Cardinality(Live) + 1
  BY <1>1, LiveFinite, FS_AddElement
<1>3. active + 1 <= MaxConcurrent
  BY RunnerAssumption DEF Start, AtCapacity, RunnerInv, TypeOK
<1> QED BY <1>2, <1>3 DEF Start, SlotsExact

(* The end of an agent, however it comes, frees its one slot.              *)
LEMMA EndSlots ==
    ASSUME RunnerInv, SlotsExact, NEW b \in Builds, AgentEnds(b)
    PROVE  SlotsExact'
<1>1. b \in Live /\ Live' = Live \ {b}
  BY DEF AgentEnds, Live, LiveAgent, RunnerInv, TypeOK
<1>2. Cardinality(Live') = Cardinality(Live) - 1
  BY <1>1, LiveFinite, FS_RemoveElement
<1>3. active' = active - 1 /\ active \in Int
  BY DEF AgentEnds, RunnerInv, TypeOK
<1> QED BY <1>2, <1>3, RunnerAssumption DEF SlotsExact

(* No other step but a restart changes which agents live.                  *)
LEMMA OtherSlots ==
    ASSUME RunnerInv, SlotsExact, UNCHANGED active,
           \A b \in Builds : agents'[b] \in LiveAgent <=> agents[b] \in LiveAgent
    PROVE  SlotsExact'
<1>1. Live' = Live
  BY DEF Live
<1> QED BY <1>1 DEF SlotsExact

(* The counter of slots is exact, and within the limit, in every reachable *)
(* state: no way a build or its agent ends, no late report and no restart  *)
(* leaks a slot or frees one twice.                                        *)
THEOREM SlotsAreExact == Spec => []SlotsExact
<1>1. Init => RunnerInv /\ SlotsExact
  <2> SUFFICES ASSUME Init PROVE RunnerInv /\ SlotsExact
    OBVIOUS
  <2>1. RunnerInv
    BY RunnerAssumption DEF Init, RunnerInv, TypeOK, AgentState
  <2>2. Live = {}
    BY DEF Init, Live, LiveAgent
  <2> QED BY <2>1, <2>2, FS_EmptySet, RunnerAssumption DEF Init, SlotsExact
<1>2. RunnerInv /\ SlotsExact /\ [Next]_runnerVars => (RunnerInv /\ SlotsExact)'
  <2> SUFFICES ASSUME RunnerInv, SlotsExact, [Next]_runnerVars PROVE SlotsExact'
    BY StepType
  <2>1. ASSUME NEW b \in Builds,
               \/ ReportStatus(b) \/ ReportFailed(b) \/ ReportLost(b)
               \/ \E r \in Results : ReportDone(b, r)
        PROVE  SlotsExact'
    <3>1. UNCHANGED active
      BY <2>1 DEF ReportStatus, ReportFailed, ReportLost, ReportDone
    <3>2. \A c \in Builds : agents'[c] \in LiveAgent <=> agents[c] \in LiveAgent
      BY <2>1 DEF ReportStatus, ReportFailed, ReportLost, ReportDone, Reported,
                  LiveAgent, RunnerInv, TypeOK
    <3> QED BY <3>1, <3>2, OtherSlots
  <2>2. ASSUME NEW d \in resolving, EntryUrlResolved(d) PROVE SlotsExact'
    <3>1. \A c \in Builds : agents'[c] \in LiveAgent <=> agents[c] \in LiveAgent
      BY <2>2 DEF EntryUrlResolved, LiveAgent, RunnerInv, TypeOK
    <3> QED BY <2>2, <3>1, OtherSlots DEF EntryUrlResolved
  <2>3. CASE Restart
    <3>1. Live' = {}
      BY <2>3 DEF Restart, Live, LiveAgent
    <3> QED BY <2>3, <3>1, FS_EmptySet, RunnerAssumption DEF Restart, SlotsExact
  <2>4. CASE UNCHANGED runnerVars
    BY <2>4, OtherSlots DEF runnerVars
  <2> QED BY <2>1, <2>2, <2>3, <2>4, StartSlots, EndSlots DEF Next, AgentStep
<1> QED BY <1>1, <1>2, PTL DEF Spec

(***************************************************************************)
(* Terminal states.                                                        *)
(***************************************************************************)

(* A build that is done stays done or is forgotten by a restart, whatever  *)
(* its agent reports and in whatever order (the check of the status in     *)
(* report, and the one when the process ends).                             *)
THEOREM DoneForGood == Spec => DoneIsFinal
<1>1. Init => RunnerInv
  BY RunnerAssumption DEF Init, RunnerInv, TypeOK, AgentState
<1>2. RunnerInv /\ [Next]_runnerVars => RunnerInv'
  BY StepType
<1>3. ASSUME RunnerInv, [Next]_runnerVars, NEW b \in Builds,
             builds[b] # Null, builds[b].status = "done"
      PROVE  builds'[b] = Null \/ builds'[b].status = "done"
  <2>1. ASSUME NEW c \in Builds, AgentStep(c) PROVE builds'[b] = builds[b]
    BY <1>3, <2>1 DEF AgentStep, ReportStatus, ReportDone, ReportFailed,
       ReportLost, AgentEnds, TakesReports, Running, RunnerInv, TypeOK
  <2>2. ASSUME NEW c \in Builds, Start(c) PROVE builds'[b] = builds[b]
    BY <1>3, <2>2 DEF Start, RunnerInv, TypeOK
  <2>3. ASSUME NEW d \in resolving, EntryUrlResolved(d)
        PROVE  builds'[b] = builds[b] \/ builds'[b].status = "done"
    <3>1. d.build \in Builds /\ builds[d.build] \in BuildState
      BY <1>3 DEF RunnerInv, TypeOK, DoneReport
    <3> QED BY <2>3, <3>1 DEF EntryUrlResolved, BuildState, RunnerInv, TypeOK
  <2>4. CASE Restart
    BY <2>4 DEF Restart
  <2>5. CASE UNCHANGED runnerVars
    BY <1>3, <2>5 DEF runnerVars
  <2> QED BY <1>3, <2>1, <2>2, <2>3, <2>4, <2>5 DEF Next
<1>4. RunnerInv /\ [Next]_runnerVars =>
         [\A b \in Builds :
             (builds[b] # Null /\ builds[b].status = "done") =>
                builds'[b] = Null \/ builds'[b].status = "done"]_runnerVars
  BY <1>3
<1> QED BY <1>1, <1>2, <1>4, PTL DEF Spec, DoneIsFinal

(* An agent that waits for its answers has one done report in flight at    *)
(* most, for a build that still runs.                                      *)
PatientInv ==
    /\ \A d \in resolving : agents[d.build] = "waiting" /\ Running(d.build)
    /\ \A d, e \in resolving : d.build = e.build => d = e

(* A step of a build without a done report in flight keeps the others'.    *)
LEMMA PatientElsewhere ==
    ASSUME RunnerInv, PatientInv, NEW b \in Builds,
           \A d \in resolving : d.build # b, UNCHANGED resolving,
           \A c \in Builds :
              c # b => agents'[c] = agents[c] /\ builds'[c] = builds[c]
    PROVE  PatientInv'
BY DEF RunnerInv, TypeOK, DoneReport, PatientInv, Running

(* With agents that wait, every step keeps one done report in flight at    *)
(* most.                                                                   *)
LEMMA PatientStep ==
    ASSUME ~Impatient, RunnerInv, PatientInv, [Next]_runnerVars
    PROVE  PatientInv'
<1>1. ASSUME NEW b \in Builds,
             \/ Start(b) \/ ReportFailed(b) \/ ReportLost(b) \/ AgentEnds(b)
      PROVE  PatientInv'
  <2>1. \A d \in resolving : d.build # b
    BY <1>1 DEF Start, ReportFailed, ReportLost, AgentEnds, Reporting,
       PatientInv, RunnerInv
  <2>2. /\ UNCHANGED resolving
        /\ \A c \in Builds :
              c # b => agents'[c] = agents[c] /\ builds'[c] = builds[c]
    BY <1>1 DEF Start, ReportFailed, ReportLost, AgentEnds, Reported,
       RunnerInv, TypeOK
  <2> QED BY <2>1, <2>2, PatientElsewhere
<1>2. ASSUME NEW b \in Builds, ReportStatus(b) PROVE PatientInv'
  <2>1. builds[b] \in BuildState
    BY <1>2 DEF ReportStatus, TakesReports, Running, RunnerInv, TypeOK
  <2> DEFINE s == [builds[b] EXCEPT !.events = @ + 1]
  <2>2. s.status = builds[b].status /\ s \in BuildState
    BY <1>2, <2>1, RunnerAssumption
       DEF ReportStatus, TakesReports, BuildState
  <2>3. builds' = [builds EXCEPT ![b] = s]
    BY <1>2 DEF ReportStatus
  <2> HIDE DEF s
  <2>4. \A c \in Builds : Running(c) => Running(c)'
    BY <2>2, <2>3, NullIsNoState DEF Running, RunnerInv, TypeOK
  <2> QED BY <1>2, <2>4
          DEF ReportStatus, PatientInv, RunnerInv, TypeOK, DoneReport
<1>3. ASSUME NEW b \in Builds, NEW r \in Results, ReportDone(b, r)
      PROVE  PatientInv'
  <2>1. agents[b] = "working" /\ \A d \in resolving : d.build # b
    BY <1>3 DEF ReportDone, Reporting, PatientInv
  <2>2. CASE TakesReports(b)
    BY <1>3, <2>1, <2>2 DEF ReportDone, Reported, TakesReports, Running,
       PatientInv, RunnerInv, TypeOK, DoneReport
  <2>3. CASE ~TakesReports(b)
    <3>1. /\ UNCHANGED resolving
          /\ \A c \in Builds :
                c # b => agents'[c] = agents[c] /\ builds'[c] = builds[c]
      BY <1>3, <2>3 DEF ReportDone, Reported, RunnerInv, TypeOK
    <3> QED BY <2>1, <3>1, PatientElsewhere
  <2> QED BY <2>2, <2>3
<1>4. ASSUME NEW d \in resolving, EntryUrlResolved(d) PROVE PatientInv'
  <2>1. \A e \in resolving' : e \in resolving /\ e.build # d.build
    BY <1>4 DEF EntryUrlResolved, PatientInv
  <2>2. \A c \in Builds :
           c # d.build => agents'[c] = agents[c] /\ builds'[c] = builds[c]
    BY <1>4 DEF EntryUrlResolved, RunnerInv, TypeOK
  <2> QED BY <2>1, <2>2 DEF PatientInv, Running, RunnerInv, TypeOK, DoneReport
<1>5. CASE Restart
  BY <1>5 DEF Restart, PatientInv
<1>6. CASE UNCHANGED runnerVars
  BY <1>6 DEF runnerVars, PatientInv, Running
<1> QED BY <1>1, <1>2, <1>3, <1>4, <1>5, <1>6 DEF Next, AgentStep

(* With agents that wait, no step but a restart touches a terminal build.  *)
LEMMA TerminalStep ==
    ASSUME RunnerInv, PatientInv, [Next]_runnerVars, NEW b \in Builds,
           builds[b] # Null, builds[b].status # "running"
    PROVE  builds'[b] \in {builds[b], Null}
<1>1. ASSUME NEW c \in Builds, AgentStep(c) PROVE builds'[b] = builds[b]
  BY <1>1 DEF AgentStep, ReportStatus, ReportDone, ReportFailed,
     ReportLost, AgentEnds, TakesReports, Running, RunnerInv, TypeOK
<1>2. ASSUME NEW c \in Builds, Start(c) PROVE builds'[b] = builds[b]
  BY <1>2 DEF Start, RunnerInv, TypeOK
<1>3. ASSUME NEW d \in resolving, EntryUrlResolved(d)
      PROVE  builds'[b] = builds[b]
  BY <1>3 DEF EntryUrlResolved, PatientInv, Running, RunnerInv, TypeOK
<1>4. CASE Restart
  BY <1>4 DEF Restart
<1>5. CASE UNCHANGED runnerVars
  BY <1>5 DEF runnerVars
<1> QED BY <1>1, <1>2, <1>3, <1>4, <1>5 DEF Next

(* With agents that wait for the answer to their last report, a build that *)
(* is done or failed shows the same state for good: the status read before *)
(* resolveEntryUrl is awaited (queue.ts:170) still holds after it.         *)
THEOREM TerminalForGood ==
    ASSUME ~Impatient
    PROVE  Spec => TerminalIsFinal
<1>1. Init => RunnerInv /\ PatientInv
  BY RunnerAssumption DEF Init, RunnerInv, TypeOK, AgentState, PatientInv
<1>2. RunnerInv /\ PatientInv /\ [Next]_runnerVars => (RunnerInv /\ PatientInv)'
  BY StepType, PatientStep
<1>3. ASSUME RunnerInv, PatientInv, [Next]_runnerVars, NEW b \in Builds,
             builds[b] # Null, builds[b].status # "running"
      PROVE  builds'[b] \in {builds[b], Null}
  BY <1>3, TerminalStep
<1>4. RunnerInv /\ PatientInv /\ [Next]_runnerVars =>
         [\A b \in Builds :
             (builds[b] # Null /\ builds[b].status # "running") =>
                builds'[b] \in {builds[b], Null}]_runnerVars
  BY <1>3
<1> QED BY <1>1, <1>2, <1>4, PTL DEF Spec, TerminalIsFinal
=============================================================================
