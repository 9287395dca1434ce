--------------------------------- MODULE Draft --------------------------------
(***************************************************************************)
(* One draft of the build wizard: the tabs it is open in                   *)
(* (app/build/page.tsx), the copies in the local storage of the devices    *)
(* (lib/use-build-draft.ts), the row on the platform and the link to the   *)
(* build it becomes (routers/builds.ts).  One owner; requests of others    *)
(* find nothing and change nothing.                                        *)
(*                                                                         *)
(* What the person made is the number of the edit that made it, and what   *)
(* that left: an idea, the spec of one, or nothing, as in the blank wizard *)
(* of edit 0.                                                              *)
(***************************************************************************)
EXTENDS Naturals, FiniteSets

CONSTANTS
    Devices,        \* at most one tab on each
    BuildsOn,       \* bound: the devices it may be built from
    MaxEdits,       \* bound: the edits
    MaxOpens,       \* bound: the times the wizard is opened
    Null

VARIABLES
    tab,            \* device -> the mounted wizard, or Null
    local,          \* device -> the snapshot in its local storage, or Null
    saves,          \* saveDraft requests that were sent and not answered
    row,            \* of build_draft, or Null
    create,         \* bound: the one builds.create of the draft, or Null
    edits, opens,
    spoilt          \* history: why the row may not have the newest snapshot

vars == <<tab, local, saves, row, create, edits, opens, spoilt>>

Contents == {"nothing", "idea", "spec"}

Snapshot(n, has, build) == [n |-> n, has |-> has, build |-> build]

Open(d) == tab[d] # Null

(* How far the builds.create of the draft has got.                         *)
Asked(step) == create # Null /\ create.at = step

Init ==
    /\ tab = [d \in Devices |-> Null] /\ local = [d \in Devices |-> Null]
    /\ saves = {} /\ row = Null /\ create = Null
    /\ edits = 0 /\ opens = 0 /\ spoilt = {}

-----------------------------------------------------------------------------
(* The timer of an earlier snapshot goes on.                               *)
TimerKept(t, snap) == IF t.timer = Null THEN snap ELSE t.timer

(* A later snapshot replaces the one whose timer runs.                     *)
Timer(t, snap) == snap

(* hasContent, of somebody who is signed in.                               *)
WorthARow(t) == t.login /\ (t.has # "nothing" \/ t.build)

(* persist, of what the tab shows now: at once in the local storage, on    *)
(* the platform when the timer is over.  A blank snapshot is not saved     *)
(* there, and the timer of what was there before it goes on.               *)
Persists(d, t) ==
    LET snap == Snapshot(t.n, t.has, t.build) IN
    /\ tab' = [tab EXCEPT ![d] =
          IF WorthARow(t) THEN [t EXCEPT !.timer = Timer(t, snap)] ELSE t]
    /\ local' = [local EXCEPT ![d] = snap]

(* The wizard is mounted and load hydrates it.  The hook of the session is *)
(* state of the component and has no token in the first render: the load   *)
(* that runs is the one of a viewer who is signed out, and asks nobody but *)
(* the local storage.  What it found is persisted.                         *)
Opens(d) ==
    /\ ~Open(d) /\ opens < MaxOpens /\ opens' = opens + 1
    /\ LET found == IF local[d] = Null THEN Snapshot(0, "nothing", FALSE) ELSE local[d] IN
       Persists(d, [n |-> found.n, has |-> found.has, build |-> found.build,
                    login |-> FALSE, timer |-> Null, mount |-> opens])
    /\ UNCHANGED <<saves, row, create, edits, spoilt>>

(* The token arrives: persist is another function, and runs again.         *)
Authenticates(d) ==
    /\ Open(d) /\ ~tab[d].login
    /\ Persists(d, [tab[d] EXCEPT !.login = TRUE])
    /\ UNCHANGED <<saves, row, create, edits, opens, spoilt>>

(* An idea is typed, or emptied again, or refined; a spec stays.           *)
Edits(d) ==
    /\ Open(d) /\ edits < MaxEdits /\ edits' = edits + 1
    /\ \E has \in Contents :
          /\ tab[d].has = "spec" => has = "spec"
          /\ tab[d].has = "nothing" => has # "nothing"
          /\ Persists(d, [tab[d] EXCEPT !.n = edits + 1, !.has = has])
    /\ UNCHANGED <<saves, row, create, opens, spoilt>>

(* A request of its own, though another with the same snapshot be on its way. *)
Sends(snap) ==
    LET ids == {save.id : save \in saves}
        free == CHOOSE i \in 0 .. Cardinality(saves) : i \notin ids IN
    saves' = saves \cup {[id |-> free, snap |-> snap]}

TimerFires(d) ==
    /\ Open(d) /\ tab[d].timer # Null
    /\ Sends(tab[d].timer) /\ tab' = [tab EXCEPT ![d].timer = Null]
    /\ UNCHANGED <<local, row, create, edits, opens, spoilt>>

(* To another page: nothing clears the timer.                              *)
Leaves(d) ==
    /\ Open(d) /\ tab' = [tab EXCEPT ![d] = Null]
    /\ IF tab[d].timer = Null THEN UNCHANGED saves ELSE Sends(tab[d].timer)
    /\ UNCHANGED <<local, row, create, edits, opens, spoilt>>

(* Closed or reloaded.                                                     *)
Closes(d) ==
    /\ Open(d) /\ tab' = [tab EXCEPT ![d] = Null]
    /\ spoilt' = IF tab[d].timer = Null THEN spoilt ELSE spoilt \cup {"lost"}
    /\ UNCHANGED <<local, saves, row, create, edits, opens>>

Clears(d) ==
    /\ ~Open(d) /\ local[d] # Null /\ local' = [local EXCEPT ![d] = Null]
    /\ UNCHANGED <<tab, saves, row, create, edits, opens, spoilt>>

-----------------------------------------------------------------------------
(* The link goes by what the tab knew when it saved.                       *)
UpsertedBlindly(snap) == snap

(* saveDraft: a link is set, never taken away.                             *)
Upserted(snap) ==
    IF row = Null THEN snap ELSE [snap EXCEPT !.build = @ \/ row.build]

(* Saves arrive in any order.                                              *)
SaveArrives(save) ==
    /\ save \in saves /\ saves' = saves \ {save}
    /\ row' = Upserted(save.snap)
    /\ spoilt' = IF row # Null /\ row.n > save.snap.n THEN spoilt \cup {"stale"} ELSE spoilt
    /\ UNCHANGED <<tab, local, create, edits, opens>>

SaveFails(save) ==
    /\ save \in saves /\ saves' = saves \ {save}
    /\ spoilt' = spoilt \cup {"lost"}
    /\ UNCHANGED <<tab, local, row, create, edits, opens>>

(* deleteDraft, of another page's list.                                    *)
Deletes ==
    /\ row # Null /\ ~row.build /\ row' = Null
    /\ spoilt' = spoilt \cup {"deleted"}
    /\ UNCHANGED <<tab, local, saves, create, edits, opens>>

(* After thirty days, in which all requests have ended: a save of another  *)
(* draft drops the row if it has no build.                                 *)
Collected ==
    /\ row # Null /\ ~row.build /\ row' = Null
    /\ saves = {} /\ (create = Null \/ Asked("answered")) /\ \A d \in Devices : ~Open(d)
    /\ spoilt' = spoilt \cup {"deleted"}
    /\ UNCHANGED <<tab, local, saves, create, edits, opens>>

-----------------------------------------------------------------------------
(* startBuild: the step changes, which is saved, and create is called.     *)
StartBuild(d) ==
    /\ d \in BuildsOn
    /\ Open(d) /\ tab[d].login /\ tab[d].has = "spec" /\ create = Null
    /\ create' = [by |-> d, mount |-> tab[d].mount, at |-> "asked"]
    /\ Persists(d, tab[d])
    /\ UNCHANGED <<saves, row, edits, opens, spoilt>>

(* create links the row if there is one, which may fail and is then        *)
(* forgotten; or it fails as a whole before that.                          *)
CreateLinks ==
    /\ Asked("asked")
    /\ \/ create' = [create EXCEPT !.at = "linked"]
          /\ row' \in {row, IF row = Null THEN row ELSE [row EXCEPT !.build = TRUE]}
       \/ create' = [create EXCEPT !.at = "answered"] /\ UNCHANGED row
    /\ UNCHANGED <<tab, local, saves, edits, opens, spoilt>>

Listens(d) == Open(d) /\ tab[d].mount = create.mount

(* The answer reaches the tab that asked, if that is still there, or is    *)
(* lost.                                                                   *)
CreateAnswers ==
    /\ Asked("linked") /\ create' = [create EXCEPT !.at = "answered"]
    /\ \/ /\ Listens(create.by)
          /\ Persists(create.by, [tab[create.by] EXCEPT !.build = TRUE])
       \/ UNCHANGED <<tab, local>>
    /\ UNCHANGED <<saves, row, edits, opens, spoilt>>

Platform ==
    \/ \E save \in saves : SaveArrives(save) \/ SaveFails(save)
    \/ Deletes \/ Collected \/ CreateLinks \/ CreateAnswers

Browser(d) ==
    \/ Opens(d) \/ Authenticates(d) \/ Edits(d) \/ TimerFires(d) \/ StartBuild(d)
    \/ Leaves(d) \/ Closes(d) \/ Clears(d)

Next == Platform \/ \E d \in Devices : Browser(d)

(* Timers fire and requests are answered or fail; the person need not act. *)
Fairness ==
    /\ \A d \in Devices : WF_vars(TimerFires(d)) /\ WF_vars(Authenticates(d))
    /\ WF_vars(\E save \in saves : SaveArrives(save) \/ SaveFails(save))
    /\ WF_vars(CreateLinks) /\ WF_vars(CreateAnswers)

Spec == Init /\ [][Next]_vars
FairSpec == Spec /\ Fairness
=============================================================================
