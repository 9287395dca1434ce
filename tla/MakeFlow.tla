------------------------------- MODULE MakeFlow -------------------------------
(***************************************************************************)
(* What the build wizard shows (app/build/page.tsx): one draft in one tab,  *)
(* from the idea to the workshop that watches the build and the reveal of   *)
(* the jam.  The step is in the URL, so that Back and Forward lead to any   *)
(* step there was; the data is in the page, and outlives it in the local    *)
(* storage (module Draft).  What becomes of a build is what BuildPromise    *)
(* says of it, and its owner may discard the jam.                          *)
(***************************************************************************)
EXTENDS Naturals, Sequences

CONSTANTS
    Builds,         \* bound: the builds that are made of the draft
    MaxAsks,        \* bound: the requests to refine the plan
    MaxTurns,       \* bound: pages turned, reloads and renders for other reasons
    None            \* no build, and nothing to show

VARIABLES
    pages, at,      \* the history of the tab, and where in it the tab is
    data,           \* the plan, the build and the revealed jam of the page
    asking,         \* the refine that is awaited, or None
    making,         \* build -> how far the builds.create that makes it has got
    deaf,           \* the builds whose create was called by a page that is gone
    beat,           \* the workshop, while it is on the screen, or None
    verdict, url,   \* of BuildPromise
    delisted,       \* the builds whose jam was discarded
    asks, turns

tabVars == <<pages, at, data, asking, beat, turns>>
platformVars == <<verdict, url, delisted>>
flowVars == <<tabVars, making, deaf, asks, platformVars>>

rest == <<asking, making, deaf, asks, turns, platformVars>>   \* what polls leave alone

Platform == INSTANCE BuildPromise WITH Results <- {"url"}, Null <- None

Step == pages[at]

Blank == [spec |-> FALSE, build |-> None, reveal |-> None]

(* There is a build: create got as far as that.                            *)
IsMade(b) == making[b] \in {"made", "answered"}

FlowInit ==
    /\ pages = <<"home">> /\ at = 1 /\ data = Blank /\ asking = None /\ beat = None
    /\ making = [b \in Builds |-> "none"] /\ deaf = {}
    /\ Platform!Init /\ delisted = {}
    /\ asks = 0 /\ turns = 0

-----------------------------------------------------------------------------
(* The effect of the workshop, which every render of the page runs anew:   *)
(* it gives onDone another identity.  What was awaited is cancelled; a     *)
(* failure that is on the screen stays there.                              *)
Watching(build, failed) ==
    [watch |-> build, failed |-> failed,
     at |-> IF build = None THEN "timer" ELSE "asked", saw |-> None]

(* The page is rendered, with this step and data.                          *)
Shows(step, d) ==
    /\ data' = d
    /\ beat' = IF step = "workshop" /\ d.spec
               THEN Watching(d.build, beat # None /\ beat.failed) ELSE None

Stays(d) == Shows(Step, d) /\ UNCHANGED <<pages, at>>

(* go: what was ahead in the history is gone.                              *)
Pushes(step, d) ==
    /\ pages' = Append(SubSeq(pages, 1, at), step) /\ at' = at + 1
    /\ Shows(step, d)

Turns == turns < MaxTurns /\ turns' = turns + 1

-----------------------------------------------------------------------------
(* "Let's go" and "Draw up the plan"; busy disables the buttons.           *)
Refines ==
    /\ Step \in {"home", "followups"} /\ asking = None /\ asking' = "refine"
    /\ asks < MaxAsks /\ asks' = asks + 1 /\ Stays(data)
    /\ UNCHANGED <<making, deaf, turns, platformVars>>

(* A plan, questions, or neither; wherever the tab is by then.             *)
RefineAnswers ==
    /\ asking = "refine" /\ asking' = None
    /\ \/ Pushes("plan", [data EXCEPT !.spec = TRUE])
       \/ Pushes("followups", data)
       \/ Stays(data)
    /\ UNCHANGED <<making, deaf, asks, turns, platformVars>>

Adjusts ==
    /\ Step = "plan" /\ data.spec /\ asking = None /\ asking' = "adjust"
    /\ asks < MaxAsks /\ asks' = asks + 1 /\ Stays(data)
    /\ UNCHANGED <<making, deaf, turns, platformVars>>

AdjustAnswers ==
    /\ asking = "adjust" /\ asking' = None /\ Stays(data)
    /\ UNCHANGED <<making, deaf, asks, turns, platformVars>>

(* startBuild: "Make it" is not disabled, whatever is awaited and whatever *)
(* was made before.                                                        *)
StartBuild(b) ==
    /\ Step = "plan" /\ data.spec /\ making[b] = "none"
    /\ making' = [making EXCEPT ![b] = "asked"] /\ Pushes("workshop", data)
    /\ UNCHANGED <<asking, deaf, asks, turns, platformVars>>

CreateRuns(b) ==
    /\ making[b] = "asked" /\ making' = [making EXCEPT ![b] = "made"]
    /\ UNCHANGED <<tabVars, deaf, asks, platformVars>>

CreateFails(b) ==
    /\ making[b] = "asked" /\ making' = [making EXCEPT ![b] = "failed"]
    /\ UNCHANGED <<tabVars, deaf, asks, platformVars>>

(* The answer is lost, or comes for a page that is gone, or sets the build. *)
CreateAnswers(b) ==
    /\ making[b] = "made" /\ making' = [making EXCEPT ![b] = "answered"]
    /\ \/ b \notin deaf /\ Stays([data EXCEPT !.build = b])
       \/ UNCHANGED <<pages, at, data, beat>>
    /\ UNCHANGED <<asking, deaf, asks, turns, platformVars>>

-----------------------------------------------------------------------------
(* The demo: the workshop knows of no build when its timer is over.        *)
DemoEnds ==
    /\ beat # None /\ beat.at = "timer"
    /\ Pushes("reveal", [data EXCEPT !.reveal = "plan"])
    /\ UNCHANGED rest

Polls(step, saw) == beat' = [beat EXCEPT !.at = step, !.saw = saw]

IsAt(step) == beat # None /\ beat.at = step

IsListed(b) == url[b] # None /\ b \notin delisted

(* What the answer is taken for; the mutant's without a look at the jam.   *)
ReportsDone(b) ==
    IF verdict[b] \in {"failed", "interrupted"} THEN "failed"
    ELSE IF verdict[b] = "done" THEN "live" ELSE "going"

Reports(b) ==
    IF verdict[b] \in {"failed", "interrupted"} THEN "failed"
    ELSE IF verdict[b] = "done" /\ IsListed(b) THEN "live" ELSE "going"

(* builds.status reads the build, and then the jam: a build that has a jam *)
(* is done for good, so that it might have read them at once.              *)
StatusReads ==
    /\ IsAt("asked") /\ Polls("answer", Reports(beat.watch))
    /\ UNCHANGED <<pages, at, data, rest>>

PollAnswers ==
    /\ IsAt("answer")
    /\ \/ /\ beat.saw = "live" /\ Pushes("reveal", [data EXCEPT !.reveal = beat.watch])
       \/ /\ beat.saw = "failed"
          /\ beat' = [beat EXCEPT !.failed = TRUE, !.at = "stopped"]
          /\ UNCHANGED <<pages, at, data>>
       \/ beat.saw = "going" /\ Polls("waits", None) /\ UNCHANGED <<pages, at, data>>
    /\ UNCHANGED rest

(* An error that is taken for the end.                                     *)
PollFailsForGood ==
    /\ beat # None /\ beat.at \in {"asked", "answer"} /\ Polls("stopped", None)
    /\ UNCHANGED <<pages, at, data, rest>>

PollFails ==
    /\ beat # None /\ beat.at \in {"asked", "answer"} /\ Polls("waits", None)
    /\ UNCHANGED <<pages, at, data, rest>>

PollsAgain ==
    /\ IsAt("waits") /\ Polls("asked", None)
    /\ UNCHANGED <<pages, at, data, rest>>

-----------------------------------------------------------------------------
(* Back or Forward.                                                        *)
Travels ==
    /\ Turns /\ at' \in DOMAIN pages \ {at} /\ Shows(pages[at'], data)
    /\ UNCHANGED <<pages, asking, making, deaf, asks, platformVars>>

(* A render for another reason: the session, the list of drafts.           *)
Rerenders ==
    /\ beat # None /\ Turns /\ Stays(data)
    /\ UNCHANGED <<asking, making, deaf, asks, platformVars>>

(* Reloaded, or left and come back to: the data is hydrated as it was, and *)
(* nothing awaited reaches the page any more.                              *)
Reloads ==
    /\ Turns /\ asking' = None /\ deaf' = {b \in Builds : making[b] # "none"}
    /\ beat' = IF Step = "workshop" /\ data.spec THEN Watching(data.build, FALSE) ELSE None
    /\ UNCHANGED <<pages, at, data, making, asks, platformVars>>

(* "Try again": another draft, from a blank page.                          *)
TriesAgain ==
    /\ beat # None /\ beat.failed /\ Turns
    /\ pages' = <<"home">> /\ at' = 1 /\ data' = Blank /\ asking' = None /\ beat' = None
    /\ deaf' = {b \in Builds : making[b] # "none"}
    /\ UNCHANGED <<making, asks, platformVars>>

Tab ==
    \/ Refines \/ RefineAnswers \/ Adjusts \/ AdjustAnswers
    \/ (\E b \in Builds : StartBuild(b) \/ CreateRuns(b) \/ CreateFails(b) \/ CreateAnswers(b))
    \/ DemoEnds \/ StatusReads \/ PollAnswers \/ PollFails \/ PollsAgain
    \/ Travels \/ Rerenders \/ Reloads \/ TriesAgain

-----------------------------------------------------------------------------
(* A build that is there goes on as the platform promises; to be finalised *)
(* after a discard lists the jam again (module BuildLifecycle).            *)
BuildGoesOn(b) ==
    /\ IsMade(b)
    /\ \/ (Platform!Interrupt(b) \/ Platform!Finish(b) \/ Platform!Fail(b)) /\ UNCHANGED delisted
       \/ Platform!Attach(b, "url") /\ delisted' = delisted \ {b}
    /\ UNCHANGED <<tabVars, making, deaf, asks>>

Discard(b) ==
    /\ IsMade(b) /\ b \notin delisted /\ delisted' = delisted \cup {b}
    /\ UNCHANGED <<tabVars, making, deaf, asks, verdict, url>>

FlowNext == Tab \/ \E b \in Builds : BuildGoesOn(b) \/ Discard(b)

(* Timers fire, and the network is not down for ever.  The person need not *)
(* act, nor a build go on.                                                 *)
FlowFairness ==
    /\ WF_flowVars(DemoEnds) /\ WF_flowVars(PollsAgain)
    /\ SF_flowVars(StatusReads) /\ SF_flowVars(PollAnswers)

FlowSpec == FlowInit /\ [][FlowNext]_flowVars

FlowFairSpec == FlowSpec /\ FlowFairness

-----------------------------------------------------------------------------
(* What is revealed as live is served, though a build that is done may     *)
(* still fail, and the workshop of one build be left for that of another;  *)
(* only a workshop that knew of no build reveals a plan instead            *)
(* (page.tsx:1044-1046, 1059-1065).                                        *)
RevealIsLive ==
    Step = "reveal" => /\ data.spec /\ data.reveal # None
                       /\ data.reveal \in Builds => url[data.reveal] # None

Settled(b) == verdict[b] = "failed" \/ IsListed(b)

(* Nobody looks at "Making your jam..." for ever when the build has failed, *)
(* or its jam is listed, or there is no build: whatever polls fail, are    *)
(* cancelled by a render or come too late (page.tsx:1042-1076).            *)
WorkshopEnds ==
    []<>(beat = None \/ beat.failed \/ (beat.watch # None /\ ~Settled(beat.watch)))
=============================================================================
