-------------------------------- MODULE Shell --------------------------------
(***************************************************************************)
(* The page a person has open (apps/web): who is signed in, as far as each *)
(* part of the page knows, what the page shows of it, and the jams it      *)
(* frames, which learn who the person is once, when they say hello, and    *)
(* from then on make calls through the page (packages/sdk).                *)
(*                                                                         *)
(* A component of the page that is not shown is Null: it loses its state   *)
(* with it.  An action is an event of the page, or an effect of one of its *)
(* components, with the rendering that follows.                            *)
(***************************************************************************)
EXTENDS Naturals

CONSTANTS
    Users, Jams,
    Visited,        \* bound: who may still be signed in from the last visit
    Guest,          \* GUEST, the context of a person nobody knows
    MaxChanges,     \* bound: the changes of the session
    MaxDocs,        \* bound: the documents that are loaded into frames
    MaxCalls,       \* bound: the calls of each document
    MaxPayers,      \* bound: the documents, the first of them, that ask for payments
    Null

VARIABLES
    session,        \* Dynamic's client: initStatus, user, how often it changed
    drove,          \* history: this person signed in on the welcome page
    path,           \* the page that is open
    shown,          \* the jams that are in view, on the feed
    hook,           \* useHostAuth, in each component that uses it
    welcome,        \* WelcomePage: droveLogin and step
    frame,          \* AppFrame, of each jam
    docs,           \* the documents that were loaded
    wire,           \* what is under way between jams, page and platform
    resolver        \* ConfirmProvider: the call whose promise its sheet resolves

pageVars == <<path, shown, hook, welcome, frame, wire, resolver>>

vars == <<session, drove, docs, pageVars>>

Who == Users \cup {Guest}

Hooks == {"gate", "welcome"} \cup Jams

ASSUME ShellAssumption ==
    /\ {"gate", "welcome"} \cap Jams = {} /\ Guest \notin Users
    /\ Null \notin Who \cup Hooks
    /\ {MaxChanges, MaxDocs, MaxCalls, MaxPayers} \subseteq Nat
    /\ Visited \subseteq Users

-----------------------------------------------------------------------------
Hook == [seen : Nat,                    \* the session the effect last ran for
         token : Users \cup {Null},     \* authToken, by whom it is of
         user : Users \cup {Null},      \* hostUser
         status : {"pending", "ready", "error"}]

FreshHook == [seen |-> 0, token |-> Null, user |-> Null, status |-> "pending"]

(* A call, by the document that made it.                                   *)
Promise == [doc : Nat, id : Nat]

(* A document, what it knows, and its calls: those it waits for, those it  *)
(* gave up, and those answered, with the call that the answer was to.      *)
Doc == [n : Nat, at : {"hello", "connected", "standalone"}, shows : Who \cup {Null},
        made : Nat, waits : SUBSET Nat, gaveUp : SUBSET Nat, got : SUBSET Promise]

FreshDoc == [n |-> docs + 1, at |-> "hello", shows |-> Null,
             made |-> 0, waits |-> {}, gaveUp |-> {}, got |-> {}]

Frame == [context : Who \cup {Null},    \* of the registration with the bridge
          phase : {"loading", "ready", "blocked"},
          doc : Doc \cup {Null}]

FreshFrame == [context |-> Null, phase |-> "loading", doc |-> Null]

Welcome == [drove : BOOLEAN, step : {"email", "claim"}]

FreshWelcome == [drove |-> FALSE, step |-> "email"]

(* A request of the platform is under way: that of a call, the first of a  *)
(* payment that was approved, or a later one of it.                        *)
Requests == {"run", "pay", "more"}

(* genId: no two calls have the same id, though each document counts from  *)
(* one.  A call for which the sheet is up is a "sheet".  As who the        *)
(* platform runs a request; Null if nobody is signed in.                   *)
Message == [kind : {"hello", "context", "call", "sheet", "answer"} \cup Requests,
            jam : Jams, doc : Nat, id : Nat, shows : Who \cup {Null},
            as : Users \cup {Null}]

ASSUME NullIsNothingShown ==
    Null \notin Hook \cup Doc \cup Frame \cup Welcome \cup Promise

TypeOK ==
    /\ session \in [init : {"pending", "finished", "failed"},
                    user : Users \cup {Null}, at : Nat]
    /\ drove \in BOOLEAN /\ docs \in Nat
    /\ path \in {"welcome", "feed"} /\ shown \subseteq Jams
    /\ hook \in [Hooks -> Hook \cup {Null}]
    /\ welcome \in Welcome \cup {Null}
    /\ frame \in [Jams -> Frame \cup {Null}]
    /\ wire \subseteq Message /\ resolver \in Promise \cup {Null}

-----------------------------------------------------------------------------
(* AuthGate: a splash while nobody knows; and who is signed out sees the   *)
(* welcome page only.                                                      *)
Opens(gate, p) == gate.status # "pending" /\ (gate.token # Null \/ p = "welcome")

Mounted(gate, p, s) ==
    {"gate"} \cup IF ~Opens(gate, p) THEN {} ELSE IF p = "welcome" THEN {"welcome"} ELSE s

(* AppHost that frames the jam at once.                                    *)
FramesAtOnce(h) == h # Null

(* AppHost that waits for "ready".                                         *)
FramesReady(h) == h # Null /\ h.status = "ready"

(* AppHost: no frame until the viewer is known, or cannot be.              *)
Frames(h) == h # Null /\ h.status # "pending"

(* A sheet that is above the gate.                                         *)
OutlivesGate(m, open) == m.kind \in Requests \cup {"sheet"}

(* What goes on when its jam is gone: nobody calls a request back, and the *)
(* sheet is up for as long as the gate is open, under which it is.         *)
Outlives(m, open) == m.kind \in Requests \/ (m.kind = "sheet" /\ open)

(* The page is rendered for these hooks on path p with the jams s in view: *)
(* what it no longer shows is gone, and what was said to it or by it.      *)
Renders(hooks, wel, p, s) ==
    /\ path' = p /\ shown' = s
    /\ hook' = [h \in Hooks |->
          IF h \notin Mounted(hooks["gate"], p, s) THEN Null
          ELSE IF hooks[h] = Null THEN FreshHook ELSE hooks[h]]
    /\ welcome' = IF hook'["welcome"] = Null THEN Null
                  ELSE IF wel = Null THEN FreshWelcome ELSE wel
    /\ frame' = [j \in Jams |->
          IF ~Frames(hook'[j]) THEN Null
          ELSE IF frame[j] = Null THEN FreshFrame ELSE frame[j]]
    /\ wire' = {m \in wire : frame'[m.jam] # Null \/ Outlives(m, Opens(hooks["gate"], p))}
    /\ resolver' = IF Opens(hooks["gate"], p) THEN resolver ELSE Null

HookIs(h, value) == Renders([hook EXCEPT ![h] = value], welcome, path, shown)

Init ==
    /\ session = [init |-> "pending", user |-> Null, at |-> 1]
    /\ drove = FALSE /\ docs = 0
    /\ path \in {"welcome", "feed"} /\ shown \in SUBSET Jams
    /\ hook = [h \in Hooks |-> IF h = "gate" THEN FreshHook ELSE Null]
    /\ welcome = Null /\ frame = [j \in Jams |-> Null]
    /\ wire = {} /\ resolver = Null

-----------------------------------------------------------------------------
(* Dynamic's client.  What it says changes, and the effects run again.     *)
Changes(init, user) ==
    /\ session.at < MaxChanges
    /\ session' = [init |-> init, user |-> user, at |-> session.at + 1]
    /\ UNCHANGED <<docs, pageVars>>

(* It restores the session of the last visit, if there was one.            *)
Starts ==
    /\ session.init = "pending" /\ UNCHANGED drove
    /\ \/ Changes("failed", Null)
       \/ \E user \in Visited \cup {Null} : Changes("finished", user)

(* The login sheet is for who is signed out, and knows it.                 *)
SignsIn(user) ==
    /\ session.init = "finished" /\ session.user = Null /\ hook["gate"].token = Null
    /\ Changes("finished", user)
    /\ drove' = (welcome # Null /\ welcome.drove)

(* By the person, or because the token expired.                            *)
SignsOut ==
    /\ session.user # Null /\ Changes("finished", Null) /\ drove' = FALSE

(* A wallet or a detail of the user is new.                                *)
Refreshes ==
    /\ session.user # Null /\ Changes("finished", session.user) /\ UNCHANGED drove

-----------------------------------------------------------------------------
(* useHostAuth                                                             *)

(* The effect.  It asks for the profile of who is signed in; what was      *)
(* asked before is cancelled.                                              *)
Resolves(h) ==
    /\ hook[h] # Null /\ hook[h].seen # session.at
    /\ HookIs(h,
          IF session.init # "finished" THEN [hook[h] EXCEPT !.seen = session.at]
          ELSE IF session.user = Null
          THEN [seen |-> session.at, token |-> Null, user |-> Null, status |-> "ready"]
          ELSE [hook[h] EXCEPT !.seen = session.at, !.token = session.user,
                               !.status = "pending"])
    /\ UNCHANGED <<session, drove, docs>>

(* profile.me is under way.                                                *)
Asks(h) == hook[h] # Null /\ hook[h].token # Null /\ hook[h].status = "pending"

MeAnswers(h) ==
    /\ Asks(h)
    /\ HookIs(h, [hook[h] EXCEPT !.user = hook[h].token, !.status = "ready"])
    /\ UNCHANGED <<session, drove, docs>>

MeFails(h) ==
    /\ Asks(h)
    /\ HookIs(h, [hook[h] EXCEPT !.user = Null, !.status = "error"])
    /\ UNCHANGED <<session, drove, docs>>

-----------------------------------------------------------------------------
(* Where the person goes.                                                  *)

(* AuthGate sends who is signed out to the welcome page.                   *)
Bounces ==
    /\ hook["gate"].status # "pending" /\ ~Opens(hook["gate"], path)
    /\ Renders(hook, welcome, "welcome", shown)
    /\ UNCHANGED <<session, drove, docs>>

(* openLogin, of the welcome page.                                         *)
DrivesLogin ==
    /\ welcome # Null /\ welcome.step = "email" /\ ~welcome.drove
    /\ session.init = "finished"
    /\ welcome' = [welcome EXCEPT !.drove = TRUE]
    /\ UNCHANGED <<session, drove, docs, path, shown, hook, frame, wire, resolver>>

(* WelcomePage, once it has a token: on to the name, or off to the feed.   *)
Routes ==
    /\ welcome # Null /\ welcome.step = "email" /\ hook["welcome"].token # Null
    /\ IF welcome.drove
       THEN Renders(hook, [welcome EXCEPT !.step = "claim"], path, shown)
       ELSE Renders(hook, welcome, "feed", shown)
    /\ UNCHANGED <<session, drove, docs>>

ClaimsName ==
    /\ welcome # Null /\ welcome.step = "claim"
    /\ Renders(hook, welcome, "feed", shown)
    /\ UNCHANGED <<session, drove, docs>>

(* Jams come into view and leave it.                                       *)
Scrolls(j) ==
    /\ path = "feed"
    /\ Renders(hook, welcome, path, IF j \in shown THEN shown \ {j} ELSE shown \cup {j})
    /\ UNCHANGED <<session, drove, docs>>

-----------------------------------------------------------------------------
(* AppFrame and its bridge.                                                *)

FrameIs(j, value) ==
    /\ frame' = [frame EXCEPT ![j] = value]
    /\ UNCHANGED <<session, drove, path, shown, hook, welcome, resolver>>

DocIs(j, value) == FrameIs(j, [frame[j] EXCEPT !.doc = value]) /\ UNCHANGED docs

Context(h) == IF h.user = Null THEN Guest ELSE h.user

(* The effect: the frame's window is registered with the viewer's context. *)
Registers(j) ==
    /\ frame[j] # Null /\ frame[j].context # Context(hook[j])
    /\ FrameIs(j, [frame[j] EXCEPT !.context = Context(hook[j])])
    /\ UNCHANGED <<docs, wire>>

(* The jam's document is there, or another one: it reloads.                *)
Loads(j) ==
    /\ frame[j] # Null /\ docs < MaxDocs /\ docs' = docs + 1
    /\ FrameIs(j, [frame[j] EXCEPT !.phase = "ready", !.doc = FreshDoc])
    /\ UNCHANGED wire

(* The watchdog: eight seconds without a document.                         *)
Blocks(j) ==
    /\ frame[j] # Null /\ frame[j].phase = "loading"
    /\ FrameIs(j, [frame[j] EXCEPT !.phase = "blocked"])
    /\ UNCHANGED <<docs, wire>>

HasDoc(j) == frame[j] # Null /\ frame[j].doc # Null

(* Now, and every 250 ms.                                                  *)
SaysHello(j) ==
    /\ HasDoc(j) /\ frame[j].doc.at = "hello"
    /\ wire' = wire \cup {[kind |-> "hello", jam |-> j, doc |-> frame[j].doc.n, id |-> 0,
                           shows |-> Null, as |-> Null]}
    /\ UNCHANGED <<session, drove, docs, path, shown, hook, welcome, frame, resolver>>

(* Five seconds without an answer.                                         *)
Bails(j) ==
    /\ HasDoc(j) /\ frame[j].doc.at = "hello"
    /\ DocIs(j, [frame[j].doc EXCEPT !.at = "standalone"])
    /\ UNCHANGED wire

Calls(j) ==
    LET doc == frame[j].doc  id == doc.made + 1 IN
    /\ HasDoc(j) /\ doc.at = "connected" /\ id <= MaxCalls
    /\ DocIs(j, [doc EXCEPT !.made = id, !.waits = @ \cup {id}])
    /\ wire' = wire \cup {[kind |-> "call", jam |-> j, doc |-> doc.n, id |-> id,
                           shows |-> doc.shows, as |-> Null]}

(* Sixty seconds.                                                          *)
TimesOut(j, id) ==
    /\ HasDoc(j) /\ id \in frame[j].doc.waits
    /\ DocIs(j, [frame[j].doc EXCEPT !.waits = @ \ {id}, !.gaveUp = @ \cup {id}])
    /\ UNCHANGED wire

Becomes(m, messages) ==
    /\ m \in wire /\ wire' = (wire \ {m}) \cup messages
    /\ UNCHANGED <<session, drove, docs, path, shown, hook, welcome>>

(* The response is posted, to a window that may be gone.                   *)
Posts(m) ==
    IF frame[m.jam] = Null THEN {} ELSE {[m EXCEPT !.kind = "answer", !.as = Null]}

(* With the token there is now, without which the platform refuses it.     *)
Requested(m, kind) == {[m EXCEPT !.kind = kind, !.as = session.user]}

(* The page's listener: a window that is not registered has no answer.     *)
Hears(m) ==
    /\ m.kind = "hello" /\ UNCHANGED <<frame, resolver>>
    /\ Becomes(m, IF frame[m.jam].context = Null THEN {}
                  ELSE {[m EXCEPT !.kind = "context", !.shows = frame[m.jam].context]})

PromiseOf(m) == [doc |-> m.doc, id |-> m.id]

(* A call is refused, or done on the page; or it goes to the platform; or, *)
(* to pay, the sheet comes up, if it is not up.                            *)
Dispatches(m) ==
    /\ m.kind = "call" /\ UNCHANGED frame
    /\ \/ /\ frame[m.jam].context = Null
          /\ Becomes(m, {}) /\ UNCHANGED resolver
       \/ /\ frame[m.jam].context # Null
          /\ Becomes(m, Posts(m)) \/ Becomes(m, Requested(m, "run"))
          /\ UNCHANGED resolver
       \/ /\ frame[m.jam].context # Null /\ resolver = Null /\ m.doc <= MaxPayers
          /\ resolver' = PromiseOf(m) /\ Becomes(m, {[m EXCEPT !.kind = "sheet"]})

Ran(m) ==
    /\ m.kind = "run" /\ Becomes(m, Posts(m)) /\ UNCHANGED <<frame, resolver>>

(* The person approves, and the executor makes its first request.          *)
Approves(m) ==
    /\ m.kind = "sheet" /\ Becomes(m, Requested(m, "pay")) /\ UNCHANGED <<frame, resolver>>

(* One request of the executor is answered, and it makes the next.         *)
GoesOn(m) ==
    /\ m.kind \in {"pay", "more"} /\ Becomes(m, Requested(m, "more"))
    /\ UNCHANGED <<frame, resolver>>

(* settle: the person says no, or the executor is through, or it failed    *)
(* and the person has read so.                                             *)
Closes(m) ==
    /\ m.kind \in {"sheet", "pay", "more"} /\ Becomes(m, Posts(m)) /\ UNCHANGED frame
    /\ resolver' = IF resolver = PromiseOf(m) THEN Null ELSE resolver

(* The id is one this document made.                                       *)
IsIts(m, doc) == m.doc = doc.n

(* A listener that does not look the call up.                              *)
IsItsAnswer(m, doc) == IsIts(m, doc)

(* pending has the call.                                                   *)
Awaits(m, doc) == IsIts(m, doc) /\ m.id \in doc.waits

(* Of two answers to its hellos a document takes the first.                *)
Connects(m) ==
    /\ m.kind = "context" /\ Becomes(m, {}) /\ UNCHANGED resolver
    /\ frame' = IF HasDoc(m.jam) /\ IsIts(m, frame[m.jam].doc)
                      /\ frame[m.jam].doc.at = "hello"
                THEN [frame EXCEPT ![m.jam].doc.at = "connected",
                                   ![m.jam].doc.shows = m.shows]
                ELSE frame

(* Without a call that waits for it an answer is ignored.                  *)
Settles(m) ==
    /\ m.kind = "answer" /\ Becomes(m, {}) /\ UNCHANGED resolver
    /\ frame' = IF HasDoc(m.jam) /\ Awaits(m, frame[m.jam].doc)
                THEN [frame EXCEPT ![m.jam].doc.waits = @ \ {m.id},
                                   ![m.jam].doc.got = @ \cup {PromiseOf(m)}]
                ELSE frame

-----------------------------------------------------------------------------
Dynamic == Starts \/ (\E user \in Users : SignsIn(user)) \/ SignsOut \/ Refreshes

Auth == \E h \in Hooks : Resolves(h) \/ MeAnswers(h) \/ MeFails(h)

Goes == Bounces \/ DrivesLogin \/ Routes \/ ClaimsName \/ \E j \in Jams : Scrolls(j)

Jam(j) ==
    \/ Registers(j) \/ Loads(j) \/ Blocks(j) \/ SaysHello(j) \/ Bails(j) \/ Calls(j)
    \/ \E id \in 1 .. MaxCalls : TimesOut(j, id)

Bridge ==
    \E m \in wire :
        \/ Hears(m) \/ Dispatches(m) \/ Ran(m) \/ Connects(m) \/ Settles(m)
        \/ Approves(m) \/ GoesOn(m) \/ Closes(m)

Next == Dynamic \/ Auth \/ Goes \/ (\E j \in Jams : Jam(j)) \/ Bridge

Spec == Init /\ [][Next]_vars

(* Effects run, requests are answered or fail, and timers fire.            *)
Fairness ==
    /\ \A h \in Hooks : WF_vars(Resolves(h)) /\ WF_vars(MeAnswers(h) \/ MeFails(h))
    /\ \A j \in Jams : WF_vars(Blocks(j)) /\ WF_vars(Bails(j))

FairSpec == Spec /\ Fairness
=============================================================================
