------------------------------ MODULE WebProofs ------------------------------
(***************************************************************************)
(* Theorems about the web client: what jams may rely on in the shell, for  *)
(* every set of people and jams, and any number of documents, calls and    *)
(* changes of the session; and that the wizard announces as live only what *)
(* is, for every set of builds and every number of requests, pages turned  *)
(* and reloads; and that no edit of a draft is forgotten before it is in   *)
(* the row, for any number of devices, tabs and saves.                     *)
(***************************************************************************)
EXTENDS Web, SequenceTheorems, TLAPS

(***************************************************************************)
(* Types.                                                                  *)
(***************************************************************************)

Pages == {"welcome", "feed"}

HooksOK(hooks) == hooks \in [Hooks -> Hook \cup {Null}] /\ hooks["gate"] # Null

(* A jam is framed by an AppHost, which has a hook of its own; and what is *)
(* said in a frame or to it is lost with it, but not what has begun.       *)
ShellType ==
    /\ TypeOK /\ hook["gate"] # Null
    /\ \A j \in Jams : frame[j] # Null => hook[j] # Null
    /\ \A m \in wire : m.kind \in Requests \cup {"sheet"} \/ frame[m.jam] # Null

(* What a component starts with is of its type.                            *)
LEMMA Fresh ==
    /\ FreshHook \in Hook /\ FreshHook # Null /\ FreshWelcome \in Welcome
    /\ FreshFrame \in Frame /\ FreshFrame # Null
    /\ docs \in Nat => FreshDoc \in Doc /\ FreshDoc # Null
<1>1. FreshHook \in Hook
  BY DEF FreshHook, Hook
<1>2. FreshWelcome \in Welcome
  BY DEF FreshWelcome, Welcome
<1>3. FreshFrame \in Frame
  BY DEF FreshFrame, Frame
<1>4. docs \in Nat => FreshDoc \in Doc
  BY DEF FreshDoc, Doc
<1> QED
  BY <1>1, <1>2, <1>3, <1>4, NullIsNothingShown

(* The gate is always mounted.                                             *)
LEMMA GateMounted ==
    ASSUME NEW gate, NEW p, NEW s
    PROVE  "gate" \in Mounted(gate, p, s) /\ "gate" \in Hooks
BY DEF Mounted, Hooks

(* Rendering keeps the types, whatever the hooks are set to.               *)
LEMMA RendersType ==
    ASSUME ShellType, NEW hooks, HooksOK(hooks), NEW wel \in Welcome \cup {Null},
           NEW p \in Pages, NEW s \in SUBSET Jams, Renders(hooks, wel, p, s),
           UNCHANGED <<session, docs>>, drove' \in BOOLEAN
    PROVE  ShellType'
<1>1. path' \in Pages /\ shown' \subseteq Jams
  BY DEF Renders
<1>2. hook' \in [Hooks -> Hook \cup {Null}] /\ hook'["gate"] # Null
  BY Fresh, GateMounted DEF Renders, HooksOK
<1>3. welcome' \in Welcome \cup {Null}
  BY Fresh DEF Renders
<1>4. frame' \in [Jams -> Frame \cup {Null}]
  BY Fresh DEF Renders, ShellType, TypeOK
<1>5. wire' \subseteq Message /\ resolver' \in Promise \cup {Null}
  BY DEF Renders, ShellType, TypeOK
<1>6. /\ \A j \in Jams : frame'[j] # Null => hook'[j] # Null
      /\ \A m \in wire' : m.kind \in Requests \cup {"sheet"} \/ frame'[m.jam] # Null
  BY DEF Renders, Frames, Outlives
<1> QED
  BY <1>1, <1>2, <1>3, <1>4, <1>5, <1>6 DEF ShellType, TypeOK, Pages

(* So does setting one hook,                                               *)
LEMMA HookIsType ==
    ASSUME ShellType, NEW h \in Hooks, NEW v \in Hook, HookIs(h, v),
           UNCHANGED <<session, drove, docs>>
    PROVE  ShellType'
<1> DEFINE hooks == [hook EXCEPT ![h] = v]
<1>1. HooksOK(hooks)
  BY NullIsNothingShown DEF HooksOK, ShellType, TypeOK
<1>2. Renders(hooks, welcome, path, shown)
  BY DEF HookIs
<1>3. /\ welcome \in Welcome \cup {Null} /\ path \in Pages
      /\ shown \in SUBSET Jams /\ drove' \in BOOLEAN
  BY DEF ShellType, TypeOK, Pages
<1> HIDE DEF hooks
<1> QED
  BY <1>1, <1>2, <1>3, RendersType

(* which is all that useHostAuth does.                                     *)
LEMMA AuthType ==
    ASSUME ShellType, NEW h \in Hooks, Resolves(h) \/ MeAnswers(h) \/ MeFails(h)
    PROVE  ShellType'
<1>1. hook[h] \in Hook /\ session.user \in Users \cup {Null} /\ session.at \in Nat
  BY DEF Resolves, MeAnswers, MeFails, Asks, ShellType, TypeOK
<1>2. /\ [hook[h] EXCEPT !.seen = session.at] \in Hook
      /\ [seen |-> session.at, token |-> Null, user |-> Null, status |-> "ready"] \in Hook
      /\ [hook[h] EXCEPT !.seen = session.at, !.token = session.user, !.status = "pending"] \in Hook
      /\ [hook[h] EXCEPT !.user = hook[h].token, !.status = "ready"] \in Hook
      /\ [hook[h] EXCEPT !.user = Null, !.status = "error"] \in Hook
  BY <1>1 DEF Hook
<1> QED
  BY <1>2, HookIsType DEF Resolves, MeAnswers, MeFails

(* What Dynamic says changes, and nothing of the page with it.             *)
LEMMA SessionType == ASSUME ShellType, Dynamic PROVE ShellType'
<1>1. UNCHANGED <<docs, pageVars>> /\ session' \in [init : {"pending", "finished", "failed"},
                                                   user : Users \cup {Null}, at : Nat]
  BY ShellAssumption DEF Dynamic, Starts, SignsIn, SignsOut, Refreshes, Changes, ShellType, TypeOK
<1>2. drove' \in BOOLEAN
  <2>1. CASE \E user \in Users : SignsIn(user)
    <3>1. CASE welcome = Null
      BY <2>1, <3>1 DEF SignsIn
    <3>2. CASE welcome # Null
      BY <2>1, <3>2 DEF SignsIn, ShellType, TypeOK, Welcome
    <3> QED
      BY <3>1, <3>2
  <2> QED
    BY <2>1 DEF Dynamic, Starts, SignsOut, Refreshes, ShellType, TypeOK
<1> QED
  BY <1>1, <1>2 DEF ShellType, TypeOK, pageVars

(* Where the person goes.                                                  *)
LEMMA GoesType == ASSUME ShellType, Goes PROVE ShellType'
<1>1. /\ HooksOK(hook) /\ welcome \in Welcome \cup {Null} /\ path \in Pages
      /\ shown \in SUBSET Jams /\ drove \in BOOLEAN
  BY DEF ShellType, TypeOK, HooksOK, Pages
<1>2. CASE DrivesLogin
  <2>1. [welcome EXCEPT !.drove = TRUE] \in Welcome
    BY <1>1, <1>2 DEF DrivesLogin, Welcome
  <2> QED
    BY <1>2, <2>1 DEF DrivesLogin, ShellType, TypeOK
<1>3. CASE Bounces \/ ClaimsName
  BY <1>1, <1>3, RendersType DEF Bounces, ClaimsName, Pages
<1>4. CASE Routes
  <2>1. [welcome EXCEPT !.step = "claim"] \in Welcome
    BY <1>1, <1>4 DEF Routes, Welcome
  <2> QED
    BY <1>1, <1>4, <2>1, RendersType DEF Routes, Pages
<1>5. CASE \E j \in Jams : Scrolls(j)
  <2> PICK j \in Jams : Scrolls(j)
    BY <1>5
  <2>1. (IF j \in shown THEN shown \ {j} ELSE shown \cup {j}) \in SUBSET Jams
    BY <1>1
  <2> QED
    BY <1>1, <2>1, RendersType DEF Scrolls
<1> QED
  BY <1>2, <1>3, <1>4, <1>5 DEF Goes

Reframes(j, f) ==
    /\ frame' = [frame EXCEPT ![j] = f]
    /\ UNCHANGED <<session, drove, path, shown, hook, welcome>>

(* A frame gets a document, or the document learns something.              *)
LEMMA FrameIsType ==
    ASSUME ShellType, NEW j \in Jams, NEW f \in Frame, Reframes(j, f), frame[j] # Null,
           docs' \in Nat, wire' \subseteq Message, resolver' \in Promise \cup {Null},
           \A m \in wire' : m \in wire \/ m.jam = j
    PROVE  ShellType'
BY NullIsNothingShown DEF Reframes, ShellType, TypeOK

(* A frame that has a document.                                            *)
LEMMA DocType ==
    ASSUME ShellType, NEW j \in Jams, HasDoc(j)
    PROVE  /\ frame[j] \in Frame /\ frame[j] # Null /\ frame[j].doc \in Doc
           /\ \A doc \in Doc : [frame[j] EXCEPT !.doc = doc] \in Frame
<1>1. frame[j] \in Frame /\ frame[j] # Null /\ frame[j].doc # Null
  BY DEF HasDoc, ShellType, TypeOK
<1> QED
  BY <1>1 DEF Frame

(* What happens in a frame.                                                *)
LEMMA JamType == ASSUME ShellType, NEW j \in Jams, Jam(j) PROVE ShellType'
<1>1. /\ docs \in Nat /\ wire \subseteq Message /\ frame \in [Jams -> Frame \cup {Null}]
      /\ resolver \in Promise \cup {Null}
      /\ \A f : FrameIs(j, f) => Reframes(j, f) /\ UNCHANGED resolver
  BY DEF ShellType, TypeOK, FrameIs, Reframes
<1>2. CASE Registers(j)
  <2>1. hook[j] \in Hook \cup {Null} /\ j \in Hooks
    BY DEF ShellType, TypeOK, Hooks
  <2>2. hook[j] \in Hook /\ frame[j] \in Frame
    BY <1>1, <1>2, <2>1 DEF Registers, ShellType
  <2>3. Context(hook[j]) \in Who
    BY <2>2 DEF Context, Hook, Who
  <2>4. [frame[j] EXCEPT !.context = Context(hook[j])] \in Frame
    BY <2>2, <2>3 DEF Frame
  <2> QED
    BY <1>1, <1>2, <2>4, FrameIsType DEF Registers
<1>3. CASE Loads(j)
  <2>1. [frame[j] EXCEPT !.phase = "ready", !.doc = FreshDoc] \in Frame
    BY <1>1, <1>3, Fresh DEF Loads, Frame
  <2> QED
    BY <1>1, <1>3, <2>1, FrameIsType DEF Loads
<1>4. CASE Blocks(j)
  <2>1. [frame[j] EXCEPT !.phase = "blocked"] \in Frame
    BY <1>1, <1>4 DEF Blocks, Frame
  <2> QED
    BY <1>1, <1>4, <2>1, FrameIsType DEF Blocks
<1>5. CASE SaysHello(j)
  <2>1. [kind |-> "hello", jam |-> j, doc |-> frame[j].doc.n, id |-> 0,
         shows |-> Null, as |-> Null] \in Message
    BY <1>5, DocType DEF SaysHello, Message, Doc
  <2>2. frame[j] # Null /\ \A m \in wire' : m \in wire \/ m.jam = j
    BY <1>5, DocType DEF SaysHello
  <2> QED
    BY <1>5, <2>1, <2>2 DEF SaysHello, ShellType, TypeOK
<1>6. CASE Bails(j)
  <2>1. [frame[j].doc EXCEPT !.at = "standalone"] \in Doc
    BY <1>6, DocType DEF Bails, Doc
  <2> QED
    BY <1>1, <1>6, <2>1, DocType, FrameIsType DEF Bails, DocIs
<1>7. CASE Calls(j)
  <2> DEFINE doc == frame[j].doc  id == doc.made + 1
  <2>1. HasDoc(j) /\ doc \in Doc
    BY <1>7, DocType DEF Calls
  <2>0. /\ doc.n \in Nat /\ id \in Nat /\ doc.shows \in Who \cup {Null}
        /\ doc.waits \cup {id} \in SUBSET Nat
    BY <2>1 DEF Doc
  <2>2. [doc EXCEPT !.made = id, !.waits = @ \cup {id}] \in Doc
    BY <2>0, <2>1 DEF Doc
  <2>3. [kind |-> "call", jam |-> j, doc |-> doc.n, id |-> id,
         shows |-> doc.shows, as |-> Null] \in Message
    BY <2>0 DEF Message
  <2>4. /\ DocIs(j, [doc EXCEPT !.made = id, !.waits = @ \cup {id}])
        /\ wire' = wire \cup {[kind |-> "call", jam |-> j, doc |-> doc.n, id |-> id,
                               shows |-> doc.shows, as |-> Null]}
    BY <1>7 DEF Calls
  <2> HIDE DEF doc, id
  <2>5. wire' \subseteq Message /\ \A m \in wire' : m \in wire \/ m.jam = j
    BY <1>1, <2>3, <2>4
  <2>6. FrameIs(j, [frame[j] EXCEPT !.doc = [doc EXCEPT !.made = id, !.waits = @ \cup {id}]])
        /\ docs' = docs
    BY <2>4 DEF DocIs
  <2> QED
    BY <1>1, <2>1, <2>2, <2>5, <2>6, DocType, FrameIsType
<1>8. CASE \E id \in 1 .. MaxCalls : TimesOut(j, id)
  <2> PICK id \in 1 .. MaxCalls : TimesOut(j, id)
    BY <1>8
  <2>1. [frame[j].doc EXCEPT !.waits = @ \ {id}, !.gaveUp = @ \cup {id}] \in Doc
    BY DocType DEF TimesOut, Doc
  <2> QED
    BY <1>1, <2>1, DocType, FrameIsType DEF TimesOut, DocIs
<1> QED
  BY <1>2, <1>3, <1>4, <1>5, <1>6, <1>7, <1>8 DEF Jam

(* What a message becomes: a response, the context, the sheet, or a        *)
(* request as whoever is signed in.                                        *)
Follows(n, m) ==
    /\ n \in Message /\ n.jam = m.jam
    /\ \/ n.kind = "answer" /\ frame[m.jam] # Null
       \/ /\ m.kind = "hello" /\ n.kind = "context"
          /\ n.shows = frame[m.jam].context /\ n.shows # Null
       \/ /\ n.doc = m.doc /\ n.shows = m.shows
          /\ \/ m.kind = "call" /\ n.kind = "sheet"
             \/ /\ n.as = session.user
                /\ \/ m.kind = "call" /\ n.kind = "run"
                   \/ m.kind = "sheet" /\ n.kind = "pay"
                   \/ m.kind \in {"pay", "more"} /\ n.kind = "more"

Bridges(m) ==
    \/ Hears(m) \/ Dispatches(m) \/ Ran(m) \/ Connects(m) \/ Settles(m)
    \/ Approves(m) \/ GoesOn(m) \/ Closes(m)

(* What happens to a message.                                              *)
LEMMA BridgeDoes ==
    ASSUME ShellType, NEW m \in wire, Bridges(m)
    PROVE  /\ UNCHANGED <<session, drove, docs, path, shown, hook, welcome>>
           /\ \A n \in wire' : n \in wire \/ Follows(n, m)
           /\ resolver' \in Promise \cup {Null}
           /\ UNCHANGED frame \/ (HasDoc(m.jam) /\ (Connects(m) \/ Settles(m)))
<1>1. /\ m \in Message /\ frame \in [Jams -> Frame \cup {Null}] /\ m.jam \in Jams
      /\ session.user \in Users \cup {Null}
      /\ m.kind \in {"hello", "call"} => frame[m.jam] # Null
  BY DEF ShellType, TypeOK, Message, Requests
<1>2. UNCHANGED <<session, drove, docs, path, shown, hook, welcome>>
  BY DEF Bridges, Hears, Dispatches, Ran, Connects, Settles, Approves, GoesOn, Closes, Becomes
<1>3. resolver' \in Promise \cup {Null}
  BY <1>1 DEF Bridges, Hears, Dispatches, Ran, Connects, Settles, Approves, GoesOn, Closes,
              Promise, PromiseOf, Message, ShellType, TypeOK
<1>4. UNCHANGED frame \/ (HasDoc(m.jam) /\ (Connects(m) \/ Settles(m)))
  BY DEF Bridges, Hears, Dispatches, Ran, Connects, Settles, Approves, GoesOn, Closes
<1>5. \A n \in Posts(m) : Follows(n, m)
  BY <1>1 DEF Posts, Follows, Message
<1>6. \A kind \in Requests : \A n \in Requested(m, kind) :
          /\ n \in Message /\ n.jam = m.jam /\ n.doc = m.doc /\ n.shows = m.shows
          /\ n.kind = kind /\ n.as = session.user
  BY <1>1 DEF Requested, Message
<1>7. ASSUME NEW n \in wire'
      PROVE  n \in wire \/ Follows(n, m)
  <2>1. CASE Hears(m)
    <3>1. CASE frame[m.jam].context = Null
      BY <2>1, <3>1 DEF Hears, Becomes
    <3>2. CASE frame[m.jam].context # Null
      <4> DEFINE context == [m EXCEPT !.kind = "context", !.shows = frame[m.jam].context]
      <4>1. frame[m.jam] \in Frame /\ frame[m.jam].context \in Who
        BY <1>1, <2>1, <3>2 DEF Hears, Frame
      <4>2. /\ context \in Message /\ context.jam = m.jam /\ context.kind = "context"
            /\ context.shows = frame[m.jam].context
        BY <1>1, <4>1 DEF Message
      <4>3. n \in wire \/ n = context
        BY <2>1, <3>2 DEF Hears, Becomes
      <4> HIDE DEF context
      <4> QED
        BY <2>1, <3>2, <4>2, <4>3 DEF Hears, Follows
    <3> QED
      BY <3>1, <3>2
  <2>2. CASE Dispatches(m)
    <3> DEFINE sheet == [m EXCEPT !.kind = "sheet"]
    <3>1. /\ sheet \in Message /\ sheet.jam = m.jam /\ sheet.doc = m.doc
          /\ sheet.shows = m.shows /\ sheet.kind = "sheet"
      BY <1>1 DEF Message
    <3>2. m.kind = "call" /\ (n \in wire \/ n \in Posts(m) \/ n \in Requested(m, "run") \/ n = sheet)
      BY <2>2 DEF Dispatches, Becomes
    <3> HIDE DEF sheet
    <3> QED
      BY <1>5, <1>6, <3>1, <3>2 DEF Follows, Requests
  <2>3. CASE Ran(m) \/ Closes(m)
    BY <1>5, <2>3 DEF Ran, Closes, Becomes
  <2>4. CASE Approves(m)
    <3>1. m.kind = "sheet" /\ (n \in wire \/ n \in Requested(m, "pay"))
      BY <2>4 DEF Approves, Becomes
    <3> QED
      BY <1>6, <3>1 DEF Follows, Requests
  <2>5. CASE GoesOn(m)
    <3>1. m.kind \in {"pay", "more"} /\ (n \in wire \/ n \in Requested(m, "more"))
      BY <2>5 DEF GoesOn, Becomes
    <3> QED
      BY <1>6, <3>1 DEF Follows, Requests
  <2>6. CASE Connects(m) \/ Settles(m)
    BY <2>6 DEF Connects, Settles, Becomes
  <2> QED
    BY <2>1, <2>2, <2>3, <2>4, <2>5, <2>6 DEF Bridges
<1> QED
  BY <1>2, <1>3, <1>4, <1>7

(* The document of the message's frame: it takes the context, or an answer *)
(* that it awaits.                                                         *)
ConnectedDoc(m) == [frame[m.jam].doc EXCEPT !.at = "connected", !.shows = m.shows]

AnsweredDoc(m) == [frame[m.jam].doc EXCEPT !.waits = @ \ {m.id}, !.got = @ \cup {PromiseOf(m)}]

LEMMA DocsDo ==
    ASSUME ShellType, NEW m \in wire, Connects(m) \/ Settles(m), ~UNCHANGED frame
    PROVE  /\ m \in Message /\ m.jam \in Jams /\ HasDoc(m.jam)
           /\ frame[m.jam] \in Frame /\ frame[m.jam] # Null
           /\ frame[m.jam].doc \in Doc /\ frame[m.jam].doc # Null
           /\ \/ /\ m.kind = "context" /\ frame[m.jam].doc.at = "hello" /\ ConnectedDoc(m) \in Doc
                 /\ Reframes(m.jam, [frame[m.jam] EXCEPT !.doc = ConnectedDoc(m)])
              \/ /\ m.kind = "answer" /\ Awaits(m, frame[m.jam].doc) /\ AnsweredDoc(m) \in Doc
                 /\ Reframes(m.jam, [frame[m.jam] EXCEPT !.doc = AnsweredDoc(m)])
<1> DEFINE j == m.jam
<1>1. /\ m \in Message /\ j \in Jams /\ HasDoc(j) /\ frame \in [Jams -> Frame \cup {Null}]
      /\ UNCHANGED <<session, drove, path, shown, hook, welcome>>
  BY DEF Connects, Settles, Becomes, ShellType, TypeOK, Message
<1>2. frame[j] \in Frame /\ frame[j] # Null /\ frame[j].doc \in Doc /\ frame[j].doc # Null
  BY <1>1, DocType DEF HasDoc
<1>3. CASE Connects(m)
  <2>1. m.kind = "context" /\ frame[j].doc.at = "hello" /\ ConnectedDoc(m) \in Doc
    BY <1>1, <1>2, <1>3 DEF Connects, ConnectedDoc, Doc, Message
  <2>2. frame' = [frame EXCEPT ![j] = [frame[j] EXCEPT !.doc = ConnectedDoc(m)]]
    BY <1>1, <1>2, <1>3 DEF Connects, ConnectedDoc, Frame, Doc
  <2> QED
    BY <1>1, <1>2, <2>1, <2>2 DEF Reframes
<1>4. CASE Settles(m)
  <2>0. PromiseOf(m) \in Promise
    BY <1>1 DEF PromiseOf, Promise, Message
  <2>1. m.kind = "answer" /\ Awaits(m, frame[j].doc) /\ AnsweredDoc(m) \in Doc
    BY <1>1, <1>2, <1>4, <2>0 DEF Settles, AnsweredDoc, Doc
  <2>2. frame' = [frame EXCEPT ![j] = [frame[j] EXCEPT !.doc = AnsweredDoc(m)]]
    BY <1>1, <1>2, <1>4 DEF Settles, AnsweredDoc, Frame, Doc
  <2> QED
    BY <1>1, <1>2, <2>1, <2>2 DEF Reframes
<1> QED
  BY <1>3, <1>4

LEMMA BridgeType == ASSUME ShellType, NEW m \in wire, Bridges(m) PROVE ShellType'
<1>1. /\ UNCHANGED <<session, drove, docs, path, shown, hook, welcome>>
      /\ \A n \in wire' : n \in wire \/ Follows(n, m)
      /\ resolver' \in Promise \cup {Null}
      /\ UNCHANGED frame \/ (HasDoc(m.jam) /\ (Connects(m) \/ Settles(m)))
  BY BridgeDoes
<1>2. /\ wire' \subseteq Message /\ docs' \in Nat
      /\ \A n \in wire' : n \in wire \/ n.jam = m.jam
      /\ \A n \in wire' : n.kind \in Requests \cup {"sheet"} \/ frame[n.jam] # Null
  BY <1>1 DEF Follows, ShellType, TypeOK, Requests
<1>3. CASE UNCHANGED frame
  BY <1>1, <1>2, <1>3 DEF ShellType, TypeOK
<1>4. CASE ~UNCHANGED frame
  <2>1. PICK doc \in Doc : /\ Reframes(m.jam, [frame[m.jam] EXCEPT !.doc = doc])
                           /\ m.jam \in Jams /\ HasDoc(m.jam) /\ frame[m.jam] # Null
    BY <1>1, <1>4, DocsDo
  <2>2. [frame[m.jam] EXCEPT !.doc = doc] \in Frame
    BY <2>1, DocType
  <2> QED
    BY <1>1, <1>2, <2>1, <2>2, FrameIsType
<1> QED
  BY <1>3, <1>4

(* Types are inductive, and hold at first.                                 *)
LEMMA TypeStep == ASSUME ShellType, [Next]_vars PROVE ShellType'
<1>1. CASE UNCHANGED vars
  BY <1>1 DEF vars, pageVars, ShellType, TypeOK
<1> QED
  BY <1>1, SessionType, AuthType, GoesType, JamType, BridgeType DEF Next, Auth, Bridge, Bridges

LEMMA TypeInit == ASSUME Init PROVE ShellType
BY Fresh, ShellAssumption DEF Init, ShellType, TypeOK, Hooks

(* Types: in particular a jam is framed only below a hook of its own, and  *)
(* of what is under way for a jam whose frame is gone there is nothing but *)
(* a payment's sheet and requests of the platform (host-bridge.ts:233).    *)
THEOREM ShellTypes == Spec => []ShellType
BY TypeInit, TypeStep, PTL DEF Spec

(***************************************************************************)
(* Whom a jam shows and for whom it calls.  While a jam is mounted, the    *)
(* gate has the token of one person: whoever is signed in is that person,  *)
(* and every hook, frame, document and message below it speaks of that     *)
(* person, or of a guest where nobody could be known.                      *)
(***************************************************************************)

Token == hook["gate"].token

KnowsNobody(k) == session.user = Null \/ k.status = "error"

HookInv(k, t) ==
    /\ k.token \in {Null, t} /\ k.user \in {Null, t}
    /\ k.status = "ready" /\ k.user = Null => session.user = Null

ViewerInv(who, k, t) == who \in {Null, Guest, t} /\ (who = Guest => KnowsNobody(k))

FrameInv(f, k, t) ==
    f # Null => /\ k # Null /\ k.status # "pending" /\ ViewerInv(f.context, k, t)
                /\ f.doc # Null => /\ ViewerInv(f.doc.shows, k, t)
                                   /\ f.doc.at = "connected" => f.doc.shows # Null

(* On its way to the page, or the context that is on its way back.         *)
MessageInv(m, k, t) ==
    m.kind \in {"hello", "context", "call"} =>
        ViewerInv(m.shows, k, t) /\ (m.kind # "hello" => m.shows # Null)

GateInv ==
    /\ Token # Null => session.init = "finished" /\ session.user \in {Null, Token}
    /\ \A j \in Jams : hook[j] # Null => Token # Null /\ hook["gate"].status # "pending"

ViewInv ==
    /\ GateInv
    /\ \A j \in Jams : /\ hook[j] # Null => HookInv(hook[j], Token)
                       /\ FrameInv(frame[j], hook[j], Token)
    /\ \A m \in wire : MessageInv(m, hook[m.jam], Token)

(* Rendering keeps the view right, if the hooks it renders are right: the  *)
(* gate's for the session, a jam's for the gate's person.                  *)
LEMMA RendersView ==
    ASSUME ShellType, ViewInv, NEW hooks, HooksOK(hooks), NEW wel, NEW p, NEW s \in SUBSET Jams,
           Renders(hooks, wel, p, s), UNCHANGED session,
           (hooks["gate"].token # Null =>
               session.init = "finished" /\ session.user \in {Null, hooks["gate"].token}),
           \A j \in Jams :
               (j \in Mounted(hooks["gate"], p, s) /\ hooks[j] # Null) =>
               HookInv(hooks[j], hooks["gate"].token),
           \A j \in Jams :
               (/\ j \in Mounted(hooks["gate"], p, s) /\ frame[j] # Null
                /\ hooks[j] # Null /\ hooks[j].status # "pending") =>
               (/\ hooks["gate"].token = Token
                /\ KnowsNobody(hook[j]) => KnowsNobody(hooks[j]))
    PROVE  ViewInv'
<1> DEFINE t == hooks["gate"].token
<1>1. Token' = t /\ hook'["gate"] = hooks["gate"]
  BY GateMounted DEF Token, Renders, HooksOK
<1>2. ASSUME NEW j \in Jams, hook'[j] # Null
      PROVE  /\ j \in Mounted(hooks["gate"], p, s)
             /\ hook'[j] = FreshHook \/ (hooks[j] # Null /\ hook'[j] = hooks[j])
             /\ t # Null /\ hooks["gate"].status # "pending"
  <2>1. j \in Hooks /\ j \notin {"gate", "welcome"}
    BY ShellAssumption DEF Hooks
  <2>2. /\ j \in Mounted(hooks["gate"], p, s)
        /\ hook'[j] = FreshHook \/ (hooks[j] # Null /\ hook'[j] = hooks[j])
    BY <1>2, <2>1 DEF Renders
  <2> QED
    BY <2>1, <2>2 DEF Mounted, Opens
<1>3. GateInv'
  BY <1>1, <1>2 DEF GateInv
<1>4. ASSUME NEW j \in Jams, hook'[j] # Null
      PROVE  HookInv(hook[j], Token)'
  <2>1. HookInv(hook'[j], t)
    BY <1>2, <1>4 DEF HookInv, FreshHook
  <2> QED
    BY <1>1, <2>1 DEF HookInv
<1>5. ASSUME NEW j \in Jams, frame'[j] # Null
      PROVE  /\ hook'[j] # Null /\ hook'[j].status # "pending" /\ hook'[j] = hooks[j]
             /\ frame'[j] = FreshFrame \/ (frame[j] # Null /\ frame'[j] = frame[j])
             /\ frame[j] # Null => t = Token /\ (KnowsNobody(hook[j]) => KnowsNobody(hook[j])')
  <2>1. hook'[j] # Null /\ hook'[j].status # "pending"
    BY <1>5 DEF Renders, Frames
  <2>2. hook'[j] = hooks[j] /\ j \in Mounted(hooks["gate"], p, s)
    BY <1>2, <2>1 DEF FreshHook
  <2>3. frame'[j] = FreshFrame \/ (frame[j] # Null /\ frame'[j] = frame[j])
    BY <1>5 DEF Renders
  <2> QED
    BY <2>1, <2>2, <2>3 DEF KnowsNobody
<1>6. ASSUME NEW j \in Jams
      PROVE  FrameInv(frame[j], hook[j], Token)'
  <2>1. CASE frame'[j] = Null
    BY <2>1 DEF FrameInv
  <2>2. CASE frame'[j] # Null
    <3>1. CASE frame'[j] = FreshFrame
      BY <1>5, <2>2, <3>1, ShellAssumption DEF FrameInv, FreshFrame, ViewerInv, Who
    <3>2. CASE frame[j] # Null /\ frame'[j] = frame[j]
      <4>1. FrameInv(frame[j], hook[j], t) /\ (KnowsNobody(hook[j]) => KnowsNobody(hook[j])')
        BY <1>5, <2>2, <3>2 DEF ViewInv
      <4>2. ASSUME NEW who, ViewerInv(who, hook[j], t)
            PROVE  who \in {Null, Guest, t} /\ (who = Guest => KnowsNobody(hook[j])')
        BY <4>1, <4>2 DEF ViewerInv
      <4>3. hook'[j] # Null /\ hook'[j].status # "pending" /\ Token' = t /\ frame'[j] = frame[j]
        BY <1>1, <1>5, <2>2, <3>2
      <4> QED
        BY <3>2, <4>1, <4>2, <4>3 DEF FrameInv, ViewerInv
    <3> QED
      BY <1>5, <2>2, <3>1, <3>2
  <2> QED
    BY <2>1, <2>2
<1>7. ASSUME NEW m \in wire'
      PROVE  MessageInv(m, hook'[m.jam], Token') /\ MessageInv(m, hook[m.jam], Token)'
  <2>1. m \in wire /\ m.jam \in Jams /\ (frame'[m.jam] # Null \/ m.kind \in Requests \cup {"sheet"})
    BY <1>7 DEF Renders, ShellType, TypeOK, Message, Outlives
  <2>2. CASE m.kind \in {"hello", "context", "call"}
    <3>1. frame'[m.jam] # Null /\ frame[m.jam] # Null
      BY <2>1, <2>2 DEF Requests, ShellType
    <3> QED
      BY <1>1, <1>5, <2>1, <3>1 DEF MessageInv, ViewerInv, ViewInv, KnowsNobody
  <2> QED
    BY <2>2 DEF MessageInv
<1> QED
  BY <1>3, <1>4, <1>6, <1>7 DEF ViewInv

(* Nobody signs in while a jam is mounted: the gate would have to know     *)
(* nobody.                                                                 *)
LEMMA SessionView == ASSUME ShellType, ViewInv, Dynamic PROVE ViewInv'
<1>1. UNCHANGED <<hook, frame, wire>> /\ Token' = Token
  BY DEF Dynamic, Starts, SignsIn, SignsOut, Refreshes, Changes, pageVars, Token
<1>2. Token # Null => session'.init = "finished" /\ session'.user \in {Null, Token}
  <2>1. CASE Starts
    BY <2>1 DEF Starts, Changes, ViewInv, GateInv
  <2>2. CASE \E user \in Users : SignsIn(user)
    BY <2>2 DEF SignsIn, Token
  <2>3. CASE SignsOut \/ Refreshes
    BY <2>3 DEF SignsOut, Refreshes, Changes, ViewInv, GateInv
  <2> QED
    BY <2>1, <2>2, <2>3 DEF Dynamic
<1>3. Token # Null => (session.user = Null => session'.user = Null)
  BY DEF Dynamic, Starts, SignsIn, SignsOut, Refreshes, Changes, ViewInv, GateInv, Token
<1>4. GateInv'
  BY <1>1, <1>2 DEF ViewInv, GateInv
<1>5. ASSUME NEW j \in Jams, hook[j] # Null
      PROVE  session.user = Null => session'.user = Null
  BY <1>3, <1>5 DEF ViewInv, GateInv
<1>6. ASSUME NEW j \in Jams
      PROVE  (hook[j] # Null => HookInv(hook[j], Token))' /\ FrameInv(frame[j], hook[j], Token)'
  <2>1. hook'[j] # Null => HookInv(hook[j], Token)'
    BY <1>1, <1>5 DEF ViewInv, HookInv
  <2>2. frame[j] # Null => (KnowsNobody(hook[j]) => KnowsNobody(hook[j])')
    BY <1>1, <1>5 DEF KnowsNobody, ShellType
  <2>3. FrameInv(frame[j], hook[j], Token)'
    BY <1>1, <2>2 DEF ViewInv, FrameInv, ViewerInv
  <2> QED
    BY <2>1, <2>3
<1>7. ASSUME NEW m \in wire'
      PROVE  MessageInv(m, hook[m.jam], Token)'
  <2>1. CASE m.kind \in {"hello", "context", "call"}
    <3>1. m \in wire /\ m.jam \in Jams /\ hook[m.jam] # Null
      BY <1>1, <1>7, <2>1 DEF ShellType, TypeOK, Message, Requests
    <3>2. KnowsNobody(hook[m.jam]) => KnowsNobody(hook[m.jam])'
      BY <1>1, <1>5, <3>1 DEF KnowsNobody
    <3> QED
      BY <1>1, <3>1, <3>2 DEF ViewInv, MessageInv, ViewerInv
  <2> QED
    BY <2>1 DEF MessageInv
<1> QED
  BY <1>4, <1>6, <1>7 DEF ViewInv

(* What the page is rendered for is rendered again, wherever it goes.      *)
LEMMA SameHooks ==
    ASSUME ShellType, ViewInv, NEW wel, NEW p, NEW s \in SUBSET Jams,
           Renders(hook, wel, p, s), UNCHANGED session
    PROVE  ViewInv'
<1>1. HooksOK(hook)
  BY DEF HooksOK, ShellType, TypeOK
<1> QED
  BY <1>1, RendersView DEF ViewInv, GateInv, Token

(* Wherever the person goes.                                               *)
LEMMA GoesView == ASSUME ShellType, ViewInv, Goes PROVE ViewInv'
<1>1. shown \in SUBSET Jams
  BY DEF ShellType, TypeOK
<1>2. CASE DrivesLogin
  BY <1>2 DEF DrivesLogin, ViewInv, GateInv, Token, FrameInv, HookInv, ViewerInv, MessageInv,
              KnowsNobody
<1>3. CASE Bounces \/ ClaimsName \/ Routes
  BY <1>1, <1>3, SameHooks DEF Bounces, ClaimsName, Routes
<1>4. CASE \E j \in Jams : Scrolls(j)
  <2> PICK j \in Jams : Scrolls(j)
    BY <1>4
  <2>1. (IF j \in shown THEN shown \ {j} ELSE shown \cup {j}) \in SUBSET Jams
    BY <1>1
  <2> QED
    BY <2>1, SameHooks DEF Scrolls
<1> QED
  BY <1>2, <1>3, <1>4 DEF Goes

(* A hook of the page is set: the gate's closes every jam, or opens them   *)
(* when none was there; a jam's is set for the person the gate knows.      *)
LEMMA HookIsView ==
    ASSUME ShellType, ViewInv, NEW h \in Hooks, NEW v \in Hook, HookIs(h, v), UNCHANGED session,
           h = "gate" =>
               /\ v.token # Null => session.init = "finished" /\ session.user \in {Null, v.token}
               /\ hook["gate"].status = "pending" \/ v.token = Null \/ v.status = "pending",
           h \in Jams =>
               /\ hook[h] # Null /\ HookInv(v, Token)
               /\ (hook[h].status # "pending" /\ v.status # "pending" => KnowsNobody(v))
    PROVE  ViewInv'
<1> DEFINE hooks == [hook EXCEPT ![h] = v]
<1>1. /\ HooksOK(hooks) /\ hooks[h] = v
      /\ \A other \in Hooks : other # h => hooks[other] = hook[other]
      /\ shown \in SUBSET Jams
  BY NullIsNothingShown DEF HooksOK, ShellType, TypeOK
<1>2. Renders(hooks, welcome, path, shown)
  BY DEF HookIs
<1>3. /\ "gate" \in Hooks /\ Jams \subseteq Hooks /\ "gate" \notin Jams /\ "welcome" \notin Jams
  BY ShellAssumption DEF Hooks
<1> HIDE DEF hooks
<1>4. hooks["gate"].token # Null =>
          session.init = "finished" /\ session.user \in {Null, hooks["gate"].token}
  BY <1>1, <1>3 DEF ViewInv, GateInv, Token
<1>5. ASSUME NEW j \in Jams, j \in Mounted(hooks["gate"], path, shown), hooks[j] # Null
      PROVE  /\ HookInv(hooks[j], hooks["gate"].token)
             /\ (frame[j] # Null /\ hooks[j].status # "pending") =>
                    (hooks["gate"].token = Token /\ (KnowsNobody(hook[j]) => KnowsNobody(hooks[j])))
  <2>1. CASE h = "gate"
    <3>1. hooks["gate"].token # Null /\ hooks["gate"].status # "pending"
      BY <1>3, <1>5 DEF Mounted, Opens
    <3>2. hook[j] # Null /\ hook["gate"].status = "pending"
      BY <1>1, <1>3, <1>5, <2>1, <3>1
    <3> QED
      BY <3>2 DEF ViewInv, GateInv
  <2>2. CASE h # "gate"
    <3>1. hooks["gate"].token = Token
      BY <1>1, <1>3, <2>2 DEF Token
    <3>2. CASE h = j
      BY <1>1, <3>1, <3>2 DEF ViewInv, FrameInv
    <3>3. CASE h # j
      BY <1>1, <1>3, <1>5, <3>1, <3>3 DEF ViewInv
    <3> QED
      BY <3>2, <3>3
  <2> QED
    BY <2>1, <2>2
<1> QED
  BY <1>1, <1>2, <1>4, <1>5, RendersView

(* useHostAuth sets hooks in that way.                                     *)
LEMMA AuthView ==
    ASSUME ShellType, ViewInv, NEW h \in Hooks, Resolves(h) \/ MeAnswers(h) \/ MeFails(h)
    PROVE  ViewInv'
<1>1. /\ hook[h] # Null /\ hook[h] \in Hook
      /\ session.user \in Users \cup {Null} /\ session.at \in Nat /\ Null \notin Users
  BY ShellAssumption DEF Resolves, MeAnswers, MeFails, Asks, ShellType, TypeOK, Who
<1>2. h \in Jams => /\ Token # Null /\ session.init = "finished" /\ session.user \in {Null, Token}
                    /\ HookInv(hook[h], Token)
  BY <1>1 DEF ViewInv, GateInv
<1>3. CASE Resolves(h)
  <2>1. CASE session.init # "finished"
    <3> DEFINE v == [hook[h] EXCEPT !.seen = session.at]
    <3>1. v \in Hook /\ v.token = hook[h].token /\ v.status = hook[h].status /\ HookIs(h, v)
      BY <1>1, <1>3, <2>1 DEF Resolves, Hook
    <3>2. h \notin Jams
      BY <1>2, <2>1
    <3>3. h = "gate" => v.token = Null
      BY <2>1, <3>1 DEF ViewInv, GateInv, Token
    <3> HIDE DEF v
    <3> QED
      BY <1>3, <3>1, <3>2, <3>3, HookIsView DEF Resolves
  <2>2. CASE session.init = "finished" /\ session.user = Null
    <3> DEFINE v == [seen |-> session.at, token |-> Null, user |-> Null, status |-> "ready"]
    <3>1. v \in Hook /\ v.token = Null /\ HookIs(h, v) /\ HookInv(v, Token) /\ KnowsNobody(v)
      BY <1>1, <1>3, <2>2 DEF Resolves, Hook, HookInv, KnowsNobody
    <3> HIDE DEF v
    <3> QED
      BY <1>1, <1>3, <3>1, HookIsView DEF Resolves
  <2>3. CASE session.init = "finished" /\ session.user # Null
    <3> DEFINE v == [hook[h] EXCEPT !.seen = session.at, !.token = session.user,
                                    !.status = "pending"]
    <3>1. /\ v \in Hook /\ HookIs(h, v)
          /\ v.token = session.user /\ v.user = hook[h].user /\ v.status = "pending"
      BY <1>1, <1>3, <2>3 DEF Resolves, Hook
    <3>2. h \in Jams => HookInv(v, Token)
      BY <1>2, <2>3, <3>1 DEF HookInv
    <3> HIDE DEF v
    <3> QED
      BY <1>1, <1>3, <2>3, <3>1, <3>2, HookIsView DEF Resolves
  <2> QED
    BY <2>1, <2>2, <2>3
<1>4. CASE MeAnswers(h)
  <2> DEFINE v == [hook[h] EXCEPT !.user = hook[h].token, !.status = "ready"]
  <2>1. /\ v \in Hook /\ v.token = hook[h].token /\ v.user = hook[h].token /\ v.status = "ready"
        /\ HookIs(h, v) /\ hook[h].status = "pending" /\ hook[h].token # Null
    BY <1>1, <1>4 DEF MeAnswers, Asks, Hook
  <2>2. h \in Jams => HookInv(v, Token)
    BY <1>2, <2>1 DEF HookInv
  <2>3. h = "gate" =>
            (v.token # Null => session.init = "finished" /\ session.user \in {Null, v.token})
    BY <2>1 DEF ViewInv, GateInv, Token
  <2> HIDE DEF v
  <2> QED
    BY <1>1, <1>4, <2>1, <2>2, <2>3, HookIsView DEF MeAnswers
<1>5. CASE MeFails(h)
  <2> DEFINE v == [hook[h] EXCEPT !.user = Null, !.status = "error"]
  <2>1. /\ v \in Hook /\ v.token = hook[h].token /\ v.user = Null /\ v.status = "error"
        /\ HookIs(h, v) /\ hook[h].status = "pending" /\ hook[h].token # Null
    BY <1>1, <1>5 DEF MeFails, Asks, Hook
  <2>2. h \in Jams => HookInv(v, Token)
    BY <1>2, <2>1 DEF HookInv
  <2>3. h = "gate" =>
            (v.token # Null => session.init = "finished" /\ session.user \in {Null, v.token})
    BY <2>1 DEF ViewInv, GateInv, Token
  <2> HIDE DEF v
  <2> QED
    BY <1>1, <1>5, <2>1, <2>2, <2>3, HookIsView DEF MeFails
<1> QED
  BY <1>3, <1>4, <1>5

(* A frame is set, or a message sent, for the person the gate knows.       *)
LEMMA FrameIsView ==
    ASSUME ShellType, ViewInv, NEW j \in Jams, NEW f, Reframes(j, f),
           FrameInv(f, hook[j], Token),
           \A m \in wire' : m \in wire \/ MessageInv(m, hook[m.jam], Token)
    PROVE  ViewInv'
<1>1. /\ UNCHANGED <<session, hook>> /\ Token' = Token
      /\ \A other \in Jams : frame'[other] = IF other = j THEN f ELSE frame[other]
  BY DEF Reframes, Token, ShellType, TypeOK
<1>2. GateInv' /\ \A other \in Jams : (hook[other] # Null => HookInv(hook[other], Token))'
  BY <1>1 DEF ViewInv, GateInv, HookInv
<1>3. \A k, who, t :
          ViewerInv(who, k, t) => /\ who \in {Null, Guest, t}
                                  /\ who = Guest => session'.user = Null \/ k.status = "error"
  BY <1>1 DEF ViewerInv, KnowsNobody
<1>4. ASSUME NEW other \in Jams
      PROVE  FrameInv(frame[other], hook[other], Token)'
  <2>1. FrameInv(frame'[other], hook[other], Token)
    BY <1>1 DEF ViewInv
  <2> QED
    BY <1>1, <1>3, <2>1 DEF FrameInv, ViewerInv, KnowsNobody
<1>5. ASSUME NEW m \in wire'
      PROVE  MessageInv(m, hook[m.jam], Token)'
  <2>1. MessageInv(m, hook[m.jam], Token)
    BY <1>5 DEF ViewInv
  <2> QED
    BY <1>1, <1>3, <2>1 DEF MessageInv, ViewerInv, KnowsNobody
<1> QED
  BY <1>2, <1>4, <1>5 DEF ViewInv

(* Registration takes the context from the jam's own hook, and calls take  *)
(* it from the document.                                                   *)
LEMMA JamView == ASSUME ShellType, ViewInv, NEW j \in Jams, Jam(j) PROVE ViewInv'
<1>1. /\ FrameInv(frame[j], hook[j], Token) /\ (hook[j] # Null => HookInv(hook[j], Token))
      /\ Null \notin Who /\ Guest \notin Users /\ hook[j] \in Hook \cup {Null}
      /\ frame[j] \in Frame \cup {Null} /\ j \in Hooks
      /\ \A f : FrameIs(j, f) => Reframes(j, f)
  BY ShellAssumption DEF ViewInv, ShellType, TypeOK, Hooks, FrameIs, Reframes
<1>2. CASE Registers(j)
  <2>1. /\ hook[j] \in Hook /\ frame[j] \in Frame
        /\ HookInv(hook[j], Token) /\ hook[j].status # "pending"
    BY <1>1, <1>2 DEF Registers, ShellType, FrameInv
  <2>2. ViewerInv(Context(hook[j]), hook[j], Token)
    BY <1>1, <2>1 DEF ViewerInv, Context, HookInv, KnowsNobody, Hook, Who
  <2>3. FrameInv([frame[j] EXCEPT !.context = Context(hook[j])], hook[j], Token)
    BY <1>1, <1>2, <2>1, <2>2 DEF FrameInv, Registers, Frame
  <2> QED
    BY <1>1, <1>2, <2>3, FrameIsView DEF Registers
<1>3. CASE Loads(j)
  <2>1. FrameInv([frame[j] EXCEPT !.phase = "ready", !.doc = FreshDoc], hook[j], Token)
    BY <1>1, <1>3 DEF Loads, FrameInv, FreshDoc, ViewerInv, Frame, Who
  <2> QED
    BY <1>1, <1>3, <2>1, FrameIsView DEF Loads
<1>4. CASE Blocks(j)
  <2>1. FrameInv([frame[j] EXCEPT !.phase = "blocked"], hook[j], Token)
    BY <1>1, <1>4 DEF Blocks, FrameInv, Frame
  <2> QED
    BY <1>1, <1>4, <2>1, FrameIsView DEF Blocks
<1>5. CASE SaysHello(j)
  <2>1. FrameIs(j, frame[j])
    BY <1>5 DEF SaysHello, FrameIs, ShellType, TypeOK
  <2>2. \A m \in wire' : m \in wire \/ MessageInv(m, hook[m.jam], Token)
    BY <1>1, <1>5 DEF SaysHello, MessageInv, ViewerInv, Who
  <2> QED
    BY <1>1, <2>1, <2>2, FrameIsView
<1>6. CASE Bails(j)
  <2>1. /\ frame[j] \in Frame /\ frame[j].doc \in Doc /\ frame[j] # Null /\ frame[j].doc # Null
    BY <1>6, DocType DEF Bails, HasDoc
  <2>2. FrameInv([frame[j] EXCEPT !.doc = [frame[j].doc EXCEPT !.at = "standalone"]], hook[j], Token)
    BY <1>1, <2>1 DEF FrameInv, Frame, Doc
  <2> QED
    BY <1>1, <1>6, <2>2, FrameIsView DEF Bails, DocIs
<1>7. CASE Calls(j)
  <2> DEFINE doc == frame[j].doc
             new == [doc EXCEPT !.made = doc.made + 1, !.waits = @ \cup {doc.made + 1}]
             message == [kind |-> "call", jam |-> j, doc |-> doc.n, id |-> doc.made + 1,
                         shows |-> doc.shows, as |-> Null]
  <2>1. /\ frame[j] \in Frame /\ doc \in Doc /\ frame[j] # Null /\ doc # Null
        /\ doc.at = "connected"
    BY <1>7, DocType DEF Calls, HasDoc
  <2>2. new.shows = doc.shows /\ new.at = doc.at
    BY <2>1 DEF Doc
  <2>3. FrameIs(j, [frame[j] EXCEPT !.doc = new]) /\ wire' = wire \cup {message}
    BY <1>7 DEF Calls, DocIs
  <2>4. ViewerInv(doc.shows, hook[j], Token) /\ doc.shows # Null
    BY <1>1, <2>1 DEF FrameInv
  <2>5. message.jam = j /\ message.shows = doc.shows /\ message.as = Null
    OBVIOUS
  <2> HIDE DEF doc, new, message
  <2>6. FrameInv([frame[j] EXCEPT !.doc = new], hook[j], Token)
    BY <1>1, <2>1, <2>2, <2>4 DEF FrameInv, Frame, doc
  <2>7. MessageInv(message, hook[message.jam], Token)
    BY <2>4, <2>5 DEF MessageInv
  <2> QED
    BY <1>1, <2>3, <2>6, <2>7, FrameIsView
<1>8. CASE \E id \in 1 .. MaxCalls : TimesOut(j, id)
  <2> PICK id \in 1 .. MaxCalls : TimesOut(j, id)
    BY <1>8
  <2>1. /\ frame[j] \in Frame /\ frame[j].doc \in Doc /\ frame[j] # Null /\ frame[j].doc # Null
    BY DocType DEF TimesOut, HasDoc
  <2> DEFINE doc == [frame[j].doc EXCEPT !.waits = @ \ {id}, !.gaveUp = @ \cup {id}]
  <2>2. FrameInv([frame[j] EXCEPT !.doc = doc], hook[j], Token)
    BY <1>1, <2>1 DEF FrameInv, Frame, Doc
  <2> QED
    BY <1>1, <2>1, <2>2, FrameIsView DEF TimesOut, DocIs
<1> QED
  BY <1>2, <1>3, <1>4, <1>5, <1>6, <1>7, <1>8 DEF Jam

(* The page answers with the context it has registered.                    *)
LEMMA BridgeView == ASSUME ShellType, ViewInv, NEW m \in wire, Bridges(m) PROVE ViewInv'
<1> DEFINE j == m.jam
<1>1. /\ UNCHANGED <<session, drove, docs, path, shown, hook, welcome>>
      /\ \A n \in wire' : n \in wire \/ Follows(n, m)
      /\ UNCHANGED frame \/ (HasDoc(j) /\ (Connects(m) \/ Settles(m)))
  BY BridgeDoes
<1>2. /\ j \in Jams /\ FrameInv(frame[j], hook[j], Token) /\ MessageInv(m, hook[j], Token)
      /\ frame[j] \in Frame \cup {Null} /\ frame \in [Jams -> Frame \cup {Null}]
  BY DEF ShellType, TypeOK, Message, ViewInv
<1>3. ASSUME NEW n \in wire', n \notin wire
      PROVE  MessageInv(n, hook[n.jam], Token)
  <2>1. Follows(n, m)
    BY <1>1, <1>3
  <2>2. CASE n.kind = "context"
    <3>1. /\ m.kind = "hello" /\ n.shows = frame[j].context /\ n.shows # Null /\ n.jam = j
          /\ frame[j] # Null
      BY <2>1, <2>2 DEF Follows, ShellType, Requests
    <3> QED
      BY <1>2, <3>1 DEF FrameInv, MessageInv
  <2>3. CASE n.kind # "context"
    BY <2>1, <2>3 DEF Follows, MessageInv
  <2> QED
    BY <2>2, <2>3
<1>4. PICK f : Reframes(j, f) /\ FrameInv(f, hook[j], Token)
  <2>1. CASE UNCHANGED frame
    <3>1. Reframes(j, frame[j])
      BY <1>1, <1>2, <2>1 DEF Reframes
    <3> QED
      BY <1>2, <3>1
  <2>2. CASE ~UNCHANGED frame
    <3>1. /\ m \in Message /\ frame[j] \in Frame /\ frame[j] # Null
          /\ frame[j].doc \in Doc /\ frame[j].doc # Null
          /\ \/ m.kind = "context" /\ Reframes(j, [frame[j] EXCEPT !.doc = ConnectedDoc(m)])
             \/ Reframes(j, [frame[j] EXCEPT !.doc = AnsweredDoc(m)])
      BY <1>1, <2>2, DocsDo
    <3>2. ASSUME m.kind = "context"
          PROVE  FrameInv([frame[j] EXCEPT !.doc = ConnectedDoc(m)], hook[j], Token)
      <4>1. ConnectedDoc(m).shows = m.shows /\ ViewerInv(m.shows, hook[j], Token) /\ m.shows # Null
        BY <1>2, <3>1, <3>2 DEF ConnectedDoc, Doc, MessageInv
      <4> QED
        BY <1>2, <3>1, <4>1 DEF FrameInv, Frame
    <3>3. FrameInv([frame[j] EXCEPT !.doc = AnsweredDoc(m)], hook[j], Token)
      <4>1. AnsweredDoc(m).shows = frame[j].doc.shows /\ AnsweredDoc(m).at = frame[j].doc.at
        BY <3>1 DEF AnsweredDoc, Doc
      <4> QED
        BY <1>2, <3>1, <4>1 DEF FrameInv, Frame
    <3> QED
      BY <3>1, <3>2, <3>3
  <2> QED
    BY <2>1, <2>2
<1> QED
  BY <1>2, <1>3, <1>4, FrameIsView

(* The invariant is inductive, holds at first, and so always.              *)
LEMMA ViewStep == ASSUME ShellType, ViewInv, [Next]_vars PROVE ViewInv'
<1>1. CASE UNCHANGED vars
  BY <1>1 DEF vars, pageVars, ViewInv, GateInv, Token, HookInv, FrameInv, MessageInv, ViewerInv,
              KnowsNobody
<1> QED
  BY <1>1, SessionView, AuthView, GoesView, JamView, BridgeView DEF Next, Auth, Bridge, Bridges

LEMMA ViewInit == ASSUME Init PROVE ViewInv
BY ShellAssumption DEF Init, ViewInv, GateInv, Token, HookInv, FrameInv, FreshHook, Hooks

LEMMA ViewAlways == Spec => [](ShellType /\ ViewInv)
<1>1. Init => ShellType /\ ViewInv
  BY TypeInit, ViewInit
<1>2. ShellType /\ ViewInv /\ [Next]_vars => (ShellType /\ ViewInv)'
  BY TypeStep, ViewStep
<1> QED
  BY <1>1, <1>2, PTL DEF Spec

(* A jam shows who is signed in, or has just signed out; and a guest only  *)
(* if nobody is signed in or the profile could not be had.                 *)
THEOREM ContextIsRight == Spec => []ContextIsTheViewers
<1>1. ShellType /\ ViewInv => ContextIsTheViewers
  <2> SUFFICES ASSUME ShellType, ViewInv, NEW j \in Jams, Connected(j)
               PROVE  IF frame[j].doc.shows = Guest
                      THEN session.user = Null \/ hook[j].status = "error"
                      ELSE session.user \in {Null, frame[j].doc.shows}
    BY DEF ContextIsTheViewers
  <2>1. /\ FrameInv(frame[j], hook[j], Token) /\ hook[j] # Null
        /\ HasDoc(j) /\ frame[j].doc.at = "connected"
    BY DEF Connected, HasDoc, ViewInv, ShellType
  <2> QED
    BY <2>1 DEF FrameInv, ViewerInv, KnowsNobody, HasDoc, ViewInv, GateInv
<1> QED
  BY <1>1, ViewAlways, PTL

(* What goes on for a jam: the sheet is up in front of a person of whom    *)
(* the gate knows, on the feed; and only what is left of a payment whose   *)
(* jam is gone is asked for as somebody else.                              *)
SheetUp == hook["gate"].status # "pending" /\ Token # Null /\ path = "feed"

AsShown(m) ==
    m.kind \in Requests /\ m.as \notin {Null, m.shows} =>
        m.shows = Guest \/ (m.kind = "more" /\ ~StillThere(m))

DeedInv(m) ==
    m.kind \in Requests \cup {"call", "sheet"} =>
        /\ m.doc <= docs /\ m.shows # Null
        /\ StillThere(m) => /\ frame[m.jam].doc.at = "connected"
                            /\ frame[m.jam].doc.shows = m.shows
        /\ m.kind = "sheet" => SheetUp /\ m.shows \in {Guest, Token}
        /\ AsShown(m)

DeedsInv ==
    /\ \A j \in Jams : /\ HasDoc(j) => frame[j].doc.n <= docs
                       /\ hook[j] # Null => path = "feed"
    /\ \A m \in wire : DeedInv(m)

(* A document is another one, or as it was to who had connected to it.     *)
DocKept(j) ==
    HasDoc(j)' =>
        \/ docs' = docs + 1 /\ frame'[j].doc.n = docs'
        \/ /\ HasDoc(j) /\ frame'[j].doc.n = frame[j].doc.n
           /\ frame[j].doc.at = "connected" =>
                  frame'[j].doc.at = "connected" /\ frame'[j].doc.shows = frame[j].doc.shows

(* Nothing is rendered but what was there, and frames without documents.   *)
LEMMA RendersDocs ==
    ASSUME ShellType, NEW hooks, NEW wel, NEW p, NEW s, Renders(hooks, wel, p, s)
    PROVE  /\ \A j \in Jams : frame'[j] \in {Null, FreshFrame, frame[j]}
           /\ \A j \in Jams : HasDoc(j)' => HasDoc(j) /\ frame'[j] = frame[j]
           /\ wire' \subseteq wire
<1>1. \A j \in Jams : frame'[j] \in {Null, FreshFrame, frame[j]}
  BY DEF Renders
<1>2. FreshFrame.doc = Null
  BY DEF FreshFrame
<1>3. wire' \subseteq wire
  BY DEF Renders
<1> QED
  BY <1>1, <1>2, <1>3 DEF HasDoc

(* Whatever is not about a frame or a message renders, or leaves both.     *)
LEMMA PageSteps ==
    ASSUME [Next]_vars
    PROVE  \/ UNCHANGED <<docs, path, hook, frame, wire>>
           \/ UNCHANGED docs /\ (Auth \/ Goes) /\ \E hooks, wel, p, s : Renders(hooks, wel, p, s)
           \/ \E j \in Jams : Jam(j)
           \/ \E m \in wire : Bridges(m)
<1>1. CASE Dynamic \/ UNCHANGED vars
  BY <1>1 DEF Dynamic, Starts, SignsIn, SignsOut, Refreshes, Changes, vars, pageVars
<1>2. CASE Auth
  BY <1>2 DEF Auth, Resolves, MeAnswers, MeFails, HookIs
<1>3. CASE Goes
  BY <1>3 DEF Goes, Bounces, DrivesLogin, Routes, ClaimsName, Scrolls
<1> QED
  BY <1>1, <1>2, <1>3 DEF Next, Bridge, Bridges

(* In a jam's frame.                                                       *)
LEMMA JamDocs ==
    ASSUME ShellType, NEW j \in Jams, Jam(j)
    PROVE  /\ \A other \in Jams : DocKept(other)
           /\ UNCHANGED <<path, hook>> /\ docs' \in {docs, docs + 1}
<1>1. /\ \A f : FrameIs(j, f) => \A other \in Jams : frame'[other] = IF other = j THEN f ELSE frame[other]
      /\ frame[j] \in Frame \cup {Null}
      /\ HasDoc(j) => frame[j] \in Frame /\ frame[j] # Null /\ frame[j].doc \in Doc
  BY DocType DEF FrameIs, ShellType, TypeOK
<1>2. CASE Registers(j) \/ Blocks(j)
  BY <1>1, <1>2 DEF Registers, Blocks, FrameIs, DocKept, HasDoc, Frame
<1>3. CASE Loads(j)
  <2>1. [frame[j] EXCEPT !.phase = "ready", !.doc = FreshDoc].doc = FreshDoc /\ FreshDoc.n = docs + 1
    BY <1>1, <1>3 DEF Loads, Frame, FreshDoc
  <2>2. \A other \in Jams : other # j => frame'[other] = frame[other]
    BY <1>1, <1>3 DEF Loads
  <2> QED
    BY <1>1, <1>3, <2>1, <2>2 DEF Loads, FrameIs, DocKept, HasDoc
<1>4. CASE SaysHello(j)
  BY <1>4 DEF SaysHello, DocKept, HasDoc
<1>5. ASSUME NEW doc, HasDoc(j), DocIs(j, doc), doc.n = frame[j].doc.n,
             frame[j].doc.at = "connected" => doc.at = "connected" /\ doc.shows = frame[j].doc.shows
      PROVE  (\A other \in Jams : DocKept(other)) /\ UNCHANGED <<path, hook, docs>>
  <2>1. [frame[j] EXCEPT !.doc = doc].doc = doc
    BY <1>1, <1>5 DEF Frame
  <2> QED
    BY <1>1, <1>5, <2>1 DEF DocIs, FrameIs, DocKept, HasDoc
<1>6. CASE Bails(j)
  <2> DEFINE doc == [frame[j].doc EXCEPT !.at = "standalone"]
  <2>1. HasDoc(j) /\ DocIs(j, doc) /\ frame[j].doc.at = "hello" /\ doc.n = frame[j].doc.n
    BY <1>1, <1>6 DEF Bails, Doc
  <2> HIDE DEF doc
  <2> QED
    BY <1>5, <2>1
<1>7. CASE Calls(j)
  <2> DEFINE doc == [frame[j].doc EXCEPT !.made = frame[j].doc.made + 1,
                                         !.waits = @ \cup {frame[j].doc.made + 1}]
  <2>1. HasDoc(j) /\ DocIs(j, doc)
    BY <1>7 DEF Calls
  <2>2. doc.n = frame[j].doc.n /\ doc.at = frame[j].doc.at /\ doc.shows = frame[j].doc.shows
    BY <1>1, <2>1 DEF Doc
  <2> HIDE DEF doc
  <2> QED
    BY <1>5, <2>1, <2>2
<1>8. CASE \E id \in 1 .. MaxCalls : TimesOut(j, id)
  <2> PICK id \in 1 .. MaxCalls : TimesOut(j, id)
    BY <1>8
  <2> DEFINE doc == [frame[j].doc EXCEPT !.waits = @ \ {id}, !.gaveUp = @ \cup {id}]
  <2>1. HasDoc(j) /\ DocIs(j, doc)
    BY DEF TimesOut
  <2>2. doc.n = frame[j].doc.n /\ doc.at = frame[j].doc.at /\ doc.shows = frame[j].doc.shows
    BY <1>1, <2>1 DEF Doc
  <2> HIDE DEF doc
  <2> QED
    BY <1>5, <2>1, <2>2
<1> QED
  BY <1>2, <1>3, <1>4, <1>6, <1>7, <1>8 DEF Jam, FrameIs, SaysHello, Registers, Blocks, Loads

(* By a message.                                                           *)
LEMMA BridgeDocs ==
    ASSUME ShellType, NEW m \in wire, Bridges(m)
    PROVE  \A other \in Jams : DocKept(other)
<1>1. UNCHANGED docs /\ (UNCHANGED frame \/ Connects(m) \/ Settles(m))
  BY BridgeDoes
<1>2. CASE UNCHANGED frame
  BY <1>1, <1>2 DEF DocKept, HasDoc
<1>3. CASE ~UNCHANGED frame
  <2>1. PICK doc :
            /\ m.jam \in Jams /\ HasDoc(m.jam) /\ frame[m.jam] \in Frame
            /\ Reframes(m.jam, [frame[m.jam] EXCEPT !.doc = doc]) /\ doc.n = frame[m.jam].doc.n
            /\ frame[m.jam].doc.at = "connected" =>
                   doc.at = "connected" /\ doc.shows = frame[m.jam].doc.shows
    <3>1. /\ m.jam \in Jams /\ HasDoc(m.jam) /\ frame[m.jam] \in Frame /\ frame[m.jam].doc \in Doc
          /\ \/ /\ frame[m.jam].doc.at = "hello"
                /\ Reframes(m.jam, [frame[m.jam] EXCEPT !.doc = ConnectedDoc(m)])
             \/ Reframes(m.jam, [frame[m.jam] EXCEPT !.doc = AnsweredDoc(m)])
      BY <1>1, <1>3, DocsDo
    <3>2. /\ ConnectedDoc(m).n = frame[m.jam].doc.n /\ AnsweredDoc(m).n = frame[m.jam].doc.n
          /\ AnsweredDoc(m).at = frame[m.jam].doc.at /\ AnsweredDoc(m).shows = frame[m.jam].doc.shows
      BY <3>1 DEF ConnectedDoc, AnsweredDoc, Doc
    <3> QED
      BY <3>1, <3>2
  <2>2. [frame[m.jam] EXCEPT !.doc = doc].doc = doc
    BY <2>1 DEF Frame
  <2>3. /\ frame'[m.jam] = [frame[m.jam] EXCEPT !.doc = doc]
        /\ \A other \in Jams : other # m.jam => frame'[other] = frame[other]
    BY <2>1 DEF Reframes, ShellType, TypeOK
  <2>4. DocKept(m.jam)
    BY <2>1, <2>2, <2>3 DEF DocKept
  <2> QED
    BY <2>3, <2>4 DEF DocKept, HasDoc
<1> QED
  BY <1>2, <1>3

(* What goes on keeps going on in that way.                                *)
LEMMA DeedKept ==
    ASSUME ShellType, NEW m \in Message, DeedInv(m), DocKept(m.jam), docs' \in {docs, docs + 1},
           m.kind = "sheet" => SheetUp' /\ Token' = Token
    PROVE  DeedInv(m)'
<1>1. m.doc \in Nat /\ docs \in Nat
  BY DEF ShellType, TypeOK, Message
<1> SUFFICES ASSUME m.kind \in Requests \cup {"call", "sheet"}
             PROVE  DeedInv(m)'
  BY DEF DeedInv
<1>2. m.doc <= docs /\ m.doc <= docs'
  BY <1>1 DEF DeedInv
<1>3. StillThere(m)' => /\ StillThere(m) /\ frame'[m.jam].doc.at = "connected"
                        /\ frame'[m.jam].doc.shows = m.shows
  <2> SUFFICES ASSUME StillThere(m)'
               PROVE  /\ StillThere(m) /\ frame'[m.jam].doc.at = "connected"
                      /\ frame'[m.jam].doc.shows = m.shows
    OBVIOUS
  <2>1. HasDoc(m.jam)' /\ frame'[m.jam].doc.n = m.doc
    BY DEF StillThere
  <2>2. ~(docs' = docs + 1 /\ frame'[m.jam].doc.n = docs')
    BY <1>1, <1>2, <2>1
  <2> QED
    BY <2>1, <2>2 DEF DocKept, StillThere, DeedInv
<1> QED
  BY <1>2, <1>3 DEF DeedInv, AsShown

(* The sheet is gone when the gate closes, and the gate closes before it   *)
(* knows of anybody else.                                                  *)
LEMMA SheetStays ==
    ASSUME ShellType, ViewInv, DeedsInv, Auth \/ Goes, NEW m \in wire, m \in wire', m.kind = "sheet"
    PROVE  SheetUp' /\ Token' = Token
<1>1. /\ SheetUp /\ session.init = "finished" /\ m.jam \in Jams /\ "gate" \in Hooks
      /\ "gate" \notin Jams /\ "welcome" \notin Jams /\ hook["gate"] \in Hook
      /\ hook["gate"] # Null /\ Null \notin Users
  BY ShellAssumption DEF DeedsInv, DeedInv, SheetUp, ViewInv, GateInv, ShellType, TypeOK, Message,
                         Hooks, Who
<1>2. ASSUME NEW hooks, NEW wel, NEW p \in Pages, NEW s \in SUBSET Jams,
             Renders(hooks, wel, p, s), hooks["gate"] # Null
      PROVE  hook'["gate"] = hooks["gate"] /\ path' = p /\ Opens(hooks["gate"], p)
  <2>1. hook'["gate"] = hooks["gate"] /\ path' = p
    BY <1>1, <1>2, GateMounted DEF Renders
  <2>2. frame'[m.jam] # Null => m.jam \in Mounted(hooks["gate"], p, s)
    BY <1>1, <1>2 DEF Renders, Frames, Hooks
  <2>3. frame'[m.jam] # Null \/ Opens(hooks["gate"], p)
    BY <1>2 DEF Renders, Outlives, Requests
  <2> QED
    BY <1>1, <2>1, <2>2, <2>3 DEF Mounted
<1>3. CASE Auth
  <2> PICK h \in Hooks : Resolves(h) \/ MeAnswers(h) \/ MeFails(h)
    BY <1>3 DEF Auth
  <2>1. PICK v : /\ HookIs(h, v)
                 /\ v # Null
                 /\ h = "gate" => v.status = "pending" \/ v.token = Null
    <3>1. hook[h] \in Hook /\ hook[h] # Null
      BY DEF Resolves, MeAnswers, MeFails, Asks, ShellType, TypeOK
    <3>2. CASE Resolves(h)
      <4>1. CASE session.user = Null
        <5> DEFINE v == [seen |-> session.at, token |-> Null, user |-> Null, status |-> "ready"]
        <5>1. HookIs(h, v) /\ v \in Hook /\ v.token = Null
          BY <1>1, <3>2, <4>1 DEF Resolves, Hook, ShellType, TypeOK
        <5> QED
          BY <5>1, NullIsNothingShown
      <4>2. CASE session.user # Null
        <5> DEFINE v == [hook[h] EXCEPT !.seen = session.at, !.token = session.user,
                                        !.status = "pending"]
        <5>1. HookIs(h, v) /\ v \in Hook /\ v.status = "pending"
          BY <1>1, <3>1, <3>2, <4>2 DEF Resolves, Hook, ShellType, TypeOK
        <5> QED
          BY <5>1, NullIsNothingShown
      <4> QED
        BY <4>1, <4>2
    <3>3. CASE MeAnswers(h) \/ MeFails(h)
      <4>1. h # "gate"
        BY <1>1, <3>3 DEF MeAnswers, MeFails, Asks, SheetUp
      <4>2. PICK v \in Hook : HookIs(h, v)
        <5>1. /\ [hook[h] EXCEPT !.user = hook[h].token, !.status = "ready"] \in Hook
              /\ [hook[h] EXCEPT !.user = Null, !.status = "error"] \in Hook
          BY <3>1 DEF Hook
        <5> QED
          BY <3>3, <5>1 DEF MeAnswers, MeFails
      <4> QED
        BY <4>1, <4>2, NullIsNothingShown
    <3> QED
      BY <3>2, <3>3
  <2> DEFINE hooks == [hook EXCEPT ![h] = v]
  <2>2. /\ Renders(hooks, welcome, path, shown) /\ path \in Pages /\ shown \in SUBSET Jams
        /\ hooks["gate"] = IF h = "gate" THEN v ELSE hook["gate"]
    BY <1>1, <2>1 DEF HookIs, ShellType, TypeOK, Pages
  <2> HIDE DEF hooks
  <2>3. hook'["gate"] = hooks["gate"] /\ path' = path /\ Opens(hooks["gate"], path)
    BY <1>1, <1>2, <2>1, <2>2
  <2> QED
    BY <1>1, <2>1, <2>2, <2>3 DEF SheetUp, Token, Opens
<1>4. CASE Goes
  <2>1. CASE DrivesLogin
    BY <1>1, <2>1 DEF DrivesLogin, SheetUp, Token
  <2>2. ~Bounces
    BY <1>1 DEF Bounces, Opens, SheetUp, Token
  <2>3. \/ DrivesLogin
        \/ \E wel, p, s : Renders(hook, wel, p, s) /\ p \in {"feed", path} /\ s \in SUBSET Jams
    <3>1. shown \in SUBSET Jams
      BY DEF ShellType, TypeOK
    <3>2. CASE Routes \/ ClaimsName
      BY <3>1, <3>2 DEF Routes, ClaimsName
    <3>3. CASE \E j \in Jams : Scrolls(j)
      <4> PICK j \in Jams : Scrolls(j)
        BY <3>3
      <4>1. (IF j \in shown THEN shown \ {j} ELSE shown \cup {j}) \in SUBSET Jams
        BY <3>1
      <4> QED
        BY <4>1 DEF Scrolls
    <3> QED
      BY <1>4, <2>2, <3>2, <3>3 DEF Goes
  <2>4. ASSUME NEW wel, NEW p, NEW s,
               Renders(hook, wel, p, s) /\ p \in {"feed", path} /\ s \in SUBSET Jams
        PROVE  SheetUp' /\ Token' = Token
    <3>1. p = "feed" /\ p \in Pages
      BY <1>1, <2>4 DEF SheetUp, Pages
    <3>2. hook'["gate"] = hook["gate"] /\ path' = p
      BY <1>1, <1>2, <2>4, <3>1
    <3> QED
      BY <1>1, <3>1, <3>2 DEF SheetUp, Token
  <2> QED
    BY <2>1, <2>3, <2>4
<1> QED
  BY <1>3, <1>4

(* Jams are on the feed.                                                   *)
LEMMA JamsOnFeed ==
    ASSUME ShellType, ShellType', DeedsInv, [Next]_vars, NEW j \in Jams, hook'[j] # Null
    PROVE  path' = "feed"
<1>1. j \notin {"gate", "welcome"} /\ j \in Hooks
  BY ShellAssumption DEF Hooks
<1>2. CASE UNCHANGED <<path, hook>>
  BY <1>2 DEF DeedsInv
<1>3. CASE \E hooks, wel, p, s : Renders(hooks, wel, p, s)
  <2> PICK hooks, wel, p, s : Renders(hooks, wel, p, s)
    BY <1>3
  <2>1. path' = p /\ j \in Mounted(hooks["gate"], p, s)
    BY <1>1 DEF Renders
  <2> QED
    BY <1>1, <2>1 DEF Mounted, ShellType, TypeOK
<1> QED
  BY <1>2, <1>3, PageSteps, JamDocs, BridgeDoes

(* What is new goes on in that way, too.                                   *)
LEMMA FollowsDeed ==
    ASSUME ShellType, ViewInv, DeedsInv, NEW m \in wire, NEW n, Follows(n, m)
    PROVE  DeedInv(n)
<1>1. /\ m \in Message /\ n \in Message /\ n.jam = m.jam /\ m.jam \in Jams /\ DeedInv(m)
      /\ FrameInv(frame[m.jam], hook[m.jam], Token) /\ MessageInv(m, hook[m.jam], Token)
  BY DEF Follows, ShellType, TypeOK, Message, DeedsInv, ViewInv
<1> SUFFICES ASSUME n.kind \in Requests \cup {"call", "sheet"}
             PROVE  DeedInv(n)
  BY DEF DeedInv
<1>2. /\ n.doc = m.doc /\ n.shows = m.shows /\ (StillThere(n) <=> StillThere(m))
      /\ m.kind \in Requests \cup {"call", "sheet"}
      /\ \/ m.kind = "call" /\ n.kind = "sheet"
         \/ /\ n.as = session.user
            /\ \/ m.kind = "call" /\ n.kind = "run"
               \/ m.kind = "sheet" /\ n.kind = "pay"
               \/ m.kind \in {"pay", "more"} /\ n.kind = "more"
  BY <1>1 DEF Follows, StillThere, Requests
<1>3. m.kind = "call" => SheetUp /\ m.shows \in {Guest, Token}
  <2> SUFFICES ASSUME m.kind = "call"
               PROVE  SheetUp /\ m.shows \in {Guest, Token}
    OBVIOUS
  <2>1. hook[m.jam] # Null /\ m.shows \in {Guest, Token}
    BY <1>1 DEF ShellType, Requests, MessageInv, ViewerInv
  <2> QED
    BY <1>1, <2>1 DEF SheetUp, ViewInv, GateInv, DeedsInv
<1>4. SheetUp => session.user \in {Null, Token}
  BY DEF SheetUp, ViewInv, GateInv
<1>5. StillThere(m) => session.user \in {Null, Token} /\ m.shows \in {Guest, Token}
  <2> SUFFICES ASSUME StillThere(m)
               PROVE  session.user \in {Null, Token} /\ m.shows \in {Guest, Token}
    OBVIOUS
  <2>1. /\ frame[m.jam] # Null /\ frame[m.jam].doc # Null
        /\ frame[m.jam].doc.shows = m.shows /\ m.shows # Null
    BY <1>1, <1>2 DEF StillThere, HasDoc, DeedInv
  <2> QED
    BY <1>1, <2>1 DEF FrameInv, ViewerInv, ViewInv, GateInv
<1>6. AsShown(n)
  <2>1. CASE n.kind = "sheet"
    BY <2>1 DEF AsShown, Requests
  <2>2. CASE n.kind # "sheet" /\ m.kind \in {"call", "sheet"}
    <3>1. m.shows \in {Guest, Token} /\ session.user \in {Null, Token}
      BY <1>1, <1>3, <1>4, <2>2 DEF DeedInv
    <3> QED
      BY <1>2, <2>2, <3>1 DEF AsShown
  <2>3. CASE n.kind = "more"
    BY <1>2, <1>5, <2>3 DEF AsShown
  <2> QED
    BY <1>2, <2>1, <2>2, <2>3
<1> QED
  BY <1>1, <1>2, <1>3, <1>6 DEF DeedInv, Requests

LEMMA CallsDeed ==
    ASSUME ShellType, ViewInv, DeedsInv, NEW j \in Jams, Jam(j), NEW n \in wire', n \notin wire
    PROVE  DeedInv(n)
<1>1. CASE ~Calls(j)
  <2>1. wire' = wire \/ SaysHello(j)
    BY <1>1 DEF Jam, Registers, Loads, Blocks, Bails, TimesOut
  <2>2. n.kind = "hello"
    BY <2>1 DEF SaysHello
  <2> QED
    BY <2>2 DEF DeedInv, Requests
<1>2. CASE Calls(j)
  <2>1. /\ frame[j] # Null /\ frame[j].doc # Null /\ frame[j].doc.at = "connected"
        /\ n = [kind |-> "call", jam |-> j, doc |-> frame[j].doc.n, id |-> frame[j].doc.made + 1,
                shows |-> frame[j].doc.shows, as |-> Null]
    BY <1>2 DEF Calls, HasDoc
  <2>2. frame[j].doc.shows # Null /\ frame[j].doc.n <= docs
    BY <2>1 DEF ViewInv, FrameInv, DeedsInv, HasDoc
  <2> QED
    BY <2>1, <2>2 DEF DeedInv, AsShown, Requests
<1> QED
  BY <1>1, <1>2

LEMMA DeedsStep ==
    ASSUME ShellType, ShellType', ViewInv, DeedsInv, [Next]_vars
    PROVE  DeedsInv'
<1>1. /\ \A j \in Jams : DocKept(j)
      /\ docs' \in {docs, docs + 1} /\ docs \in Nat
  <2>1. docs \in Nat
    BY DEF ShellType, TypeOK
  <2>2. CASE UNCHANGED <<docs, path, hook, frame, wire>>
    BY <2>1, <2>2 DEF DocKept, HasDoc
  <2>3. CASE UNCHANGED docs /\ \E hooks, wel, p, s : Renders(hooks, wel, p, s)
    BY <2>1, <2>3, RendersDocs DEF DocKept
  <2> QED
    BY <2>1, <2>2, <2>3, PageSteps, JamDocs, BridgeDocs, BridgeDoes
<1>2. ASSUME NEW j \in Jams, HasDoc(j)'
      PROVE  frame'[j].doc.n <= docs'
  <2>1. HasDoc(j) => frame[j].doc.n <= docs
    BY DEF DeedsInv
  <2>2. HasDoc(j) => frame[j].doc.n \in Nat
    BY DocType DEF Doc
  <2>3. docs' \in Nat
    BY <1>1
  <2> QED
    BY <1>1, <1>2, <2>1, <2>2, <2>3 DEF DocKept
<1>3. ASSUME NEW m \in wire'
      PROVE  DeedInv(m)'
  <2>1. DeedInv(m)
    <3>1. CASE m \in wire
      BY <3>1 DEF DeedsInv
    <3>2. CASE m \notin wire
      BY <3>2, PageSteps, RendersDocs, CallsDeed, FollowsDeed, BridgeDoes
    <3> QED
      BY <3>1, <3>2
  <2>2. m \in Message /\ m.jam \in Jams
    BY <1>3 DEF ShellType, TypeOK, Message
  <2>3. m.kind = "sheet" => SheetUp' /\ Token' = Token
    <3>1. CASE UNCHANGED <<path, hook>>
      BY <2>1, <3>1 DEF DeedInv, SheetUp, Token
    <3>2. CASE (Auth \/ Goes) /\ \E hooks, wel, p, s : Renders(hooks, wel, p, s)
      BY <1>3, <3>2, RendersDocs, SheetStays
    <3> QED
      BY <3>1, <3>2, PageSteps, JamDocs, BridgeDoes
  <2> QED
    BY <1>1, <2>1, <2>2, <2>3, DeedKept
<1> QED
  BY <1>2, <1>3, JamsOnFeed DEF DeedsInv

(* As whom the platform runs what jams ask for: as the person the jam      *)
(* shows; as somebody for a jam that shows a guest, while it is there, only *)
(* if the profile could not be had; and as whoever has signed in since     *)
(* only what is left of a payment when its jam is gone.                    *)
THEOREM CallsAreRight == Spec => []CallsAreTheViewers
<1>1. Init => DeedsInv
  BY ShellAssumption DEF Init, DeedsInv, HasDoc, Hooks
<1>2. ShellType /\ ShellType' /\ ViewInv /\ DeedsInv /\ [Next]_vars => DeedsInv'
  BY DeedsStep
<1>3. ShellType /\ ViewInv /\ DeedsInv => CallsAreTheViewers
  <2> SUFFICES ASSUME ShellType, ViewInv, DeedsInv,
                      NEW m \in wire, m.kind \in Requests /\ m.as \notin {Null, m.shows}
               PROVE  \/ m.kind = "more" /\ ~StillThere(m)
                      \/ m.shows = Guest /\ (StillThere(m) => session.user = Null
                                                              \/ hook[m.jam].status = "error")
    BY DEF CallsAreTheViewers
  <2>1. /\ m.shows = Guest \/ (m.kind = "more" /\ ~StillThere(m))
        /\ StillThere(m) => frame[m.jam].doc.shows = m.shows
        /\ m.jam \in Jams
    BY DEF DeedsInv, DeedInv, AsShown, ShellType, TypeOK, Message
  <2>2. StillThere(m) => KnowsNobody(hook[m.jam]) \/ m.shows # Guest
    BY <2>1 DEF StillThere, HasDoc, ViewInv, FrameInv, ViewerInv
  <2> QED
    BY <2>1, <2>2 DEF KnowsNobody
<1> QED
  BY <1>1, <1>2, <1>3, ViewAlways, PTL DEF Spec

(***************************************************************************)
(* The calls of a document.                                                *)
(***************************************************************************)

(* The ids of a document: those that it waits for, that it gave up and that *)
(* were answered, each in one way.                                         *)
Answered(doc) == {a.id : a \in doc.got}

DocIds(doc) ==
    /\ \A a \in doc.got : a.doc = doc.n
    /\ 1 .. doc.made = doc.waits \cup doc.gaveUp \cup Answered(doc)
    /\ doc.waits \cap (doc.gaveUp \cup Answered(doc)) = {}
    /\ doc.gaveUp \cap Answered(doc) = {}

IdsInv == \A j \in Jams : HasDoc(j) => DocIds(frame[j].doc)

(* A frame is set.                                                         *)
LEMMA FrameIds ==
    ASSUME ShellType, IdsInv, NEW j \in Jams, NEW f, Reframes(j, f),
           f # Null /\ f.doc # Null => DocIds(f.doc)
    PROVE  IdsInv'
BY DEF Reframes, IdsInv, HasDoc, DocIds, ShellType, TypeOK

(* A document's calls.                                                     *)
LEMMA JamIds == ASSUME ShellType, IdsInv, NEW j \in Jams, Jam(j) PROVE IdsInv'
<1>1. /\ frame[j] \in Frame \cup {Null} /\ docs \in Nat
      /\ HasDoc(j) => DocIds(frame[j].doc) /\ frame[j].doc \in Doc /\ frame[j] \in Frame
      /\ \A f : FrameIs(j, f) => Reframes(j, f)
  BY DocType DEF IdsInv, ShellType, TypeOK, FrameIs, Reframes
<1>2. CASE Registers(j) \/ Blocks(j)
  BY <1>1, <1>2, FrameIds DEF Registers, Blocks, HasDoc, Frame
<1>3. CASE Loads(j)
  <2>1. [frame[j] EXCEPT !.phase = "ready", !.doc = FreshDoc].doc = FreshDoc
    BY <1>1, <1>3 DEF Loads, Frame
  <2>2. DocIds(FreshDoc)
    BY <1>1 DEF DocIds, FreshDoc, Answered
  <2> QED
    BY <1>1, <1>3, <2>1, <2>2, FrameIds DEF Loads
<1>4. CASE SaysHello(j)
  BY <1>4 DEF SaysHello, IdsInv, HasDoc
<1>5. ASSUME NEW doc, HasDoc(j), DocIs(j, doc), DocIds(doc)
      PROVE  IdsInv'
  <2>1. [frame[j] EXCEPT !.doc = doc].doc = doc
    BY <1>1, <1>5 DEF Frame
  <2> QED
    BY <1>1, <1>5, <2>1, FrameIds DEF DocIs
<1>6. CASE Bails(j)
  <2> DEFINE doc == [frame[j].doc EXCEPT !.at = "standalone"]
  <2>1. HasDoc(j) /\ DocIs(j, doc)
    BY <1>6 DEF Bails
  <2>2. DocIds(doc)
    BY <1>1, <2>1 DEF Doc, DocIds, Answered
  <2> QED
    BY <1>5, <2>1, <2>2
<1>7. CASE Calls(j)
  <2> DEFINE old == frame[j].doc
             doc == [old EXCEPT !.made = old.made + 1, !.waits = @ \cup {old.made + 1}]
  <2>1. HasDoc(j) /\ DocIs(j, doc)
    BY <1>7 DEF Calls
  <2>2. /\ old \in Doc /\ old.made \in Nat /\ DocIds(old)
        /\ doc.made = old.made + 1 /\ doc.waits = old.waits \cup {old.made + 1}
        /\ doc.gaveUp = old.gaveUp /\ doc.got = old.got /\ doc.n = old.n
    BY <1>1, <2>1 DEF Doc
  <2> HIDE DEF old, doc
  <2>3. Answered(doc) = Answered(old) /\ 1 .. (old.made + 1) = 1 .. old.made \cup {old.made + 1}
    BY <2>2 DEF Answered
  <2>4. old.made + 1 \notin 1 .. old.made
    BY <2>2
  <2>5. DocIds(doc)
    BY <2>2, <2>3, <2>4 DEF DocIds
  <2> QED
    BY <1>5, <2>1, <2>5
<1>8. CASE \E id \in 1 .. MaxCalls : TimesOut(j, id)
  <2> PICK id \in 1 .. MaxCalls : TimesOut(j, id)
    BY <1>8
  <2> DEFINE old == frame[j].doc
             doc == [old EXCEPT !.waits = @ \ {id}, !.gaveUp = @ \cup {id}]
  <2>1. HasDoc(j) /\ DocIs(j, doc) /\ id \in old.waits
    BY DEF TimesOut
  <2>2. /\ old \in Doc /\ DocIds(old) /\ doc.made = old.made /\ doc.waits = old.waits \ {id}
        /\ doc.gaveUp = old.gaveUp \cup {id} /\ doc.got = old.got /\ doc.n = old.n
    BY <1>1, <2>1 DEF Doc
  <2> HIDE DEF old, doc
  <2>3. DocIds(doc)
    BY <2>1, <2>2 DEF DocIds, Answered
  <2> QED
    BY <1>5, <2>1, <2>3
<1> QED
  BY <1>2, <1>3, <1>4, <1>6, <1>7, <1>8 DEF Jam

(* An answer is taken by who waits for it.                                 *)
LEMMA BridgeIds == ASSUME ShellType, IdsInv, NEW m \in wire, Bridges(m) PROVE IdsInv'
<1>1. CASE UNCHANGED frame
  BY <1>1 DEF IdsInv, HasDoc
<1>2. CASE ~UNCHANGED frame
  <2> DEFINE j == m.jam  old == frame[j].doc
  <2>1. /\ m \in Message /\ j \in Jams /\ HasDoc(j) /\ frame[j] \in Frame /\ old \in Doc
        /\ \/ Reframes(j, [frame[j] EXCEPT !.doc = ConnectedDoc(m)])
           \/ Awaits(m, old) /\ Reframes(j, [frame[j] EXCEPT !.doc = AnsweredDoc(m)])
    BY <1>2, BridgeDoes, DocsDo
  <2>2. DocIds(old)
    BY <2>1 DEF IdsInv
  <2>3. DocIds(ConnectedDoc(m))
    BY <2>1, <2>2 DEF ConnectedDoc, Doc, DocIds, Answered
  <2>4. ASSUME Awaits(m, old)
        PROVE  DocIds(AnsweredDoc(m))
    <3>1. /\ AnsweredDoc(m).made = old.made /\ AnsweredDoc(m).waits = old.waits \ {m.id}
          /\ AnsweredDoc(m).gaveUp = old.gaveUp /\ AnsweredDoc(m).n = old.n
          /\ AnsweredDoc(m).got = old.got \cup {PromiseOf(m)}
      BY <2>1 DEF AnsweredDoc, Doc
    <3>2. PromiseOf(m).doc = old.n /\ PromiseOf(m).id = m.id /\ m.id \in old.waits
      BY <2>4 DEF PromiseOf, Awaits, IsIts
    <3> HIDE DEF old
    <3>3. Answered(AnsweredDoc(m)) = Answered(old) \cup {m.id}
      BY <3>1, <3>2 DEF Answered
    <3> QED
      BY <2>2, <3>1, <3>2, <3>3 DEF DocIds
  <2>5. \A doc : [frame[j] EXCEPT !.doc = doc].doc = doc
    BY <2>1 DEF Frame
  <2> HIDE DEF old
  <2> QED
    BY <2>1, <2>3, <2>4, <2>5, FrameIds
<1> QED
  BY <1>1, <1>2

(* A call has one outcome: its own answer, or none once it was given up,   *)
(* however often the jam reloads and however late the page answers.        *)
THEOREM AnswersAreRight == Spec => []AnswersFindTheirCall
<1>1. Init => ShellType /\ IdsInv
  BY TypeInit DEF Init, IdsInv, HasDoc
<1>2. ASSUME ShellType, IdsInv, [Next]_vars
      PROVE  ShellType' /\ IdsInv'
  <2>0. ShellType'
    BY <1>2, TypeStep
  <2>1. CASE UNCHANGED <<docs, path, hook, frame, wire>>
    BY <1>2, <2>0, <2>1 DEF IdsInv, HasDoc, DocIds, Answered
  <2>2. CASE \E hooks, wel, p, s : Renders(hooks, wel, p, s)
    BY <1>2, <2>0, <2>2, RendersDocs DEF IdsInv, DocIds, Answered
  <2> QED
    BY <1>2, <2>0, <2>1, <2>2, PageSteps, JamIds, BridgeIds
<1>3. IdsInv => AnswersFindTheirCall
  BY DEF IdsInv, DocIds, Answered, AnswersFindTheirCall
<1> QED
  BY <1>1, <1>2, <1>3, PTL DEF Spec

(***************************************************************************)
(* The wizard.                                                             *)
(***************************************************************************)

Steps == {"home", "followups", "plan", "workshop", "reveal"}

Beat == [watch : Builds \cup {None}, failed : BOOLEAN,
         at : {"timer", "asked", "answer", "waits", "stopped"},
         saw : {"live", "failed", "going", None}]

Data == [spec : BOOLEAN, build : Builds \cup {None}, reveal : Builds \cup {"plan", None}]

(* The page, the workshop on it and the URLs of the builds are typed, and  *)
(* only a workshop that knows of no build waits for the demo's timer.      *)
FlowTypeOK ==
    /\ pages \in Seq(Steps) /\ at \in DOMAIN pages
    /\ data \in Data /\ beat \in Beat \cup {None}
    /\ beat # None /\ beat.at # "timer" => beat.watch \in Builds
    /\ url \in [Builds -> {"url", None}]

(* There is a workshop only of a plan, and what it has seen to be live is  *)
(* served: of the listing no more can be said by the time it is announced. *)
BeatInv ==
    beat # None => data.spec /\ (beat.saw = "live" => beat.watch \in Builds
                                                     /\ url[beat.watch] # None)

(* Wherever Back and Forward lead, a page that announces something has     *)
(* something to announce, and that is served.                              *)
RevealInv ==
    /\ \A i \in DOMAIN pages : pages[i] = "reveal" => data.spec /\ data.reveal # None
    /\ data.reveal \in Builds => url[data.reveal] # None

FlowInv == FlowTypeOK /\ BeatInv /\ RevealInv

(* What is pushed onto a history comes after what was before it.           *)
LEMMA Pushed ==
    ASSUME NEW S, NEW s \in Seq(S), NEW k \in DOMAIN s, NEW step \in S
    PROVE  /\ Append(SubSeq(s, 1, k), step) \in Seq(S)
           /\ k + 1 \in DOMAIN Append(SubSeq(s, 1, k), step)
           /\ \A i \in DOMAIN Append(SubSeq(s, 1, k), step) :
                \/ Append(SubSeq(s, 1, k), step)[i] = step
                \/ \E j \in DOMAIN s : Append(SubSeq(s, 1, k), step)[i] = s[j]
<1> DEFINE front == SubSeq(s, 1, k)  t == Append(front, step)
<1>1. k \in 1 .. Len(s) /\ Len(s) \in Nat
  BY LenProperties
<1>2. front \in Seq(S) /\ Len(front) = k /\ \A i \in 1 .. k : front[i] = s[i]
  <2>1. \A i \in 1 .. k : s[i] \in S
    BY <1>1
  <2>2. k \in Int /\ 1 \in Int /\ 1 <= k /\ k - 1 + 1 = k /\ \A i \in 1 .. k : 1 + i - 1 = i
    BY <1>1
  <2>3. /\ front \in Seq(S) /\ Len(front) = IF 1 <= k THEN k - 1 + 1 ELSE 0
        /\ \A i \in 1 .. k - 1 + 1 : front[i] = s[1 + i - 1]
    BY <2>1, <2>2, SubSeqProperties
  <2> QED
    BY <2>2, <2>3
<1> HIDE DEF front
<1>3. /\ t \in Seq(S) /\ Len(t) = Len(front) + 1 /\ t[Len(front) + 1] = step
      /\ \A i \in 1 .. Len(front) : t[i] = front[i]
  BY <1>2, AppendProperties
<1> HIDE DEF t
<1>4. DOMAIN t = 1 .. k + 1
  BY <1>2, <1>3, LenProperties
<1>5. \A i \in DOMAIN t : i = k + 1 \/ i \in 1 .. k
  BY <1>1, <1>4
<1>6. k + 1 \in DOMAIN t
  BY <1>1, <1>4
<1>7. \A i \in 1 .. k : i \in DOMAIN s
  BY <1>1
<1>8. \A i \in DOMAIN t : t[i] = step \/ \E j \in DOMAIN s : t[i] = s[j]
  BY <1>2, <1>3, <1>5, <1>7
<1> QED
  BY <1>3, <1>6, <1>8 DEF t, front

(* A workshop that is rendered has seen nothing yet, and asks after a      *)
(* build if there is one.                                                  *)
LEMMA WatchingDoes ==
    ASSUME NEW build \in Builds \cup {None}, NEW failed \in BOOLEAN
    PROVE  /\ Watching(build, failed) \in Beat
           /\ Watching(build, failed).at # "timer" => Watching(build, failed).watch \in Builds
           /\ Watching(build, failed).saw = None
<1>1. CASE build = None
  BY <1>1 DEF Watching, Beat
<1>2. CASE build \in Builds /\ build # None
  BY <1>2 DEF Watching, Beat
<1> QED
  BY <1>1, <1>2

(* A page that is rendered keeps the invariant if its history leads to no  *)
(* announcement that was not there, or to one of something served.         *)
LEMMA ShowsKeeps ==
    ASSUME FlowInv, None # "live", NEW step, NEW d, Shows(step, d),
           d \in Data, pages' \in Seq(Steps), at' \in DOMAIN pages',
           \A i \in DOMAIN pages' : pages'[i] = "reveal" => d.spec /\ d.reveal # None,
           d.reveal \in Builds => url[d.reveal] # None,
           UNCHANGED url
    PROVE  FlowInv'
<1>1. /\ data' = d /\ d.build \in Builds \cup {None}
      /\ beat' = None \/ beat' = Watching(d.build, beat # None /\ beat.failed)
      /\ beat' # None => d.spec
  BY DEF Shows, Data
<1>2. (beat # None /\ beat.failed) \in BOOLEAN
  <2>1. CASE beat = None
    BY <2>1
  <2>2. CASE beat # None
    BY <2>2 DEF FlowInv, FlowTypeOK, Beat
  <2> QED
    BY <2>1, <2>2
<1>3. FlowTypeOK'
  BY <1>1, <1>2, WatchingDoes DEF FlowInv, FlowTypeOK
<1>4. BeatInv'
  BY <1>1, <1>2, WatchingDoes DEF BeatInv
<1>5. RevealInv'
  BY <1>1 DEF RevealInv
<1> QED
  BY <1>3, <1>4, <1>5 DEF FlowInv

-----------------------------------------------------------------------------
(* A render of the page where it is.                                       *)
LEMMA StaysKeeps ==
    ASSUME FlowInv, None # "live", NEW d \in Data, Stays(d), UNCHANGED url,
           data.spec => d.spec, d.reveal = data.reveal
    PROVE  FlowInv'
<1>1. pages' = pages /\ at' = at /\ Shows(Step, d)
  BY DEF Stays
<1>2. pages' \in Seq(Steps) /\ at' \in DOMAIN pages'
      /\ (\A i \in DOMAIN pages' : pages'[i] = "reveal" => d.spec /\ d.reveal # None)
      /\ (d.reveal \in Builds => url[d.reveal] # None)
  BY <1>1 DEF FlowInv, FlowTypeOK, RevealInv
<1> QED
  BY <1>1, <1>2, ShowsKeeps

(* A step that is pushed: the announcement of something that is served.    *)
LEMMA PushesKeeps ==
    ASSUME FlowInv, None # "live", NEW step \in Steps, NEW d \in Data, Pushes(step, d),
           UNCHANGED url, data.spec => d.spec, data.reveal # None => d.reveal # None,
           step = "reveal" => d.spec /\ d.reveal # None,
           d.reveal \in Builds => url[d.reveal] # None
    PROVE  FlowInv'
<1>1. /\ pages' = Append(SubSeq(pages, 1, at), step) /\ at' = at + 1 /\ Shows(step, d)
      /\ pages \in Seq(Steps) /\ at \in DOMAIN pages
  BY DEF Pushes, FlowInv, FlowTypeOK
<1>2. /\ pages' \in Seq(Steps) /\ at' \in DOMAIN pages'
      /\ \A i \in DOMAIN pages' : pages'[i] = step \/ \E j \in DOMAIN pages : pages'[i] = pages[j]
  BY <1>1, Pushed
<1>3. \A i \in DOMAIN pages' : pages'[i] = "reveal" => d.spec /\ d.reveal # None
  BY <1>2 DEF FlowInv, RevealInv
<1> QED
  BY <1>1, <1>2, <1>3, ShowsKeeps

(* A poll goes on; only the status of a jam that is served looks live.     *)
LEMMA PollsKeeps ==
    ASSUME FlowInv, None # "live", beat # None, beat.at # "timer", UNCHANGED <<pages, at, data, url>>,
           NEW step \in {"asked", "answer", "waits", "stopped"},
           NEW saw \in {"live", "failed", "going", None}, Polls(step, saw),
           saw = "live" => url[beat.watch] # None
    PROVE  FlowInv'
<1>1. beat \in Beat /\ beat.watch \in Builds /\ beat' = [beat EXCEPT !.at = step, !.saw = saw]
  BY DEF FlowInv, FlowTypeOK, Polls
<1>2. beat' \in Beat /\ beat'.watch = beat.watch /\ beat'.saw = saw
  BY <1>1 DEF Beat
<1>3. FlowTypeOK'
  BY <1>1, <1>2 DEF FlowInv, FlowTypeOK
<1>4. BeatInv'
  BY <1>1, <1>2 DEF FlowInv, BeatInv
<1>5. RevealInv'
  BY DEF FlowInv, RevealInv
<1> QED
  BY <1>3, <1>4, <1>5 DEF FlowInv

(* What is awaited or asked for elsewhere.                                 *)
LEMMA FlowFrame ==
    ASSUME FlowInv, UNCHANGED <<pages, at, data, beat, url>> PROVE FlowInv'
BY DEF FlowInv, FlowTypeOK, BeatInv, RevealInv

(* Of the builds only a URL matters that is taken away, and none is.       *)
LEMMA UrlsKeep ==
    ASSUME FlowInv, UNCHANGED <<pages, at, data, beat>>, url' \in [Builds -> {"url", None}],
           \A b \in Builds : url[b] # None => url'[b] # None
    PROVE  FlowInv'
BY DEF FlowInv, FlowTypeOK, BeatInv, RevealInv

-----------------------------------------------------------------------------
(* A plan is no build, and None is nothing else.                           *)
Distinct == None \notin Builds \cup {"live", "plan", "url"} /\ "plan" \notin Builds

LEMMA AsksStep ==
    ASSUME FlowInv, Distinct,
           Refines \/ RefineAnswers \/ Adjusts \/ AdjustAnswers \/ Rerenders
    PROVE  FlowInv'
<1>1. data \in Data /\ [data EXCEPT !.spec = TRUE] \in Data
      /\ [data EXCEPT !.spec = TRUE].spec /\ [data EXCEPT !.spec = TRUE].reveal = data.reveal
  BY DEF FlowInv, FlowTypeOK, Data
<1>2. CASE Stays(data) /\ UNCHANGED url
  BY <1>1, <1>2, StaysKeeps DEF Distinct
<1>3. CASE Pushes("plan", [data EXCEPT !.spec = TRUE]) /\ UNCHANGED url
  BY <1>1, <1>3, PushesKeeps DEF Distinct, Steps, FlowInv, RevealInv
<1>4. CASE Pushes("followups", data) /\ UNCHANGED url
  BY <1>1, <1>4, PushesKeeps DEF Distinct, Steps, FlowInv, RevealInv
<1> QED
  BY <1>2, <1>3, <1>4
  DEF Refines, RefineAnswers, Adjusts, AdjustAnswers, Rerenders, platformVars

LEMMA MakesStep ==
    ASSUME FlowInv, Distinct, NEW b \in Builds,
           StartBuild(b) \/ CreateRuns(b) \/ CreateFails(b) \/ CreateAnswers(b)
    PROVE  FlowInv'
<1>1. data \in Data /\ [data EXCEPT !.build = b] \in Data
      /\ [data EXCEPT !.build = b].spec = data.spec
      /\ [data EXCEPT !.build = b].reveal = data.reveal
  BY DEF FlowInv, FlowTypeOK, Data
<1>2. CASE StartBuild(b)
  <2>1. Pushes("workshop", data) /\ UNCHANGED url
    BY <1>2 DEF StartBuild, platformVars
  <2> QED
    BY <1>1, <2>1, PushesKeeps DEF Distinct, Steps, FlowInv, RevealInv
<1>3. CASE Stays([data EXCEPT !.build = b]) /\ UNCHANGED url
  BY <1>1, <1>3, StaysKeeps DEF Distinct
<1>4. CASE UNCHANGED <<pages, at, data, beat, url>>
  BY <1>4, FlowFrame
<1> QED
  BY <1>2, <1>3, <1>4 DEF CreateRuns, CreateFails, CreateAnswers, tabVars, platformVars

LEMMA DemoStep == ASSUME FlowInv, Distinct, DemoEnds PROVE FlowInv'
<1> DEFINE d == [data EXCEPT !.reveal = "plan"]
<1>1. d \in Data /\ d.spec = data.spec /\ d.reveal = "plan"
  BY DEF FlowInv, FlowTypeOK, Data
<1>2. data.spec /\ Pushes("reveal", d) /\ UNCHANGED url
  BY DEF DemoEnds, FlowInv, BeatInv, rest, platformVars
<1> HIDE DEF d
<1> QED
  BY <1>1, <1>2, PushesKeeps DEF Distinct, Steps

LEMMA PollStep ==
    ASSUME FlowInv, Distinct, StatusReads \/ PollAnswers \/ PollFails \/ PollsAgain
    PROVE  FlowInv'
<1>1. beat # None /\ beat.at # "timer" /\ beat \in Beat /\ beat.watch \in Builds /\ UNCHANGED url
  BY DEF StatusReads, PollAnswers, PollFails, PollsAgain, IsAt, FlowInv, FlowTypeOK, rest, platformVars
<1>2. CASE StatusReads
  <2>1. /\ Reports(beat.watch) \in {"live", "failed", "going", None}
        /\ Reports(beat.watch) = "live" => url[beat.watch] # None
    BY DEF Reports, IsListed
  <2> QED
    BY <1>1, <1>2, <2>1, PollsKeeps DEF StatusReads, Distinct
<1>3. CASE PollFails \/ PollsAgain
  BY <1>1, <1>3, PollsKeeps DEF PollFails, PollsAgain, Distinct
<1>4. CASE beat.saw = "live" /\ Pushes("reveal", [data EXCEPT !.reveal = beat.watch])
  <2> DEFINE d == [data EXCEPT !.reveal = beat.watch]
  <2>1. d \in Data /\ d.spec = data.spec /\ d.reveal = beat.watch
    BY <1>1 DEF FlowInv, FlowTypeOK, Data
  <2>2. data.spec /\ url[beat.watch] # None /\ Pushes("reveal", d) /\ beat.watch # None
    BY <1>1, <1>4 DEF FlowInv, BeatInv, Distinct
  <2> HIDE DEF d
  <2> QED
    BY <1>1, <2>1, <2>2, PushesKeeps DEF Distinct, Steps
<1>5. CASE Polls("waits", None) /\ UNCHANGED <<pages, at, data>>
  BY <1>1, <1>5, PollsKeeps DEF Distinct
<1>6. CASE beat' = [beat EXCEPT !.failed = TRUE, !.at = "stopped"] /\ UNCHANGED <<pages, at, data>>
  <2>1. beat' \in Beat /\ beat'.watch = beat.watch /\ beat'.saw = beat.saw
    BY <1>1, <1>6 DEF Beat
  <2>2. FlowTypeOK'
    BY <1>1, <1>6, <2>1 DEF FlowInv, FlowTypeOK
  <2>3. BeatInv' /\ RevealInv'
    BY <1>1, <1>6, <2>1 DEF FlowInv, BeatInv, RevealInv
  <2> QED
    BY <2>2, <2>3 DEF FlowInv
<1> QED
  BY <1>2, <1>3, <1>4, <1>5, <1>6 DEF PollAnswers

LEMMA TurnsStep ==
    ASSUME FlowInv, Distinct, Travels \/ Reloads \/ TriesAgain PROVE FlowInv'
<1>1. CASE Travels
  <2>1. /\ Shows(pages[at'], data) /\ pages' = pages /\ at' \in DOMAIN pages /\ UNCHANGED url
        /\ data \in Data
    BY <1>1 DEF Travels, platformVars, FlowInv, FlowTypeOK
  <2>2. pages' \in Seq(Steps) /\ at' \in DOMAIN pages'
        /\ (\A i \in DOMAIN pages' : pages'[i] = "reveal" => data.spec /\ data.reveal # None)
        /\ (data.reveal \in Builds => url[data.reveal] # None)
    BY <2>1 DEF FlowInv, FlowTypeOK, RevealInv
  <2> QED
    BY <2>1, <2>2, ShowsKeeps DEF Distinct
<1>2. CASE Reloads
  <2>1. /\ UNCHANGED <<pages, at, data, url>> /\ data.build \in Builds \cup {None}
        /\ beat' = None \/ (data.spec /\ beat' = Watching(data.build, FALSE))
    BY <1>2 DEF Reloads, platformVars, FlowInv, FlowTypeOK, Data
  <2>2. FALSE \in BOOLEAN
    OBVIOUS
  <2>3. FlowTypeOK'
    BY <2>1, <2>2, WatchingDoes DEF FlowInv, FlowTypeOK
  <2>4. BeatInv' /\ RevealInv'
    BY <2>1, <2>2, WatchingDoes DEF FlowInv, BeatInv, RevealInv, Distinct
  <2> QED
    BY <2>3, <2>4 DEF FlowInv
<1>3. CASE TriesAgain
  <2>1. pages' = <<"home">> /\ at' = 1 /\ data' = Blank /\ beat' = None /\ UNCHANGED url
    BY <1>3 DEF TriesAgain, platformVars
  <2> QED
    BY <2>1 DEF FlowInv, FlowTypeOK, BeatInv, RevealInv, Blank, Data, Steps, Distinct
<1> QED
  BY <1>1, <1>2, <1>3

LEMMA BuildStep ==
    ASSUME FlowInv, Distinct, NEW b \in Builds, BuildGoesOn(b) \/ Discard(b) PROVE FlowInv'
<1>1. UNCHANGED <<pages, at, data, beat>>
  BY DEF BuildGoesOn, Discard, tabVars
<1>2. url' = url \/ url' = [url EXCEPT ![b] = "url"]
  BY DEF BuildGoesOn, Discard, Platform!Interrupt, Platform!Finish, Platform!Fail, Platform!Attach
<1>3. url' \in [Builds -> {"url", None}] /\ \A c \in Builds : url[c] # None => url'[c] # None
  BY <1>2 DEF FlowInv, FlowTypeOK, Distinct
<1> QED
  BY <1>1, <1>3, UrlsKeep

LEMMA FlowStep == ASSUME FlowInv, Distinct, [FlowNext]_flowVars PROVE FlowInv'
<1>1. CASE Tab
  BY <1>1, AsksStep, MakesStep, DemoStep, PollStep, TurnsStep DEF Tab
<1>2. CASE \E b \in Builds : BuildGoesOn(b) \/ Discard(b)
  BY <1>2, BuildStep
<1>3. CASE UNCHANGED flowVars
  BY <1>3, FlowFrame DEF flowVars, tabVars, platformVars
<1> QED
  BY <1>1, <1>2, <1>3 DEF FlowNext

LEMMA InitFlow == ASSUME Distinct, FlowInit PROVE FlowInv
BY DEF FlowInit, Blank, Platform!Init, Distinct, Data, Steps, FlowInv, FlowTypeOK, BeatInv, RevealInv

(* What the wizard announces as live is served, or the plan of a workshop  *)
(* that knew of no build, whatever is slow, fails, is lost or discarded,   *)
(* and wherever the person goes (page.tsx:1043-1065).                      *)
THEOREM RevealedIsLive == ASSUME Distinct PROVE FlowSpec => []RevealIsLive
<1>1. FlowInit => FlowInv
  BY InitFlow
<1>2. FlowInv /\ [FlowNext]_flowVars => FlowInv'
  BY FlowStep
<1>3. FlowInv => RevealIsLive
  BY DEF FlowInv, FlowTypeOK, RevealInv, RevealIsLive, Step
<1> QED
  BY <1>1, <1>2, <1>3, PTL DEF FlowSpec

(***************************************************************************)
(* Drafts: between an edit and the row there is always somebody who has    *)
(* it, however many tabs, devices and saves there are.                     *)
(***************************************************************************)

Upto(last) == [n : 0 .. last, has : Wizard!Contents, build : BOOLEAN]

DraftTabs ==
    [n : 0 .. edits, has : Wizard!Contents, build : BOOLEAN, login : BOOLEAN,
     timer : Upto(edits) \cup {Null}, mount : Nat]

Creates == [by : Devices, mount : Nat, at : {"asked", "linked", "answered"}]

DraftType ==
    /\ edits \in Nat /\ opens \in Nat
    /\ tab \in [Devices -> DraftTabs \cup {Null}]
    /\ local \in [Devices -> Upto(edits) \cup {Null}]
    /\ \A save \in saves : save.snap \in Upto(edits)
    /\ row \in Upto(edits) \cup {Null}
    /\ create \in Creates \cup {Null}

DraftInv == DraftType /\ Wizard!NewestIsHeld /\ Wizard!BuiltIsHeld

(* Two states of a tab that differ in its timer at most.                   *)
SameTab(t, u) ==
    /\ t.n = u.n /\ t.has = u.has /\ t.build = u.build
    /\ t.login = u.login /\ t.mount = u.mount

SnapOf(t) == [n |-> t.n, has |-> t.has, build |-> t.build]

-----------------------------------------------------------------------------
(* What persist does in a tab of type, and to the other tabs.              *)
LEMMA PersistsDoes ==
    ASSUME DraftType, edits' \in Nat, edits <= edits',
           NEW d \in Devices, NEW t \in DraftTabs', Wizard!Persists(d, t)
    PROVE  /\ tab' \in [Devices -> DraftTabs' \cup {Null}]
           /\ local' \in [Devices -> Upto(edits') \cup {Null}]
           /\ SameTab(tab'[d], t)
           /\ Wizard!WorthARow(t) => tab'[d].timer = SnapOf(t)
           /\ \A e \in Devices \ {d} : tab'[e] = tab[e]
<1> DEFINE t1 == IF Wizard!WorthARow(t) THEN [t EXCEPT !.timer = SnapOf(t)] ELSE t
<1>1. tab' = [tab EXCEPT ![d] = t1] /\ local' = [local EXCEPT ![d] = SnapOf(t)]
  BY DEF Wizard!Persists, Wizard!Timer, Wizard!Snapshot, SnapOf
<1>2. SnapOf(t) \in Upto(edits')
  BY DEF DraftTabs, Upto, SnapOf
<1>3. t1 \in DraftTabs'
  BY <1>2 DEF DraftTabs
<1>4. \A e \in Devices : tab[e] \in DraftTabs' \cup {Null} /\ local[e] \in Upto(edits') \cup {Null}
  BY DEF DraftType, DraftTabs, Upto
<1>5. SameTab(t1, t) /\ (Wizard!WorthARow(t) => t1.timer = SnapOf(t))
  BY DEF DraftTabs, SameTab
<1> HIDE DEF t1
<1> QED BY <1>1, <1>2, <1>3, <1>4, <1>5 DEF DraftType

(* A tab that persists has its snapshot held, if there is one to save; the *)
(* others have theirs where they had it.                                   *)
LEMMA PersistsHolds ==
    ASSUME DraftInv, edits' \in Nat, edits <= edits', edits' = edits \/ edits' = edits + 1,
           NEW d \in Devices, NEW t \in DraftTabs', Wizard!Persists(d, t),
           saves' = saves, row' = row, spoilt' = spoilt
    PROVE  Wizard!NewestIsHeld' /\ Wizard!BuiltIsHeld'
<1>1. /\ SameTab(tab'[d], t) /\ (Wizard!WorthARow(t) => tab'[d].timer = SnapOf(t))
      /\ \A e \in Devices \ {d} : tab'[e] = tab[e]
  BY PersistsDoes DEF DraftInv
<1>2. \A e \in Devices \ {d} : Wizard!Held(e)' = Wizard!Held(e)
  BY <1>1 DEF Wizard!Held
<1>3. Wizard!WorthARow(t) => SnapOf(t) \in Wizard!Held(d)'
  <2>1. SnapOf(t) \in [n : Nat, has : Wizard!Contents, build : BOOLEAN]
    BY DEF DraftTabs, SnapOf
  <2> QED BY <1>1, <2>1, WizardAssumption DEF Wizard!Held
<1>4. Wizard!NewestIsHeld'
  <2> SUFFICES ASSUME NEW e \in Devices, Wizard!HasTheNewest(e)', spoilt' = {}
               PROVE  \E snap \in Wizard!Held(e)' : snap.n = edits'
    BY DEF Wizard!NewestIsHeld
  <2>1. CASE e = d
    <3>1. Wizard!WorthARow(t) /\ SnapOf(t).n = edits'
      BY <1>1, <2>1 DEF Wizard!HasTheNewest, Wizard!WorthARow, SameTab, SnapOf
    <3> QED BY <1>3, <2>1, <3>1
  <2>2. CASE e # d
    <3>1. tab'[e] = tab[e] /\ Wizard!Held(e)' = Wizard!Held(e)
      BY <1>1, <1>2, <2>2
    <3>2. tab[e] \in DraftTabs /\ tab[e].n = edits' /\ Wizard!Open(e)
      BY <3>1 DEF DraftInv, DraftType, Wizard!Open, Wizard!HasTheNewest
    <3>3. edits' = edits
      BY <3>2 DEF DraftTabs, DraftInv, DraftType
    <3>4. Wizard!HasTheNewest(e)
      BY <3>1, <3>2, <3>3 DEF Wizard!HasTheNewest, Wizard!WorthARow
    <3> QED BY <3>1, <3>3, <3>4 DEF DraftInv, Wizard!NewestIsHeld
  <2> QED BY <2>1, <2>2
<1>5. Wizard!BuiltIsHeld'
  <2> SUFFICES ASSUME NEW e \in Devices, Wizard!Open(e)', tab'[e].login, tab'[e].build, spoilt' = {}
               PROVE  \E snap \in Wizard!Held(e)' : snap.build
    BY DEF Wizard!BuiltIsHeld
  <2>1. CASE e = d
    BY <1>1, <1>3, <2>1 DEF Wizard!WorthARow, SameTab, SnapOf
  <2>2. CASE e # d
    BY <1>1, <1>2, <2>2 DEF DraftInv, Wizard!BuiltIsHeld, Wizard!Open
  <2> QED BY <2>1, <2>2
<1> QED BY <1>4, <1>5

(* So a step that persists keeps the invariant.                            *)
LEMMA PersistsKeeps ==
    ASSUME DraftInv, edits' = edits \/ edits' = edits + 1, opens' \in Nat,
           NEW d \in Devices, NEW t \in DraftTabs', Wizard!Persists(d, t),
           create' \in Creates \cup {Null}, saves' = saves, row' = row, spoilt' = spoilt
    PROVE  DraftInv'
<1>1. edits' \in Nat /\ edits <= edits'
  BY DEF DraftInv, DraftType
<1>2. /\ tab' \in [Devices -> DraftTabs' \cup {Null}]
      /\ local' \in [Devices -> Upto(edits') \cup {Null}]
  BY <1>1, PersistsDoes DEF DraftInv
<1>3. \A snap \in Upto(edits) : snap \in Upto(edits')
  BY <1>1 DEF Upto, DraftInv, DraftType
<1>4. (\A save \in saves' : save.snap \in Upto(edits')) /\ row' \in Upto(edits') \cup {Null}
  BY <1>3 DEF DraftInv, DraftType
<1>5. DraftType'
  BY <1>1, <1>2, <1>4 DEF DraftType, Upto, Creates
<1> QED BY <1>1, <1>5, PersistsHolds DEF DraftInv

LEMMA OpensKeeps ==
    ASSUME DraftInv, NEW d \in Devices, Wizard!Opens(d)
    PROVE  DraftInv'
<1> DEFINE found == IF local[d] = Null THEN [n |-> 0, has |-> "nothing", build |-> FALSE]
                    ELSE local[d]
           t == [n |-> found.n, has |-> found.has, build |-> found.build, login |-> FALSE,
                 timer |-> Null, mount |-> opens]
<1>1. /\ Wizard!Persists(d, t) /\ opens' = opens + 1
      /\ UNCHANGED <<saves, row, create, edits, spoilt>>
  BY DEF Wizard!Opens, Wizard!Snapshot
<1>2. edits \in Nat /\ opens \in Nat /\ create \in Creates \cup {Null}
  BY DEF DraftInv, DraftType
<1>3. found.n \in 0 .. edits /\ found.has \in Wizard!Contents /\ found.build \in BOOLEAN
  <2>1. CASE local[d] = Null
    BY <1>2, <2>1 DEF Wizard!Contents
  <2>2. CASE local[d] # Null
    BY <2>2 DEF DraftInv, DraftType, Upto
  <2> QED BY <2>1, <2>2
<1> HIDE DEF found
<1>4. t \in DraftTabs'
  BY <1>1, <1>2, <1>3 DEF DraftTabs, Upto
<1> HIDE DEF t
<1> QED BY <1>1, <1>2, <1>4, PersistsKeeps

(* The tab of a device.                                                    *)
LEMMA TabIsOne ==
    ASSUME DraftInv, NEW d \in Devices, Wizard!Open(d)
    PROVE  tab[d] \in DraftTabs /\ edits \in Nat /\ opens \in Nat /\ create \in Creates \cup {Null}
BY DEF DraftInv, DraftType, Wizard!Open

LEMMA AuthenticatesKeeps ==
    ASSUME DraftInv, NEW d \in Devices, Wizard!Authenticates(d)
    PROVE  DraftInv'
<1> DEFINE t == [tab[d] EXCEPT !.login = TRUE]
<1>1. /\ Wizard!Open(d) /\ Wizard!Persists(d, t)
      /\ UNCHANGED <<saves, row, create, edits, opens, spoilt>>
  BY DEF Wizard!Authenticates
<1>2. t \in DraftTabs'
  BY <1>1, TabIsOne DEF DraftTabs, Upto
<1> HIDE DEF t
<1> QED BY <1>1, <1>2, TabIsOne, PersistsKeeps

LEMMA EditsKeeps ==
    ASSUME DraftInv, NEW d \in Devices, Wizard!Edits(d)
    PROVE  DraftInv'
<1>1. PICK has \in Wizard!Contents : Wizard!Persists(d, [tab[d] EXCEPT !.n = edits + 1, !.has = has])
  BY DEF Wizard!Edits
<1> DEFINE t == [tab[d] EXCEPT !.n = edits + 1, !.has = has]
<1>2. /\ Wizard!Open(d) /\ Wizard!Persists(d, t) /\ edits' = edits + 1
      /\ UNCHANGED <<saves, row, create, opens, spoilt>>
  BY <1>1 DEF Wizard!Edits
<1>3. t \in DraftTabs'
  <2>1. /\ tab[d] \in DraftTabs /\ edits' = edits + 1
        /\ edits \in Nat /\ edits + 1 \in 0 .. edits' /\ 0 .. edits \subseteq 0 .. edits'
    BY <1>2, TabIsOne
  <2>2. Upto(edits) \subseteq Upto(edits')
    BY <2>1 DEF Upto
  <2> QED BY <2>1, <2>2 DEF DraftTabs
<1> HIDE DEF t
<1> QED BY <1>2, <1>3, TabIsOne, PersistsKeeps

LEMMA StartBuildKeeps ==
    ASSUME DraftInv, NEW d \in Devices, Wizard!StartBuild(d)
    PROVE  DraftInv'
<1>1. /\ Wizard!Open(d) /\ Wizard!Persists(d, tab[d])
      /\ create' = [by |-> d, mount |-> tab[d].mount, at |-> "asked"]
      /\ UNCHANGED <<saves, row, edits, opens, spoilt>>
  BY DEF Wizard!StartBuild
<1>2. tab[d] \in DraftTabs' /\ create' \in Creates
  BY <1>1, TabIsOne DEF DraftTabs, Upto, Creates
<1> QED BY <1>1, <1>2, TabIsOne, PersistsKeeps

LEMMA AnswersKeeps ==
    ASSUME DraftInv, Wizard!CreateAnswers, Wizard!Listens(create.by),
           Wizard!Persists(create.by, [tab[create.by] EXCEPT !.build = TRUE])
    PROVE  DraftInv'
<1> DEFINE t == [tab[create.by] EXCEPT !.build = TRUE]
<1>1. /\ create # Null /\ Wizard!Open(create.by)
      /\ create' = [create EXCEPT !.at = "answered"]
      /\ UNCHANGED <<saves, row, edits, opens, spoilt>>
  BY DEF Wizard!CreateAnswers, Wizard!Listens, Wizard!Asked
<1>2. create.by \in Devices /\ create' \in Creates
  BY <1>1 DEF DraftInv, DraftType, Creates
<1>3. t \in DraftTabs'
  BY <1>1, <1>2, TabIsOne DEF DraftTabs, Upto
<1> HIDE DEF t
<1> QED BY <1>1, <1>2, <1>3, TabIsOne, PersistsKeeps DEF t

-----------------------------------------------------------------------------
(* A step that leaves edits and openings alone, closes tabs or sends what  *)
(* their timers hold, keeps the invariant, if what is held is held on.     *)
LEMMA QuietKeeps ==
    ASSUME DraftInv, UNCHANGED <<edits, opens>>,
           tab' \in [Devices -> DraftTabs \cup {Null}],
           \A d \in Devices : tab'[d] # Null => tab[d] # Null /\ SameTab(tab'[d], tab[d]),
           local' \in [Devices -> Upto(edits) \cup {Null}],
           \A save \in saves' : save.snap \in Upto(edits),
           row' \in Upto(edits) \cup {Null},
           create' \in Creates \cup {Null},
           spoilt' = {} => /\ spoilt = {}
                           /\ \A d \in Devices : tab'[d] # Null =>
                                 /\ \A snap \in Wizard!Held(d) : snap.n = edits =>
                                       \E kept \in Wizard!Held(d)' : kept.n = edits
                                 /\ \A snap \in Wizard!Held(d) : snap.build =>
                                       \E kept \in Wizard!Held(d)' : kept.build
    PROVE  DraftInv'
<1>1. DraftType'
  BY DEF DraftInv, DraftType, DraftTabs, Upto, Creates
<1>2. \A d \in Devices : Wizard!HasTheNewest(d)' => Wizard!HasTheNewest(d)
  BY DEF Wizard!HasTheNewest, Wizard!WorthARow, Wizard!Open, SameTab
<1>3. Wizard!NewestIsHeld'
  BY <1>2 DEF DraftInv, Wizard!NewestIsHeld, Wizard!HasTheNewest, Wizard!Open
<1>4. Wizard!BuiltIsHeld'
  BY DEF DraftInv, Wizard!BuiltIsHeld, Wizard!Open, SameTab
<1> QED BY <1>1, <1>3, <1>4 DEF DraftInv

(* What is sent is under way.                                              *)
LEMMA SendsDoes ==
    ASSUME DraftInv, NEW snap \in Upto(edits), Wizard!Sends(snap)
    PROVE  /\ \A save \in saves' : save.snap \in Upto(edits)
           /\ saves \subseteq saves' /\ \E save \in saves' : save.snap = snap
<1>1. PICK id : saves' = saves \cup {[id |-> id, snap |-> snap]}
  BY DEF Wizard!Sends
<1>2. [id |-> id, snap |-> snap].snap = snap
  OBVIOUS
<1> QED BY <1>1, <1>2 DEF DraftInv, DraftType

LEMMA TimerKeeps ==
    ASSUME DraftInv, NEW d \in Devices, Wizard!TimerFires(d)
    PROVE  DraftInv'
<1>1. /\ Wizard!Open(d) /\ tab[d].timer # Null /\ Wizard!Sends(tab[d].timer)
      /\ tab' = [tab EXCEPT ![d].timer = Null]
      /\ UNCHANGED <<local, row, create, edits, opens, spoilt>>
  BY DEF Wizard!TimerFires
<1>2. tab \in [Devices -> DraftTabs \cup {Null}] /\ tab[d] \in DraftTabs /\ tab[d].timer \in Upto(edits)
  BY <1>1 DEF DraftInv, DraftType, DraftTabs, Wizard!Open
<1>3. /\ tab'[d] \in DraftTabs /\ tab'[d].timer = Null /\ SameTab(tab'[d], tab[d])
      /\ \A e \in Devices \ {d} : tab'[e] = tab[e]
      /\ tab' \in [Devices -> DraftTabs \cup {Null}]
  BY <1>1, <1>2 DEF DraftTabs, SameTab
<1>4. /\ \A save \in saves' : save.snap \in Upto(edits)
      /\ saves \subseteq saves' /\ \E save \in saves' : save.snap = tab[d].timer
  BY <1>1, <1>2, SendsDoes
<1>5. \A e \in Devices : Wizard!Held(e) \subseteq Wizard!Held(e)'
  BY <1>1, <1>3, <1>4 DEF Wizard!Held
<1>6. \A e \in Devices : tab'[e] # Null => tab[e] # Null /\ SameTab(tab'[e], tab[e])
  BY <1>1, <1>3 DEF Wizard!Open, SameTab
<1>7. /\ local \in [Devices -> Upto(edits) \cup {Null}] /\ row \in Upto(edits) \cup {Null}
      /\ create \in Creates \cup {Null}
  BY DEF DraftInv, DraftType
<1> QED BY <1>1, <1>3, <1>4, <1>5, <1>6, <1>7, QuietKeeps

LEMMA EndsKeeps ==
    ASSUME DraftInv, NEW d \in Devices, Wizard!Leaves(d) \/ Wizard!Closes(d)
    PROVE  DraftInv'
<1>1. /\ Wizard!Open(d) /\ tab' = [tab EXCEPT ![d] = Null]
      /\ UNCHANGED <<local, row, create, edits, opens>>
      /\ spoilt' = {} => spoilt = {}
      /\ saves' = saves \/ (tab[d].timer # Null /\ Wizard!Sends(tab[d].timer))
  BY DEF Wizard!Leaves, Wizard!Closes
<1>2. tab \in [Devices -> DraftTabs \cup {Null}] /\ tab[d] \in DraftTabs
  BY <1>1 DEF DraftInv, DraftType, Wizard!Open
<1>3. /\ tab'[d] = Null /\ \A e \in Devices \ {d} : tab'[e] = tab[e]
      /\ tab' \in [Devices -> DraftTabs \cup {Null}]
  BY <1>1, <1>2
<1>4. (\A save \in saves' : save.snap \in Upto(edits)) /\ saves \subseteq saves'
  <2>1. CASE saves' = saves
    BY <2>1 DEF DraftInv, DraftType
  <2>2. CASE tab[d].timer # Null /\ Wizard!Sends(tab[d].timer)
    BY <1>2, <2>2, SendsDoes DEF DraftTabs
  <2> QED BY <1>1, <2>1, <2>2
<1>5. \A e \in Devices \ {d} : Wizard!Held(e) \subseteq Wizard!Held(e)'
  BY <1>1, <1>3, <1>4 DEF Wizard!Held
<1>6. /\ local \in [Devices -> Upto(edits) \cup {Null}] /\ row \in Upto(edits) \cup {Null}
      /\ create \in Creates \cup {Null}
  BY DEF DraftInv, DraftType
<1> QED BY <1>1, <1>3, <1>4, <1>5, <1>6, QuietKeeps DEF SameTab

LEMMA ClearsKeeps ==
    ASSUME DraftInv, NEW d \in Devices, Wizard!Clears(d)
    PROVE  DraftInv'
<1>1. /\ local' = [local EXCEPT ![d] = Null]
      /\ UNCHANGED <<tab, saves, row, create, edits, opens, spoilt>>
  BY DEF Wizard!Clears
<1>2. /\ local \in [Devices -> Upto(edits) \cup {Null}] /\ row \in Upto(edits) \cup {Null}
      /\ create \in Creates \cup {Null} /\ tab \in [Devices -> DraftTabs \cup {Null}]
      /\ \A save \in saves : save.snap \in Upto(edits)
  BY DEF DraftInv, DraftType
<1>3. \A e \in Devices : Wizard!Held(e)' = Wizard!Held(e)
  BY <1>1 DEF Wizard!Held
<1> QED BY <1>1, <1>2, <1>3, QuietKeeps DEF SameTab

(* A save that arrives is in the row then, and the row's build stays; if   *)
(* it is older than the row, it spoils it.                                 *)
LEMMA ArrivesKeeps ==
    ASSUME DraftInv, NEW save \in saves, Wizard!SaveArrives(save)
    PROVE  DraftInv'
<1> DEFINE snap == save.snap
<1>1. /\ saves' = saves \ {save} /\ row' = Wizard!Upserted(snap)
      /\ spoilt' = IF row # Null /\ row.n > snap.n THEN spoilt \cup {"stale"} ELSE spoilt
      /\ UNCHANGED <<tab, local, create, edits, opens>>
  BY DEF Wizard!SaveArrives
<1>2. /\ snap \in Upto(edits) /\ row \in Upto(edits) \cup {Null} /\ edits \in Nat
      /\ local \in [Devices -> Upto(edits) \cup {Null}]
      /\ create \in Creates \cup {Null} /\ tab \in [Devices -> DraftTabs \cup {Null}]
      /\ \A other \in saves : other.snap \in Upto(edits)
  BY DEF DraftInv, DraftType
<1> HIDE DEF snap
<1>3. /\ row' \in Upto(edits) /\ row'.n = snap.n
      /\ snap.build => row'.build
      /\ row # Null /\ row.build => row'.build
  <2>1. CASE row = Null
    BY <1>1, <1>2, <2>1 DEF Wizard!Upserted
  <2>2. CASE row # Null
    <3>1. row' = [snap EXCEPT !.build = snap.build \/ row.build]
      BY <1>1, <2>2 DEF Wizard!Upserted
    <3>2. row.build \in BOOLEAN
      BY <1>2, <2>2 DEF Upto
    <3> QED BY <1>2, <3>1, <3>2 DEF Upto
  <2> QED BY <2>1, <2>2
<1>4. row' # Null
  <2>1. row' \in [n : Nat, has : Wizard!Contents, build : BOOLEAN]
    BY <1>2, <1>3 DEF Upto
  <2> QED BY <2>1, WizardAssumption
<1>5. ASSUME NEW d \in Devices, NEW held \in Wizard!Held(d)
      PROVE  held \in Wizard!Held(d)' \/ held = snap \/ (held = row /\ row # Null)
  <2>1. CASE held = tab[d].timer /\ held # Null
    BY <1>1, <2>1 DEF Wizard!Held
  <2>2. ASSUME NEW other \in saves, held = other.snap
        PROVE  held \in Wizard!Held(d)' \/ held = snap
    <3>1. other = save \/ other \in saves'
      BY <1>1
    <3> QED BY <2>2, <3>1 DEF Wizard!Held, snap
  <2> QED BY <1>5, <2>1, <2>2 DEF Wizard!Held
<1>6. \A d \in Devices : row' \in Wizard!Held(d)'
  BY <1>4 DEF Wizard!Held
<1>7. ASSUME NEW d \in Devices, NEW held \in Wizard!Held(d), spoilt' = {}
      PROVE  /\ held.n = edits => \E kept \in Wizard!Held(d)' : kept.n = edits
             /\ held.build => \E kept \in Wizard!Held(d)' : kept.build
  <2>1. CASE held \in Wizard!Held(d)'
    BY <2>1
  <2>2. CASE held = snap
    BY <1>3, <1>6, <2>2
  <2>3. CASE held = row /\ row # Null
    <3>1. ~(row.n > snap.n)
      BY <1>1, <1>7, <2>3
    <3>2. snap.n \in 0 .. edits /\ row.n \in 0 .. edits
      BY <1>2, <2>3 DEF Upto
    <3>3. row.n = edits => row'.n = edits
      BY <1>2, <1>3, <3>1, <3>2
    <3> QED BY <1>3, <1>6, <2>3, <3>3
  <2> QED BY <1>5, <2>1, <2>2, <2>3
<1>8. spoilt' = {} => spoilt = {}
  BY <1>1
<1> QED BY <1>1, <1>2, <1>3, <1>7, <1>8, QuietKeeps DEF SameTab

(* What is lost or deleted spoils the row.                                 *)
LEMMA SpoilsKeeps ==
    ASSUME DraftInv, \/ \E save \in saves : Wizard!SaveFails(save)
                     \/ Wizard!Deletes \/ Wizard!Collected
    PROVE  DraftInv'
<1>1. /\ saves' \subseteq saves /\ row' \in {row, Null} /\ spoilt' # {}
      /\ UNCHANGED <<tab, local, create, edits, opens>>
  BY DEF Wizard!SaveFails, Wizard!Deletes, Wizard!Collected
<1>2. /\ row \in Upto(edits) \cup {Null}
      /\ local \in [Devices -> Upto(edits) \cup {Null}]
      /\ create \in Creates \cup {Null} /\ tab \in [Devices -> DraftTabs \cup {Null}]
      /\ \A save \in saves : save.snap \in Upto(edits)
  BY DEF DraftInv, DraftType
<1> QED BY <1>1, <1>2, QuietKeeps DEF SameTab

LEMMA LinksKeeps ==
    ASSUME DraftInv, Wizard!CreateLinks \/ (Wizard!CreateAnswers /\ UNCHANGED <<tab, local>>)
    PROVE  DraftInv'
<1>1. /\ create # Null
      /\ \E step \in {"linked", "answered"} : create' = [create EXCEPT !.at = step]
      /\ row' = row \/ (row # Null /\ row' = [row EXCEPT !.build = TRUE])
      /\ UNCHANGED <<tab, local, saves, edits, opens, spoilt>>
  BY DEF Wizard!CreateLinks, Wizard!CreateAnswers, Wizard!Asked
<1>2. /\ row \in Upto(edits) \cup {Null} /\ edits \in Nat
      /\ local \in [Devices -> Upto(edits) \cup {Null}]
      /\ create \in Creates /\ tab \in [Devices -> DraftTabs \cup {Null}]
      /\ \A save \in saves : save.snap \in Upto(edits)
  BY <1>1 DEF DraftInv, DraftType
<1>3. create' \in Creates /\ create'.by = create.by /\ create'.mount = create.mount
  BY <1>1, <1>2 DEF Creates
<1>4. /\ row' \in Upto(edits) \cup {Null}
      /\ row # Null => /\ row' # Null /\ row'.n = row.n
                       /\ row.build => row'.build
  <2>1. CASE row' = row
    BY <1>2, <2>1
  <2>2. CASE row # Null /\ row' = [row EXCEPT !.build = TRUE]
    <3>1. row' \in Upto(edits) /\ row'.n = row.n /\ row'.build
      BY <1>2, <2>2 DEF Upto
    <3>2. row' \in [n : Nat, has : Wizard!Contents, build : BOOLEAN]
      BY <1>2, <3>1 DEF Upto
    <3> QED BY <3>1, <3>2, WizardAssumption
  <2> QED BY <1>1, <2>1, <2>2
<1>5. ASSUME NEW d \in Devices, NEW held \in Wizard!Held(d)
      PROVE  held \in Wizard!Held(d)' \/ (held = row /\ row # Null)
  <2>1. CASE held = tab[d].timer /\ held # Null
    BY <1>1, <2>1 DEF Wizard!Held
  <2>2. CASE \E save \in saves : held = save.snap
    BY <1>1, <2>2 DEF Wizard!Held
  <2> QED BY <1>5, <2>1, <2>2 DEF Wizard!Held
<1>6. row # Null => \A d \in Devices : row' \in Wizard!Held(d)'
  BY <1>4 DEF Wizard!Held
<1>7. ASSUME NEW d \in Devices, NEW held \in Wizard!Held(d)
      PROVE  /\ held.n = edits => \E kept \in Wizard!Held(d)' : kept.n = edits
             /\ held.build => \E kept \in Wizard!Held(d)' : kept.build
  BY <1>4, <1>5, <1>6, <1>7
<1> QED BY <1>1, <1>2, <1>3, <1>4, <1>7, QuietKeeps DEF SameTab

(* Every step of a draft keeps its invariant.                              *)
LEMMA DraftStep == ASSUME DraftInv, [Wizard!Next]_wizardVars PROVE DraftInv'
<1>1. CASE UNCHANGED wizardVars
  BY <1>1 DEF wizardVars, DraftInv, DraftType, Upto, DraftTabs, Creates, Wizard!NewestIsHeld,
              Wizard!BuiltIsHeld, Wizard!Held, Wizard!Open, Wizard!HasTheNewest, Wizard!WorthARow
<1>2. CASE Wizard!Platform
  <2>1. CASE Wizard!CreateAnswers
    <3>1. \/ /\ Wizard!Listens(create.by)
             /\ Wizard!Persists(create.by, [tab[create.by] EXCEPT !.build = TRUE])
          \/ UNCHANGED <<tab, local>>
      BY <2>1 DEF Wizard!CreateAnswers
    <3> QED BY <2>1, <3>1, AnswersKeeps, LinksKeeps
  <2>2. CASE \E save \in saves : Wizard!SaveArrives(save)
    BY <2>2, ArrivesKeeps
  <2>3. CASE \/ \E save \in saves : Wizard!SaveFails(save)
             \/ Wizard!Deletes \/ Wizard!Collected
    BY <2>3, SpoilsKeeps
  <2>4. CASE Wizard!CreateLinks
    BY <2>4, LinksKeeps
  <2> QED BY <1>2, <2>1, <2>2, <2>3, <2>4 DEF Wizard!Platform
<1>3. ASSUME NEW d \in Devices, Wizard!Browser(d) PROVE DraftInv'
  BY <1>3, OpensKeeps, AuthenticatesKeeps, EditsKeeps, TimerKeeps, StartBuildKeeps,
     EndsKeeps, ClearsKeeps DEF Wizard!Browser
<1> QED BY <1>1, <1>2, <1>3 DEF Wizard!Next

LEMMA DraftStarts == ASSUME Wizard!Init PROVE DraftInv
BY DEF Wizard!Init, DraftInv, DraftType, Upto, DraftTabs, Creates,
       Wizard!NewestIsHeld, Wizard!BuiltIsHeld, Wizard!Open, Wizard!HasTheNewest

(* Whatever tabs, devices and saves there are, the newest edit, unless it  *)
(* emptied the draft, and the build are in the row, in a timer or under    *)
(* way, unless a save was lost, came too late, or the draft was deleted    *)
(* (use-build-draft.ts:54, 55, page.tsx:176, 365): the safety under        *)
(* NewestReachesTheRow and BuiltLeavesTheList.                             *)
THEOREM NothingIsForgotten == Wizard!Spec => [](Wizard!NewestIsHeld /\ Wizard!BuiltIsHeld)
<1>1. Wizard!Init => DraftInv
  BY DraftStarts
<1>2. DraftInv /\ [Wizard!Next]_(Wizard!vars) => DraftInv'
  BY DraftStep DEF Wizard!vars, wizardVars
<1>3. DraftInv => Wizard!NewestIsHeld /\ Wizard!BuiltIsHeld
  BY DEF DraftInv
<1> QED BY <1>1, <1>2, <1>3, PTL DEF Wizard!Spec

(***************************************************************************)
(* The pages together.                                                     *)
(***************************************************************************)

(* The client does on each page what the module of that page allows, and   *)
(* leaves the others alone: what is proved of the shell, the workshop and  *)
(* the drafts holds of it.                                                 *)
THEOREM PagesKeepApart == WebInit /\ [][WebNext]_webVars => Spec /\ FlowSpec /\ Wizard!Spec
<1>1. WebInit => Init /\ FlowInit /\ Wizard!Init
  BY DEF WebInit
<1>2. [WebNext]_webVars => [Next]_vars
  BY DEF WebNext, OnDrafts, InTheWorkshop, OnJams, webVars
<1>3. [WebNext]_webVars => [FlowNext]_flowVars
  BY DEF WebNext, OnDrafts, InTheWorkshop, OnJams, webVars
<1>4. [WebNext]_webVars => [Wizard!Next]_(Wizard!vars)
  BY DEF WebNext, OnDrafts, InTheWorkshop, OnJams, webVars, wizardVars, Wizard!vars
<1> QED BY <1>1, <1>2, <1>3, <1>4, PTL DEF Spec, FlowSpec, Wizard!Spec
=============================================================================
