--------------------------- MODULE ShellProperties ---------------------------
(* What jams, and the people who sign in, may rely on.                     *)
EXTENDS Shell

Connected(j) == HasDoc(j) /\ frame[j].doc.at = "connected"

(* A jam hears once who the viewer is and keeps it: it is the person who   *)
(* is signed in, unless that one has just signed out; and a guest only if  *)
(* nobody is signed in or the profile could not be had.  Nobody who is     *)
(* known looks like a guest for ever (app-host.tsx:9-15).                  *)
ContextIsTheViewers ==
    \A j \in Jams : Connected(j) =>
        IF frame[j].doc.shows = Guest
        THEN session.user = Null \/ hook[j].status = "error"
        ELSE session.user \in {Null, frame[j].doc.shows}

(* The document that made the call is there.                               *)
StillThere(m) == HasDoc(m.jam) /\ frame[m.jam].doc.n = m.doc

(* What a jam does on the platform it does as the person it shows, though  *)
(* the token is the one of the moment (use-host-auth.ts:84-87): as nobody  *)
(* else, whoever signs in and out meanwhile, and however long the sheet is *)
(* up; as somebody it shows as a guest only if the profile could not be    *)
(* had.  But an executor goes on when its jam is gone (pay-executor.ts:72, *)
(* 116, 132): its later requests, and nothing else, go as whoever has      *)
(* signed in since.                                                        *)
CallsAreTheViewers ==
    \A m \in wire : m.kind \in Requests /\ m.as \notin {Null, m.shows} =>
        \/ m.kind = "more" /\ ~StillThere(m)
        \/ m.shows = Guest /\ (StillThere(m) => session.user = Null
                                                \/ hook[m.jam].status = "error")

(* Each call that a document made has one outcome: it waits, or was given  *)
(* up, or has its own answer; and what was given up stays so, however late *)
(* the page goes on and answers, and whichever document is there then      *)
(* (index.ts:163, 202-205, 219).                                           *)
AnswersFindTheirCall ==
    \A j \in Jams : HasDoc(j) =>
        LET doc == frame[j].doc  answered == {a.id : a \in doc.got} IN
        /\ \A a \in doc.got : a.doc = doc.n
        /\ 1 .. doc.made = doc.waits \cup doc.gaveUp \cup answered
        /\ doc.waits \cap (doc.gaveUp \cup answered) = {}
        /\ doc.gaveUp \cap answered = {}

(* Who is signed in and has a jam in view sees it say who they are, or     *)
(* stand on its own, or be told that it refused to load: neither the       *)
(* splash nor "Loading" is for ever, whatever requests fail                *)
(* (client-root.tsx:55, app-host.tsx:31).                                  *)
JamsAppear ==
    \A j \in Jams :
        []<>(\/ session.user = Null \/ path # "feed" \/ j \notin shown
             \/ (frame[j] # Null /\ frame[j].phase = "blocked")
             \/ (HasDoc(j) /\ frame[j].doc.at # "hello"))

(* "did the user drive a fresh login in THIS session? distinguishes a      *)
(* first-timer (-> claim) from a returning user (-> straight to Discover)" *)
(* (welcome/page.tsx:44-45): who signs in there leaves by the claim.       *)
DriversClaim ==
    [][drove /\ path = "welcome" /\ path' = "feed" =>
        welcome # Null /\ welcome.step = "claim"]_vars
=============================================================================
