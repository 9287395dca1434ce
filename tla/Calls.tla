-------------------------------- MODULE Calls --------------------------------
(***************************************************************************)
(* Calls of the platform's routes in flight.                               *)
(*                                                                         *)
(* The server is one process without transactions: a call runs alone       *)
(* between two awaits, and any other call may run while it awaits.  An      *)
(* action of the modules that extend this one is an awaited statement and  *)
(* the code after it, up to the next await.                                *)
(***************************************************************************)
EXTENDS Integers, Sequences, FiniteSets

CONSTANTS
    Scenarios,  \* bound: rounds of calls, made in any order and at once
    Null

(* The calls of the scenarios.                                             *)
Ops == UNION {UNION {{s.rounds[n][i] : i \in DOMAIN s.rounds[n]} :
                        n \in DOMAIN s.rounds} : s \in Scenarios}

(* What a call is answered, or the error it throws.                        *)
Answers == {"ok", "cached", "liked", "unliked", "hash", "BAD_REQUEST", "FORBIDDEN",
            "NOT_FOUND", "CONFLICT", "TAKEN", "UNAUTHORIZED", "RATE_LIMITED",
            "QUOTA_EXCEEDED", "INTERNAL", "RELAY_FAILED", "THROWN"}

ASSUME CallsAssumption ==
    /\ \A s \in Scenarios : s.rounds \in Seq(Seq(Ops))
    /\ Null \notin Answers

VARIABLES
    todo,       \* the calls of the scenario that are yet to be made, in rounds
    faulty,     \* bound: whether statements of the scenario may throw
    call        \* the calls made, in the order they began

callVars == <<todo, faulty, call>>

(* What a call is and where it stands; what it has read and will still     *)
(* use; what it returned, or the error it threw; the calls that were in    *)
(* flight when it began.                                                   *)
Call(op) == [op |-> op, at |-> "begin", saw |-> Null, answer |-> Null,
             beside |-> {c \in DOMAIN call : call[c].at # "end"}]

CallsInit(scenario) ==
    call = <<>> /\ todo = scenario.rounds /\ faulty = scenario.faulty

Over == \A c \in DOMAIN call : call[c].at = "end"

(* A request arrives.  A round begins when the one before is over.         *)
Arrives ==
    \E n \in DOMAIN todo : \E i \in DOMAIN todo[n] :
        /\ n = 1 \/ (n = 2 /\ todo[1] = <<>> /\ Over)
        /\ call' = Append(call, Call(todo[n][i]))
        /\ LET rest == SubSeq(todo[n], 1, i - 1) \o SubSeq(todo[n], i + 1, Len(todo[n])) IN
           todo' = <<rest>> \o SubSeq(todo, n + 1, Len(todo))
        /\ UNCHANGED faulty

Running(c) == call[c].at # "end"

IsA(name, c) == call[c].op.name = name

At(c, name, step) == IsA(name, c) /\ call[c].at = step

Awaits(c, step, saw) ==
    call' = [call EXCEPT ![c].at = step, ![c].saw = saw] /\ UNCHANGED <<todo, faulty>>

Returns(c, answer) ==
    call' = [call EXCEPT ![c].at = "end", ![c].answer = answer] /\ UNCHANGED <<todo, faulty>>

(* It returns what it has gathered.                                        *)
Finds(c, saw) ==
    /\ call' = [call EXCEPT ![c].at = "end", ![c].saw = saw, ![c].answer = "ok"]
    /\ UNCHANGED <<todo, faulty>>

(* The awaited statement throws: what was done stays done.                 *)
Throws(c) == faulty /\ Running(c) /\ Returns(c, "THROWN")

(* Two calls were in flight at the same time.                              *)
Overlap(c, d) == c \in call[d].beside \/ d \in call[c].beside

The(name) == {c \in DOMAIN call : IsA(name, c)}

(* A call with which none of these overlapped.                             *)
Alone(c, others) == \A d \in others \ {c} : ~Overlap(c, d)
=============================================================================
