---------------------------- MODULE BuildPromise ----------------------------
(***************************************************************************)
(* What the platform promises about a build, without drivers, polls or     *)
(* rows: one verdict, which only an interruption may precede, and a URL    *)
(* only for a build that is done, which is then done for good.             *)
(***************************************************************************)
CONSTANTS Builds, Results, Null

VARIABLES
    verdict,    \* [Builds -> {"pending", "interrupted", "done", "failed"}]
    url         \* [Builds -> Results \cup {Null}], where the jam is served

vars == <<verdict, url>>

Init ==
    /\ verdict = [b \in Builds |-> "pending"]
    /\ url = [b \in Builds |-> Null]

(* Nobody has heard of the build for long; this may be taken back.         *)
Interrupt(b) ==
    /\ verdict[b] = "pending"
    /\ verdict' = [verdict EXCEPT ![b] = "interrupted"]
    /\ UNCHANGED url

Finish(b) ==
    /\ verdict[b] \in {"pending", "interrupted"}
    /\ verdict' = [verdict EXCEPT ![b] = "done"]
    /\ UNCHANGED url

(* A finished build may still fail, until its jam has a URL.               *)
Fail(b) ==
    /\ verdict[b] # "failed"
    /\ url[b] = Null
    /\ verdict' = [verdict EXCEPT ![b] = "failed"]
    /\ UNCHANGED url

Attach(b, r) ==
    /\ verdict[b] = "done"
    /\ url[b] = Null
    /\ url' = [url EXCEPT ![b] = r]
    /\ UNCHANGED verdict

Next ==
    \E b \in Builds :
        \/ Interrupt(b) \/ Finish(b) \/ Fail(b)
        \/ \E r \in Results : Attach(b, r)

Spec == Init /\ [][Next]_vars
=============================================================================
