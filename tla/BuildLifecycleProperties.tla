---------------------- MODULE BuildLifecycleProperties ----------------------
(***************************************************************************)
(* What makes the build pipeline of module BuildLifecycle correct, platform *)
(* and builder together.                                                   *)
(***************************************************************************)
EXTENDS BuildLifecycle

(* Every variable is typed, the builder's too; a build the driver works on *)
(* has its app (builds.ts:339-347), so the workshop can find the slug.     *)
TypeOK == Runner!TypeOK /\ PlatformTypeOK

(* "app.entryUrl" agrees across the two services: a jam has a URL only if  *)
(* its build is done, and then it is the URL the builder shows for that    *)
(* build, unless a restart made the builder forget it.                     *)
UrlIsTheBuilders ==
    \A b \in Builds : (app[b] # Null /\ app[b].entryUrl # Null) =>
        /\ build[b].status = "done"
        /\ builds[b] # Null => /\ builds[b].status = "done"
                               /\ builds[b].result = app[b].entryUrl

Delisted(b) == app[b] # Null /\ app[b].status = "delisted"

(* Discarded, with no work under way that could list the jam again.        *)
QuietlyDiscarded(b) ==
    /\ Delisted(b)
    /\ b \notin publishing
    /\ driver[b].at \in {"none", "ended"}

(* Discarding a jam that nothing is finalising or publishing "removes [it] *)
(* from the profile for good" (apps.ts:527-528): only work that was under  *)
(* way at the discard can bring it back.                                   *)
QuietDiscardIsFinal ==
    \A b \in Builds : [](QuietlyDiscarded(b) => []Delisted(b))

(* What the comment at apps.ts:527-528 promises of every discard.          *)
DiscardIsFinal == [][\A b \in Builds : Delisted(b) => Delisted(b)']_vars

(* No build is "making..." for ever (reap-builds.ts:3-7), with crashes of  *)
(* either side, failed statements and a builder that forgot the build: the *)
(* driver ends it, or else the reaper does.                                *)
EveryBuildSettles ==
    \A b \in Builds : (build[b] # Null) ~> (build[b] # Null /\ Terminal(b))

(* The pipeline keeps the promise of BuildPromise.                         *)
Verdict(b) ==
    IF build[b] = Null \/ ~Terminal(b) THEN "pending"
    ELSE IF build[b].status = "done" THEN "done"
    ELSE IF build[b].error = "interrupted" THEN "interrupted" ELSE "failed"

Promise == INSTANCE BuildPromise WITH
    verdict <- [b \in Builds |-> Verdict(b)],
    url <- [b \in Builds |-> IF app[b] = Null THEN Null ELSE app[b].entryUrl]

ImplementsPromise == Promise!Spec
=============================================================================
