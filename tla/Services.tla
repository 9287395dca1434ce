------------------------------- MODULE Services ------------------------------
(***************************************************************************)
(* The services behind the bridge and the routes, in one process: their    *)
(* calls interleave, and share the rate limiter and the clock.             *)
(***************************************************************************)
EXTENDS MeteredCalls, AppData, Inbox, Profile, Arcade

(* The windows that the services ask for.                                  *)
ASSUME ServicesAssumption ==
    \A key \in Keys : key[1] \in {"sender", "pair", "chat", "chatPair"}

meteredOwn == <<cache, strays>>
peopleOwn == <<users, friendship, directMessage, appLike, ens, topups>>

vars == <<callVars, limiterVars, meteredOwn, appDataVars, inbox, peopleOwn, gameVars>>

Init ==
    /\ \E scenario \in Scenarios : CallsInit(scenario) /\ LimiterInit(scenario)
    /\ MeteredInit /\ AppDataInit /\ InboxInit /\ PeopleInit /\ ProfileInit /\ GameInit

(* A model or a mint that fails is caught where it is called.              *)
Fails(c) == call[c].at \notin {"model", "mint"} /\ Throws(c)

(* A statement of one of the services.                                     *)
CallStep(c) ==
    \/ MeteredStep(c) /\ UNCHANGED <<appDataVars, inbox, peopleOwn, gameVars>>
    \/ AppDataStep(c) /\ UNCHANGED <<limiterVars, meteredOwn, inbox, peopleOwn, gameVars>>
    \/ InboxStep(c) /\ UNCHANGED <<meteredOwn, appDataVars, peopleOwn, gameVars>>
    \/ PeopleStep(c) /\ UNCHANGED <<meteredOwn, appDataVars, inbox, ens, topups, gameVars>>
    \/ ProfileStep(c) /\ UNCHANGED <<meteredOwn, appDataVars, inbox, gameVars>>
    \/ GameStep(c) /\ UNCHANGED <<limiterVars, meteredOwn, appDataVars, inbox, peopleOwn>>
    \/ Fails(c)
       /\ UNCHANGED <<limiterVars, meteredOwn, appDataVars, inbox, peopleOwn, gameVars>>

Next ==
    \/ /\ Arrives
       /\ UNCHANGED <<limiterVars, meteredOwn, appDataVars, inbox, peopleOwn, gameVars>>
    \/ /\ Ticks
       /\ UNCHANGED <<callVars, meteredOwn, appDataVars, inbox, peopleOwn, gameVars>>
    \/ \E c \in DOMAIN call : CallStep(c)

Spec == Init /\ [][Next]_vars
=============================================================================
