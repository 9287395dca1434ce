----------------------------- MODULE MeteredCalls -----------------------------
(***************************************************************************)
(* The calls that run a model and have a daily quota: ai.chat of the       *)
(* bridge (routers/bridge-ai.ts over services/ai-service.ts), and          *)
(* builds.refine (routers/builds.ts).                                      *)
(***************************************************************************)
EXTENDS RateLimiter

CONSTANTS
    DailyMax,       \* AI_CALLS_PER_USER_APP_DAY, REFINE_CALLS_PER_USER_DAY
    CacheMax        \* of the answers of ai.chat, first in first out

VARIABLES
    cache,          \* the requests whose answers are cached, oldest first
    strays          \* history: units given back to another day than theirs

ASSUME MeteredAssumption ==
    /\ DailyMax \in Nat
    /\ \A op \in Ops : op.name \in {"aiChat", "refine"} => op.key \in QuotaKeys

meteredVars == <<limiterVars, cache, strays>>

MeteredInit == cache = <<>> /\ strays = <<>>

Keeps(request) ==
    LET kept == IF Len(cache) >= CacheMax THEN Tail(cache) ELSE cache IN
    cache' = IF \E i \in DOMAIN kept : kept[i] = request THEN kept
             ELSE Append(kept, request)

(* quota, and the day of the unit if there was one.                        *)
Meters(c, step) ==
    \/ /\ HasQuota(call[c].op.key, DailyMax)
       /\ Reserves(call[c].op.key) /\ Awaits(c, step, Today)
    \/ /\ ~HasQuota(call[c].op.key, DailyMax)
       /\ Denies(call[c].op.key) /\ Returns(c, "QUOTA_EXCEEDED")

(* requireApp; an answer that is cached is free.                           *)
ChatBegins(c) ==
    /\ At(c, "aiChat", "begin")
    /\ \/ /\ \E i \in DOMAIN cache : cache[i] = call[c].op.request
          /\ Returns(c, "cached") /\ UNCHANGED limiterVars
       \/ /\ \A i \in DOMAIN cache : cache[i] # call[c].op.request
          /\ Meters(c, "model")
    /\ UNCHANGED <<cache, strays>>

(* The quota comes first; the catalog, the base spec and the attachments   *)
(* are then awaited outside the try that refunds.                          *)
RefineBegins(c) ==
    /\ At(c, "refine", "begin") /\ Meters(c, "gather")
    /\ UNCHANGED <<cache, strays>>

RefineGathers(c) ==
    /\ At(c, "refine", "gather") /\ Awaits(c, "model", call[c].saw)
    /\ UNCHANGED meteredVars

ModelAnswers(c) ==
    /\ call[c].at = "model" /\ Returns(c, "ok")
    /\ IF IsA("aiChat", c) THEN Keeps(call[c].op.request) ELSE UNCHANGED cache
    /\ UNCHANGED <<limiterVars, strays>>

(* A failure that is billed.                                               *)
ModelFailsBilled(c) ==
    /\ call[c].at = "model" /\ Returns(c, "INTERNAL")
    /\ UNCHANGED meteredVars

(* The model failed: the unit is given back, of whatever day it was.       *)
ModelFails(c) ==
    /\ call[c].at = "model" /\ Returns(c, "INTERNAL")
    /\ LET key == call[c].op.key IN
       /\ Refunds(key)
       /\ strays' = IF daily[key].day = call[c].saw THEN strays
                    ELSE Append(strays, [key |-> key, day |-> daily[key].day])
    /\ UNCHANGED cache

MeteredStep(c) ==
    \/ ChatBegins(c) \/ RefineBegins(c) \/ RefineGathers(c)
    \/ ModelAnswers(c) \/ ModelFails(c)
=============================================================================
