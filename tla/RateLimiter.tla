----------------------------- MODULE RateLimiter -----------------------------
(***************************************************************************)
(* createRateLimiter (packages/api/src/lib/rate-limit.ts): windows of a    *)
(* minute and daily counters, in the memory of the one process.            *)
(***************************************************************************)
EXTENDS Calls

CONSTANTS
    Width,          \* 60 000 ms, in ticks
    DayLength,      \* in ticks
    Keys,           \* the keys of the windows
    QuotaKeys       \* the keys of the daily counters

VARIABLES
    now,
    horizon,        \* bound: when the clock of the scenario stops
    windows, daily,
    verdicts        \* history: what allow answered for each key, and when

limiterVars == <<now, horizon, windows, daily, verdicts>>

ASSUME LimiterAssumption ==
    /\ Width \in Nat \ {0} /\ DayLength \in Nat \ {0}
    /\ Null \notin Keys \cup Nat \cup [day : Nat, n : Nat] \cup [n : Nat, reset : Nat]

LimiterInit(scenario) ==
    /\ now = 0 /\ horizon = scenario.ticks
    /\ windows = [k \in Keys |-> Null]
    /\ daily = [k \in QuotaKeys |-> Null]
    /\ verdicts = [k \in Keys |-> <<>>]

Ticks ==
    /\ now < horizon /\ now' = now + 1
    /\ UNCHANGED <<horizon, windows, daily, verdicts>>

-----------------------------------------------------------------------------
Expired(key) == windows[key] = Null \/ now > windows[key].reset

(* A window that every call pushes on.                                     *)
CountedAndExtended(key) ==
    [n |-> IF Expired(key) THEN 1 ELSE windows[key].n + 1, reset |-> now + Width]

(* A call that is refused counts too.                                      *)
Counted(key) ==
    IF Expired(key) THEN [n |-> 1, reset |-> now + Width]
                    ELSE [windows[key] EXCEPT !.n = @ + 1]

Allows(key, max) == Expired(key) \/ windows[key].n + 1 <= max

(* allow, of several keys in turn: the first that refuses is the last one  *)
(* asked.  The limits are pairs of a key and its maximum.                  *)
Asked(limits) ==
    {i \in DOMAIN limits : \A j \in 1 .. i - 1 : Allows(limits[j].key, limits[j].max)}

AllAllow(limits) == \A i \in DOMAIN limits : Allows(limits[i].key, limits[i].max)

AsksFor(limits) ==
    LET asked == {limits[i] : i \in Asked(limits)} IN
    /\ windows' = [k \in Keys |->
          IF \E l \in asked : l.key = k THEN Counted(k) ELSE windows[k]]
    /\ verdicts' = [k \in Keys |->
          IF \E l \in asked : l.key = k
          THEN LET l == CHOOSE l \in asked : l.key = k IN
               Append(verdicts[k], [at |-> now, ok |-> Allows(k, l.max)])
          ELSE verdicts[k]]
    /\ UNCHANGED <<now, horizon, daily>>

-----------------------------------------------------------------------------
Today == now \div DayLength

Entry(key) ==
    IF daily[key] = Null \/ daily[key].day # Today THEN [day |-> Today, n |-> 0]
                                                   ELSE daily[key]

HasQuotaForOneMore(key, max) == Entry(key).n <= max

HasQuota(key, max) == Entry(key).n < max

Reserves(key) ==
    /\ daily' = [daily EXCEPT ![key] = [Entry(key) EXCEPT !.n = @ + 1]]
    /\ UNCHANGED <<now, horizon, windows, verdicts>>

(* An entry of the day that is refused, although nothing was reserved.     *)
Denies(key) ==
    /\ daily' = [daily EXCEPT ![key] = Entry(key)]
    /\ UNCHANGED <<now, horizon, windows, verdicts>>

(* A unit of today that was reserved yesterday is given back just so.      *)
Refunds(key) ==
    /\ daily' = IF daily[key] # Null /\ daily[key].n > 0
                THEN [daily EXCEPT ![key].n = @ - 1] ELSE daily
    /\ UNCHANGED <<now, horizon, windows, verdicts>>
=============================================================================
