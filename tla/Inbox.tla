-------------------------------- MODULE Inbox --------------------------------
(***************************************************************************)
(* Messages of jams to people (services/message-service.ts).  One          *)
(* recipient: inboxes have nothing in common but the sender's rate.        *)
(***************************************************************************)
EXTENDS RateLimiter, SequencesExt

CONSTANTS
    InboxCap,       \* INBOX_CAP
    PerSender,      \* MSG_PER_SENDER_PER_MIN
    PerPair         \* MSG_PER_PAIR_PER_MIN

VARIABLE inbox      \* the rows, in the order of createdAt

(* A window allows the call that opens it, whatever the limit.             *)
ASSUME InboxAssumption ==
    InboxCap \in Nat /\ PerSender \in Nat \ {0} /\ PerPair \in Nat \ {0}

inboxVars == <<limiterVars, inbox>>

InboxInit == inbox = <<>>

MessageLimits(c) ==
    LET from == call[c].op.from IN
    <<[key |-> <<"sender", from>>, max |-> PerSender],
      [key |-> <<"pair", from>>, max |-> PerPair]>>

(* The recipient is read; both limits are asked.                           *)
SendAsks(c) ==
    /\ At(c, "send", "begin")
    /\ AsksFor(MessageLimits(c))
    /\ IF AllAllow(MessageLimits(c)) THEN Awaits(c, "row", Null)
                                     ELSE Returns(c, "RATE_LIMITED")
    /\ UNCHANGED inbox

SendAdds(c) ==
    /\ At(c, "send", "row") /\ Awaits(c, "count", Null)
    /\ inbox' = Append(inbox, [id |-> c, read |-> FALSE])
    /\ UNCHANGED limiterVars

(* One more than the surplus.                                              *)
EvictionCountsOneMore(c) ==
    /\ At(c, "send", "count")
    /\ LET over == Len(inbox) - InboxCap + 1 IN
       IF over <= 0 THEN Returns(c, "ok") ELSE Awaits(c, "victims", over)
    /\ UNCHANGED inboxVars

(* A surplus that is never counted.                                        *)
EvictionSkipped(c) ==
    At(c, "send", "count") /\ Returns(c, "ok") /\ UNCHANGED inboxVars

EvictionCounts(c) ==
    /\ At(c, "send", "count")
    /\ LET over == Len(inbox) - InboxCap IN
       IF over <= 0 THEN Returns(c, "ok") ELSE Awaits(c, "victims", over)
    /\ UNCHANGED inboxVars

(* Read before unread, then the older before the newer.                    *)
GoesBefore(i, j) ==
    \/ inbox[i].read = inbox[j].read /\ i < j
    \/ inbox[i].read /\ ~inbox[j].read

(* The rows in that order.                                                 *)
EvictionOrder ==
    CHOOSE rows \in [DOMAIN inbox -> DOMAIN inbox] :
        \A i, j \in DOMAIN inbox : i < j => GoesBefore(rows[i], rows[j])

Victims(over) ==
    LET rows == EvictionOrder IN
    [i \in 1 .. (IF over < Len(inbox) THEN over ELSE Len(inbox)) |-> inbox[rows[i]].id]

Evicts(c, victims) ==
    IF victims = <<>> THEN Returns(c, "ok") ELSE Awaits(c, "evict", victims)

EvictionChooses(c) ==
    /\ At(c, "send", "victims") /\ Evicts(c, Victims(call[c].saw))
    /\ UNCHANGED inboxVars

(* One victim, one await.  The id is the key of the table.                 *)
EvictionDeletes(c) ==
    /\ At(c, "send", "evict")
    /\ inbox' = RemoveFirstMatch(inbox, LAMBDA row : row.id = Head(call[c].saw))
    /\ Evicts(c, Tail(call[c].saw))
    /\ UNCHANGED limiterVars

MarkAllRead(c) ==
    /\ At(c, "markAllRead", "begin") /\ Returns(c, "ok")
    /\ inbox' = [i \in DOMAIN inbox |-> [inbox[i] EXCEPT !.read = TRUE]]
    /\ UNCHANGED limiterVars

InboxStep(c) ==
    \/ SendAsks(c) \/ SendAdds(c) \/ EvictionCounts(c) \/ EvictionChooses(c)
    \/ EvictionDeletes(c) \/ MarkAllRead(c)
=============================================================================
