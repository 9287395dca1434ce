-------------------------- MODULE ServicesProperties -------------------------
(* What the callers of the services may rely on.                           *)
EXTENDS Services

Limit(key) ==
    CASE key[1] = "sender" -> PerSender
      [] key[1] = "pair" -> PerPair
      [] key[1] = "chat" -> PerSenderChat
      [] key[1] = "chatPair" -> PerPairChat

AllowedWithin(key, from, to) ==
    {i \in DOMAIN verdicts[key] :
        verdicts[key][i].ok /\ verdicts[key][i].at \in from .. to}

(* The windows open with a call, and follow each other: any minute meets   *)
(* at most two of them, and of the earlier one not the call that opened    *)
(* it.  Hence no minute, wherever it begins, has twice the limit, although *)
(* it may have more than the limit.  And who is refused has had the whole  *)
(* limit within the minute before: calls that are refused do not prolong a *)
(* window (rate-limit.ts:26, 30).                                          *)
LimitsOfAMinute ==
    \A key \in Keys :
        /\ \A t \in 0 .. now :
            Cardinality(AllowedWithin(key, t, t + Width)) < 2 * Limit(key)
        /\ \A i \in DOMAIN verdicts[key] :
            LET at == verdicts[key][i].at IN
            ~verdicts[key][i].ok =>
                Cardinality(AllowedWithin(key, at - Width, at)) >= Limit(key)

Metered(key) == {c \in The("aiChat") \cup The("refine") : call[c].op.key = key}

(* Calls that have, or were billed, a unit of a day.                       *)
Billed(key, day) == {c \in Metered(key) : call[c].saw = day /\ call[c].answer # "INTERNAL"}

(* No day has more than its units, but for those that calls begun the day  *)
(* before gave back to it (bridge-ai.ts:42, 53).                           *)
DailyLimitHolds ==
    \A key \in QuotaKeys, day \in 0 .. Today :
        Cardinality(Billed(key, day)) <= DailyMax
            + Cardinality({i \in DOMAIN strays : strays[i] = [key |-> key, day |-> day]})

(* "The model call failed - don't bill the user for it": who is refused    *)
(* has calls under way, or answered, for every unit of the day             *)
(* (bridge-ai.ts:52, builds.ts:263).                                       *)
RefusedWhenSpent ==
    [][\A key \in QuotaKeys : \A c \in Metered(key) :
        call[c].answer = Null /\ call'[c].answer = "QUOTA_EXCEEDED" =>
            Cardinality(Billed(key, Today)) >= DailyMax]_vars

-----------------------------------------------------------------------------
(* Limits that are checked in one await and filled in the next hold as     *)
(* long as the calls that check do not overlap (data-service.ts:60,        *)
(* storage-service.ts:66); and so does the one top-up a day, of those that *)
(* did not throw (profile.ts:138).                                         *)
LimitsHoldAlone ==
    /\ (\A c \in The("insert") : Alone(c, The("insert")))
         => Cardinality(DOMAIN records) <= RecordsMax
    /\ \A user \in {k[1] : k \in storage} :
        LET sets == {c \in The("set") : call[c].op.by = user} IN
        (\A c \in sets : Alone(c, sets)) => Cardinality(KeysOf(user)) <= KeysMax
    /\ \A i, j \in DOMAIN topups :
        LET c == topups[i].call  d == topups[j].call IN
        i < j /\ Me(c) = Me(d) /\ ~Overlap(c, d) /\ call[c].answer = "ok" =>
            topups[j].at - topups[i].at >= DayLength

(* Pages miss nothing: who lists a collection gets every record that was   *)
(* there at the first page, however many are added meanwhile, unless some  *)
(* are deleted, or updated when a field gives the order: offsets only fall *)
(* short when rows move up (data-service.ts:167).                          *)
PagesMissNothing ==
    \A c \in The("list") :
        LET movers == The("delete") \cup
                (IF call[c].op.orderBy = "createdAt" THEN {} ELSE The("update")) IN
        call[c].answer = "ok" /\ Alone(c, movers) => call[c].saw.had \subseteq call[c].saw.got

Writes(id) == {c \in The("insert") \cup The("update") \cup The("delete") : call[c].op.id = id}

Taps(user) == {c \in The("like") : call[c].op.by = user}

(* What is read in one await and written in the next is kept if nothing    *)
(* overlaps.  A field that was updated stays so until a later call writes  *)
(* it or deletes the record: an update of another field loses it only if   *)
(* the two overlap (data-service.ts:102).  A heart that is tapped twice is *)
(* as it was (apps.ts:476).                                                *)
UpdatesKept ==
    /\ \A c \in The("update") :
        LET id == call[c].op.id IN
        call[c].answer = "ok" /\ Alone(c, Writes(id)) =>
            \/ id \in DOMAIN records /\ records[id].data[call[c].op.field] = c
            \/ \E d \in Writes(id) : d > c /\
                (IsA("update", d) => call[d].op.field = call[c].op.field)
    /\ \A user \in {call[c].op.by : c \in The("like")} :
        (\A c \in Taps(user) : Alone(c, Taps(user))) =>
            (user \in appLike <=>
                Cardinality({c \in Taps(user) :
                                call[c].answer \in {"liked", "unliked"}}) % 2 = 1)

-----------------------------------------------------------------------------
Sends == The("send")

(* An inbox holds what it may, and the messages of the sends that are not  *)
(* done, or were cut short, for which the next one makes up                *)
(* (message-service.ts:42).                                                *)
InboxBounded ==
    Len(inbox) <= InboxCap + Cardinality({c \in Sends : call[c].answer \in {Null, "THROWN"}})

(* A message goes only from an inbox above its cap, and unread only when   *)
(* no read one is left, unless somebody else sends or reads meanwhile      *)
(* (message-service.ts:46).                                                *)
EvictsNoMore ==
    [][\A i \in DOMAIN inbox :
        LET others == Sends \cup The("markAllRead") IN
        (\A c \in others : Alone(c, others))
            /\ (\A j \in DOMAIN inbox' : inbox'[j].id # inbox[i].id)
        => /\ Len(inbox) > InboxCap
           /\ inbox[i].read \/ \A j \in DOMAIN inbox : ~inbox[j].read]_vars

-----------------------------------------------------------------------------
Friending(c) == {d \in The("addFriend") \cup The("removeFriend") :
                    {call[d].op.from, call[d].op.to} = {call[c].op.from, call[c].op.to}}

(* The last of the calls before this one that made or ended the friendship *)
(* made it.                                                                *)
Befriended(c) ==
    \E d \in The("addFriend") \cap Friending(c) :
        d < c /\ \A e \in Friending(c) : ~(d < e /\ e < c)

(* Friendship is mutual, whoever asked for it and whoever ended it: a line *)
(* gets through if it holds and is refused if it does not, unless that is  *)
(* just changing (friend-service.ts:13, chat-service.ts:63).               *)
FriendshipIsMutual ==
    \A c \in The("chat") :
        LET all == Friending(c) IN
        (\A d \in all : call[d].answer = "ok" /\ Alone(d, all \cup {c})) =>
            /\ call[c].answer = "FORBIDDEN" => ~Befriended(c)
            /\ c \in directMessage => Befriended(c)

Naming == The("signIn") \cup The("claim")

(* Signing in works, and leaves the wallet that came with it, unless       *)
(* another sign-in or claim overlaps (user-service.ts:36, 70), but for one *)
(* case: whoever is new with an email that is on somebody else's row is    *)
(* refused, each time (user.db.ts:11).  A claim whose name was free when   *)
(* it looked is refused only when another overlaps (profile.ts:129).       *)
SignInServes ==
    /\ \A c \in The("claim") : Alone(c, Naming) => call[c].answer # "CONFLICT"
    /\ \A c \in The("signIn") : Alone(c, Naming) =>
        LET p == call[c].op.person  wallet == call[c].op.wallet IN
        /\ call[c].answer = "UNAUTHORIZED" =>
             \E q \in DOMAIN users : q # p /\ users[q].email = call[c].op.email
        /\ call[c].answer = "ok" => p \in DOMAIN users
        /\ call[c].answer = "ok" /\ wallet # Null =>
             \/ users[p].wallet = wallet
             \/ \E d \in The("signIn") : d > c /\ call[d].op.person = p

Claims(label) == {c \in The("claim") : call[c].op.label = label}

(* An ENS name on a profile resolves to a wallet that its person had,      *)
(* unless somebody else has claimed the label since the person did, or at  *)
(* the same time: the registry is written before the unique username, and  *)
(* a mint that failed leaves the name of an earlier claim on the profile   *)
(* (profile.ts:113, 120).                                                  *)
NamesResolve ==
    \A p \in DOMAIN users : users[p].ensName # Null =>
        LET label == users[p].ensName
            rivals == {d \in Claims(label) : Me(d) # p} IN
        /\ label \in DOMAIN ens
        /\ \/ \E c \in The("signIn") : Me(c) = p /\ call[c].op.wallet = ens[label]
           \/ \E c \in Claims(label) \ rivals, d \in rivals : c < d \/ Overlap(c, d)
=============================================================================
