--------------------------------- MODULE People -------------------------------
(***************************************************************************)
(* People: their first sign-in (auth/user-service.ts), friends             *)
(* (services/friend-service.ts), the lines they send each other            *)
(* (services/chat-service.ts) and the jams they like (routers/apps.ts).    *)
(***************************************************************************)
EXTENDS RateLimiter

CONSTANTS
    Reserved,       \* the suffixes that make a reserved label of the base
    PerSenderChat, PerPairChat

VARIABLES
    users,          \* person (a dynamicUserId) -> the email, the suffix of the
                    \* username, the wallet, the ENS name and the last top-up
    friendship,     \* canonical pairs
    directMessage,  \* the calls whose line is in a thread
    appLike         \* who likes the jam

(* The ids of people are compared.                                         *)
ASSUME PeopleAssumption ==
    /\ \A op \in Ops : op.name \in {"addFriend", "removeFriend", "chat"} =>
          op.from \in Int /\ op.to \in Int
    /\ PerSenderChat \in Nat \ {0} /\ PerPairChat \in Nat \ {0}

peopleVars == <<limiterVars, users, friendship, directMessage, appLike>>

PeopleInit ==
    users = <<>> /\ friendship = {} /\ directMessage = {} /\ appLike = {}

(* The next candidate, passing over the reserved labels.                   *)
NextLabel(n) ==
    CHOOSE m \in n .. n + Cardinality(Reserved) :
        m \notin Reserved /\ \A k \in n .. m - 1 : k \in Reserved

(* upsertUserFromClaims: known, known with another wallet, or new.  The    *)
(* email of somebody known is not looked at.                               *)
SignInLooks(c) ==
    /\ At(c, "signIn", "begin")
    /\ LET p == call[c].op.person IN
       \/ /\ p \in DOMAIN users
          /\ call[c].op.wallet \in {Null, users[p].wallet} /\ Returns(c, "ok")
       \/ /\ p \in DOMAIN users
          /\ call[c].op.wallet \notin {Null, users[p].wallet}
          /\ Awaits(c, "wallet", Null)
       \/ p \notin DOMAIN users /\ Awaits(c, "username", NextLabel(0))
    /\ UNCHANGED peopleVars

SignInSetsWallet(c) ==
    /\ At(c, "signIn", "wallet") /\ Returns(c, "ok")
    /\ users' = [users EXCEPT ![call[c].op.person].wallet = call[c].op.wallet]
    /\ UNCHANGED <<limiterVars, friendship, directMessage, appLike>>

Taken(n) == \E p \in DOMAIN users : users[p].suffix = n

(* A username that is taken without a look at who has it.                  *)
SignInAssumesFree(c) ==
    /\ At(c, "signIn", "username") /\ Awaits(c, "row", call[c].saw)
    /\ UNCHANGED peopleVars

(* deriveUniqueUsername: one candidate, one await.                         *)
SignInDerives(c) ==
    /\ At(c, "signIn", "username")
    /\ LET n == call[c].saw IN
       IF Taken(n) THEN Awaits(c, "username", NextLabel(n + 1)) ELSE Awaits(c, "row", n)
    /\ UNCHANGED peopleVars

EmailKnown(c) == \E p \in DOMAIN users : users[p].email = call[c].op.email

(* The insert: dynamicUserId, username and email are unique, and nobody    *)
(* has looked for the email.  requireAuth answers any error like this one. *)
SignInAdds(c) ==
    /\ At(c, "signIn", "row")
    /\ LET p == call[c].op.person
           refused == p \in DOMAIN users \/ Taken(call[c].saw) \/ EmailKnown(c) IN
       \/ refused /\ Returns(c, "UNAUTHORIZED") /\ UNCHANGED users
       \/ /\ ~refused /\ Returns(c, "ok")
          /\ users' = [q \in DOMAIN users \cup {p} |->
                IF q = p THEN [email |-> call[c].op.email, suffix |-> call[c].saw,
                               wallet |-> call[c].op.wallet,
                               ensName |-> Null, lastTopupAt |-> Null]
                ELSE users[q]]
    /\ UNCHANGED <<limiterVars, friendship, directMessage, appLike>>

-----------------------------------------------------------------------------
(* The pair as it is asked for.                                            *)
PairAsGiven(me, other) == <<me, other>>

canonicalPair(me, other) == IF me < other THEN <<me, other>> ELSE <<other, me>>

Pair(c) == canonicalPair(call[c].op.from, call[c].op.to)

AddFriend(c) ==
    /\ At(c, "addFriend", "begin") /\ Returns(c, "ok")
    /\ friendship' = friendship \cup {Pair(c)}
    /\ UNCHANGED <<limiterVars, users, directMessage, appLike>>

RemoveFriend(c) ==
    /\ At(c, "removeFriend", "begin") /\ Returns(c, "ok")
    /\ friendship' = friendship \ {Pair(c)}
    /\ UNCHANGED <<limiterVars, users, directMessage, appLike>>

ChatLimits(c) ==
    <<[key |-> <<"chat", call[c].op.from>>, max |-> PerSenderChat],
      [key |-> <<"chatPair", call[c].op.from, call[c].op.to>>, max |-> PerPairChat]>>

(* What follows the limits: a request has a sum that may be refused, and a *)
(* jam that is shared must be there.  The limits are spent all the same.   *)
ChatGoesOn(c) ==
    CASE call[c].op.kind = "bad request" -> Returns(c, "BAD_REQUEST")
      [] call[c].op.kind = "jam" -> Awaits(c, "jam", Null)
      [] OTHER -> Awaits(c, "row", Null)

(* assertFriend, and then checkRate.                                       *)
ChatAsks(c) ==
    /\ At(c, "chat", "begin")
    /\ \/ Pair(c) \notin friendship /\ Returns(c, "FORBIDDEN") /\ UNCHANGED limiterVars
       \/ /\ Pair(c) \in friendship /\ AsksFor(ChatLimits(c))
          /\ IF AllAllow(ChatLimits(c)) THEN ChatGoesOn(c) ELSE Returns(c, "RATE_LIMITED")
    /\ UNCHANGED <<users, friendship, directMessage, appLike>>

(* requireJam.                                                             *)
ChatFindsJam(c) ==
    /\ At(c, "chat", "jam")
    /\ Awaits(c, "row", Null) \/ Returns(c, "NOT_FOUND")
    /\ UNCHANGED peopleVars

ChatAdds(c) ==
    /\ At(c, "chat", "row") /\ Returns(c, "ok")
    /\ directMessage' = directMessage \cup {c}
    /\ UNCHANGED <<limiterVars, users, friendship, appLike>>

-----------------------------------------------------------------------------
LikeLooks(c) ==
    /\ At(c, "like", "begin")
    /\ Awaits(c, "toggle", call[c].op.by \in appLike)
    /\ UNCHANGED peopleVars

(* The total that is counted afterwards changes nothing.                   *)
LikeToggles(c) ==
    /\ At(c, "like", "toggle")
    /\ \/ /\ call[c].saw /\ Returns(c, "unliked")
          /\ appLike' = appLike \ {call[c].op.by}
       \/ /\ ~call[c].saw /\ Returns(c, "liked")
          /\ appLike' = appLike \cup {call[c].op.by}
    /\ UNCHANGED <<limiterVars, users, friendship, directMessage>>

PeopleStep(c) ==
    \/ SignInLooks(c) \/ SignInSetsWallet(c) \/ SignInDerives(c) \/ SignInAdds(c)
    \/ AddFriend(c) \/ RemoveFriend(c) \/ ChatAsks(c) \/ ChatFindsJam(c)
    \/ ChatAdds(c) \/ LikeLooks(c) \/ LikeToggles(c)
=============================================================================
