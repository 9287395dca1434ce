----------------------------- MODULE ServicesProofs -----------------------------
(***************************************************************************)
(* Theorems about the services, for every scenario of calls: any number of *)
(* them, in flight at once.                                                *)
(***************************************************************************)
EXTENDS ServicesProperties, FiniteSetTheorems, SequenceTheorems, TLAPS

(***************************************************************************)
(* Calls in flight.                                                        *)
(***************************************************************************)

CallFields == {"op", "at", "saw", "answer", "beside"}

IsSequence(s) == \E S : s \in Seq(S)

(* Calls are a sequence; each has an answer when it is over, and of two of *)
(* them the earlier was over, or in flight, when the later began.          *)
CallsInv ==
    /\ IsSequence(call)
    /\ \A c \in DOMAIN call :
          /\ DOMAIN call[c] = CallFields
          /\ call[c].answer = Null <=> call[c].at # "end"
          /\ call[c].at = "begin" => call[c].saw = Null
          /\ call[c].at = "model" => call[c].op.name \in {"aiChat", "refine"}
          /\ call[c].beside \subseteq DOMAIN call
    /\ \A c, d \in DOMAIN call :
          c < d => c \in call[d].beside \/ call[c].at = "end"

(* A call begins; what is asked of it is the scenario's.                   *)
Begins(n) ==
    /\ n \in Nat /\ \A c \in DOMAIN call : c < n
    /\ DOMAIN call' = DOMAIN call \cup {n}
    /\ \A c \in DOMAIN call : call'[c] = call[c]
    /\ call'[n].at = "begin" /\ call'[n].answer = Null
    /\ call'[n].saw = Null
    /\ DOMAIN call'[n] = CallFields
    /\ call'[n].beside = {c \in DOMAIN call : call[c].at # "end"}

(* A call that is not over goes on.                                        *)
GoesOn(c) ==
    /\ call[c].at # "end"
    /\ DOMAIN call' = DOMAIN call
    /\ \A d \in DOMAIN call : d # c => call'[d] = call[d]
    /\ DOMAIN call'[c] = CallFields
    /\ call'[c].op = call[c].op /\ call'[c].beside = call[c].beside

(* What Append does to a sequence, whatever it is a sequence of.            *)
LEMMA AppendsTo ==
    ASSUME NEW s, IsSequence(s), NEW e
    PROVE  /\ IsSequence(Append(s, e))
           /\ Len(s) \in Nat /\ DOMAIN s = 1 .. Len(s)
           /\ DOMAIN Append(s, e) = 1 .. Len(s) + 1
           /\ \A i \in DOMAIN s : Append(s, e)[i] = s[i]
           /\ Append(s, e)[Len(s) + 1] = e
<1>1. PICK S : s \in Seq(S)
  BY DEF IsSequence
<1> DEFINE T == S \cup {e}
<1>2. s \in Seq(T) /\ e \in T
  BY <1>1
<1> HIDE DEF T
<1>3. Append(s, e) \in Seq(T)
  BY <1>2
<1> QED BY <1>2, <1>3 DEF IsSequence

(* An element of a sequence is replaced.                                   *)
LEMMA SetsAt ==
    ASSUME NEW s, IsSequence(s), NEW i \in DOMAIN s, NEW e
    PROVE  /\ IsSequence([s EXCEPT ![i] = e])
           /\ DOMAIN [s EXCEPT ![i] = e] = DOMAIN s
<1>1. PICK S : s \in Seq(S)
  BY DEF IsSequence
<1> DEFINE T == S \cup {e}
<1>2. s \in Seq(T) /\ e \in T
  BY <1>1
<1> HIDE DEF T
<1>3. [s EXCEPT ![i] = e] \in Seq(T)
  BY <1>2
<1> QED BY <1>2, <1>3 DEF IsSequence

(* A request that arrives (an entry of the router) begins a call beside    *)
(* those that are under way.                                               *)
LEMMA ArrivesBegins ==
    ASSUME CallsInv, Arrives
    PROVE  CallsInv' /\ \E n : Begins(n)
<1>1. PICK op : call' = Append(call, Call(op))
  BY DEF Arrives
<1> DEFINE n == Len(call) + 1
           new == Call(op)
<1>2. /\ IsSequence(call')
      /\ Len(call) \in Nat /\ DOMAIN call = 1 .. Len(call)
      /\ DOMAIN call' = 1 .. Len(call) + 1
      /\ \A c \in DOMAIN call : call'[c] = call[c]
      /\ call'[n] = new
  <2>1. IsSequence(call)
    BY DEF CallsInv
  <2> HIDE DEF new
  <2>2. call' = Append(call, new)
    BY <1>1 DEF new
  <2> QED BY <2>1, <2>2, AppendsTo
<1>3. /\ DOMAIN new = CallFields /\ new.at = "begin" /\ new.saw = Null
      /\ new.answer = Null /\ new.beside = {c \in DOMAIN call : call[c].at # "end"}
  BY DEF Call, CallFields
<1> HIDE DEF new
<1>4. Begins(n)
  BY <1>2, <1>3 DEF Begins
<1>5. ASSUME NEW c \in DOMAIN call', NEW d \in DOMAIN call', c < d
      PROVE  c \in call'[d].beside \/ call'[c].at = "end"
  <2>1. c \in DOMAIN call
    BY <1>2, <1>5
  <2>2. CASE d = n
    BY <1>2, <1>3, <2>1, <2>2
  <2>3. CASE d # n
    <3>1. d \in DOMAIN call
      BY <1>2, <2>3
    <3> QED BY <1>2, <1>5, <2>1, <3>1 DEF CallsInv
  <2> QED BY <2>2, <2>3
<1>6. ASSUME NEW c \in DOMAIN call'
      PROVE  /\ DOMAIN call'[c] = CallFields
             /\ call'[c].answer = Null <=> call'[c].at # "end"
             /\ call'[c].at = "begin" => call'[c].saw = Null
             /\ call'[c].at = "model" => call'[c].op.name \in {"aiChat", "refine"}
             /\ call'[c].beside \subseteq DOMAIN call'
  <2>1. CASE c = n
    <3>1. "begin" # "end" /\ "begin" # "model"
      OBVIOUS
    <3>2. call'[c] = new /\ DOMAIN call \subseteq DOMAIN call'
      BY <1>2, <2>1
    <3> QED BY <1>3, <3>1, <3>2
  <2>2. CASE c # n
    <3>1. c \in DOMAIN call /\ DOMAIN call \subseteq DOMAIN call'
      BY <1>2, <2>2
    <3> QED BY <1>2, <3>1 DEF CallsInv
  <2> QED BY <2>1, <2>2
<1> QED BY <1>2, <1>4, <1>5, <1>6 DEF CallsInv

(* Where a call stands after it went on.                                   *)
Now(c, step, saw, answer) ==
    /\ CallsInv' /\ GoesOn(c)
    /\ call'[c].at = step /\ call'[c].saw = saw /\ call'[c].answer = answer

(* A call that is under way is given a place, data and an answer.          *)
LEMMA GoesTo ==
    ASSUME CallsInv, NEW c \in DOMAIN call, Running(c),
           NEW step, NEW saw, NEW answer,
           answer = Null <=> step # "end", step # "begin",
           step = "model" => call[c].op.name \in {"aiChat", "refine"},
           NEW new, DOMAIN new = CallFields,
           new.at = step, new.saw = saw, new.answer = answer,
           new.op = call[c].op, new.beside = call[c].beside,
           call' = [call EXCEPT ![c] = new]
    PROVE  Now(c, step, saw, answer)
<1>1. /\ IsSequence(call') /\ DOMAIN call' = DOMAIN call
  <2>1. IsSequence(call)
    BY DEF CallsInv
  <2> QED BY <2>1, SetsAt
<1>2. call'[c] = new /\ \A d \in DOMAIN call : d # c => call'[d] = call[d]
  OBVIOUS
<1>3. call[c].at # "end"
  BY DEF Running
<1>4. GoesOn(c)
  BY <1>1, <1>2, <1>3 DEF GoesOn
<1>5. ASSUME NEW a \in DOMAIN call', NEW b \in DOMAIN call', a < b
      PROVE  a \in call'[b].beside \/ call'[a].at = "end"
  <2>1. call'[b].beside = call[b].beside
    BY <1>1, <1>2
  <2>2. a \in call[b].beside \/ call[a].at = "end"
    BY <1>1, <1>5 DEF CallsInv
  <2> QED BY <1>1, <1>2, <1>3, <2>1, <2>2
<1>6. ASSUME NEW a \in DOMAIN call'
      PROVE  /\ DOMAIN call'[a] = CallFields
             /\ call'[a].answer = Null <=> call'[a].at # "end"
             /\ call'[a].at = "begin" => call'[a].saw = Null
             /\ call'[a].at = "model" => call'[a].op.name \in {"aiChat", "refine"}
             /\ call'[a].beside \subseteq DOMAIN call'
  <2>1. CASE a = c
    BY <1>1, <1>2, <2>1 DEF CallsInv
  <2>2. CASE a # c
    BY <1>1, <1>2, <2>2 DEF CallsInv
  <2> QED BY <2>1, <2>2
<1>7. CallsInv'
  BY <1>1, <1>5, <1>6 DEF CallsInv
<1> QED BY <1>2, <1>4, <1>7 DEF Now

(* A call that awaits its next statement has no answer yet.                *)
LEMMA AwaitsNow ==
    ASSUME CallsInv, NEW c \in DOMAIN call, Running(c),
           NEW step, NEW saw, step \notin {"begin", "end"},
           step = "model" => call[c].op.name \in {"aiChat", "refine"},
           Awaits(c, step, saw)
    PROVE  Now(c, step, saw, Null)
<1> DEFINE new == [call[c] EXCEPT !.at = step, !.saw = saw]
<1>1. DOMAIN call[c] = CallFields /\ call[c].answer = Null
  BY DEF CallsInv, Running
<1>2. /\ DOMAIN new = CallFields /\ new.at = step /\ new.saw = saw
      /\ new.answer = Null /\ new.op = call[c].op /\ new.beside = call[c].beside
  BY <1>1 DEF CallFields
<1>3. call' = [call EXCEPT ![c] = new]
  BY DEF Awaits
<1> HIDE DEF new
<1> QED BY <1>2, <1>3, GoesTo

(* A call that returns, or throws, keeps what it saw.                      *)
LEMMA ReturnsNow ==
    ASSUME CallsInv, NEW c \in DOMAIN call, Running(c),
           NEW answer \in Answers, Returns(c, answer)
    PROVE  Now(c, "end", call[c].saw, answer)
<1> DEFINE new == [call[c] EXCEPT !.at = "end", !.answer = answer]
<1>1. DOMAIN call[c] = CallFields /\ answer # Null
  BY CallsAssumption DEF CallsInv
<1>2. /\ DOMAIN new = CallFields /\ new.at = "end" /\ new.saw = call[c].saw
      /\ new.answer = answer /\ new.op = call[c].op /\ new.beside = call[c].beside
  BY <1>1 DEF CallFields
<1>3. call' = [call EXCEPT ![c] = new]
  BY DEF Returns
<1> HIDE DEF new
<1>4. "end" # "begin" /\ "end" # "model"
  OBVIOUS
<1> QED BY <1>1, <1>2, <1>3, <1>4, GoesTo

(* A listing that is complete.                                             *)
LEMMA FindsNow ==
    ASSUME CallsInv, NEW c \in DOMAIN call, Running(c), NEW saw, Finds(c, saw)
    PROVE  Now(c, "end", saw, "ok")
<1> DEFINE new == [call[c] EXCEPT !.at = "end", !.saw = saw, !.answer = "ok"]
<1>1. DOMAIN call[c] = CallFields /\ "ok" # Null
  BY CallsAssumption DEF CallsInv, Answers
<1>2. /\ DOMAIN new = CallFields /\ new.at = "end" /\ new.saw = saw
      /\ new.answer = "ok" /\ new.op = call[c].op /\ new.beside = call[c].beside
  BY <1>1 DEF CallFields
<1>3. call' = [call EXCEPT ![c] = new]
  BY DEF Finds
<1> HIDE DEF new
<1>4. "end" # "begin" /\ "end" # "model"
  OBVIOUS
<1> QED BY <1>1, <1>2, <1>3, <1>4, GoesTo

WentOn(c) == CallsInv' /\ GoesOn(c)

(* The calls that have a quota go on, one at a time.                       *)
LEMMA MeteredGoesOn ==
    ASSUME CallsInv, NEW c \in DOMAIN call, MeteredStep(c)
    PROVE  WentOn(c)
<1>1. ASSUME Running(c), NEW step, NEW saw, step \notin {"begin", "end"},
             step = "model" => call[c].op.name \in {"aiChat", "refine"},
             Awaits(c, step, saw)
      PROVE  WentOn(c)
  BY <1>1, AwaitsNow DEF Now, WentOn
<1>2. ASSUME Running(c), NEW answer \in Answers, Returns(c, answer)
      PROVE  WentOn(c)
  BY <1>2, ReturnsNow DEF Now, WentOn
<1>3. CASE ChatBegins(c)
  BY <1>1, <1>2, <1>3 DEF ChatBegins, Meters, At, IsA, Running, Answers
<1>4. CASE RefineBegins(c)
  BY <1>1, <1>2, <1>4 DEF RefineBegins, Meters, At, IsA, Running, Answers
<1>5. CASE RefineGathers(c)
  BY <1>1, <1>2, <1>5 DEF RefineGathers, At, IsA, Running, Answers
<1>6. CASE ModelAnswers(c)
  BY <1>1, <1>2, <1>6 DEF ModelAnswers, At, IsA, Running, Answers
<1>7. CASE ModelFails(c)
  BY <1>1, <1>2, <1>7 DEF ModelFails, At, IsA, Running, Answers
<1> QED BY <1>3, <1>4, <1>5, <1>6, <1>7 DEF MeteredStep

(* The calls of app data go on, one at a time.                             *)
LEMMA AppDataGoesOn ==
    ASSUME CallsInv, NEW c \in DOMAIN call, AppDataStep(c)
    PROVE  WentOn(c)
<1>1. ASSUME Running(c), NEW step, NEW saw, step \notin {"begin", "end"},
             step = "model" => call[c].op.name \in {"aiChat", "refine"},
             Awaits(c, step, saw)
      PROVE  WentOn(c)
  BY <1>1, AwaitsNow DEF Now, WentOn
<1>2. ASSUME Running(c), NEW answer \in Answers, Returns(c, answer)
      PROVE  WentOn(c)
  BY <1>2, ReturnsNow DEF Now, WentOn
<1>3. CASE InsertCounts(c)
  BY <1>1, <1>2, <1>3 DEF InsertCounts, At, IsA, Running, Answers
<1>4. CASE InsertAdds(c)
  BY <1>1, <1>2, <1>4 DEF InsertAdds, At, IsA, Running, Answers
<1>5. CASE UpdateReads(c)
  BY <1>1, <1>2, <1>5 DEF UpdateReads, ReadsOwn, At, IsA, Running, Answers
<1>6. CASE UpdateWrites(c)
  BY <1>1, <1>2, <1>6 DEF UpdateWrites, At, IsA, Running, Answers
<1>7. CASE DeleteReads(c)
  BY <1>1, <1>2, <1>7 DEF DeleteReads, ReadsOwn, At, IsA, Running, Answers
<1>8. CASE DeleteWrites(c)
  BY <1>1, <1>2, <1>8 DEF DeleteWrites, At, IsA, Running, Answers
<1>9. CASE ListPages(c)
  BY <1>1, <1>2, <1>9, FindsNow DEF ListPages, At, IsA, Running, Answers, Now, WentOn
<1>10. CASE SetLooks(c)
  BY <1>1, <1>2, <1>10 DEF SetLooks, At, IsA, Running, Answers
<1>11. CASE SetCounts(c)
  BY <1>1, <1>2, <1>11 DEF SetCounts, At, IsA, Running, Answers
<1>12. CASE SetUpserts(c)
  BY <1>1, <1>2, <1>12 DEF SetUpserts, At, IsA, Running, Answers
<1>13. CASE Unset(c)
  BY <1>1, <1>2, <1>13 DEF Unset, At, IsA, Running, Answers
<1>14. CASE Clear(c)
  BY <1>1, <1>2, <1>14 DEF Clear, At, IsA, Running, Answers
<1> QED BY <1>3, <1>4, <1>5, <1>6, <1>7, <1>8, <1>9, <1>10, <1>11, <1>12, <1>13, <1>14 DEF AppDataStep

(* The calls of the inbox go on, one at a time.                            *)
LEMMA InboxGoesOn ==
    ASSUME CallsInv, NEW c \in DOMAIN call, InboxStep(c)
    PROVE  WentOn(c)
<1>1. ASSUME Running(c), NEW step, NEW saw, step \notin {"begin", "end"},
             step = "model" => call[c].op.name \in {"aiChat", "refine"},
             Awaits(c, step, saw)
      PROVE  WentOn(c)
  BY <1>1, AwaitsNow DEF Now, WentOn
<1>2. ASSUME Running(c), NEW answer \in Answers, Returns(c, answer)
      PROVE  WentOn(c)
  BY <1>2, ReturnsNow DEF Now, WentOn
<1>3. CASE SendAsks(c)
  BY <1>1, <1>2, <1>3 DEF SendAsks, At, IsA, Running, Answers
<1>4. CASE SendAdds(c)
  BY <1>1, <1>2, <1>4 DEF SendAdds, At, IsA, Running, Answers
<1>5. CASE EvictionCounts(c)
  BY <1>1, <1>2, <1>5 DEF EvictionCounts, At, IsA, Running, Answers
<1>6. CASE EvictionChooses(c)
  BY <1>1, <1>2, <1>6 DEF EvictionChooses, Evicts, At, IsA, Running, Answers
<1>7. CASE EvictionDeletes(c)
  BY <1>1, <1>2, <1>7 DEF EvictionDeletes, Evicts, At, IsA, Running, Answers
<1>8. CASE MarkAllRead(c)
  BY <1>1, <1>2, <1>8 DEF MarkAllRead, At, IsA, Running, Answers
<1> QED BY <1>3, <1>4, <1>5, <1>6, <1>7, <1>8 DEF InboxStep

(* The calls of people go on, one at a time.                               *)
LEMMA PeopleGoesOn ==
    ASSUME CallsInv, NEW c \in DOMAIN call, PeopleStep(c)
    PROVE  WentOn(c)
<1>1. ASSUME Running(c), NEW step, NEW saw, step \notin {"begin", "end"},
             step = "model" => call[c].op.name \in {"aiChat", "refine"},
             Awaits(c, step, saw)
      PROVE  WentOn(c)
  BY <1>1, AwaitsNow DEF Now, WentOn
<1>2. ASSUME Running(c), NEW answer \in Answers, Returns(c, answer)
      PROVE  WentOn(c)
  BY <1>2, ReturnsNow DEF Now, WentOn
<1>3. CASE SignInLooks(c)
  BY <1>1, <1>2, <1>3 DEF SignInLooks, At, IsA, Running, Answers
<1>4. CASE SignInSetsWallet(c)
  BY <1>1, <1>2, <1>4 DEF SignInSetsWallet, At, IsA, Running, Answers
<1>5. CASE SignInDerives(c)
  BY <1>1, <1>2, <1>5 DEF SignInDerives, At, IsA, Running, Answers
<1>6. CASE SignInAdds(c)
  BY <1>1, <1>2, <1>6 DEF SignInAdds, At, IsA, Running, Answers
<1>7. CASE AddFriend(c)
  BY <1>1, <1>2, <1>7 DEF AddFriend, At, IsA, Running, Answers
<1>8. CASE RemoveFriend(c)
  BY <1>1, <1>2, <1>8 DEF RemoveFriend, At, IsA, Running, Answers
<1>9. CASE ChatAsks(c)
  BY <1>1, <1>2, <1>9 DEF ChatAsks, ChatGoesOn, At, IsA, Running, Answers
<1>10. CASE ChatFindsJam(c)
  BY <1>1, <1>2, <1>10 DEF ChatFindsJam, At, IsA, Running, Answers
<1>11. CASE ChatAdds(c)
  BY <1>1, <1>2, <1>11 DEF ChatAdds, At, IsA, Running, Answers
<1>12. CASE LikeLooks(c)
  BY <1>1, <1>2, <1>12 DEF LikeLooks, At, IsA, Running, Answers
<1>13. CASE LikeToggles(c)
  BY <1>1, <1>2, <1>13 DEF LikeToggles, At, IsA, Running, Answers
<1> QED BY <1>3, <1>4, <1>5, <1>6, <1>7, <1>8, <1>9, <1>10, <1>11, <1>12, <1>13 DEF PeopleStep

(* The calls of profiles go on, one at a time.                             *)
LEMMA ProfileGoesOn ==
    ASSUME CallsInv, NEW c \in DOMAIN call, ProfileStep(c)
    PROVE  WentOn(c)
<1>1. ASSUME Running(c), NEW step, NEW saw, step \notin {"begin", "end"},
             step = "model" => call[c].op.name \in {"aiChat", "refine"},
             Awaits(c, step, saw)
      PROVE  WentOn(c)
  BY <1>1, AwaitsNow DEF Now, WentOn
<1>2. ASSUME Running(c), NEW answer \in Answers, Returns(c, answer)
      PROVE  WentOn(c)
  BY <1>2, ReturnsNow DEF Now, WentOn
<1>3. CASE ClaimBegins(c)
  BY <1>1, <1>2, <1>3 DEF ClaimBegins, At, IsA, Running, Answers
<1>4. CASE ClaimLooks(c)
  BY <1>1, <1>2, <1>4 DEF ClaimLooks, At, IsA, Running, Answers
<1>5. CASE ClaimMints(c)
  BY <1>1, <1>2, <1>5 DEF ClaimMints, At, IsA, Running, Answers
<1>6. CASE ClaimWrites(c)
  BY <1>1, <1>2, <1>6 DEF ClaimWrites, At, IsA, Running, Answers
<1>7. CASE TopupLooks(c)
  BY <1>1, <1>2, <1>7 DEF TopupLooks, At, IsA, Running, Answers
<1>8. CASE TopupPays(c)
  BY <1>1, <1>2, <1>8 DEF TopupPays, Throws, At, IsA, Running, Answers
<1>9. CASE TopupWrites(c)
  BY <1>1, <1>2, <1>9 DEF TopupWrites, At, IsA, Running, Answers
<1> QED BY <1>3, <1>4, <1>5, <1>6, <1>7, <1>8, <1>9 DEF ProfileStep

(* The calls of the game go on, one at a time.                             *)
LEMMA GameGoesOn ==
    ASSUME CallsInv, NEW c \in DOMAIN call, GameStep(c)
    PROVE  WentOn(c)
<1>1. ASSUME Running(c), NEW step, NEW saw, step \notin {"begin", "end"},
             step = "model" => call[c].op.name \in {"aiChat", "refine"},
             Awaits(c, step, saw)
      PROVE  WentOn(c)
  BY <1>1, AwaitsNow DEF Now, WentOn
<1>2. ASSUME Running(c), NEW answer \in Answers, Returns(c, answer)
      PROVE  WentOn(c)
  BY <1>2, ReturnsNow DEF Now, WentOn
<1>3. CASE MoveIsSent(c)
  BY <1>1, <1>2, <1>3 DEF MoveIsSent, At, IsA, Running, Answers
<1>4. CASE MoveIsMined(c)
  BY <1>1, <1>2, <1>4 DEF MoveIsMined, Throws, At, IsA, Running, Answers
<1>5. CASE ResetIsSent(c)
  BY <1>1, <1>2, <1>5 DEF ResetIsSent, At, IsA, Running, Answers
<1>6. CASE ResetIsMined(c)
  BY <1>1, <1>2, <1>6 DEF ResetIsMined, Throws, At, IsA, Running, Answers
<1> QED BY <1>3, <1>4, <1>5, <1>6 DEF GameStep

(* Every statement moves the one call it is of.                            *)
LEMMA CallGoesOn ==
    ASSUME CallsInv, NEW c \in DOMAIN call, CallStep(c)
    PROVE  WentOn(c)
<1>1. ASSUME Fails(c)
      PROVE  WentOn(c)
  BY <1>1, ReturnsNow DEF Fails, Throws, Now, WentOn, Answers
<1> QED BY <1>1, MeteredGoesOn, AppDataGoesOn, InboxGoesOn, PeopleGoesOn, ProfileGoesOn,
           GameGoesOn DEF CallStep

(* What a step is: a request arrives, time passes, or a statement runs.    *)
LEMMA NextCases ==
    ASSUME Next
    PROVE  \/ Arrives /\ UNCHANGED <<limiterVars, meteredOwn, appDataVars, inbox,
                                     peopleOwn, gameVars>>
           \/ Ticks /\ UNCHANGED <<callVars, meteredOwn, appDataVars, inbox,
                                   peopleOwn, gameVars>>
           \/ \E c \in DOMAIN call : CallStep(c)
BY DEF Next

(* Calls in flight are as CallsInv says, and what they are asked is the    *)
(* scenario's.                                                             *)
OpsInv ==
    /\ todo \in Seq(Seq(Ops))
    /\ \A c \in DOMAIN call : call[c].op \in Ops

(* Calls in flight are as CallsInv says, always.                           *)
LEMMA CallsInvariant == Spec => []CallsInv
<1>1. Init => CallsInv
  <2> SUFFICES ASSUME Init
               PROVE  CallsInv
    OBVIOUS
  <2>1. call = <<>> /\ <<>> \in Seq({})
    BY EmptySeq DEF Init, CallsInit
  <2>2. DOMAIN call = {}
    BY <2>1
  <2>3. IsSequence(call)
    BY <2>1 DEF IsSequence
  <2> QED BY <2>2, <2>3 DEF CallsInv
<1>2. CallsInv /\ [Next]_vars => CallsInv'
  <2> SUFFICES ASSUME CallsInv, [Next]_vars
               PROVE  CallsInv'
    OBVIOUS
  <2>1. CASE Arrives
    BY <2>1, ArrivesBegins
  <2>2. CASE call' = call
    BY <2>2 DEF CallsInv
  <2>3. ASSUME NEW c \in DOMAIN call, CallStep(c)
        PROVE  CallsInv'
    BY <2>3, CallGoesOn DEF WentOn
  <2> QED BY <2>1, <2>2, <2>3, NextCases DEF vars, callVars
<1> QED BY <1>1, <1>2, PTL DEF Spec

(* A request of the scenario is taken from it.                             *)
LEMMA TakesFrom ==
    ASSUME NEW S, NEW t \in Seq(Seq(S)), NEW n \in DOMAIN t, NEW i \in DOMAIN t[n]
    PROVE  /\ t[n][i] \in S
           /\ LET rest == SubSeq(t[n], 1, i - 1) \o SubSeq(t[n], i + 1, Len(t[n])) IN
              <<rest>> \o SubSeq(t, n + 1, Len(t)) \in Seq(Seq(S))
<1>1. n \in 1 .. Len(t) /\ t[n] \in Seq(S) /\ Len(t) \in Nat
  BY LenProperties, ElementOfSeq
<1>2. i \in 1 .. Len(t[n]) /\ Len(t[n]) \in Nat
  BY <1>1, LenProperties
<1>3. \A j \in 1 .. Len(t[n]) : t[n][j] \in S
  BY <1>1, ElementOfSeq
<1>4. \A j \in 1 .. Len(t) : t[j] \in Seq(S)
  BY ElementOfSeq
<1>5. SubSeq(t[n], 1, i - 1) \in Seq(S)
  BY <1>2, <1>3, SubSeqProperties
<1>6. SubSeq(t[n], i + 1, Len(t[n])) \in Seq(S)
  BY <1>2, <1>3, SubSeqProperties
<1>7. SubSeq(t[n], 1, i - 1) \o SubSeq(t[n], i + 1, Len(t[n])) \in Seq(S)
  BY <1>5, <1>6, ConcatProperties
<1>8. SubSeq(t, n + 1, Len(t)) \in Seq(Seq(S))
  BY <1>1, <1>4, SubSeqProperties
<1>9. \A r \in Seq(S) : <<r>> \o SubSeq(t, n + 1, Len(t)) \in Seq(Seq(S))
  BY <1>8, ConcatProperties
<1> QED BY <1>2, <1>3, <1>7, <1>9

(* The calls that are made are those of a scenario, always.                *)
LEMMA OpsInvariant == Spec => []OpsInv
<1>1. Init => OpsInv
  <2> SUFFICES ASSUME Init
               PROVE  OpsInv
    OBVIOUS
  <2>1. PICK scenario \in Scenarios : CallsInit(scenario)
    BY DEF Init
  <2>2. call = <<>> /\ todo = scenario.rounds
    BY <2>1 DEF CallsInit
  <2> QED BY <2>2, CallsAssumption DEF OpsInv
<1>2. CallsInv /\ OpsInv /\ [Next]_vars => OpsInv'
  <2> SUFFICES ASSUME CallsInv, OpsInv, [Next]_vars
               PROVE  OpsInv'
    OBVIOUS
  <2>1. CASE Arrives
    <3>1. PICK n \in DOMAIN todo : \E i \in DOMAIN todo[n] :
            /\ call' = Append(call, Call(todo[n][i]))
            /\ LET rest == SubSeq(todo[n], 1, i - 1) \o SubSeq(todo[n], i + 1, Len(todo[n])) IN
               todo' = <<rest>> \o SubSeq(todo, n + 1, Len(todo))
      BY <2>1 DEF Arrives
    <3>2. PICK i \in DOMAIN todo[n] :
            /\ call' = Append(call, Call(todo[n][i]))
            /\ LET rest == SubSeq(todo[n], 1, i - 1) \o SubSeq(todo[n], i + 1, Len(todo[n])) IN
               todo' = <<rest>> \o SubSeq(todo, n + 1, Len(todo))
      BY <3>1
    <3>3. todo[n][i] \in Ops /\ todo' \in Seq(Seq(Ops))
      BY <3>2, TakesFrom DEF OpsInv
    <3> DEFINE new == Call(todo[n][i])
    <3>4. new.op \in Ops
      BY <3>3 DEF Call
    <3> HIDE DEF new
    <3>5. \A c \in DOMAIN call' : call'[c] = new \/ (c \in DOMAIN call /\ call'[c] = call[c])
      <4>1. IsSequence(call)
        BY DEF CallsInv
      <4>2. call' = Append(call, new)
        BY <3>2 DEF new
      <4> QED BY <4>1, <4>2, AppendsTo
    <3> QED BY <3>3, <3>4, <3>5 DEF OpsInv
  <2>2. CASE call' = call /\ todo' = todo
    BY <2>2 DEF OpsInv
  <2>3. ASSUME NEW c \in DOMAIN call, CallStep(c)
        PROVE  OpsInv'
    <3>1. GoesOn(c)
      BY <2>3, CallGoesOn DEF WentOn
    <3>2. todo' = todo
      BY <2>3 DEF CallStep, Fails, Throws, MeteredStep, AppDataStep, InboxStep,
         PeopleStep, ProfileStep, GameStep, ChatBegins, RefineBegins, RefineGathers,
         Meters, ModelAnswers, ModelFails, InsertCounts, InsertAdds, UpdateReads,
         UpdateWrites, DeleteReads, DeleteWrites, ReadsOwn, ListPages, SetLooks,
         SetCounts, SetUpserts, Unset, Clear, SendAsks, SendAdds, EvictionCounts,
         EvictionChooses, EvictionDeletes, Evicts, MarkAllRead, SignInLooks,
         SignInSetsWallet, SignInDerives, SignInAdds, AddFriend, RemoveFriend,
         ChatAsks, ChatGoesOn, ChatFindsJam, ChatAdds, LikeLooks, LikeToggles,
         ClaimBegins, ClaimLooks, ClaimMints, ClaimWrites, TopupLooks, TopupPays,
         TopupWrites, MoveIsSent, MoveIsMined, ResetIsSent, ResetIsMined,
         Awaits, Returns, Finds
    <3> QED BY <3>1, <3>2 DEF OpsInv, GoesOn
  <2> QED BY <2>1, <2>2, <2>3, NextCases DEF vars, callVars
<1> QED BY <1>1, <1>2, CallsInvariant, PTL DEF Spec

(* What a call was asked, and what it was beside, are never changed.       *)
OpsStay ==
    \A c \in DOMAIN call :
        c \in DOMAIN call' /\ call'[c].op = call[c].op /\ call'[c].beside = call[c].beside

(* Two calls that are under way overlap, and so does a call with a later   *)
(* one that began before it was over.                                      *)
LEMMA RunningOverlap ==
    ASSUME CallsInv, NEW c \in DOMAIN call, NEW d \in DOMAIN call, c # d, Running(c),
           Running(d) \/ c < d
    PROVE  Overlap(c, d)
<1>1. c \in Int /\ d \in Int
  <2>1. PICK S : call \in Seq(S)
    BY DEF CallsInv, IsSequence
  <2> QED BY <2>1
<1> QED BY <1>1 DEF CallsInv, Running, Overlap

(* The case that every proof about the services splits its step into.      *)
LEMMA StepCases ==
    ASSUME CallsInv, [Next]_vars
    PROVE  /\ CallsInv' /\ OpsStay
           /\ \/ UNCHANGED <<call, faulty, daily, windows, verdicts, meteredOwn,
                             appDataVars, inbox, peopleOwn, gameVars>>
                 /\ (now' = now \/ (now < horizon /\ now' = now + 1))
              \/ \E n : Begins(n) /\ UNCHANGED <<limiterVars, meteredOwn, appDataVars,
                                                 inbox, peopleOwn, gameVars>>
              \/ \E c \in DOMAIN call : CallStep(c) /\ GoesOn(c)
<1>1. CASE Arrives /\ UNCHANGED <<limiterVars, meteredOwn, appDataVars, inbox, peopleOwn,
                                  gameVars>>
  <2>1. CallsInv' /\ \E n : Begins(n)
    BY <1>1, ArrivesBegins
  <2>2. PICK n : Begins(n)
    BY <2>1
  <2>3. OpsStay
    BY <2>2 DEF Begins, OpsStay
  <2> QED BY <1>1, <2>1, <2>2, <2>3
<1>2. CASE Ticks /\ UNCHANGED <<callVars, meteredOwn, appDataVars, inbox, peopleOwn, gameVars>>
  BY <1>2 DEF Ticks, callVars, OpsStay, CallsInv
<1>3. CASE UNCHANGED vars
  BY <1>3 DEF vars, callVars, limiterVars, OpsStay, CallsInv
<1>4. ASSUME NEW c \in DOMAIN call, CallStep(c)
      PROVE  CallsInv' /\ OpsStay /\ CallStep(c) /\ GoesOn(c)
  <2>1. CallsInv' /\ GoesOn(c)
    BY <1>4, CallGoesOn DEF WentOn
  <2> QED BY <1>4, <2>1 DEF GoesOn, OpsStay
<1> QED BY <1>1, <1>2, <1>3, <1>4, NextCases

(***************************************************************************)
(* Sign-ins and claims.                                                    *)
(***************************************************************************)

UserFields == {"email", "suffix", "wallet", "ensName", "lastTopupAt"}

Person(c) == call[c].op.person

(* Somebody who signs in later may bring another wallet.                   *)
WalletStays(c) ==
    (call[c].answer = "ok" /\ call[c].op.wallet # Null) =>
        \/ users[Person(c)].wallet = call[c].op.wallet
        \/ \E d \in The("signIn") : d > c /\ Person(d) = Person(c)

(* Somebody else has the email that came with it.                          *)
EmailOfAnother(c) ==
    \E q \in DOMAIN users : q # Person(c) /\ users[q].email = call[c].op.email

(* What nobody has taken meanwhile is still free.                          *)
StillFree(c) ==
    /\ IsA("claim", c) =>
        /\ call[c].at \in {"mint", "row"} => ~TakenByAnother(c)
        /\ call[c].answer # "CONFLICT"
    /\ IsA("signIn", c) =>
        /\ call[c].at \in {"username", "row"} => Person(c) \notin DOMAIN users
        /\ call[c].at = "row" => ~Taken(call[c].saw)
        /\ call[c].answer = "UNAUTHORIZED" => EmailOfAnother(c)
        /\ WalletStays(c)

SignedIn(c) ==
    IsA("signIn", c) /\ (call[c].at = "wallet" \/ call[c].answer = "ok") =>
        Person(c) \in DOMAIN users

SignInInv ==
    /\ \A p \in DOMAIN users : DOMAIN users[p] = UserFields
    /\ \A c \in DOMAIN call : SignedIn(c) /\ (Alone(c, Naming) => StillFree(c))

SignInChanges(d) ==
    \/ SignInSetsWallet(d) \/ SignInAdds(d) \/ ClaimWrites(d) \/ TopupWrites(d)

(* Only these write the users table.                                       *)
LEMMA WritesUsers ==
    ASSUME NEW d \in DOMAIN call, CallStep(d)
    PROVE  users' = users \/ SignInChanges(d)
BY DEF CallStep, MeteredStep, AppDataStep, InboxStep, PeopleStep, ProfileStep, GameStep,
   Fails, Throws, ChatBegins, RefineBegins, RefineGathers, ModelAnswers, ModelFails,
   InsertCounts, InsertAdds, UpdateReads, UpdateWrites, DeleteReads, DeleteWrites,
   ListPages, SetLooks, SetCounts, SetUpserts, Unset, Clear, SendAsks, SendAdds,
   EvictionCounts, EvictionChooses, EvictionDeletes, MarkAllRead, SignInLooks,
   SignInDerives, AddFriend, RemoveFriend, ChatAsks, ChatFindsJam, ChatAdds, LikeLooks,
   LikeToggles, ClaimBegins, ClaimLooks, ClaimMints, TopupLooks, TopupPays,
   MoveIsSent, MoveIsMined, ResetIsSent, ResetIsMined,
   peopleOwn, peopleVars, profileVars, SignInChanges

(* What a sign-in and a claim may do next.                                 *)
LEMMA NamingSteps ==
    ASSUME CallsInv, NEW d \in DOMAIN call, CallStep(d), d \in Naming
    PROVE  \/ Fails(d)
           \/ IsA("signIn", d) /\ (SignInLooks(d) \/ SignInSetsWallet(d) \/ SignInDerives(d)
                                    \/ SignInAdds(d))
           \/ IsA("claim", d) /\ (ClaimBegins(d) \/ ClaimLooks(d) \/ ClaimMints(d)
                                    \/ ClaimWrites(d))
<1>1. call[d].op.name \in {"signIn", "claim"}
  BY DEF Naming, The, IsA
<1>2. call[d].at # "model"
  BY <1>1 DEF CallsInv
<1> QED BY <1>1, <1>2 DEF CallStep, MeteredStep, AppDataStep, InboxStep, PeopleStep,
        ProfileStep, GameStep, At, IsA, ChatBegins, RefineBegins, RefineGathers,
        ModelAnswers, ModelFails, InsertCounts, InsertAdds, UpdateReads, UpdateWrites,
        DeleteReads, DeleteWrites, ListPages, SetLooks, SetCounts, SetUpserts, Unset,
        Clear, SendAsks, SendAdds, EvictionCounts, EvictionChooses, EvictionDeletes,
        MarkAllRead, SignInLooks, SignInSetsWallet, SignInDerives, SignInAdds, AddFriend,
        RemoveFriend, ChatAsks, ChatFindsJam, ChatAdds, LikeLooks, LikeToggles,
        ClaimBegins, ClaimLooks, ClaimMints, ClaimWrites, TopupLooks, TopupPays,
        TopupWrites, MoveIsSent, MoveIsMined, ResetIsSent, ResetIsMined

(* Steps only add calls that overlap.                                      *)
LEMMA AloneBefore ==
    ASSUME OpsStay, NEW c \in DOMAIN call, Alone(c, Naming)'
    PROVE  Alone(c, Naming)
BY DEF OpsStay, Alone, Naming, The, IsA, Overlap

(* The users table of a step, for the calls that do not make it.           *)
LEMMA OthersSignIn ==
    ASSUME CallsInv, SignInInv, OpsStay, NEW d \in DOMAIN call, CallStep(d), GoesOn(d),
           NEW c \in DOMAIN call, c # d
    PROVE  SignedIn(c)' /\ (Alone(c, Naming)' => StillFree(c)')
<1>1. call'[c] = call[c]
  BY DEF GoesOn
<1>2. CASE users' = users
  <2>1. SignedIn(c)'
    BY <1>1, <1>2 DEF SignInInv, SignedIn, IsA, Person
  <2>2. ASSUME Alone(c, Naming)'
        PROVE  StillFree(c)'
    <3>1. StillFree(c)
      BY <2>2, AloneBefore DEF SignInInv
    <3> QED BY <1>1, <1>2, <3>1 DEF StillFree, WalletStays, EmailOfAnother, TakenByAnother, Taken, IsA,
            Person, Me, The, OpsStay
  <2> QED BY <2>1, <2>2
<1>3. CASE SignInChanges(d)
  <2>1. /\ DOMAIN users \subseteq DOMAIN users'
        /\ \A p \in DOMAIN users : users'[p].wallet = users[p].wallet
              \/ (SignInSetsWallet(d) /\ p = Person(d))
        /\ \A p \in DOMAIN users : users'[p].email = users[p].email
    <3>1. CASE SignInSetsWallet(d)
      BY <3>1 DEF SignInSetsWallet, SignInInv, UserFields, Person
    <3>2. CASE SignInAdds(d)
      BY <3>2 DEF SignInAdds, Person
    <3>3. CASE ClaimWrites(d)
      BY <3>3 DEF ClaimWrites, SignInInv, UserFields
    <3>4. CASE TopupWrites(d)
      BY <3>4 DEF TopupWrites, SignInInv, UserFields
    <3> QED BY <1>3, <3>1, <3>2, <3>3, <3>4 DEF SignInChanges
  <2>2. SignedIn(c)'
    BY <1>1, <2>1 DEF SignInInv, SignedIn, IsA, Person
  <2>3. ASSUME Alone(c, Naming)'
        PROVE  StillFree(c)'
    <3>1. StillFree(c) /\ Alone(c, Naming)
      BY <2>3, AloneBefore DEF SignInInv
    <3>2. CASE TopupWrites(d)
      <4>1. /\ DOMAIN users' = DOMAIN users
            /\ \A p \in DOMAIN users : users'[p].wallet = users[p].wallet
                                        /\ users'[p].suffix = users[p].suffix
                                        /\ users'[p].email = users[p].email
        BY <3>2 DEF TopupWrites, SignInInv, UserFields
      <4>2. SignedIn(c)
        BY DEF SignInInv
      <4> QED BY <1>1, <3>1, <4>1, <4>2 DEF StillFree, SignedIn, WalletStays, EmailOfAnother,
              TakenByAnother, Taken, IsA, Person, Me, The, OpsStay
    <3>3. CASE d \in Naming
      <4>1. ~Overlap(c, d) /\ Running(d)
        BY <1>3, <3>1, <3>3 DEF Alone, GoesOn, Running
      <4>2. ~Running(c) /\ d > c
        <5>1. c \in Int /\ d \in Int
          BY DEF CallsInv, IsSequence
        <5>2. ~(d < c)
          BY <4>1, RunningOverlap DEF Overlap
        <5> QED BY <4>1, <5>1, <5>2, RunningOverlap
      <4>3. ASSUME IsA("signIn", c)
            PROVE  WalletStays(c)'
        <5> SUFFICES ASSUME call[c].answer = "ok", call[c].op.wallet # Null
                     PROVE  \/ users'[Person(c)].wallet = call[c].op.wallet
                            \/ \E e \in The("signIn")' : e > c /\ Person(e)' = Person(c)
          BY <1>1 DEF WalletStays, Person
        <5>1. Person(c) \in DOMAIN users
          BY <4>3 DEF SignInInv, SignedIn
        <5>2. CASE SignInSetsWallet(d) /\ Person(c) = Person(d)
          <6>1. d \in The("signIn")' /\ Person(d)' = Person(d)
            BY <5>2 DEF SignInSetsWallet, At, IsA, The, GoesOn, Person
          <6> QED BY <4>2, <5>2, <6>1
        <5>3. CASE \E e \in The("signIn") : e > c /\ Person(e) = Person(c)
          BY <5>3 DEF The, IsA, OpsStay, Person
        <5> QED BY <2>1, <3>1, <4>3, <5>1, <5>2, <5>3 DEF StillFree, WalletStays
      <4> QED BY <1>1, <3>1, <2>1, <4>2, <4>3 DEF StillFree, Running, IsA,
              EmailOfAnother, Person
    <3> QED BY <1>3, <3>2, <3>3 DEF SignInChanges, SignInSetsWallet, SignInAdds,
            ClaimWrites, Naming, The, At
  <2> QED BY <2>2, <2>3
<1> QED BY <1>2, <1>3, WritesUsers

(* A sign-in goes on.                                                      *)
LEMMA OwnSignIn ==
    ASSUME CallsInv, SignInInv, OpsStay, NEW d \in DOMAIN call, CallStep(d), GoesOn(d),
           IsA("signIn", d)
    PROVE  SignedIn(d)' /\ (Alone(d, Naming)' => StillFree(d)')
<1> DEFINE p == Person(d)
<1>1. call'[d].op = call[d].op /\ Running(d)
  BY DEF GoesOn, Running
<1>2. "ok" \in Answers /\ "UNAUTHORIZED" \in Answers /\ Null \notin Answers
  BY CallsAssumption DEF Answers
<1>3. Alone(d, Naming)' => StillFree(d)
  BY AloneBefore DEF SignInInv
<1>4. CASE Fails(d)
  <2>1. call'[d].at = "end" /\ call'[d].answer = "THROWN"
    BY <1>1, <1>4, ReturnsNow DEF Fails, Throws, Now, Answers
  <2> QED BY <1>1, <2>1 DEF SignedIn, StillFree, WalletStays, IsA
<1>5. CASE SignInLooks(d)
  <2>1. CASE p \in DOMAIN users /\ call[d].op.wallet \in {Null, users[p].wallet} /\ Returns(d, "ok")
    <3>1. call'[d].at = "end" /\ call'[d].answer = "ok" /\ users' = users
      BY <1>1, <1>2, <1>5, <2>1, ReturnsNow DEF SignInLooks, Now, peopleVars
    <3> QED BY <1>1, <2>1, <3>1 DEF SignedIn, StillFree, WalletStays, IsA, Person
  <2>2. CASE p \in DOMAIN users /\ Awaits(d, "wallet", Null)
    <3>1. call'[d].at = "wallet" /\ call'[d].answer = Null /\ users' = users
      BY <1>1, <1>5, <2>2, AwaitsNow DEF SignInLooks, Now, peopleVars
    <3> QED BY <1>1, <1>2, <2>2, <3>1 DEF SignedIn, StillFree, WalletStays, IsA, Person
  <2>3. CASE p \notin DOMAIN users /\ Awaits(d, "username", NextLabel(0))
    <3>1. call'[d].at = "username" /\ call'[d].answer = Null /\ users' = users
      BY <1>1, <1>5, <2>3, AwaitsNow DEF SignInLooks, Now, peopleVars
    <3> QED BY <1>1, <1>2, <2>3, <3>1 DEF SignedIn, StillFree, WalletStays, IsA, Person
  <2> QED BY <1>5, <2>1, <2>2, <2>3 DEF SignInLooks, Person
<1>6. CASE SignInSetsWallet(d)
  <2>1. call'[d].at = "end" /\ call'[d].answer = "ok"
    BY <1>1, <1>2, <1>6, ReturnsNow DEF SignInSetsWallet, Now
  <2>2. p \in DOMAIN users
    BY <1>6 DEF SignInSetsWallet, At, SignInInv, SignedIn, IsA
  <2>3. DOMAIN users' = DOMAIN users /\ users'[p].wallet = call[d].op.wallet
    BY <1>6, <2>2 DEF SignInSetsWallet, SignInInv, UserFields, Person
  <2> QED BY <1>1, <2>1, <2>2, <2>3 DEF SignedIn, StillFree, WalletStays, IsA, Person
<1>7. CASE SignInDerives(d)
  <2>1. users' = users /\ At(d, "signIn", "username")
    BY <1>7 DEF SignInDerives, peopleVars
  <2>2. CASE Taken(call[d].saw) /\ Awaits(d, "username", NextLabel(call[d].saw + 1))
    <3>1. call'[d].at = "username" /\ call'[d].answer = Null
      BY <1>1, <2>2, AwaitsNow DEF Now
    <3> QED BY <1>1, <1>2, <1>3, <2>1, <3>1 DEF SignedIn, StillFree, WalletStays, At, IsA,
            Person
  <2>3. CASE ~Taken(call[d].saw) /\ Awaits(d, "row", call[d].saw)
    <3>1. call'[d].at = "row" /\ call'[d].answer = Null /\ call'[d].saw = call[d].saw
      BY <1>1, <2>3, AwaitsNow DEF Now
    <3> QED BY <1>1, <1>2, <1>3, <2>1, <2>3, <3>1 DEF SignedIn, StillFree, WalletStays, At,
            IsA, Person, Taken
  <2> QED BY <1>7, <2>2, <2>3 DEF SignInDerives
<1>8. CASE SignInAdds(d)
  <2>1. At(d, "signIn", "row")
    BY <1>8 DEF SignInAdds
  <2>2. CASE /\ p \in DOMAIN users \/ Taken(call[d].saw) \/ EmailKnown(d)
             /\ Returns(d, "UNAUTHORIZED") /\ users' = users
    <3>1. call'[d].at = "end" /\ call'[d].answer = "UNAUTHORIZED"
      BY <1>1, <1>2, <2>2, ReturnsNow DEF Now
    <3>2. Alone(d, Naming)' => EmailOfAnother(d)
      BY <1>3, <2>1, <2>2 DEF StillFree, At, IsA, Person, EmailKnown, EmailOfAnother
    <3> QED BY <1>1, <2>2, <3>1, <3>2 DEF SignedIn, StillFree, WalletStays, IsA,
            EmailOfAnother, Person
  <2>3. CASE /\ Returns(d, "ok")
             /\ users' = [q \in DOMAIN users \cup {p} |->
                   IF q = p THEN [email |-> call[d].op.email, suffix |-> call[d].saw,
                                  wallet |-> call[d].op.wallet,
                                  ensName |-> Null, lastTopupAt |-> Null]
                   ELSE users[q]]
    <3>1. call'[d].at = "end" /\ call'[d].answer = "ok"
      BY <1>1, <1>2, <2>3, ReturnsNow DEF Now
    <3>2. p \in DOMAIN users' /\ users'[p].wallet = call[d].op.wallet
      BY <2>3
    <3> QED BY <1>1, <3>1, <3>2 DEF SignedIn, StillFree, WalletStays, IsA, Person
  <2> QED BY <1>8, <2>2, <2>3 DEF SignInAdds, Person
<1>9. d \in Naming /\ ~IsA("claim", d)
  BY DEF Naming, The, IsA
<1> QED BY <1>4, <1>5, <1>6, <1>7, <1>8, <1>9, NamingSteps

(* A claim goes on.                                                        *)
LEMMA OwnClaim ==
    ASSUME CallsInv, SignInInv, OpsStay, NEW d \in DOMAIN call, CallStep(d), GoesOn(d),
           IsA("claim", d)
    PROVE  SignedIn(d)' /\ (Alone(d, Naming)' => StillFree(d)')
<1>1. call'[d].op = call[d].op /\ Running(d) /\ d \in Naming /\ ~IsA("signIn", d)
  BY DEF GoesOn, Running, Naming, The, IsA
<1>2. "ok" # "CONFLICT" /\ {"ok", "CONFLICT", "TAKEN", "BAD_REQUEST", "THROWN"} \subseteq Answers
      /\ Null \notin Answers
  BY CallsAssumption DEF Answers
<1>3. Alone(d, Naming)' => StillFree(d)
  BY AloneBefore DEF SignInInv
<1>4. SignedIn(d)'
  BY <1>1 DEF SignedIn, IsA
<1>5. ASSUME NEW answer \in Answers \ {"CONFLICT"}, Returns(d, answer)
      PROVE  StillFree(d)'
  <2>1. call'[d].at = "end" /\ call'[d].answer = answer
    BY <1>1, <1>5, ReturnsNow DEF Now
  <2> QED BY <1>1, <1>5, <2>1 DEF StillFree, IsA
<1>6. ASSUME NEW step \in {"free", "mint", "row"}, NEW saw, Awaits(d, step, saw),
             step # "free" => ~TakenByAnother(d)', Alone(d, Naming)'
      PROVE  StillFree(d)'
  <2>1. call'[d].at = step /\ call'[d].answer = Null
    BY <1>1, <1>6, AwaitsNow DEF Now
  <2> QED BY <1>1, <1>2, <1>6, <2>1 DEF StillFree, IsA
<1>7. users' = users => (TakenByAnother(d)' <=> TakenByAnother(d))
  BY <1>1 DEF TakenByAnother, Me
<1> SUFFICES ASSUME Alone(d, Naming)'
             PROVE  StillFree(d)'
  BY <1>4
<1>8. CASE Fails(d)
  BY <1>2, <1>5, <1>8 DEF Fails, Throws
<1>9. CASE ClaimBegins(d)
  BY <1>2, <1>5, <1>6, <1>9 DEF ClaimBegins
<1>10. CASE ClaimLooks(d)
  BY <1>2, <1>5, <1>6, <1>7, <1>10 DEF ClaimLooks, profileVars
<1>11. CASE ClaimMints(d)
  <2>1. ~TakenByAnother(d) /\ users' = users
    BY <1>1, <1>3, <1>11 DEF ClaimMints, At, StillFree
  <2> QED BY <1>6, <1>7, <1>11, <2>1 DEF ClaimMints
<1>12. CASE ClaimWrites(d)
  <2>1. ~TakenByAnother(d)
    BY <1>1, <1>3, <1>12 DEF ClaimWrites, At, StillFree
  <2> QED BY <1>2, <1>5, <1>12, <2>1 DEF ClaimWrites
<1> QED BY <1>1, <1>8, <1>9, <1>10, <1>11, <1>12, NamingSteps

(* What a sign-in or a claim has read holds while none overlaps it.        *)
LEMMA SignInInvariant == Spec => []SignInInv
<1>1. Init => SignInInv
  BY DEF Init, CallsInit, PeopleInit, SignInInv
<1>2. CallsInv /\ SignInInv /\ [Next]_vars => SignInInv'
  <2> SUFFICES ASSUME CallsInv, SignInInv, [Next]_vars
               PROVE  SignInInv'
    OBVIOUS
  <2>1. ASSUME UNCHANGED <<call, users>>
        PROVE  SignInInv'
    BY <2>1 DEF SignInInv, SignedIn, StillFree, WalletStays, EmailOfAnother, TakenByAnother, Taken, IsA,
       Person, Me, Naming, The, Alone, Overlap
  <2>2. ASSUME NEW n, Begins(n), users' = users, OpsStay
        PROVE  SignInInv'
    <3>1. ASSUME NEW c \in DOMAIN call', c # n
          PROVE  SignedIn(c)' /\ (Alone(c, Naming)' => StillFree(c)')
      <4>1. c \in DOMAIN call /\ call'[c] = call[c]
        BY <2>2, <3>1 DEF Begins
      <4>2. SignedIn(c)'
        BY <2>2, <4>1 DEF SignInInv, SignedIn, IsA, Person
      <4>3. Alone(c, Naming)' => StillFree(c)
        BY <2>2, <4>1, AloneBefore DEF SignInInv
      <4> QED BY <2>2, <4>1, <4>2, <4>3 DEF StillFree, WalletStays, EmailOfAnother, TakenByAnother, Taken,
              IsA, Person, Me, The, OpsStay
    <3>2. SignedIn(n)' /\ StillFree(n)'
      <4>1. Null # "ok" /\ Null # "CONFLICT" /\ Null # "UNAUTHORIZED"
        BY CallsAssumption DEF Answers
      <4> QED BY <2>2, <4>1 DEF Begins, SignedIn, StillFree, WalletStays, IsA
    <3> QED BY <2>2, <3>1, <3>2 DEF SignInInv
  <2>3. ASSUME NEW d \in DOMAIN call, CallStep(d), GoesOn(d), OpsStay
        PROVE  SignInInv'
    <3>1. \A p \in DOMAIN users' : DOMAIN users'[p] = UserFields
      <4>1. CASE users' = users
        BY <4>1 DEF SignInInv
      <4>2. CASE SignInSetsWallet(d)
        BY <4>2 DEF SignInSetsWallet, SignInInv
      <4>3. CASE SignInAdds(d)
        BY <4>3 DEF SignInAdds, SignInInv, UserFields
      <4>4. CASE ClaimWrites(d)
        BY <4>4 DEF ClaimWrites, SignInInv
      <4>5. CASE TopupWrites(d)
        BY <4>5 DEF TopupWrites, SignInInv
      <4> QED BY <2>3, <4>1, <4>2, <4>3, <4>4, <4>5, WritesUsers DEF SignInChanges
    <3>2. SignedIn(d)' /\ (Alone(d, Naming)' => StillFree(d)')
      <4>1. CASE d \notin Naming
        BY <2>3, <4>1 DEF Naming, The, IsA, GoesOn, SignedIn, StillFree
      <4>2. CASE d \in Naming
        BY <2>3, <4>2, OwnSignIn, OwnClaim DEF Naming, The
      <4> QED BY <4>1, <4>2
    <3>3. DOMAIN call' = DOMAIN call
      BY <2>3 DEF GoesOn
    <3> QED BY <2>3, <3>1, <3>2, <3>3, OthersSignIn DEF SignInInv
  <2> QED BY <2>1, <2>2, <2>3, StepCases DEF peopleOwn
<1> QED BY <1>1, <1>2, CallsInvariant, PTL DEF Spec

(* Signing in works, and leaves the wallet that came with it, for everyone *)
(* with whose sign-in no other sign-in or claim overlaps (user-service.ts: *)
(* 36, 70), but who is new with an email on somebody else's row (user.db.  *)
(* ts:11); and so does a claim of a name that was free when it looked      *)
(* (profile.ts:129).                                                       *)
THEOREM SigningInServes == Spec => []SignInServes
<1>1. CallsInv /\ SignInInv => SignInServes
  <2> SUFFICES ASSUME CallsInv, SignInInv
               PROVE  SignInServes
    OBVIOUS
  <2>1. ASSUME NEW c \in The("signIn"), Alone(c, Naming)
        PROVE  /\ call[c].answer = "UNAUTHORIZED" => EmailOfAnother(c)
               /\ call[c].answer = "ok" => Person(c) \in DOMAIN users
               /\ WalletStays(c)
    BY <2>1 DEF SignInInv, SignedIn, StillFree, The
  <2>2. ASSUME NEW c \in The("claim"), Alone(c, Naming)
        PROVE  call[c].answer # "CONFLICT"
    BY <2>2 DEF SignInInv, StillFree, The
  <2> QED BY <2>1, <2>2 DEF SignInServes, WalletStays, EmailOfAnother, Person
<1> QED BY <1>1, CallsInvariant, SignInInvariant, PTL

(***************************************************************************)
(* Limits that are checked in one await and filled in the next.            *)
(***************************************************************************)

InsertsAlone == \A c \in The("insert") : Alone(c, The("insert"))

(* An insert that has passed the limit still fits.                         *)
RecordsInv ==
    /\ IsFiniteSet(DOMAIN records)
    /\ InsertsAlone =>
        /\ Cardinality(DOMAIN records) <= RecordsMax
        /\ \A c \in DOMAIN call : At(c, "insert", "row") =>
              Cardinality(DOMAIN records) < RecordsMax

(* Only these change which records there are.                              *)
LEMMA WritesRecords ==
    ASSUME NEW d \in DOMAIN call, CallStep(d)
    PROVE  DOMAIN records' = DOMAIN records \/ InsertAdds(d) \/ DeleteWrites(d)
<1>1. ASSUME UpdateWrites(d)
      PROVE  DOMAIN records' = DOMAIN records
  BY <1>1 DEF UpdateWrites
<1> QED BY <1>1 DEF CallStep, MeteredStep, AppDataStep, InboxStep, PeopleStep, ProfileStep,
        GameStep, Fails, InsertCounts, UpdateReads, DeleteReads, ListPages, SetLooks,
        SetCounts, SetUpserts, Unset, Clear, appDataVars

(* What an insert does next.                                               *)
LEMMA InsertSteps ==
    ASSUME CallsInv, NEW d \in DOMAIN call, CallStep(d), IsA("insert", d)
    PROVE  Fails(d) \/ InsertCounts(d) \/ InsertAdds(d)
<1>1. call[d].at # "model"
  BY DEF CallsInv, IsA
<1> QED BY <1>1 DEF CallStep, MeteredStep, AppDataStep, InboxStep, PeopleStep,
        ProfileStep, GameStep, At, IsA, ChatBegins, RefineBegins, RefineGathers,
        ModelAnswers, ModelFails, UpdateReads, UpdateWrites,
        DeleteReads, DeleteWrites, ListPages, SetLooks, SetCounts, SetUpserts, Unset,
        Clear, SendAsks, SendAdds, EvictionCounts, EvictionChooses, EvictionDeletes,
        MarkAllRead, SignInLooks, SignInSetsWallet, SignInDerives, SignInAdds, AddFriend,
        RemoveFriend, ChatAsks, ChatFindsJam, ChatAdds, LikeLooks, LikeToggles,
        ClaimBegins, ClaimLooks, ClaimMints, ClaimWrites, TopupLooks, TopupPays,
        TopupWrites, MoveIsSent, MoveIsMined, ResetIsSent, ResetIsMined

(* Inserts are only added to.                                              *)
LEMMA InsertsAloneBefore ==
    ASSUME OpsStay, InsertsAlone'
    PROVE  InsertsAlone
BY DEF OpsStay, InsertsAlone, Alone, The, IsA, Overlap

(* Inserts that do not overlap keep the limit of the records.              *)
LEMMA RecordsInvariant == Spec => []RecordsInv
<1>1. Init => RecordsInv
  <2> SUFFICES ASSUME Init
               PROVE  RecordsInv
    OBVIOUS
  <2>1. DOMAIN records = {} /\ DOMAIN call = {}
    BY DEF Init, CallsInit, AppDataInit
  <2> QED BY <2>1, FS_EmptySet, AppDataAssumption DEF RecordsInv
<1>2. CallsInv /\ RecordsInv /\ [Next]_vars => RecordsInv'
  <2> SUFFICES ASSUME CallsInv, RecordsInv, [Next]_vars
               PROVE  RecordsInv'
    OBVIOUS
  <2>1. ASSUME UNCHANGED <<call, records>>
        PROVE  RecordsInv'
    BY <2>1 DEF RecordsInv, InsertsAlone, At, IsA, The, Alone, Overlap
  <2>2. ASSUME NEW n, Begins(n), records' = records, OpsStay
        PROVE  RecordsInv'
    <3>1. \A c \in DOMAIN call' : At(c, "insert", "row")' => c \in DOMAIN call /\ At(c, "insert", "row")
      BY <2>2 DEF Begins, At, IsA
    <3> QED BY <2>2, <3>1, InsertsAloneBefore DEF RecordsInv
  <2>3. ASSUME NEW d \in DOMAIN call, CallStep(d), GoesOn(d), OpsStay
        PROVE  RecordsInv'
    <3> DEFINE R == DOMAIN records
    <3>1. Running(d)
      BY <2>3 DEF GoesOn, Running
    <3>2. IsFiniteSet(R') /\ Cardinality(R') \in Nat /\ Cardinality(R) \in Nat
      <4>1. R' \subseteq R \cup {call[d].op.id}
        BY <2>3, WritesRecords DEF InsertAdds, DeleteWrites
      <4>2. IsFiniteSet(R \cup {call[d].op.id})
        BY FS_AddElement DEF RecordsInv
      <4> QED BY <4>1, <4>2, FS_Subset, FS_CardinalityType DEF RecordsInv
    <3>3. ASSUME InsertsAlone'
          PROVE  /\ Cardinality(R') <= RecordsMax
                 /\ \A c \in DOMAIN call : At(c, "insert", "row")' => Cardinality(R') < RecordsMax
      <4>1. /\ InsertsAlone /\ Cardinality(R) <= RecordsMax
            /\ \A c \in DOMAIN call : At(c, "insert", "row") => Cardinality(R) < RecordsMax
        BY <2>3, <3>3, InsertsAloneBefore DEF RecordsInv
      <4>2. \A c \in DOMAIN call \ {d} : At(c, "insert", "row")' <=> At(c, "insert", "row")
        BY <2>3 DEF GoesOn, At, IsA
      <4>3. CASE InsertAdds(d)
        <5>1. At(d, "insert", "row") /\ Returns(d, "ok")
              /\ R' = R \cup {call[d].op.id}
          BY <4>3 DEF InsertAdds
        <5>2. call'[d].at = "end"
          BY <3>1, <5>1, ReturnsNow DEF Now, Answers
        <5>3. Cardinality(R') <= Cardinality(R) + 1
          BY <5>1, FS_AddElement, <3>2 DEF RecordsInv
        <5>4. Cardinality(R) < RecordsMax
          BY <4>1, <5>1
        <5>5. \A c \in DOMAIN call : ~At(c, "insert", "row")'
          <6>1. ASSUME NEW c \in DOMAIN call, c # d, At(c, "insert", "row")
                PROVE  FALSE
            <7>1. Overlap(c, d)
              BY <3>1, <6>1, RunningOverlap DEF Running, At
            <7> QED BY <4>1, <5>1, <6>1, <7>1 DEF InsertsAlone, Alone, The, At
          <6> QED BY <4>2, <5>2, <6>1 DEF At
        <5> QED BY <3>2, <5>3, <5>4, <5>5, AppDataAssumption
      <4>4. CASE DeleteWrites(d)
        <5>1. R' \subseteq R
          BY <4>4 DEF DeleteWrites
        <5>2. Cardinality(R') <= Cardinality(R)
          BY <5>1, FS_Subset DEF RecordsInv
        <5>3. ~At(d, "insert", "row")'
          BY <2>3, <4>4 DEF DeleteWrites, At, IsA, GoesOn
        <5> QED BY <3>2, <4>1, <4>2, <5>2, <5>3, AppDataAssumption
      <4>5. CASE R' = R
        <5>1. ASSUME At(d, "insert", "row")'
              PROVE  Cardinality(R) < RecordsMax
          <6>1. IsA("insert", d) /\ call'[d].at = "row"
            BY <2>3, <5>1 DEF At, IsA, GoesOn
          <6>2. ~Fails(d) /\ ~InsertAdds(d)
            <7>1. ASSUME NEW answer \in Answers, Returns(d, answer)
                  PROVE  FALSE
              BY <3>1, <6>1, <7>1, ReturnsNow DEF Now
            <7> QED BY <7>1 DEF Fails, Throws, InsertAdds, Answers
          <6>3. InsertCounts(d)
            BY <2>3, <6>1, <6>2, InsertSteps
          <6>4. ~Returns(d, "QUOTA_EXCEEDED")
            BY <3>1, <6>1, ReturnsNow DEF Now, Answers
          <6> QED BY <6>3, <6>4 DEF InsertCounts
        <5> QED BY <4>1, <4>2, <4>5, <5>1
      <4> QED BY <2>3, <4>3, <4>4, <4>5, WritesRecords
    <3>4. DOMAIN call' = DOMAIN call
      BY <2>3 DEF GoesOn
    <3> QED BY <3>2, <3>3, <3>4 DEF RecordsInv
  <2> QED BY <2>1, <2>2, <2>3, StepCases DEF appDataVars
<1> QED BY <1>1, <1>2, CallsInvariant, PTL DEF Spec

SetsOf(user) == {c \in The("set") : call[c].op.by = user}

SetsAlone(user) == \A c \in SetsOf(user) : Alone(c, SetsOf(user))

(* A set that has passed the limit, or whose key is there, still fits.     *)
Fits(user) ==
    /\ Cardinality(KeysOf(user)) <= KeysMax
    /\ \A c \in SetsOf(user) : call[c].at = "upsert" =>
          Cardinality(KeysOf(user) \cup {<<user, call[c].op.key>>}) <= KeysMax

StorageInv ==
    /\ IsFiniteSet(storage)
    /\ \A user : SetsAlone(user) => Fits(user)

(* Only these change which keys have a value.                              *)
LEMMA WritesStorage ==
    ASSUME NEW d \in DOMAIN call, CallStep(d)
    PROVE  storage' = storage \/ SetUpserts(d) \/ Unset(d) \/ Clear(d)
BY DEF CallStep, MeteredStep, AppDataStep, InboxStep, PeopleStep, ProfileStep, GameStep,
   Fails, InsertCounts, InsertAdds, UpdateReads, UpdateWrites, DeleteReads, DeleteWrites,
   ListPages, SetLooks, SetCounts, appDataVars

(* What a set does next.                                                   *)
LEMMA SetSteps ==
    ASSUME CallsInv, NEW d \in DOMAIN call, CallStep(d), IsA("set", d)
    PROVE  Fails(d) \/ SetLooks(d) \/ SetCounts(d) \/ SetUpserts(d)
<1>1. call[d].at # "model"
  BY DEF CallsInv, IsA
<1> QED BY <1>1 DEF CallStep, MeteredStep, AppDataStep, InboxStep, PeopleStep,
        ProfileStep, GameStep, At, IsA, ChatBegins, RefineBegins, RefineGathers,
        ModelAnswers, ModelFails, InsertCounts, InsertAdds, UpdateReads, UpdateWrites,
        DeleteReads, DeleteWrites, ListPages, Unset,
        Clear, SendAsks, SendAdds, EvictionCounts, EvictionChooses, EvictionDeletes,
        MarkAllRead, SignInLooks, SignInSetsWallet, SignInDerives, SignInAdds, AddFriend,
        RemoveFriend, ChatAsks, ChatFindsJam, ChatAdds, LikeLooks, LikeToggles,
        ClaimBegins, ClaimLooks, ClaimMints, ClaimWrites, TopupLooks, TopupPays,
        TopupWrites, MoveIsSent, MoveIsMined, ResetIsSent, ResetIsMined

(* Sets are only added to.                                                 *)
LEMMA SetsAloneBefore ==
    ASSUME OpsStay, NEW user, SetsAlone(user)'
    PROVE  SetsAlone(user)
BY DEF OpsStay, SetsAlone, SetsOf, Alone, The, IsA, Overlap

(* An element is at most one more.                                         *)
LEMMA OneMore ==
    ASSUME NEW S, IsFiniteSet(S), NEW e
    PROVE  /\ Cardinality(S) \in Nat /\ Cardinality(S \cup {e}) \in Nat
           /\ Cardinality(S \cup {e}) <= Cardinality(S) + 1
<1>1. Cardinality(S) \in Nat
  BY FS_CardinalityType
<1>2. Cardinality(S \cup {e}) = IF e \in S THEN Cardinality(S) ELSE Cardinality(S) + 1
  BY FS_AddElement
<1> QED BY <1>1, <1>2

(* A set at its last statement, for somebody whose sets do not overlap.    *)
LEMMA SetFits ==
    ASSUME CallsInv, NEW d \in DOMAIN call, CallStep(d), GoesOn(d), IsA("set", d),
           storage' = storage, call'[d].at = "upsert", NEW user, user = call[d].op.by,
           IsFiniteSet(storage), Cardinality(KeysOf(user)) <= KeysMax
    PROVE  Cardinality(KeysOf(user) \cup {<<user, call[d].op.key>>}) <= KeysMax
<1>1. Running(d)
  BY DEF GoesOn, Running
<1>2. ~Fails(d) /\ ~SetUpserts(d)
  <2>1. ASSUME NEW answer \in Answers, Returns(d, answer)
        PROVE  FALSE
    BY <1>1, <2>1, ReturnsNow DEF Now
  <2> QED BY <2>1 DEF Fails, Throws, SetUpserts, Answers
<1>3. CASE SetLooks(d)
  <2>1. <<user, call[d].op.key>> \in storage
    <3>1. CASE Awaits(d, "count", Null)
      BY <1>1, <3>1, AwaitsNow DEF Now
    <3> QED BY <1>3, <3>1 DEF SetLooks
  <2>2. KeysOf(user) \cup {<<user, call[d].op.key>>} = KeysOf(user)
    BY <2>1 DEF KeysOf
  <2> QED BY <2>2
<1>4. CASE SetCounts(d)
  <2>1. Cardinality(KeysOf(user)) < KeysMax
    <3>1. CASE Returns(d, "QUOTA_EXCEEDED")
      BY <1>1, <3>1, ReturnsNow DEF Now, Answers
    <3> QED BY <1>4, <3>1 DEF SetCounts
  <2>2. IsFiniteSet(KeysOf(user))
    BY FS_Subset DEF KeysOf
  <2>3. Cardinality(KeysOf(user) \cup {<<user, call[d].op.key>>}) <= Cardinality(KeysOf(user)) + 1
        /\ Cardinality(KeysOf(user)) \in Nat
        /\ Cardinality(KeysOf(user) \cup {<<user, call[d].op.key>>}) \in Nat
    BY <2>2, OneMore
  <2> QED BY <2>1, <2>3, AppDataAssumption
<1> QED BY <1>2, <1>3, <1>4, SetSteps

(* Sets of one person that do not overlap keep the limit of the keys.      *)
LEMMA StorageInvariant == Spec => []StorageInv
<1>1. Init => StorageInv
  <2> SUFFICES ASSUME Init
               PROVE  StorageInv
    OBVIOUS
  <2>1. storage = {} /\ DOMAIN call = {}
    BY DEF Init, CallsInit, AppDataInit
  <2>2. \A user : KeysOf(user) = {} /\ SetsOf(user) = {}
    BY <2>1 DEF KeysOf, SetsOf, The
  <2>3. IsFiniteSet({}) /\ Cardinality({}) = 0 /\ 0 <= KeysMax
    BY FS_EmptySet, AppDataAssumption
  <2>4. \A user : Fits(user)
    BY <2>2, <2>3 DEF Fits
  <2> QED BY <2>1, <2>3, <2>4 DEF StorageInv
<1>2. CallsInv /\ StorageInv /\ [Next]_vars => StorageInv'
  <2> SUFFICES ASSUME CallsInv, StorageInv, [Next]_vars
               PROVE  StorageInv'
    OBVIOUS
  <2>1. ASSUME UNCHANGED <<call, storage>>
        PROVE  StorageInv'
    BY <2>1 DEF StorageInv, SetsAlone, SetsOf, Fits, KeysOf, IsA, The, Alone, Overlap
  <2>2. ASSUME NEW n, Begins(n), storage' = storage, OpsStay
        PROVE  StorageInv'
    <3>1. ASSUME NEW user, SetsAlone(user)'
          PROVE  Fits(user)'
      <4>1. Fits(user) /\ KeysOf(user)' = KeysOf(user)
        BY <2>2, <3>1, SetsAloneBefore DEF StorageInv, KeysOf
      <4>2. \A c \in SetsOf(user)' : call'[c].at = "upsert" =>
                c \in SetsOf(user) /\ call'[c] = call[c]
        BY <2>2 DEF Begins, SetsOf, The, IsA
      <4> QED BY <4>1, <4>2 DEF Fits
    <3> QED BY <2>2, <3>1 DEF StorageInv
  <2>3. ASSUME NEW d \in DOMAIN call, CallStep(d), GoesOn(d), OpsStay
        PROVE  StorageInv'
    <3>1. Running(d) /\ DOMAIN call' = DOMAIN call
      BY <2>3 DEF GoesOn, Running
    <3>2. IsFiniteSet(storage')
      <4>1. IsFiniteSet(storage \cup {<<call[d].op.by, call[d].op.key>>})
        BY FS_AddElement DEF StorageInv
      <4>2. storage' \subseteq storage \cup {<<call[d].op.by, call[d].op.key>>}
        BY <2>3, WritesStorage DEF SetUpserts, Unset, Clear
      <4> QED BY <4>1, <4>2, FS_Subset
    <3>3. ASSUME NEW user, SetsAlone(user)'
          PROVE  Fits(user)'
      <4> DEFINE K == KeysOf(user)
      <4>1. SetsAlone(user) /\ Fits(user)
        BY <2>3, <3>3, SetsAloneBefore DEF StorageInv
      <4>2. IsFiniteSet(storage) /\ IsFiniteSet(K) /\ IsFiniteSet(K')
        BY <3>2, FS_Subset DEF StorageInv, KeysOf
      <4>3. SetsOf(user)' = SetsOf(user)
        BY <2>3, <3>1 DEF SetsOf, The, IsA, OpsStay
      <4>4. \A c \in SetsOf(user) \ {d} : call'[c] = call[c]
        BY <2>3 DEF GoesOn, SetsOf, The
      <4>5. CASE SetUpserts(d) /\ call[d].op.by = user
        <5>1. At(d, "set", "upsert") /\ d \in SetsOf(user) /\ call'[d].at = "end"
          BY <3>1, <4>5, ReturnsNow DEF SetUpserts, SetsOf, The, At, Now, Answers
        <5>2. K' = K \cup {<<user, call[d].op.key>>}
          BY <4>5 DEF SetUpserts, KeysOf
        <5>3. \A c \in SetsOf(user) : call'[c].at # "upsert"
          <6>1. ASSUME NEW c \in SetsOf(user), c # d, call[c].at = "upsert"
                PROVE  FALSE
            <7>1. Overlap(c, d)
              BY <3>1, <6>1, RunningOverlap DEF Running, SetsOf, The
            <7> QED BY <4>1, <5>1, <6>1, <7>1 DEF SetsAlone, Alone
          <6> QED BY <4>4, <5>1, <6>1
        <5>4. Cardinality(K') <= KeysMax
          BY <4>1, <5>1, <5>2 DEF Fits, At
        <5> QED BY <4>3, <5>3, <5>4 DEF Fits
      <4>6. CASE ~(SetUpserts(d) /\ call[d].op.by = user)
        <5>1. K' \subseteq K
          BY <2>3, <4>6, WritesStorage DEF SetUpserts, Unset, Clear, KeysOf
        <5>2. Cardinality(K') <= KeysMax
          BY <4>1, <4>2, <5>1, FS_Subset, FS_CardinalityType, AppDataAssumption DEF Fits
        <5>3. ASSUME NEW c \in SetsOf(user), call'[c].at = "upsert",
                     Cardinality(K \cup {<<user, call[c].op.key>>}) <= KeysMax
              PROVE  Cardinality(K' \cup {<<user, call[c].op.key>>}) <= KeysMax
          <6>1. K' \cup {<<user, call[c].op.key>>} \subseteq K \cup {<<user, call[c].op.key>>}
            BY <5>1
          <6>2. IsFiniteSet(K \cup {<<user, call[c].op.key>>})
            BY <4>2, FS_AddElement
          <6>3. Cardinality(K' \cup {<<user, call[c].op.key>>})
                    <= Cardinality(K \cup {<<user, call[c].op.key>>})
                /\ Cardinality(K' \cup {<<user, call[c].op.key>>}) \in Nat
                /\ Cardinality(K \cup {<<user, call[c].op.key>>}) \in Nat
            BY <6>1, <6>2, FS_Subset, FS_CardinalityType
          <6> QED BY <5>3, <6>3, AppDataAssumption
        <5>4. ASSUME NEW c \in SetsOf(user), call'[c].at = "upsert"
              PROVE  Cardinality(K \cup {<<user, call[c].op.key>>}) <= KeysMax
          <6>1. CASE c # d
            BY <4>1, <4>4, <5>4, <6>1 DEF Fits
          <6>2. CASE c = d
            <7>1. IsA("set", d) /\ call[d].op.by = user
              BY <5>4, <6>2 DEF SetsOf, The
            <7>2. storage' = storage
              <8>1. ~SetUpserts(d) /\ ~Unset(d) /\ ~Clear(d)
                BY <4>6, <7>1 DEF Unset, Clear, At, IsA
              <8> QED BY <2>3, <8>1, WritesStorage
            <7>3. Cardinality(K) <= KeysMax
              BY <4>1 DEF Fits
            <7> HIDE DEF K
            <7>4. Cardinality(KeysOf(user) \cup {<<user, call[d].op.key>>}) <= KeysMax
              BY <2>3, <4>2, <5>4, <6>2, <7>1, <7>2, <7>3, SetFits DEF K
            <7> QED BY <6>2, <7>4 DEF K
          <6> QED BY <6>1, <6>2
        <5>5. \A c \in SetsOf(user) : call'[c].op = call[c].op
          BY <2>3 DEF OpsStay, SetsOf, The
        <5> QED BY <4>3, <5>2, <5>3, <5>4, <5>5 DEF Fits
      <4> QED BY <4>5, <4>6
    <3> QED BY <3>2, <3>3 DEF StorageInv
  <2> QED BY <2>1, <2>2, <2>3, StepCases DEF appDataVars
<1> QED BY <1>1, <1>2, CallsInvariant, PTL DEF Spec

(* The transfers are of top-ups, one of each, in the order of the calls    *)
(* that did not overlap.                                                   *)
TransfersInv ==
    /\ IsSequence(topups)
    /\ \A i \in DOMAIN topups :
          /\ topups[i].call \in DOMAIN call /\ IsA("topup", topups[i].call)
          /\ call[topups[i].call].at \in {"row", "end"}
          /\ topups[i].at \in Nat /\ topups[i].at <= now
    /\ \A i, j \in DOMAIN topups : i < j =>
          /\ topups[i].call # topups[j].call
          /\ Overlap(topups[i].call, topups[j].call) \/ topups[i].call < topups[j].call

(* What the table says of the last top-up.                                 *)
LastTopupsInv ==
    /\ now \in Nat
    /\ \A p \in DOMAIN users :
          \/ users[p].lastTopupAt = Null
          \/ users[p].lastTopupAt \in Nat /\ users[p].lastTopupAt <= now
    /\ \A c \in DOMAIN call :
          IsA("topup", c) /\ call[c].at \in {"transfer", "row"} => Me(c) \in DOMAIN users
    /\ \A i \in DOMAIN topups :
          LET c == topups[i].call IN
          call[c].answer = "ok" =>
              /\ Me(c) \in DOMAIN users
              /\ users[Me(c)].lastTopupAt \in Nat /\ users[Me(c)].lastTopupAt >= topups[i].at

(* A top-up that passed the check has waited for a day since each that was *)
(* over when it began.                                                     *)
CooledInv ==
    /\ \A d \in DOMAIN call, i \in DOMAIN topups :
          LET c == topups[i].call IN
          At(d, "topup", "transfer") /\ c < d /\ ~Overlap(c, d) /\ Me(c) = Me(d)
            /\ call[c].answer = "ok" => now - topups[i].at >= DayLength
    /\ \A i, j \in DOMAIN topups :
          LET c == topups[i].call  d == topups[j].call IN
          i < j /\ Me(c) = Me(d) /\ ~Overlap(c, d) /\ call[c].answer = "ok" =>
              topups[j].at - topups[i].at >= DayLength

TopupInv == TransfersInv /\ LastTopupsInv /\ CooledInv

(* Only a payment adds a transfer, and no statement moves the clock.       *)
LEMMA WritesTopups ==
    ASSUME NEW d \in DOMAIN call, CallStep(d)
    PROVE  (topups' = topups \/ TopupPays(d)) /\ now' = now
BY DEF CallStep, MeteredStep, AppDataStep, InboxStep, PeopleStep, ProfileStep, GameStep,
   Fails, ChatBegins, RefineBegins, RefineGathers, Meters, Reserves, Denies, Refunds,
   ModelAnswers, ModelFails, meteredVars, SendAsks, SendAdds, EvictionCounts,
   EvictionChooses, EvictionDeletes, MarkAllRead, AsksFor, inboxVars, limiterVars,
   SignInLooks, SignInSetsWallet, SignInDerives, SignInAdds, AddFriend, RemoveFriend,
   ChatAsks, ChatFindsJam, ChatAdds, LikeLooks, LikeToggles, peopleVars, ClaimBegins,
   ClaimLooks, ClaimMints, ClaimWrites, TopupLooks, TopupWrites, profileVars, peopleOwn

(* What a top-up does next.                                                *)
LEMMA TopupSteps ==
    ASSUME CallsInv, NEW d \in DOMAIN call, CallStep(d), IsA("topup", d)
    PROVE  Fails(d) \/ TopupLooks(d) \/ TopupPays(d) \/ TopupWrites(d)
<1>1. call[d].at # "model"
  BY DEF CallsInv, IsA
<1> QED BY <1>1 DEF CallStep, MeteredStep, AppDataStep, InboxStep, PeopleStep,
        ProfileStep, GameStep, At, IsA, ChatBegins, RefineBegins, RefineGathers,
        ModelAnswers, ModelFails, InsertCounts, InsertAdds, UpdateReads, UpdateWrites,
        DeleteReads, DeleteWrites, ListPages, SetLooks, SetCounts, SetUpserts, Unset,
        Clear, SendAsks, SendAdds, EvictionCounts, EvictionChooses, EvictionDeletes,
        MarkAllRead, SignInLooks, SignInSetsWallet, SignInDerives, SignInAdds, AddFriend,
        RemoveFriend, ChatAsks, ChatFindsJam, ChatAdds, LikeLooks, LikeToggles,
        ClaimBegins, ClaimLooks, ClaimMints, ClaimWrites, MoveIsSent, MoveIsMined,
        ResetIsSent, ResetIsMined

(* Where a top-up stands after a step of its own.                          *)
LEMMA TopupGoesTo ==
    ASSUME CallsInv, NEW d \in DOMAIN call, CallStep(d), GoesOn(d), IsA("topup", d)
    PROVE  /\ call'[d].at \in {"transfer", "row", "end"}
           /\ call'[d].at = "transfer" => TopupLooks(d) /\ Awaits(d, "transfer", Null)
           /\ call'[d].at = "row" => TopupPays(d)
           /\ call[d].at = "row" => call'[d].at = "end"
           /\ call'[d].answer = "ok" => TopupWrites(d)
           /\ TopupPays(d) => call'[d].at \in {"row", "end"} /\ At(d, "topup", "transfer")
<1>1. Running(d) /\ Null \notin Answers /\ "ok" \in Answers
      /\ {"THROWN", "QUOTA_EXCEEDED", "BAD_REQUEST"} \subseteq Answers
  BY CallsAssumption DEF GoesOn, Running, Answers
<1>2. ASSUME NEW answer \in Answers, Returns(d, answer)
      PROVE  call'[d].at = "end" /\ call'[d].answer = answer
  BY <1>1, <1>2, ReturnsNow DEF Now
<1>3. ASSUME NEW step \in {"transfer", "row"}, Awaits(d, step, Null)
      PROVE  call'[d].at = step /\ call'[d].answer = Null
  BY <1>1, <1>3, AwaitsNow DEF Now
<1>4. CASE Fails(d)
  BY <1>1, <1>2, <1>4 DEF Fails, Throws, TopupPays, At
<1>5. CASE TopupLooks(d)
  BY <1>1, <1>2, <1>3, <1>5 DEF TopupLooks, TopupPays, At
<1>6. CASE TopupPays(d)
  BY <1>1, <1>2, <1>3, <1>6 DEF TopupPays, Throws, At
<1>7. CASE TopupWrites(d)
  BY <1>1, <1>2, <1>7 DEF TopupWrites, TopupPays, At
<1> QED BY <1>4, <1>5, <1>6, <1>7, TopupSteps

(* The clock and the last top-ups only go forward.                         *)
LEMMA LastTopupGoesOn ==
    ASSUME SignInInv, NEW d \in DOMAIN call, CallStep(d), NEW p \in DOMAIN users
    PROVE  /\ p \in DOMAIN users'
           /\ \/ users'[p].lastTopupAt = users[p].lastTopupAt
              \/ TopupWrites(d) /\ users'[p].lastTopupAt = now
           /\ TopupWrites(d) /\ p = Me(d) => users'[p].lastTopupAt = now
           /\ users'[p].lastTopupAt # users[p].lastTopupAt => p = Me(d)
<1>0. DOMAIN users[p] = UserFields
  BY DEF SignInInv
<1>1. CASE users' = users /\ ~TopupWrites(d)
  BY <1>1
<1>2. CASE SignInSetsWallet(d)
  BY <1>0, <1>2 DEF SignInSetsWallet, TopupWrites, At, IsA, UserFields
<1>3. CASE SignInAdds(d)
  BY <1>3 DEF SignInAdds, TopupWrites, At, IsA
<1>4. CASE ClaimWrites(d)
  BY <1>0, <1>4 DEF ClaimWrites, TopupWrites, At, IsA, UserFields
<1>5. CASE TopupWrites(d)
  BY <1>0, <1>5 DEF TopupWrites, UserFields
<1> QED BY <1>1, <1>2, <1>3, <1>4, <1>5, WritesUsers DEF SignInChanges

(* A person who is new has not topped up.                                  *)
LEMMA NewHasNone ==
    ASSUME NEW d \in DOMAIN call, CallStep(d), NEW p \in DOMAIN users', p \notin DOMAIN users
    PROVE  users'[p].lastTopupAt = Null
<1>1. CASE SignInAdds(d)
  BY <1>1 DEF SignInAdds
<1> QED BY <1>1, WritesUsers DEF SignInChanges, SignInSetsWallet, ClaimWrites, TopupWrites

(* The transfers of a step, and whose they are.                            *)
LEMMA TransfersGrow ==
    ASSUME CallsInv, TransfersInv, NEW d \in DOMAIN call, CallStep(d), GoesOn(d)
    PROVE  /\ IsSequence(topups')
           /\ \A i \in DOMAIN topups : topups'[i] = topups[i]
           /\ \/ topups' = topups
              \/ \E n : /\ n \in Nat /\ n \notin DOMAIN topups
                        /\ \A i \in DOMAIN topups : i \in Nat /\ i < n
                        /\ DOMAIN topups' = DOMAIN topups \cup {n}
                        /\ topups'[n].call = d /\ topups'[n].at = now
                        /\ TopupPays(d)
<1>1. CASE topups' = topups
  BY <1>1 DEF TransfersInv
<1>2. CASE TopupPays(d)
  <2> DEFINE new == [call |-> d, at |-> now]
             n == Len(topups) + 1
  <2>1. topups' = Append(topups, new) /\ new.call = d /\ new.at = now
    BY <1>2 DEF TopupPays
  <2> HIDE DEF new
  <2>2. /\ IsSequence(topups')
        /\ Len(topups) \in Nat /\ DOMAIN topups = 1 .. Len(topups)
        /\ DOMAIN topups' = 1 .. Len(topups) + 1
        /\ \A i \in DOMAIN topups : topups'[i] = topups[i]
        /\ topups'[n] = new
    BY <2>1, AppendsTo DEF TransfersInv
  <2>3. /\ n \in Nat /\ n \notin DOMAIN topups
        /\ \A i \in DOMAIN topups : i \in Nat /\ i < n
        /\ DOMAIN topups' = DOMAIN topups \cup {n}
    BY <2>2
  <2> HIDE DEF n
  <2> QED BY <1>2, <2>1, <2>2, <2>3
<1> QED BY <1>1, <1>2, WritesTopups

(* Transfers come in the order of the top-ups, but for those that overlap. *)
LEMMA TransfersStep ==
    ASSUME CallsInv, TransfersInv, LastTopupsInv, OpsStay, NEW d \in DOMAIN call, CallStep(d),
           GoesOn(d)
    PROVE  TransfersInv'
<1>1. /\ now' = now /\ now \in Nat /\ DOMAIN call' = DOMAIN call /\ Running(d)
      /\ \A c \in DOMAIN call : call'[c].op = call[c].op
  BY WritesTopups DEF LastTopupsInv, GoesOn, OpsStay, Running
<1>2. ASSUME NEW c \in DOMAIN call, NEW e \in DOMAIN call
      PROVE  Overlap(c, e)' <=> Overlap(c, e)
  BY DEF OpsStay, Overlap
<1>3. ASSUME NEW i \in DOMAIN topups, NEW c, c = topups[i].call
      PROVE  /\ topups'[i] = topups[i]
             /\ c \in DOMAIN call /\ IsA("topup", c)' /\ call[c].at \in {"row", "end"}
             /\ call'[c].at \in {"row", "end"}
             /\ topups[i].at \in Nat /\ topups[i].at <= now
  <2>1. topups'[i] = topups[i]
    BY TransfersGrow
  <2>2. /\ c \in DOMAIN call /\ IsA("topup", c) /\ call[c].at \in {"row", "end"}
        /\ topups[i].at \in Nat /\ topups[i].at <= now
    BY <1>3 DEF TransfersInv
  <2>3. call'[c].at \in {"row", "end"}
    <3>1. CASE c # d
      BY <2>2, <3>1 DEF GoesOn
    <3>2. CASE c = d
      BY <1>1, <2>2, <3>2, TopupGoesTo DEF Running
    <3> QED BY <3>1, <3>2
  <2> QED BY <1>1, <2>1, <2>2, <2>3 DEF IsA
<1>4. ASSUME NEW i \in DOMAIN topups, NEW j \in DOMAIN topups, i < j,
             NEW c, NEW e, c = topups[i].call, e = topups[j].call
      PROVE  c # e /\ (Overlap(c, e)' \/ c < e)
  <2>1. c \in DOMAIN call /\ e \in DOMAIN call /\ c # e /\ (Overlap(c, e) \/ c < e)
    BY <1>4 DEF TransfersInv
  <2> QED BY <1>2, <2>1
<1>5. CASE topups' = topups
  <2>1. ASSUME NEW i \in DOMAIN topups
        PROVE  /\ topups[i].call \in DOMAIN call' /\ IsA("topup", topups[i].call)'
               /\ call'[topups[i].call].at \in {"row", "end"}
               /\ topups[i].at \in Nat /\ topups[i].at <= now
    <3>1. PICK c : c = topups[i].call
      OBVIOUS
    <3>2. c = topups'[i].call
      BY <1>5, <3>1
    <3> QED BY <1>1, <1>3, <3>1, <3>2 DEF IsA
  <2>2. ASSUME NEW i \in DOMAIN topups, NEW j \in DOMAIN topups, i < j
        PROVE  /\ topups[i].call # topups[j].call
               /\ Overlap(topups[i].call, topups[j].call)' \/ topups[i].call < topups[j].call
    <3>1. PICK c, e : c = topups[i].call /\ e = topups[j].call
      OBVIOUS
    <3>2. c = topups'[i].call /\ e = topups'[j].call
      BY <1>5, <3>1
    <3> QED BY <1>4, <2>2, <3>1, <3>2 DEF Overlap
  <2> QED BY <1>1, <1>5, <2>1, <2>2 DEF TransfersInv
<1>6. CASE topups' # topups
  <2>1. PICK n : /\ n \in Nat /\ n \notin DOMAIN topups
                 /\ \A i \in DOMAIN topups : i \in Nat /\ i < n
                 /\ DOMAIN topups' = DOMAIN topups \cup {n}
                 /\ topups'[n].call = d /\ topups'[n].at = now
                 /\ TopupPays(d)
    BY <1>6, TransfersGrow
  <2>2. At(d, "topup", "transfer") /\ IsA("topup", d) /\ call'[d].at \in {"row", "end"}
    BY <2>1, TopupGoesTo DEF TopupPays, At
  <2>3. ASSUME NEW i \in DOMAIN topups, NEW c, c = topups[i].call
        PROVE  c # d /\ (Overlap(c, d)' \/ c < d)
    <3>1. c \in DOMAIN call /\ call[c].at # "transfer"
      BY <1>3, <2>3
    <3>2. c # d
      BY <2>2, <3>1 DEF At
    <3>3. d < c => Overlap(d, c)
      BY <1>1, <3>1, <3>2, RunningOverlap
    <3>4. d \in Int /\ c \in Int
      BY <3>1 DEF CallsInv, IsSequence
    <3>5. Overlap(c, d) \/ c < d
      BY <3>2, <3>3, <3>4 DEF Overlap
    <3> QED BY <1>2, <3>1, <3>2, <3>5
  <2>4. IsSequence(topups')
    BY TransfersGrow
  <2>5. ASSUME NEW i \in DOMAIN topups', NEW c, c = topups'[i].call
        PROVE  /\ c \in DOMAIN call' /\ IsA("topup", c)'
               /\ call'[c].at \in {"row", "end"}
               /\ topups'[i].at \in Nat /\ topups'[i].at <= now'
    <3>1. CASE i = n
      BY <1>1, <2>1, <2>2, <2>5, <3>1 DEF IsA
    <3>2. CASE i # n
      <4>1. i \in DOMAIN topups /\ topups'[i] = topups[i]
        BY <2>1, <3>2, TransfersGrow
      <4> QED BY <1>1, <1>3, <2>5, <4>1
    <3> QED BY <3>1, <3>2
  <2>6. ASSUME NEW i \in DOMAIN topups', NEW j \in DOMAIN topups', i < j,
               NEW c, NEW e, c = topups'[i].call, e = topups'[j].call
        PROVE  c # e /\ (Overlap(c, e)' \/ c < e)
    <3>1. i \in DOMAIN topups /\ topups'[i] = topups[i]
      BY <2>1, <2>6, TransfersGrow
    <3>2. CASE j \in DOMAIN topups
      <4>1. topups'[j] = topups[j]
        BY <3>2, TransfersGrow
      <4> QED BY <1>4, <2>6, <3>1, <3>2, <4>1
    <3>3. CASE j = n
      BY <2>1, <2>3, <2>6, <3>1, <3>3
    <3> QED BY <2>1, <3>2, <3>3
  <2>7. \A i \in DOMAIN topups' :
          /\ topups'[i].call \in DOMAIN call'
          /\ call'[topups'[i].call].op.name = "topup"
          /\ call'[topups'[i].call].at \in {"row", "end"}
          /\ topups'[i].at \in Nat /\ topups'[i].at <= now'
    BY <2>5 DEF IsA
  <2>8. \A i, j \in DOMAIN topups' : i < j =>
          /\ topups'[i].call # topups'[j].call
          /\ \/ topups'[i].call \in call'[topups'[j].call].beside
             \/ topups'[j].call \in call'[topups'[i].call].beside
             \/ topups'[i].call < topups'[j].call
    BY <2>6 DEF Overlap
  <2> QED BY <2>4, <2>7, <2>8 DEF TransfersInv, IsA, Overlap
<1> QED BY <1>5, <1>6

(* The table knows of every top-up that was answered.                      *)
LEMMA LastTopupsStep ==
    ASSUME CallsInv, SignInInv, TransfersInv, LastTopupsInv, OpsStay, NEW d \in DOMAIN call,
           CallStep(d), GoesOn(d)
    PROVE  LastTopupsInv'
<1>1. /\ now' = now /\ now \in Nat /\ DOMAIN call' = DOMAIN call /\ Running(d)
      /\ \A c \in DOMAIN call : call'[c].op = call[c].op
  BY WritesTopups DEF LastTopupsInv, GoesOn, OpsStay, Running
<1>2. ASSUME NEW p \in DOMAIN users'
      PROVE  \/ users'[p].lastTopupAt = Null
             \/ users'[p].lastTopupAt \in Nat /\ users'[p].lastTopupAt <= now'
  BY <1>1, LastTopupGoesOn, NewHasNone DEF LastTopupsInv
<1>3. ASSUME NEW c \in DOMAIN call', IsA("topup", c)', call'[c].at \in {"transfer", "row"}
      PROVE  Me(c)' \in DOMAIN users'
  <2>1. IsA("topup", c) /\ Me(c)' = Me(c)
    BY <1>1, <1>3 DEF IsA, Me
  <2>2. Me(c) \in DOMAIN users
    <3>1. CASE c # d
      BY <1>1, <1>3, <2>1, <3>1 DEF GoesOn, LastTopupsInv
    <3>2. CASE c = d
      <4>1. TopupLooks(d) \/ TopupPays(d)
        BY <1>3, <2>1, <3>2, TopupGoesTo
      <4> QED BY <3>2, <4>1 DEF TopupLooks, TopupPays, At, LastTopupsInv
    <3> QED BY <3>1, <3>2
  <2> QED BY <2>1, <2>2, LastTopupGoesOn
<1>4. ASSUME NEW i \in DOMAIN topups', NEW c, c = topups'[i].call, call'[c].answer = "ok"
      PROVE  /\ Me(c)' \in DOMAIN users'
             /\ users'[Me(c)'].lastTopupAt \in Nat
             /\ users'[Me(c)'].lastTopupAt >= topups'[i].at
  <2>1. i \in DOMAIN topups
    <3>1. ASSUME i \notin DOMAIN topups
          PROVE  FALSE
      <4>1. c = d /\ TopupPays(d)
        BY <1>4, <3>1, TransfersGrow
      <4>2. IsA("topup", d) /\ At(d, "topup", "transfer")
        BY <4>1 DEF TopupPays, At
      <4>3. TopupWrites(d)
        BY <1>4, <4>1, <4>2, TopupGoesTo
      <4> QED BY <4>2, <4>3 DEF TopupWrites, At
    <3> QED BY <3>1
  <2>2. topups'[i] = topups[i] /\ c \in DOMAIN call /\ IsA("topup", c)
        /\ topups[i].at \in Nat /\ topups[i].at <= now
    BY <1>4, <2>1, TransfersGrow DEF TransfersInv
  <2>3. Me(c)' = Me(c)
    BY <1>1, <2>2 DEF Me
  <2>4. CASE c # d
    <3>1. call'[c] = call[c]
      BY <2>2, <2>4 DEF GoesOn
    <3>2. /\ Me(c) \in DOMAIN users
          /\ users[Me(c)].lastTopupAt \in Nat /\ users[Me(c)].lastTopupAt >= topups[i].at
      BY <1>4, <2>1, <2>2, <3>1 DEF LastTopupsInv
    <3> QED BY <1>1, <2>2, <2>3, <3>2, LastTopupGoesOn
  <2>5. CASE c = d
    <3>1. TopupWrites(d)
      BY <1>4, <2>2, <2>5, TopupGoesTo
    <3>2. Me(d) \in DOMAIN users
      BY <3>1 DEF TopupWrites, At, LastTopupsInv
    <3> QED BY <1>1, <2>2, <2>3, <2>5, <3>1, <3>2, LastTopupGoesOn
  <2> QED BY <2>4, <2>5
<1> QED BY <1>1, <1>2, <1>3, <1>4 DEF LastTopupsInv

(* A top-up that is about to pay has waited since those before it.         *)
LEMMA CooledStep ==
    ASSUME CallsInv, SignInInv, TransfersInv, TransfersInv', LastTopupsInv, CooledInv, OpsStay,
           NEW d \in DOMAIN call, CallStep(d), GoesOn(d)
    PROVE  CooledInv'
<1>1. /\ now' = now /\ now \in Nat /\ DOMAIN call' = DOMAIN call /\ Running(d)
      /\ \A c \in DOMAIN call : call'[c].op = call[c].op /\ Me(c)' = Me(c) /\ c \in Int
  BY WritesTopups DEF LastTopupsInv, GoesOn, OpsStay, Running, Me, CallsInv, IsSequence
<1>2. \A c \in DOMAIN call, e \in DOMAIN call : Overlap(c, e)' <=> Overlap(c, e)
  BY DEF OpsStay, Overlap
<1>3. \A i \in DOMAIN topups : topups'[i] = topups[i] /\ topups[i].call \in DOMAIN call
        /\ topups[i].at \in Nat /\ topups[i].at <= now
  BY TransfersGrow DEF TransfersInv
<1>4. ASSUME NEW i \in DOMAIN topups' \ DOMAIN topups
      PROVE  topups'[i].call = d /\ topups'[i].at = now /\ TopupPays(d)
             /\ \A j \in DOMAIN topups : ~(i < j)
  <2>1. PICK n : /\ n \in Nat /\ n \notin DOMAIN topups
                 /\ \A j \in DOMAIN topups : j \in Nat /\ j < n
                 /\ DOMAIN topups' = DOMAIN topups \cup {n}
                 /\ topups'[n].call = d /\ topups'[n].at = now
                 /\ TopupPays(d)
    BY <1>4, TransfersGrow
  <2>2. i = n
    BY <1>4, <2>1
  <2>3. \A j \in DOMAIN topups : ~(n < j)
    BY <2>1
  <2> QED BY <2>1, <2>2, <2>3
<1>5. ASSUME NEW e \in DOMAIN call, NEW i \in DOMAIN topups', NEW c, c = topups'[i].call,
             At(e, "topup", "transfer")', c < e, ~Overlap(c, e)', Me(c)' = Me(e)',
             call'[c].answer = "ok"
      PROVE  now' - topups'[i].at >= DayLength
  <2>0. c \in DOMAIN call
    BY <1>1, <1>5 DEF TransfersInv
  <2>1. ~Overlap(c, e) /\ Me(c) = Me(e) /\ c # e
    BY <1>1, <1>2, <1>5, <2>0
  <2>2. c # d
    <3>1. Running(c) => Overlap(c, e)
      BY <1>5, <2>0, <2>1, RunningOverlap
    <3> QED BY <1>1, <2>1, <3>1
  <2>3. call'[c] = call[c] /\ i \in DOMAIN topups /\ topups'[i] = topups[i]
    BY <1>3, <1>4, <1>5, <2>0, <2>2 DEF GoesOn
  <2>4. IsA("topup", e)
    BY <1>1, <1>5 DEF At, IsA
  <2>5. CASE e # d
    <3>1. At(e, "topup", "transfer")
      BY <1>5, <2>5 DEF At, IsA, GoesOn
    <3> QED BY <1>1, <1>5, <2>1, <2>3, <3>1 DEF CooledInv
  <2>6. CASE e = d
    <3>1. TopupLooks(d) /\ Awaits(d, "transfer", Null)
      BY <1>5, <2>4, <2>6, TopupGoesTo DEF At
    <3>2. /\ Me(d) \in DOMAIN users
          /\ users[Me(d)].lastTopupAt \in Nat /\ users[Me(d)].lastTopupAt >= topups[i].at
      BY <1>5, <2>1, <2>3, <2>6 DEF LastTopupsInv
    <3>3. users[Me(d)].lastTopupAt # Null
      BY <3>2, LimiterAssumption
    <3>4. ~(now - users[Me(d)].lastTopupAt < DayLength)
      <4>1. ~Returns(d, "QUOTA_EXCEEDED") /\ ~Returns(d, "BAD_REQUEST")
        <5>1. call'[d].at = "transfer"
          BY <1>1, <3>1, AwaitsNow DEF Now
        <5> QED BY <1>1, <5>1, ReturnsNow DEF Now, Answers
      <4> QED BY <3>1, <3>3, <4>1 DEF TopupLooks
    <3> QED BY <1>1, <1>3, <2>3, <3>2, <3>4, LimiterAssumption
  <2> QED BY <2>5, <2>6
<1>6. ASSUME NEW i \in DOMAIN topups', NEW j \in DOMAIN topups', NEW c, NEW e,
             c = topups'[i].call, e = topups'[j].call,
             i < j, Me(c)' = Me(e)', ~Overlap(c, e)', call'[c].answer = "ok"
      PROVE  topups'[j].at - topups'[i].at >= DayLength
  <2>1. c \in DOMAIN call /\ e \in DOMAIN call /\ c # e /\ c < e
    <3>1. PICK a : a = topups'[i].call
      OBVIOUS
    <3> QED BY <1>1, <1>6 DEF TransfersInv
  <2>2. ~Overlap(c, e) /\ Me(c) = Me(e)
    BY <1>1, <1>2, <1>6, <2>1
  <2>3. c # d
    <3>1. Running(c) => Overlap(c, e)
      BY <2>1, RunningOverlap
    <3> QED BY <1>1, <2>2, <3>1
  <2>4. call'[c] = call[c] /\ i \in DOMAIN topups /\ topups'[i] = topups[i]
    BY <1>3, <1>4, <1>6, <2>1, <2>3 DEF GoesOn
  <2>5. CASE j \in DOMAIN topups
    BY <1>3, <1>6, <2>2, <2>4, <2>5 DEF CooledInv
  <2>6. CASE j \notin DOMAIN topups
    <3>1. e = d /\ topups'[j].at = now /\ At(d, "topup", "transfer")
      BY <1>4, <1>6, <2>6 DEF TopupPays
    <3> QED BY <1>6, <2>1, <2>2, <2>4, <3>1 DEF CooledInv
  <2> QED BY <2>5, <2>6
<1> QED BY <1>1, <1>5, <1>6 DEF CooledInv

(* Top-ups of one person that do not overlap are a day apart, always.      *)
LEMMA TopupInvariant == Spec => []TopupInv
<1>1. Init => TopupInv
  <2> SUFFICES ASSUME Init
               PROVE  TopupInv
    OBVIOUS
  <2>1. topups = <<>> /\ users = <<>> /\ call = <<>> /\ now = 0
    BY DEF Init, CallsInit, PeopleInit, ProfileInit, LimiterInit
  <2>2. IsSequence(topups) /\ DOMAIN topups = {} /\ DOMAIN users = {} /\ DOMAIN call = {}
    BY <2>1, EmptySeq DEF IsSequence
  <2> QED BY <2>1, <2>2 DEF TopupInv, TransfersInv, LastTopupsInv, CooledInv
<1>2. CallsInv /\ SignInInv /\ TopupInv /\ [Next]_vars => TopupInv'
  <2> SUFFICES ASSUME CallsInv, SignInInv, TopupInv, [Next]_vars
               PROVE  TopupInv'
    OBVIOUS
  <2>1. ASSUME UNCHANGED <<call, users, topups>>, now' = now \/ now' = now + 1
        PROVE  TopupInv'
    <3>1. now \in Nat /\ now' \in Nat /\ now' >= now
      BY <2>1 DEF TopupInv, LastTopupsInv
    <3>2. TransfersInv'
      BY <2>1, <3>1 DEF TopupInv, TransfersInv, IsA, Overlap
    <3>3. LastTopupsInv'
      BY <2>1, <3>1 DEF TopupInv, LastTopupsInv, IsA, Me
    <3>4. CooledInv'
      BY <2>1, <3>1, LimiterAssumption DEF TopupInv, TransfersInv, CooledInv, At, IsA, Me, Overlap
    <3> QED BY <3>2, <3>3, <3>4 DEF TopupInv
  <2>2. ASSUME NEW n, Begins(n), UNCHANGED <<users, topups, now>>, OpsStay
        PROVE  TopupInv'
    <3>1. /\ \A c \in DOMAIN call : c \in DOMAIN call' /\ call'[c] = call[c] /\ c # n
          /\ DOMAIN call' = DOMAIN call \cup {n} /\ call'[n].at = "begin"
      BY <2>2 DEF Begins, CallsInv, IsSequence
    <3>2. \A i \in DOMAIN topups : topups[i].call \in DOMAIN call
      BY DEF TopupInv, TransfersInv
    <3>3. TransfersInv'
      BY <2>2, <3>1, <3>2 DEF TopupInv, TransfersInv, IsA, Overlap
    <3>4. LastTopupsInv'
      BY <2>2, <3>1, <3>2 DEF TopupInv, LastTopupsInv, IsA, Me
    <3>5. CooledInv'
      BY <2>2, <3>1, <3>2 DEF TopupInv, CooledInv, At, IsA, Me, Overlap
    <3> QED BY <3>3, <3>4, <3>5 DEF TopupInv
  <2>3. ASSUME NEW d \in DOMAIN call, CallStep(d), GoesOn(d), OpsStay
        PROVE  TopupInv'
    BY <2>3, TransfersStep, LastTopupsStep, CooledStep DEF TopupInv
  <2> QED BY <2>1, <2>2, <2>3, StepCases DEF peopleOwn, limiterVars
<1> QED BY <1>1, <1>2, CallsInvariant, SignInInvariant, PTL DEF Spec

(* Records and keys keep to their limits as long as the calls that check   *)
(* do not overlap (data-service.ts:60, storage-service.ts:66), and of two  *)
(* top-ups that do not overlap the second comes a day after the first, if  *)
(* that one was not cut short (profile.ts:138).                            *)
THEOREM LimitsAreKeptAlone == Spec => []LimitsHoldAlone
<1>1. RecordsInv /\ StorageInv /\ TopupInv => LimitsHoldAlone
  <2> SUFFICES ASSUME RecordsInv, StorageInv, TopupInv
               PROVE  LimitsHoldAlone
    OBVIOUS
  <2>1. (\A c \in The("insert") : Alone(c, The("insert")))
           => Cardinality(DOMAIN records) <= RecordsMax
    BY DEF RecordsInv, InsertsAlone
  <2>2. ASSUME NEW user, NEW sets, sets = {c \in The("set") : call[c].op.by = user},
               \A c \in sets : Alone(c, sets)
        PROVE  Cardinality(KeysOf(user)) <= KeysMax
    BY <2>2 DEF StorageInv, SetsAlone, SetsOf, Fits
  <2>3. \A i, j \in DOMAIN topups :
          LET c == topups[i].call  d == topups[j].call IN
          i < j /\ Me(c) = Me(d) /\ ~Overlap(c, d) /\ call[c].answer = "ok" =>
              topups[j].at - topups[i].at >= DayLength
    BY DEF TopupInv, CooledInv
  <2> QED BY <2>1, <2>2, <2>3 DEF LimitsHoldAlone
<1> QED BY <1>1, RecordsInvariant, StorageInvariant, TopupInvariant, PTL

(***************************************************************************)
(* Friends, and the lines they send each other.                            *)
(***************************************************************************)

Friends(two) ==
    {d \in The("addFriend") \cup The("removeFriend") : {call[d].op.from, call[d].op.to} = two}

(* Those two make and end their friendship one call after the other.       *)
InTurn(two) ==
    \A d \in Friends(two) : Alone(d, Friends(two)) /\ call[d].answer \in {Null, "ok"}

(* The last of these calls that is over made it.                           *)
LastAdds(two) ==
    \E d \in Friends(two) :
        /\ IsA("addFriend", d) /\ call[d].at = "end"
        /\ \A e \in Friends(two) : e > d => call[e].at # "end"

RowIsRight(a, b) ==
    InTurn({a, b}) => (canonicalPair(a, b) \in friendship <=> LastAdds({a, b}))

Two(c) == {call[c].op.from, call[c].op.to}

(* A line that got through was between friends, and one that did not was   *)
(* not.                                                                    *)
LineIsRight(c) ==
    InTurn(Two(c)) /\ (\A d \in Friends(Two(c)) : ~Overlap(c, d)) =>
        /\ call[c].answer = "FORBIDDEN" => ~Befriended(c)
        /\ call[c].at \in {"jam", "row"} \/ c \in directMessage => Befriended(c)

FriendsInv ==
    /\ \A a, b \in Int : RowIsRight(a, b)
    /\ directMessage \subseteq DOMAIN call
    /\ \A c \in The("chat") : LineIsRight(c)

(* The one row of two people, whoever is named first.                      *)
LEMMA OneRow ==
    ASSUME NEW a \in Int, NEW b \in Int, NEW x \in Int, NEW y \in Int
    PROVE  canonicalPair(a, b) = canonicalPair(x, y) <=> {a, b} = {x, y}
<1>1. canonicalPair(a, b) = canonicalPair(x, y) => {a, b} = {x, y}
  BY DEF canonicalPair
<1>2. ASSUME {a, b} = {x, y}
      PROVE  (a = x /\ b = y) \/ (a = y /\ b = x)
  BY <1>2
<1>3. (a = x /\ b = y) \/ (a = y /\ b = x) => canonicalPair(a, b) = canonicalPair(x, y)
  BY DEF canonicalPair
<1> QED BY <1>1, <1>2, <1>3

(* Only these write the tables of friends and of lines.                    *)
LEMMA WritesFriends ==
    ASSUME NEW d \in DOMAIN call, CallStep(d)
    PROVE  /\ friendship' = friendship \/ AddFriend(d) \/ RemoveFriend(d)
           /\ directMessage' = directMessage \/ ChatAdds(d)
<1>1. friendship' = friendship \/ AddFriend(d) \/ RemoveFriend(d)
  BY DEF CallStep, PeopleStep, ProfileStep, SignInLooks, SignInSetsWallet, SignInDerives,
     SignInAdds, ChatAsks, ChatFindsJam, ChatAdds, LikeLooks, LikeToggles, peopleOwn,
     peopleVars
<1>2. directMessage' = directMessage \/ ChatAdds(d)
  BY DEF CallStep, PeopleStep, ProfileStep, SignInLooks, SignInSetsWallet, SignInDerives,
     SignInAdds, AddFriend, RemoveFriend, ChatAsks, ChatFindsJam, LikeLooks, LikeToggles,
     peopleOwn, peopleVars
<1> QED BY <1>1, <1>2

(* What a call that makes or ends a friendship, or sends a line, does.     *)
LEMMA FriendSteps ==
    ASSUME CallsInv, NEW d \in DOMAIN call, CallStep(d),
           call[d].op.name \in {"addFriend", "removeFriend", "chat"}
    PROVE  \/ Fails(d)
           \/ AddFriend(d) /\ IsA("addFriend", d)
           \/ RemoveFriend(d) /\ IsA("removeFriend", d)
           \/ IsA("chat", d) /\ (ChatAsks(d) \/ ChatFindsJam(d) \/ ChatAdds(d))
<1>1. call[d].at # "model"
  BY DEF CallsInv
<1> QED BY <1>1 DEF CallStep, MeteredStep, AppDataStep, InboxStep, PeopleStep,
        ProfileStep, GameStep, At, IsA, ChatBegins, RefineBegins, RefineGathers,
        ModelAnswers, ModelFails, InsertCounts, InsertAdds, UpdateReads, UpdateWrites,
        DeleteReads, DeleteWrites, ListPages, SetLooks, SetCounts, SetUpserts, Unset,
        Clear, SendAsks, SendAdds, EvictionCounts, EvictionChooses, EvictionDeletes,
        MarkAllRead, SignInLooks, SignInSetsWallet, SignInDerives, SignInAdds, AddFriend,
        RemoveFriend, ChatAsks, ChatFindsJam, ChatAdds, LikeLooks, LikeToggles,
        ClaimBegins, ClaimLooks, ClaimMints, ClaimWrites, TopupLooks, TopupPays,
        TopupWrites, MoveIsSent, MoveIsMined, ResetIsSent, ResetIsMined

(* Answers of calls that are over stay, and overlaps are only added.       *)
LEMMA InTurnBefore ==
    ASSUME CallsInv, OpsStay, NEW two, InTurn(two)',
           \A d \in DOMAIN call : call[d].answer = Null \/ call'[d].answer = call[d].answer
    PROVE  InTurn(two)
<1>1. \A d \in Friends(two) : d \in Friends(two)'
  BY DEF Friends, OpsStay, The, IsA
<1>2. \A d, e \in Friends(two) : Overlap(d, e) => Overlap(d, e)'
  BY DEF Friends, OpsStay, The, Overlap
<1> QED BY <1>1, <1>2 DEF InTurn, Alone, Friends, The

(* An answer is never changed.                                             *)
LEMMA AnswersStay ==
    ASSUME CallsInv, NEW d \in DOMAIN call, GoesOn(d)
    PROVE  \A e \in DOMAIN call : call[e].answer = Null \/ call'[e].answer = call[e].answer
BY DEF CallsInv, GoesOn

(* What was asked before a call began is over when it alone is under way.  *)
LEMMA BefriendedStays ==
    ASSUME CallsInv, OpsStay, NEW c \in DOMAIN call,
           \A d \in DOMAIN call' : d \in DOMAIN call \/ (d \in Int /\ c < d)
    PROVE  Befriended(c)' <=> Befriended(c)
<1>1. Friending(c) \subseteq Friending(c)' /\ Friending(c)' \cap DOMAIN call = Friending(c)
  BY DEF Friending, OpsStay, The, IsA
<1>2. \A d \in Friending(c)' : d \in Friending(c) \/ (d \in Int /\ c < d)
  BY <1>1 DEF Friending, The
<1>3. \A d \in DOMAIN call : IsA("addFriend", d)' <=> IsA("addFriend", d)
  BY DEF OpsStay, IsA
<1>4. c \in Int /\ \A d \in DOMAIN call : d \in Int
  BY DEF CallsInv, IsSequence
<1>5. \A d \in Friending(c)' : d < c => d \in Friending(c)
  BY <1>2, <1>4
<1>6. Befriended(c) =>  Befriended(c)'
  <2> SUFFICES ASSUME NEW d \in The("addFriend") \cap Friending(c), d < c,
                      \A e \in Friending(c) : ~(d < e /\ e < c)
               PROVE  Befriended(c)'
    BY DEF Befriended
  <2>1. d \in The("addFriend")' /\ d \in Friending(c)'
    BY <1>1, <1>3 DEF The, OpsStay
  <2> QED BY <1>5, <2>1 DEF Befriended
<1>7. Befriended(c)' => Befriended(c)
  <2> SUFFICES ASSUME NEW d \in The("addFriend")' \cap Friending(c)', d < c,
                      \A e \in Friending(c)' : ~(d < e /\ e < c)
               PROVE  Befriended(c)
    BY DEF Befriended
  <2>1. d \in Friending(c) /\ d \in The("addFriend")
    BY <1>3, <1>5 DEF The, Friending
  <2> QED BY <1>1, <2>1 DEF Befriended
<1> QED BY <1>6, <1>7

(* A call that makes or ends a friendship is the last of the two people's, *)
(* if theirs come in turn.                                                 *)
LEMMA IsLast ==
    ASSUME CallsInv, NEW two, InTurn(two), NEW d \in Friends(two), Running(d),
           NEW e \in Friends(two), e # d
    PROVE  e < d /\ call[e].at = "end"
<1>1. d \in DOMAIN call /\ e \in DOMAIN call /\ ~Overlap(d, e)
  BY DEF Friends, The, InTurn, Alone
<1>2. d \in Int /\ e \in Int
  BY <1>1 DEF CallsInv, IsSequence
<1>3. ~(d < e) /\ ~Running(e)
  BY <1>1, RunningOverlap
<1> QED BY <1>2, <1>3 DEF Running

(* The row of two people, after a statement.                               *)
LEMMA RowStep ==
    ASSUME CallsInv, OpsInv, FriendsInv, OpsStay, NEW d \in DOMAIN call, CallStep(d),
           GoesOn(d), NEW a \in Int, NEW b \in Int
    PROVE  RowIsRight(a, b)'
<1>0. PICK two : two = {a, b}
  OBVIOUS
<1>1. SUFFICES ASSUME InTurn(two)'
               PROVE  canonicalPair(a, b) \in friendship' <=> LastAdds(two)'
  BY <1>0 DEF RowIsRight, canonicalPair
<1>2. InTurn(two) /\ (canonicalPair(a, b) \in friendship <=> LastAdds(two))
  <2>1. InTurn(two)
    BY <1>1, InTurnBefore, AnswersStay
  <2> QED BY <1>0, <2>1 DEF FriendsInv, RowIsRight
<1>3. /\ Friends(two)' = Friends(two) /\ Running(d)
      /\ \A e \in Friends(two) : e # d => call'[e] = call[e]
      /\ \A e \in Friends(two) : call'[e].op = call[e].op
  BY DEF Friends, GoesOn, The, IsA, Running
<1>4. CASE d \notin Friends(two)
  <2>1. LastAdds(two)' <=> LastAdds(two)
    BY <1>3, <1>4 DEF LastAdds, IsA
  <2>2. ASSUME AddFriend(d) \/ RemoveFriend(d)
        PROVE  Pair(d) # canonicalPair(a, b)
    <3>1. call[d].op.name \in {"addFriend", "removeFriend"} /\ call[d].op \in Ops
      BY <2>2 DEF AddFriend, RemoveFriend, At, IsA, OpsInv
    <3>2. call[d].op.from \in Int /\ call[d].op.to \in Int
      BY <3>1, PeopleAssumption
    <3>3. PICK x \in Int, y \in Int : x = call[d].op.from /\ y = call[d].op.to
      BY <3>2
    <3>4. {x, y} # two
      BY <1>4, <3>1, <3>3 DEF Friends, The, IsA
    <3>5. canonicalPair(x, y) = canonicalPair(a, b) => {x, y} = {a, b}
      BY OneRow
    <3>6. Pair(d) = canonicalPair(x, y)
      BY <3>3 DEF Pair
    <3> QED BY <1>0, <3>4, <3>5, <3>6
  <2>3. canonicalPair(a, b) \in friendship' <=> canonicalPair(a, b) \in friendship
    BY <2>2, WritesFriends DEF AddFriend, RemoveFriend
  <2> QED BY <1>2, <2>1, <2>3
<1>5. CASE d \in Friends(two)
  <2>1. /\ call[d].op.name \in {"addFriend", "removeFriend"} /\ call[d].op \in Ops
        /\ {call[d].op.from, call[d].op.to} = two
    BY <1>5 DEF Friends, The, IsA, OpsInv
  <2>2. Pair(d) = canonicalPair(a, b)
    <3>1. PICK x \in Int, y \in Int : x = call[d].op.from /\ y = call[d].op.to
      BY <2>1, PeopleAssumption
    <3>2. {x, y} = {a, b}
      BY <1>0, <2>1, <3>1
    <3>3. canonicalPair(x, y) = canonicalPair(a, b)
      BY <3>2, OneRow
    <3> QED BY <3>1, <3>3 DEF Pair
  <2>3. \A e \in Friends(two) : e # d => e < d
    BY <1>2, <1>3, <1>5, IsLast
  <2>4. d \in Int /\ \A e \in Friends(two) : e \in Int
    BY DEF CallsInv, IsSequence, Friends, The
  <2>5. ~Fails(d)
    <3>1. ASSUME Fails(d)
          PROVE  call'[d].answer = "THROWN"
      BY <1>3, <3>1, ReturnsNow DEF Fails, Throws, Now, Answers
    <3>2. call'[d].answer \in {Null, "ok"}
      BY <1>1, <1>3, <1>5 DEF InTurn
    <3> QED BY <3>1, <3>2, CallsAssumption DEF Answers
  <2>6. CASE AddFriend(d) /\ IsA("addFriend", d)
    <3>1. call'[d].at = "end" /\ canonicalPair(a, b) \in friendship'
      BY <1>3, <2>2, <2>6, ReturnsNow DEF AddFriend, Now, Answers
    <3>2. \A e \in Friends(two) : ~(e > d)
      BY <2>3, <2>4
    <3>3. LastAdds(two)'
      <4>1. d \in Friends(two)' /\ \A e \in Friends(two)' : e > d => call'[e].at # "end"
        BY <1>3, <1>5, <3>2
      <4>2. IsA("addFriend", d)'
        <5>1. call'[d].op = call[d].op
          BY DEF GoesOn
        <5> QED BY <2>6, <5>1 DEF IsA
      <4> QED BY <3>1, <4>1, <4>2 DEF LastAdds
    <3> QED BY <3>1, <3>3
  <2>7. CASE RemoveFriend(d) /\ IsA("removeFriend", d)
    <3>1. call'[d].at = "end" /\ canonicalPair(a, b) \notin friendship'
      BY <1>3, <2>2, <2>7, ReturnsNow DEF RemoveFriend, Now, Answers
    <3>2. \A e \in Friends(two) : e # d => d > e
      BY <2>3, <2>4
    <3>3. ~LastAdds(two)'
      <4> SUFFICES ASSUME NEW f \in Friends(two)', IsA("addFriend", f)', call'[f].at = "end",
                          \A e \in Friends(two)' : e > f => call'[e].at # "end"
                   PROVE  FALSE
        BY DEF LastAdds
      <4>1. f \in Friends(two) /\ f # d
        <5>1. call'[d].op = call[d].op
          BY DEF GoesOn
        <5> QED BY <1>3, <2>7, <5>1 DEF IsA
      <4>2. d > f /\ d \in Friends(two)'
        BY <1>3, <1>5, <3>2, <4>1
      <4> QED BY <3>1, <4>2
    <3> QED BY <3>1, <3>3
  <2> QED BY <2>1, <2>5, <2>6, <2>7, FriendSteps DEF IsA
<1> QED BY <1>4, <1>5

(* A line that asks who the two are to each other is told what the last    *)
(* call before it made them.                                               *)
LEMMA AsksRight ==
    ASSUME CallsInv, OpsInv, FriendsInv, NEW c \in The("chat"), Running(c),
           InTurn(Two(c)), \A d \in Friends(Two(c)) : ~Overlap(c, d)
    PROVE  Befriended(c) <=> Pair(c) \in friendship
<1>1. PICK a \in Int, b \in Int : a = call[c].op.from /\ b = call[c].op.to
  BY PeopleAssumption DEF The, IsA, OpsInv
<1>2. PICK two : two = {a, b} /\ two = Two(c)
  BY <1>1 DEF Two
<1>3. canonicalPair(a, b) \in friendship <=> LastAdds(two)
  BY <1>1, <1>2 DEF FriendsInv, RowIsRight
<1>4. Friending(c) = Friends(two)
  BY <1>2 DEF Friending, Friends, Two
<1>5. \A d \in Friends(two) : d \in Int /\ d < c /\ call[d].at = "end"
  <2> SUFFICES ASSUME NEW d \in Friends(two)
               PROVE  d \in Int /\ d < c /\ call[d].at = "end"
    OBVIOUS
  <2>1. d \in DOMAIN call /\ c \in DOMAIN call /\ ~Overlap(c, d) /\ d # c
    BY <1>2 DEF Friends, The, IsA
  <2>2. d \in Int /\ c \in Int
    BY <2>1 DEF CallsInv, IsSequence
  <2>3. ~Running(d) /\ ~(c < d)
    BY <2>1, RunningOverlap
  <2> QED BY <2>1, <2>2, <2>3 DEF Running
<1>6. \A d \in Friends(two) : d \in The("addFriend") <=> IsA("addFriend", d)
  BY DEF Friends, The
<1>7. LastAdds(two) <=> Befriended(c)
  <2>1. ASSUME NEW d \in Friends(two), IsA("addFriend", d),
               \A e \in Friends(two) : e > d => call[e].at # "end"
        PROVE  Befriended(c)
    <3>1. \A e \in Friends(two) : ~(d < e)
      BY <1>5, <2>1
    <3> QED BY <1>4, <1>5, <1>6, <2>1, <3>1 DEF Befriended
  <2>2. ASSUME NEW d \in Friends(two), d \in The("addFriend"),
               \A e \in Friends(two) : ~(d < e /\ e < c)
        PROVE  LastAdds(two)
    <3>1. \A e \in Friends(two) : ~(e > d)
      BY <1>5, <2>2
    <3> QED BY <1>5, <1>6, <2>2, <3>1 DEF LastAdds
  <2> QED BY <1>4, <2>1, <2>2 DEF LastAdds, Befriended
<1> QED BY <1>1, <1>3, <1>7 DEF Pair

(* A line, after a statement.                                              *)
LEMMA LineStep ==
    ASSUME CallsInv, OpsInv, FriendsInv, OpsStay, NEW d \in DOMAIN call, CallStep(d),
           GoesOn(d), NEW c \in The("chat")
    PROVE  LineIsRight(c)'
<1>1. PICK two : two = Two(c)
  OBVIOUS
<1>0. c \in DOMAIN call /\ IsA("chat", c) /\ Two(c)' = two
  BY <1>1 DEF The, OpsStay, Two
<1>2. SUFFICES ASSUME InTurn(two)', \A e \in Friends(two)' : ~Overlap(c, e)'
               PROVE  /\ call'[c].answer = "FORBIDDEN" => ~Befriended(c)'
                      /\ call'[c].at \in {"jam", "row"} \/ c \in directMessage'
                           => Befriended(c)'
  BY <1>0 DEF LineIsRight, InTurn, Friends
<1>3. InTurn(two)
  BY <1>2, InTurnBefore, AnswersStay
<1>4. \A e \in Friends(two) : ~Overlap(c, e)
  BY <1>0, <1>2 DEF Friends, OpsStay, The, IsA, Overlap
<1>5. Befriended(c)' <=> Befriended(c)
  BY <1>0, BefriendedStays DEF GoesOn
<1>6. /\ call[c].answer = "FORBIDDEN" => ~Befriended(c)
      /\ call[c].at \in {"jam", "row"} \/ c \in directMessage => Befriended(c)
  BY <1>1, <1>3, <1>4 DEF FriendsInv, LineIsRight
<1>7. CASE c # d
  <2>1. call'[c] = call[c]
    BY <1>0, <1>7 DEF GoesOn
  <2>2. c \in directMessage' => c \in directMessage
    BY <1>7, WritesFriends DEF ChatAdds
  <2> QED BY <1>5, <1>6, <2>1, <2>2
<1>8. CASE c = d
  <2>1. Running(d) /\ call[d].answer = Null /\ Null \notin Answers
    BY CallsAssumption DEF GoesOn, Running, CallsInv
  <2>2. ASSUME NEW answer \in Answers, Returns(d, answer)
        PROVE  call'[d].at = "end" /\ call'[d].answer = answer
    BY <2>1, <2>2, ReturnsNow DEF Now
  <2>3. ASSUME NEW step \in {"jam", "row"}, Awaits(d, step, Null)
        PROVE  call'[d].at = step /\ call'[d].answer = Null
    BY <2>1, <2>3, AwaitsNow DEF Now
  <2>4. CASE Fails(d)
    <3>1. call'[d].at = "end" /\ call'[d].answer = "THROWN" /\ directMessage' = directMessage
      BY <2>2, <2>4, WritesFriends DEF Fails, Throws, Answers, ChatAdds, At,
         Returns, Awaits
    <3> QED BY <1>5, <1>6, <1>8, <3>1
  <2>5. CASE ChatAsks(d)
    <3>1. Befriended(d) <=> Pair(d) \in friendship
      BY <1>0, <1>1, <1>3, <1>4, <1>8, <2>1, AsksRight
    <3>2. directMessage' = directMessage
      BY <2>5 DEF ChatAsks
    <3>3. CASE Pair(d) \notin friendship /\ Returns(d, "FORBIDDEN")
      <4>1. call'[d].at = "end"
        BY <2>2, <3>3 DEF Answers
      <4> QED BY <1>5, <1>6, <1>8, <3>1, <3>2, <3>3, <4>1
    <3>4. CASE Pair(d) \in friendship
      <4>1. call'[d].answer # "FORBIDDEN"
        BY <2>1, <2>2, <2>3, <2>5, <3>4 DEF ChatAsks, ChatGoesOn, Answers
      <4> QED BY <1>5, <1>8, <3>1, <3>4, <4>1
    <3> QED BY <2>5, <3>3, <3>4 DEF ChatAsks
  <2>6. CASE ChatFindsJam(d)
    <3>1. directMessage' = directMessage /\ call[d].at = "jam" /\ call'[d].answer # "FORBIDDEN"
      BY <2>1, <2>2, <2>3, <2>6 DEF ChatFindsJam, peopleVars, At, Answers
    <3> QED BY <1>5, <1>6, <1>8, <3>1
  <2>7. CASE ChatAdds(d)
    <3>1. call[d].at = "row" /\ call'[d].answer # "FORBIDDEN"
      BY <2>2, <2>7 DEF ChatAdds, At, Answers
    <3> QED BY <1>5, <1>6, <1>8, <3>1
  <2> QED BY <1>0, <1>8, <2>4, <2>5, <2>6, <2>7, FriendSteps DEF IsA
<1> QED BY <1>7, <1>8

(* Lines and refusals go by the last call about the friendship.            *)
LEMMA FriendsInvariant == Spec => []FriendsInv
<1>1. Init => FriendsInv
  <2> SUFFICES ASSUME Init
               PROVE  FriendsInv
    OBVIOUS
  <2>1. friendship = {} /\ directMessage = {} /\ DOMAIN call = {}
    BY DEF Init, CallsInit, PeopleInit
  <2> QED BY <2>1 DEF FriendsInv, RowIsRight, LineIsRight, LastAdds, Friends, The
<1>2. CallsInv /\ OpsInv /\ FriendsInv /\ [Next]_vars => FriendsInv'
  <2> SUFFICES ASSUME CallsInv, OpsInv, FriendsInv, [Next]_vars
               PROVE  FriendsInv'
    OBVIOUS
  <2>1. ASSUME UNCHANGED <<call, friendship, directMessage>>
        PROVE  FriendsInv'
    <3>1. \A two : /\ Friends(two)' = Friends(two) /\ InTurn(two)' = InTurn(two)
                   /\ LastAdds(two)' = LastAdds(two)
      BY <2>1 DEF InTurn, LastAdds, Friends, The, IsA, Alone, Overlap
    <3>2. \A a, b \in Int : RowIsRight(a, b)'
      BY <2>1, <3>1 DEF FriendsInv, RowIsRight, canonicalPair
    <3>3. ASSUME NEW c \in The("chat")
          PROVE  LineIsRight(c)'
      <4>1. Befriended(c)' <=> Befriended(c)
        BY <2>1 DEF Befriended, Friending, The, IsA
      <4>2. Two(c)' = Two(c)
        BY <2>1 DEF Two
      <4>3. PICK two : two = Two(c) /\ two = Two(c)'
        BY <4>2
      <4>4. LineIsRight(c)
        BY DEF FriendsInv
      <4> QED BY <2>1, <3>1, <4>1, <4>3, <4>4 DEF LineIsRight, Overlap
    <3>4. The("chat")' = The("chat")
      BY <2>1 DEF The, IsA
    <3> QED BY <2>1, <3>2, <3>3, <3>4 DEF FriendsInv
  <2>2. ASSUME NEW n, Begins(n), UNCHANGED <<friendship, directMessage>>, OpsStay
        PROVE  FriendsInv'
    <3>1. /\ \A c \in DOMAIN call : c \in DOMAIN call' /\ call'[c] = call[c] /\ c < n /\ c # n
          /\ DOMAIN call' = DOMAIN call \cup {n} /\ call'[n].at = "begin" /\ n \in Int
          /\ call'[n].answer # "FORBIDDEN"
      BY <2>2, CallsAssumption DEF Begins, CallsInv, IsSequence, Answers
    <3>2. ASSUME NEW two, InTurn(two)'
          PROVE  InTurn(two) /\ (LastAdds(two)' <=> LastAdds(two))
      <4>1. InTurn(two)
        BY <2>2, <3>1, <3>2, InTurnBefore
      <4>2. /\ \A d \in Friends(two) : d \in Friends(two)' /\ call'[d] = call[d]
            /\ \A d \in Friends(two)' : d \in Friends(two) \/ d = n
        BY <3>1 DEF Friends, The, IsA
      <4>3. \A d \in Friends(two) : IsA("addFriend", d)' <=> IsA("addFriend", d)
        BY <4>2 DEF IsA
      <4>4. LastAdds(two) => LastAdds(two)'
        BY <3>1, <4>2, <4>3 DEF LastAdds
      <4>5. LastAdds(two)' => LastAdds(two)
        BY <3>1, <4>2, <4>3 DEF LastAdds
      <4> QED BY <4>1, <4>4, <4>5
    <3>3. ASSUME NEW a \in Int, NEW b \in Int
          PROVE  RowIsRight(a, b)'
      BY <2>2, <3>2 DEF FriendsInv, RowIsRight, canonicalPair
    <3>4. ASSUME NEW c \in The("chat")'
          PROVE  LineIsRight(c)'
      <4>1. CASE c = n
        BY <2>2, <3>1, <4>1 DEF LineIsRight, FriendsInv
      <4>2. CASE c # n
        <5>1. c \in DOMAIN call /\ c \in The("chat") /\ call'[c] = call[c] /\ Two(c)' = Two(c)
          BY <3>1, <4>2 DEF The, IsA, Two
        <5>2. Befriended(c)' <=> Befriended(c)
          BY <2>2, <3>1, <5>1, BefriendedStays
        <5>3. PICK two : two = Two(c)
          OBVIOUS
        <5>4. ASSUME InTurn(two)', \A d \in Friends(two)' : ~Overlap(c, d)'
              PROVE  InTurn(two) /\ \A d \in Friends(two) : ~Overlap(c, d)
          BY <3>1, <3>2, <5>1, <5>4 DEF Friends, The, IsA, Overlap
        <5>5. two = Two(c)'
          BY <5>1, <5>3
        <5>6. LineIsRight(c)
          BY <5>1 DEF FriendsInv
        <5> QED BY <2>2, <5>1, <5>2, <5>3, <5>4, <5>5, <5>6 DEF LineIsRight
      <4> QED BY <4>1, <4>2
    <3> QED BY <2>2, <3>1, <3>3, <3>4 DEF FriendsInv
  <2>3. ASSUME NEW d \in DOMAIN call, CallStep(d), GoesOn(d), OpsStay
        PROVE  FriendsInv'
    <3>1. The("chat")' = The("chat") /\ DOMAIN call' = DOMAIN call
      BY <2>3 DEF The, IsA, GoesOn, OpsStay
    <3>2. directMessage' \subseteq DOMAIN call'
      BY <2>3, <3>1, WritesFriends DEF FriendsInv, ChatAdds
    <3> QED BY <2>3, <3>1, <3>2, RowStep, LineStep DEF FriendsInv
  <2> QED BY <2>1, <2>2, <2>3, StepCases DEF peopleOwn
<1> QED BY <1>1, <1>2, CallsInvariant, OpsInvariant, PTL DEF Spec

(* Between any two people, whoever asked and whoever ended it, a line gets *)
(* through if the last call before it made them friends and is refused if  *)
(* it ended the friendship, unless that is just changing (friend-          *)
(* service.ts:13, chat-service.ts:63).                                     *)
THEOREM LinesAreBetweenFriends == Spec => []FriendshipIsMutual
<1>1. CallsInv /\ FriendsInv => FriendshipIsMutual
  <2> SUFFICES ASSUME CallsInv, FriendsInv, NEW c \in The("chat"),
                      \A d \in Friending(c) :
                          call[d].answer = "ok" /\ Alone(d, Friending(c) \cup {c})
               PROVE  /\ call[c].answer = "FORBIDDEN" => ~Befriended(c)
                      /\ c \in directMessage => Befriended(c)
    BY DEF FriendshipIsMutual
  <2>1. PICK two : two = Two(c)
    OBVIOUS
  <2>2. Friends(two) = Friending(c)
    BY <2>1 DEF Friends, Friending, Two
  <2>3. ASSUME NEW d \in Friending(c)
        PROVE  ~Overlap(c, d) /\ call[d].answer = "ok" /\ Alone(d, Friending(c))
    <3>1. c # d
      BY DEF Friending, The, IsA
    <3> QED BY <3>1 DEF Alone, Overlap
  <2>4. InTurn(two)
    BY <2>2, <2>3 DEF InTurn
  <2>5. LineIsRight(c)
    BY DEF FriendsInv
  <2> QED BY <2>1, <2>2, <2>3, <2>4, <2>5 DEF LineIsRight
<1> QED BY <1>1, CallsInvariant, FriendsInvariant, PTL

(***************************************************************************)
(* What is read in one await and written in the next.                      *)
(***************************************************************************)

RowFields == {"by", "createdAt", "data"}

Id(c) == call[c].op.id
Field(c) == call[c].op.field

Kept(c) == Id(c) \in DOMAIN records /\ records[Id(c)].data[Field(c)] = c

(* A later call wrote the field, or deleted the record.                    *)
Later(c) ==
    \E d \in Writes(Id(c)) : d > c /\ (IsA("update", d) => Field(d) = Field(c))

Unmixed(c) == Alone(c, Writes(Id(c)))

UpdatesInv ==
    /\ \A id \in DOMAIN records :
          DOMAIN records[id] = RowFields /\ DOMAIN records[id].data = Fields
    /\ \A c \in The("update") :
          /\ call[c].at = "write" => DOMAIN call[c].saw = Fields
          /\ Unmixed(c) =>
              /\ call[c].at = "write" => Id(c) \in DOMAIN records
              /\ call[c].answer = "ok" => Kept(c) \/ Later(c)
    /\ \A c, d \in The("update") :
          Unmixed(c) /\ call[c].answer = "ok" /\ call[d].at = "write" /\ Id(d) = Id(c) /\ c < d
            => call[d].saw[Field(c)] = c \/ Later(c)

(* What writes a record does so to the one it was asked for.               *)
LEMMA WritesRows ==
    ASSUME NEW d \in DOMAIN call, CallStep(d)
    PROVE  \/ records' = records
           \/ /\ InsertAdds(d) \/ UpdateWrites(d) \/ DeleteWrites(d)
              /\ d \in Writes(Id(d)) /\ Running(d)
              /\ \A id : id # Id(d) =>
                    /\ id \in DOMAIN records' <=> id \in DOMAIN records
                    /\ id \in DOMAIN records => records'[id] = records[id]
<1>1. records' = records \/ InsertAdds(d) \/ UpdateWrites(d) \/ DeleteWrites(d)
  BY DEF CallStep, AppDataStep, InsertCounts, UpdateReads, DeleteReads, ListPages, SetLooks,
     SetCounts, SetUpserts, Unset, Clear, appDataVars
<1>2. CASE InsertAdds(d)
  BY <1>2 DEF InsertAdds, Writes, The, Id, At, IsA, Running
<1>3. CASE UpdateWrites(d)
  BY <1>3 DEF UpdateWrites, Writes, The, Id, At, IsA, Running
<1>4. CASE DeleteWrites(d)
  BY <1>4 DEF DeleteWrites, Writes, The, Id, At, IsA, Running
<1> QED BY <1>1, <1>2, <1>3, <1>4

(* What an update does next.                                               *)
LEMMA UpdateSteps ==
    ASSUME CallsInv, NEW d \in DOMAIN call, CallStep(d), IsA("update", d)
    PROVE  Fails(d) \/ UpdateReads(d) \/ UpdateWrites(d)
<1>1. call[d].at # "model"
  BY DEF CallsInv, IsA
<1> QED BY <1>1 DEF CallStep, MeteredStep, AppDataStep, InboxStep, PeopleStep,
        ProfileStep, GameStep, At, IsA, ChatBegins, RefineBegins, RefineGathers,
        ModelAnswers, ModelFails, InsertCounts, InsertAdds,
        DeleteReads, DeleteWrites, ListPages, SetLooks, SetCounts, SetUpserts, Unset,
        Clear, SendAsks, SendAdds, EvictionCounts, EvictionChooses, EvictionDeletes,
        MarkAllRead, SignInLooks, SignInSetsWallet, SignInDerives, SignInAdds, AddFriend,
        RemoveFriend, ChatAsks, ChatFindsJam, ChatAdds, LikeLooks, LikeToggles,
        ClaimBegins, ClaimLooks, ClaimMints, ClaimWrites, TopupLooks, TopupPays,
        TopupWrites, MoveIsSent, MoveIsMined, ResetIsSent, ResetIsMined

(* Where an update stands after a step of its own.                         *)
LEMMA UpdateGoesTo ==
    ASSUME CallsInv, NEW d \in DOMAIN call, CallStep(d), GoesOn(d), IsA("update", d)
    PROVE  /\ call'[d].at = "write" =>
                /\ Id(d) \in DOMAIN records /\ call'[d].saw = records[Id(d)].data
                /\ records' = records /\ call'[d].answer = Null
           /\ call'[d].answer = "ok" => UpdateWrites(d)
<1>1. Running(d) /\ Null \notin Answers
      /\ {"ok", "THROWN", "NOT_FOUND", "FORBIDDEN"} \subseteq Answers
  BY CallsAssumption DEF GoesOn, Running, Answers
<1>2. ASSUME NEW answer \in Answers, Returns(d, answer)
      PROVE  call'[d].at = "end" /\ call'[d].answer = answer
  BY <1>1, <1>2, ReturnsNow DEF Now
<1>3. CASE Fails(d)
  BY <1>1, <1>2, <1>3 DEF Fails, Throws
<1>4. CASE UpdateReads(d)
  <2>1. ASSUME Id(d) \in DOMAIN records, Awaits(d, "write", records[Id(d)].data)
        PROVE  /\ call'[d].at = "write" /\ call'[d].saw = records[Id(d)].data
               /\ call'[d].answer = Null
    BY <1>1, <2>1, AwaitsNow DEF Now
  <2> QED BY <1>1, <1>2, <1>4, <2>1 DEF UpdateReads, ReadsOwn, Id, appDataVars
<1>5. CASE UpdateWrites(d)
  BY <1>1, <1>2, <1>5 DEF UpdateWrites
<1> QED BY <1>3, <1>4, <1>5, UpdateSteps

(* Writes are only added to.                                               *)
LEMMA WritesGrow ==
    ASSUME OpsStay, NEW c \in DOMAIN call
    PROVE  /\ Id(c)' = Id(c) /\ Field(c)' = Field(c)
           /\ Unmixed(c)' => Unmixed(c)
           /\ Later(c) => Later(c)'
<1>1. Id(c)' = Id(c) /\ Field(c)' = Field(c)
  BY DEF OpsStay, Id, Field
<1>2. PICK id : id = Id(c)
  OBVIOUS
<1>3. \A d \in Writes(id) : d \in DOMAIN call /\ d \in Writes(id)'
        /\ (IsA("update", d)' <=> IsA("update", d)) /\ Field(d)' = Field(d)
  BY DEF Writes, The, IsA, OpsStay, Field
<1>4. Unmixed(c)' => Unmixed(c)
  BY <1>1, <1>2, <1>3 DEF Unmixed, Alone, OpsStay, Overlap
<1>5. Later(c) => Later(c)'
  BY <1>1, <1>2, <1>3 DEF Later
<1> QED BY <1>1, <1>4, <1>5

(* The types of rows, after a statement.                                   *)
LEMMA RowsStep ==
    ASSUME UpdatesInv, NEW d \in DOMAIN call, CallStep(d)
    PROVE  \A id \in DOMAIN records' :
             DOMAIN records'[id] = RowFields /\ DOMAIN records'[id].data = Fields
<1>1. CASE records' = records
  BY <1>1 DEF UpdatesInv
<1>2. CASE InsertAdds(d)
  BY <1>2 DEF InsertAdds, UpdatesInv, RowFields
<1>3. CASE UpdateWrites(d)
  <2>1. d \in The("update") /\ call[d].at = "write" /\ DOMAIN Merged(d) = Fields
    BY <1>3 DEF UpdateWrites, At, IsA, The, UpdatesInv, Merged
  <2>2. PICK m : m = Merged(d)
    OBVIOUS
  <2>3. \/ records' = records
        \/ records' = [records EXCEPT ![Id(d)].data = m]
    BY <1>3, <2>2 DEF UpdateWrites, Id
  <2> QED BY <2>1, <2>2, <2>3 DEF UpdatesInv, RowFields
<1>4. CASE DeleteWrites(d)
  BY <1>4 DEF DeleteWrites, UpdatesInv
<1> QED BY <1>1, <1>2, <1>3, <1>4, WritesRows

(* An update that nobody else's write overlaps, after a statement.         *)
LEMMA KeptStep ==
    ASSUME CallsInv, OpsInv, UpdatesInv, OpsStay, NEW d \in DOMAIN call, CallStep(d),
           GoesOn(d), NEW c \in The("update"), Unmixed(c)'
    PROVE  /\ call'[c].at = "write" => Id(c) \in DOMAIN records'
           /\ call'[c].answer = "ok" => Kept(c)' \/ Later(c)'
<1>0. c \in DOMAIN call /\ IsA("update", c) /\ Unmixed(c) /\ Id(c)' = Id(c)
      /\ Field(c)' = Field(c) /\ Running(d) /\ Field(c) \in Fields
  BY WritesGrow, AppDataAssumption DEF The, GoesOn, Running, OpsInv, IsA, Field
<1>1. CASE c = d
  <2>1. call'[c].at = "write" => Id(c) \in DOMAIN records'
    BY <1>0, <1>1, UpdateGoesTo
  <2>2. ASSUME call'[c].answer = "ok"
        PROVE  Kept(c)'
    <3>1. UpdateWrites(c)
      BY <1>0, <1>1, <2>2, UpdateGoesTo
    <3>2. Id(c) \in DOMAIN records /\ DOMAIN call[c].saw = Fields
      BY <1>0, <3>1 DEF UpdateWrites, At, UpdatesInv
    <3>3. PICK m : m = Merged(c)
      OBVIOUS
    <3>4. records' = [records EXCEPT ![Id(c)].data = m] /\ m[Field(c)] = c
      BY <1>0, <3>1, <3>2, <3>3 DEF UpdateWrites, Merged, Id, Field
    <3>5. DOMAIN records' = DOMAIN records /\ records'[Id(c)].data = m
      BY <3>2, <3>4 DEF UpdatesInv, RowFields
    <3> QED BY <1>0, <3>2, <3>4, <3>5 DEF Kept
  <2> QED BY <2>1, <2>2
<1>2. CASE c # d
  <2>1. call'[c] = call[c]
    BY <1>0, <1>2 DEF GoesOn
  <2>2. CASE records' = records \/ Id(d) # Id(c)
    <3>1. /\ Id(c) \in DOMAIN records' <=> Id(c) \in DOMAIN records
          /\ Id(c) \in DOMAIN records => records'[Id(c)] = records[Id(c)]
      BY <2>2, WritesRows
    <3> QED BY <1>0, <2>1, <3>1, WritesGrow DEF UpdatesInv, Kept
  <2>3. CASE Id(d) = Id(c) /\ records' # records
    <3>1. InsertAdds(d) \/ UpdateWrites(d) \/ DeleteWrites(d)
      BY <2>3, WritesRows
    <3>2. d \in Writes(Id(c)) /\ ~Overlap(c, d)
      BY <1>0, <1>2, <2>3, WritesRows DEF Unmixed, Alone
    <3>3. ~Running(c) /\ ~(d < c) /\ c \in Int /\ d \in Int
      BY <1>0, <1>2, <3>2, RunningOverlap DEF Overlap, CallsInv, IsSequence
    <3>4. c < d /\ call'[c].at # "write"
      BY <1>2, <2>1, <3>3 DEF Running
    <3>5. ASSUME call'[c].answer = "ok"
          PROVE  Kept(c)' \/ Later(c)
      <4>1. Kept(c) \/ Later(c)
        BY <1>0, <2>1, <3>5 DEF UpdatesInv
      <4>2. CASE ~IsA("update", d) \/ Field(d) = Field(c)
        BY <3>2, <3>4, <4>2 DEF Later
      <4>3. CASE IsA("update", d) /\ Field(d) # Field(c) /\ ~Later(c)
        <5>1. UpdateWrites(d)
          BY <3>1, <4>3 DEF InsertAdds, DeleteWrites, At, IsA
        <5>2. d \in The("update") /\ call[d].at = "write" /\ DOMAIN call[d].saw = Fields
          BY <5>1 DEF UpdateWrites, At, IsA, The, UpdatesInv
        <5>3. call[d].saw[Field(c)] = c /\ Kept(c)
          BY <1>0, <2>1, <2>3, <3>4, <3>5, <4>1, <4>3, <5>2 DEF UpdatesInv
        <5>4. PICK m : m = Merged(d)
          OBVIOUS
        <5>5. m[Field(c)] = c
          BY <1>0, <4>3, <5>2, <5>3, <5>4 DEF Merged, Field
        <5>6. Id(c) \in DOMAIN records /\ records' = [records EXCEPT ![Id(c)].data = m]
          BY <2>3, <5>1, <5>3, <5>4 DEF UpdateWrites, Id, Kept
        <5>7. DOMAIN records' = DOMAIN records /\ records'[Id(c)].data = m
          BY <5>6 DEF UpdatesInv, RowFields
        <5> QED BY <1>0, <5>5, <5>6, <5>7 DEF Kept
      <4> QED BY <4>1, <4>2, <4>3
    <3> QED BY <1>0, <3>4, <3>5, WritesGrow
  <2> QED BY <2>2, <2>3
<1> QED BY <1>1, <1>2

(* What a later update has read, after a statement.                        *)
LEMMA ReadStep ==
    ASSUME CallsInv, OpsInv, UpdatesInv, OpsStay, NEW e \in DOMAIN call, CallStep(e),
           GoesOn(e), NEW c \in The("update"), NEW d \in The("update"), Unmixed(c)',
           call'[c].answer = "ok", call'[d].at = "write", Id(d)' = Id(c)', c < d
    PROVE  call'[d].saw[Field(c)'] = c \/ Later(c)'
<1>1. /\ c \in DOMAIN call /\ d \in DOMAIN call /\ IsA("update", c) /\ IsA("update", d)
      /\ Unmixed(c) /\ Id(c)' = Id(c) /\ Id(d)' = Id(d) /\ Field(c)' = Field(c)
      /\ (Later(c) => Later(c)')
  BY WritesGrow DEF The
<1>2. d \in Writes(Id(c)) /\ c \in Int /\ d \in Int /\ c # d
  BY <1>1 DEF Writes, The, Id, CallsInv, IsSequence
<1>3. c # e
  <2>1. Running(c) => Overlap(c, d)
    BY <1>1, <1>2, RunningOverlap
  <2> QED BY <1>1, <1>2, <2>1 DEF Unmixed, Alone, GoesOn, Running
<1>4. call'[c] = call[c]
  BY <1>1, <1>3 DEF GoesOn
<1>5. CASE d # e
  BY <1>1, <1>4, <1>5 DEF GoesOn, UpdatesInv
<1>6. CASE d = e
  <2>1. Id(c) \in DOMAIN records /\ call'[d].saw = records[Id(c)].data
    BY <1>1, <1>6, UpdateGoesTo
  <2>2. Kept(c) \/ Later(c)
    BY <1>1, <1>4 DEF UpdatesInv
  <2> QED BY <1>1, <2>1, <2>2 DEF Kept
<1> QED BY <1>5, <1>6

(* What was written stays until a later call writes it.                    *)
LEMMA UpdatesInvariant == Spec => []UpdatesInv
<1>1. Init => UpdatesInv
  <2> SUFFICES ASSUME Init
               PROVE  UpdatesInv
    OBVIOUS
  <2>1. DOMAIN records = {} /\ DOMAIN call = {}
    BY DEF Init, CallsInit, AppDataInit
  <2> QED BY <2>1 DEF UpdatesInv, The
<1>2. CallsInv /\ OpsInv /\ UpdatesInv /\ [Next]_vars => UpdatesInv'
  <2> SUFFICES ASSUME CallsInv, OpsInv, UpdatesInv, [Next]_vars
               PROVE  UpdatesInv'
    OBVIOUS
  <2>1. ASSUME UNCHANGED <<call, records>>
        PROVE  UpdatesInv'
    BY <2>1 DEF UpdatesInv, Unmixed, Alone, Overlap, Kept, Later, Writes, Id, Field, The, IsA
  <2>2. ASSUME NEW n, Begins(n), records' = records, OpsStay
        PROVE  UpdatesInv'
    <3>1. /\ \A c \in DOMAIN call : c \in DOMAIN call' /\ call'[c] = call[c] /\ c # n
          /\ DOMAIN call' = DOMAIN call \cup {n} /\ call'[n].at = "begin"
          /\ call'[n].answer # "ok"
      BY <2>2, CallsAssumption DEF Begins, CallsInv, IsSequence, Answers
    <3>2. \A c \in The("update")' : c = n \/ (c \in DOMAIN call /\ c \in The("update"))
      BY <3>1 DEF The, IsA
    <3>3. ASSUME NEW c \in The("update"), c \in DOMAIN call
          PROVE  /\ call'[c].at = "write" => DOMAIN call'[c].saw = Fields
                 /\ Unmixed(c)' =>
                      /\ call'[c].at = "write" => Id(c)' \in DOMAIN records'
                      /\ call'[c].answer = "ok" => Kept(c)' \/ Later(c)'
      <4>1. call'[c] = call[c] /\ Id(c)' = Id(c) /\ Field(c)' = Field(c)
            /\ (Unmixed(c)' => Unmixed(c)) /\ (Later(c) => Later(c)')
        BY <2>2, <3>1, <3>3, WritesGrow
      <4> QED BY <2>2, <3>3, <4>1 DEF UpdatesInv, Kept
    <3>4. ASSUME NEW c \in The("update"), NEW d \in The("update"), c \in DOMAIN call,
                 d \in DOMAIN call, Unmixed(c)', call'[c].answer = "ok",
                 call'[d].at = "write", Id(d)' = Id(c)', c < d
          PROVE  call'[d].saw[Field(c)'] = c \/ Later(c)'
      <4>1. /\ call'[c] = call[c] /\ call'[d] = call[d] /\ Id(c)' = Id(c) /\ Id(d)' = Id(d)
            /\ Field(c)' = Field(c) /\ (Unmixed(c)' => Unmixed(c)) /\ (Later(c) => Later(c)')
        BY <2>2, <3>1, <3>4, WritesGrow
      <4> QED BY <3>4, <4>1 DEF UpdatesInv
    <3>5. \A id \in DOMAIN records' :
             DOMAIN records'[id] = RowFields /\ DOMAIN records'[id].data = Fields
      BY <2>2 DEF UpdatesInv
    <3> QED BY <3>1, <3>2, <3>3, <3>4, <3>5 DEF UpdatesInv
  <2>3. ASSUME NEW e \in DOMAIN call, CallStep(e), GoesOn(e), OpsStay
        PROVE  UpdatesInv'
    <3>1. The("update")' = The("update")
      BY <2>3 DEF The, IsA, GoesOn, OpsStay
    <3>2. ASSUME NEW c \in The("update"), call'[c].at = "write"
          PROVE  DOMAIN call'[c].saw = Fields
      <4>1. CASE c = e
        BY <2>3, <3>2, <4>1, UpdateGoesTo DEF The, UpdatesInv
      <4>2. CASE c # e
        BY <2>3, <3>2, <4>2 DEF The, UpdatesInv, GoesOn
      <4> QED BY <4>1, <4>2
    <3>3. ASSUME NEW c \in The("update"), Unmixed(c)'
          PROVE  /\ call'[c].at = "write" => Id(c)' \in DOMAIN records'
                 /\ call'[c].answer = "ok" => Kept(c)' \/ Later(c)'
      <4>1. Id(c)' = Id(c)
        BY <2>3, WritesGrow DEF The
      <4> QED BY <2>3, <3>3, <4>1, KeptStep
    <3>4. ASSUME NEW c \in The("update"), NEW d \in The("update"), Unmixed(c)',
                 call'[c].answer = "ok", call'[d].at = "write", Id(d)' = Id(c)', c < d
          PROVE  call'[d].saw[Field(c)'] = c \/ Later(c)'
      BY <2>3, <3>4, ReadStep
    <3>5. \A id \in DOMAIN records' :
             DOMAIN records'[id] = RowFields /\ DOMAIN records'[id].data = Fields
      BY <2>3, RowsStep
    <3> QED BY <3>1, <3>2, <3>3, <3>4, <3>5 DEF UpdatesInv
  <2> QED BY <2>1, <2>2, <2>3, StepCases DEF appDataVars
<1> QED BY <1>1, <1>2, CallsInvariant, OpsInvariant, PTL DEF Spec

(***************************************************************************)
(* A heart, read in one await and turned in the next.                      *)
(***************************************************************************)

Toggled(user) == {c \in Taps(user) : call[c].answer \in {"liked", "unliked"}}

TapsAlone(user) == \A c \in Taps(user) : Alone(c, Taps(user))

(* What a tap has read is what is there.                                   *)
HasRead(c, user) ==
    \/ call[c].saw = TRUE /\ user \in appLike
    \/ call[c].saw = FALSE /\ user \notin appLike

Turned(user) ==
    /\ user \in appLike <=> Cardinality(Toggled(user)) % 2 = 1
    /\ \A c \in Taps(user) : call[c].at = "toggle" => HasRead(c, user)

LikesInv == \A user : TapsAlone(user) => Turned(user)

(* There are finitely many calls.                                          *)
LEMMA CallsAreFinite == CallsInv => IsFiniteSet(DOMAIN call)
<1> SUFFICES ASSUME CallsInv
             PROVE  IsFiniteSet(DOMAIN call)
  OBVIOUS
<1>1. Len(call) \in Nat /\ DOMAIN call = 1 .. Len(call)
  BY AppendsTo DEF CallsInv
<1>2. IsFiniteSet(1 .. Len(call))
  BY <1>1, FS_Interval
<1> QED BY <1>1, <1>2

(* What a tap does next.                                                   *)
LEMMA LikeSteps ==
    ASSUME CallsInv, NEW d \in DOMAIN call, CallStep(d), IsA("like", d)
    PROVE  Fails(d) \/ LikeLooks(d) \/ LikeToggles(d)
<1>1. call[d].at # "model"
  BY DEF CallsInv, IsA
<1> QED BY <1>1 DEF CallStep, MeteredStep, AppDataStep, InboxStep, PeopleStep,
        ProfileStep, GameStep, At, IsA, ChatBegins, RefineBegins, RefineGathers,
        ModelAnswers, ModelFails, InsertCounts, InsertAdds, UpdateReads, UpdateWrites,
        DeleteReads, DeleteWrites, ListPages, SetLooks, SetCounts, SetUpserts, Unset,
        Clear, SendAsks, SendAdds, EvictionCounts, EvictionChooses, EvictionDeletes,
        MarkAllRead, SignInLooks, SignInSetsWallet, SignInDerives, SignInAdds, AddFriend,
        RemoveFriend, ChatAsks, ChatFindsJam, ChatAdds,
        ClaimBegins, ClaimLooks, ClaimMints, ClaimWrites, TopupLooks, TopupPays,
        TopupWrites, MoveIsSent, MoveIsMined, ResetIsSent, ResetIsMined

(* Only a tap turns a heart.                                               *)
LEMMA WritesHearts ==
    ASSUME NEW d \in DOMAIN call, CallStep(d), ~LikeToggles(d)
    PROVE  appLike' = appLike
BY DEF CallStep, PeopleStep, ProfileStep, peopleOwn, SignInLooks, SignInSetsWallet,
       SignInDerives, SignInAdds, AddFriend, RemoveFriend, ChatAsks, ChatFindsJam, ChatAdds,
       LikeLooks, ClaimBegins, ClaimLooks, ClaimMints, ClaimWrites, TopupLooks, TopupPays,
       TopupWrites, profileVars, peopleVars

(* Taps are only added to.                                                 *)
LEMMA TapsAloneBefore ==
    ASSUME OpsStay, NEW user, TapsAlone(user)'
    PROVE  TapsAlone(user)
BY DEF OpsStay, TapsAlone, Taps, Alone, The, IsA, Overlap

(* One more tap turns what is odd.                                         *)
LEMMA ParityTurns ==
    ASSUME NEW S, IsFiniteSet(S), NEW e, e \notin S
    PROVE  Cardinality(S \cup {e}) % 2 = 1 <=> ~(Cardinality(S) % 2 = 1)
<1>1. Cardinality(S) \in Nat
  BY FS_CardinalityType
<1>2. Cardinality(S \cup {e}) = Cardinality(S) + 1
  BY FS_AddElement
<1>3. \A n \in Nat : (n + 1) % 2 = 1 <=> ~(n % 2 = 1)
  OBVIOUS
<1> QED BY <1>1, <1>2, <1>3

(* Where a tap stands after a step of its own.                             *)
LEMMA LikeGoesTo ==
    ASSUME CallsInv, NEW d \in DOMAIN call, CallStep(d), GoesOn(d), IsA("like", d)
    PROVE  \/ /\ appLike' = appLike /\ call'[d].answer \notin {"liked", "unliked"}
              /\ call'[d].at = "toggle" => HasRead(d, call[d].op.by)'
           \/ /\ call[d].at = "toggle" /\ call'[d].at = "end"
              /\ call'[d].answer \in {"liked", "unliked"}
              /\ \/ call[d].saw /\ appLike' = appLike \ {call[d].op.by}
                 \/ ~call[d].saw /\ appLike' = appLike \cup {call[d].op.by}
<1>1. Running(d) /\ Null \notin Answers
      /\ {"liked", "unliked", "THROWN"} \subseteq Answers
  BY CallsAssumption DEF GoesOn, Running, Answers
<1>2. ASSUME NEW answer \in Answers, Returns(d, answer)
      PROVE  call'[d].at = "end" /\ call'[d].answer = answer
  BY <1>1, <1>2, ReturnsNow DEF Now
<1>3. CASE Fails(d)
  <2>1. ~LikeToggles(d)
    <3>1. call'[d].answer = "THROWN"
      BY <1>1, <1>2, <1>3 DEF Fails, Throws
    <3> QED BY <1>1, <1>2, <3>1 DEF LikeToggles
  <2> QED BY <1>1, <1>2, <1>3, <2>1, WritesHearts DEF Fails, Throws
<1>4. CASE LikeLooks(d)
  <2>0. PICK b : b = (call[d].op.by \in appLike)
    OBVIOUS
  <2>1. \/ b = TRUE /\ call[d].op.by \in appLike
        \/ b = FALSE /\ call[d].op.by \notin appLike
    <3>1. ASSUME call[d].op.by \in appLike
          PROVE  b = TRUE
      BY <2>0, <3>1, Zenon
    <3>2. ASSUME call[d].op.by \notin appLike
          PROVE  b = FALSE
      <4>1. (call[d].op.by \in appLike) = FALSE
        BY <3>2, SMT
      <4> QED BY <2>0, <4>1
    <3> QED BY <3>1, <3>2
  <2>2. Awaits(d, "toggle", b) /\ appLike' = appLike
    BY <1>4, <2>0 DEF LikeLooks, peopleVars
  <2>3. call'[d].at = "toggle" /\ call'[d].saw = b /\ call'[d].answer = Null
    BY <1>1, <2>2, AwaitsNow DEF Now
  <2>4. call'[d].op.by = call[d].op.by
    BY DEF GoesOn
  <2> QED BY <1>1, <2>1, <2>2, <2>3, <2>4 DEF HasRead
<1>5. CASE LikeToggles(d)
  BY <1>1, <1>2, <1>5 DEF LikeToggles, At
<1> QED BY <1>3, <1>4, <1>5, LikeSteps

(* The heart of one person, after a statement.                             *)
LEMMA HeartStep ==
    ASSUME CallsInv, OpsStay, NEW d \in DOMAIN call, CallStep(d), GoesOn(d),
           NEW user, TapsAlone(user), Turned(user)
    PROVE  Turned(user)'
<1>1. Taps(user)' = Taps(user) /\ Taps(user) \subseteq DOMAIN call
  BY DEF Taps, The, IsA, GoesOn, OpsStay
<1>2. \A c \in Taps(user) \ {d} : call'[c] = call[c]
  BY <1>1 DEF GoesOn
<1>3. Running(d) /\ Null \notin {"liked", "unliked"}
  BY CallsAssumption DEF GoesOn, Running, Answers
<1>4. CASE d \notin Taps(user)
  <2>1. Toggled(user)' = Toggled(user)
    BY <1>1, <1>2, <1>4 DEF Toggled
  <2>2. user \in appLike' <=> user \in appLike
    <3>1. CASE LikeToggles(d)
      <4>1. IsA("like", d) /\ call[d].op.by # user
        BY <1>4, <3>1 DEF LikeToggles, At, Taps, The
      <4> QED BY <3>1, <4>1 DEF LikeToggles
    <3> QED BY <3>1, WritesHearts
  <2> QED BY <1>1, <1>2, <1>4, <2>1, <2>2 DEF Turned, HasRead
<1>5. CASE d \in Taps(user)
  <2>1. IsA("like", d) /\ call[d].op.by = user /\ call'[d].op.by = user
    BY <1>5 DEF Taps, The, GoesOn
  <2>2. d \notin Toggled(user)
    BY <1>3 DEF Toggled, CallsInv, Running
  <2>3. CASE /\ appLike' = appLike /\ call'[d].answer \notin {"liked", "unliked"}
             /\ call'[d].at = "toggle" => HasRead(d, call[d].op.by)'
    <3>1. Toggled(user)' = Toggled(user)
      BY <1>1, <1>2, <2>2, <2>3 DEF Toggled
    <3>2. call'[d].at = "toggle" => HasRead(d, user)'
      BY <2>1, <2>3 DEF HasRead
    <3> QED BY <1>1, <1>2, <2>3, <3>1, <3>2 DEF Turned, HasRead
  <2>4. CASE /\ call[d].at = "toggle" /\ call'[d].at = "end"
             /\ call'[d].answer \in {"liked", "unliked"}
             /\ \/ call[d].saw /\ appLike' = appLike \ {call[d].op.by}
                \/ ~call[d].saw /\ appLike' = appLike \cup {call[d].op.by}
    <3>1. Toggled(user)' = Toggled(user) \cup {d}
      BY <1>1, <1>2, <1>5, <2>4 DEF Toggled
    <3>2. IsFiniteSet(Toggled(user))
      <4>1. Toggled(user) \subseteq DOMAIN call
        BY <1>1 DEF Toggled
      <4> QED BY <4>1, CallsAreFinite, FS_Subset
    <3>3. Cardinality(Toggled(user)') % 2 = 1 <=> ~(Cardinality(Toggled(user)) % 2 = 1)
      BY <2>2, <3>1, <3>2, ParityTurns
    <3>4. HasRead(d, user)
      BY <1>5, <2>4 DEF Turned
    <3>5. user \in appLike' <=> user \notin appLike
      BY <2>1, <2>4, <3>4 DEF HasRead
    <3>6. \A c \in Taps(user) : call'[c].at # "toggle"
      <4>1. ASSUME NEW c \in Taps(user), c # d, call[c].at = "toggle"
            PROVE  FALSE
        <5>1. Overlap(d, c)
          BY <1>1, <1>3, <4>1, RunningOverlap DEF Running
        <5> QED BY <1>5, <4>1, <5>1 DEF TapsAlone, Alone
      <4> QED BY <1>2, <2>4, <4>1
    <3>7. Cardinality(Toggled(user))' = Cardinality(Toggled(user)')
      OBVIOUS
    <3> QED BY <1>1, <3>3, <3>5, <3>6, <3>7 DEF Turned
  <2> QED BY <2>1, <2>3, <2>4, LikeGoesTo
<1> QED BY <1>4, <1>5

(* A heart that is tapped twice is as it was.                              *)
LEMMA LikesInvariant == Spec => []LikesInv
<1>1. Init => LikesInv
  <2> SUFFICES ASSUME Init
               PROVE  LikesInv
    OBVIOUS
  <2>1. appLike = {} /\ DOMAIN call = {}
    BY DEF Init, CallsInit, PeopleInit
  <2>2. \A user : Taps(user) = {} /\ Toggled(user) = {}
    BY <2>1 DEF Taps, Toggled, The
  <2>3. Cardinality({}) = 0 /\ ~(0 % 2 = 1)
    BY FS_EmptySet
  <2> QED BY <2>1, <2>2, <2>3 DEF LikesInv, Turned
<1>2. CallsInv /\ LikesInv /\ [Next]_vars => LikesInv'
  <2> SUFFICES ASSUME CallsInv, LikesInv, [Next]_vars, NEW user, TapsAlone(user)'
               PROVE  Turned(user)'
    BY DEF LikesInv
  <2>0. OpsStay /\ TapsAlone(user) /\ Turned(user)
    BY StepCases, TapsAloneBefore DEF LikesInv
  <2>1. ASSUME UNCHANGED <<call, appLike>>
        PROVE  Turned(user)'
    BY <2>0, <2>1 DEF Turned, Toggled, Taps, HasRead, The, IsA
  <2>2. ASSUME NEW n, Begins(n), appLike' = appLike
        PROVE  Turned(user)'
    <3>1. \A c \in Taps(user)' : c = n \/ (c \in Taps(user) /\ call'[c] = call[c])
      BY <2>2 DEF Begins, Taps, The, IsA
    <3>2. call'[n].at = "begin" /\ call'[n].answer \notin {"liked", "unliked"}
      BY <2>2, CallsAssumption DEF Begins, Answers
    <3>3. \A c \in Taps(user) : c \in Taps(user)' /\ call'[c] = call[c]
      BY <2>2 DEF Begins, Taps, The, IsA
    <3>4. Toggled(user)' = Toggled(user)
      BY <3>1, <3>2, <3>3 DEF Toggled
    <3> QED BY <2>0, <2>2, <3>1, <3>2, <3>4 DEF Turned, HasRead
  <2>3. ASSUME NEW d \in DOMAIN call, CallStep(d), GoesOn(d)
        PROVE  Turned(user)'
    BY <2>0, <2>3, HeartStep
  <2> QED BY <2>1, <2>2, <2>3, StepCases DEF peopleOwn
<1> QED BY <1>1, <1>2, CallsInvariant, PTL DEF Spec

(* An update (data-service.ts:102) is kept, and a like (apps.ts:476) is    *)
(* turned, by whoever is not overlapped: for every scenario.               *)
THEOREM UpdatesAreKept == Spec => []UpdatesKept
<1>1. UpdatesInv => \A c \in The("update") :
        LET id == call[c].op.id IN
        call[c].answer = "ok" /\ Alone(c, Writes(id)) =>
            \/ id \in DOMAIN records /\ records[id].data[call[c].op.field] = c
            \/ \E d \in Writes(id) : d > c /\
                (IsA("update", d) => call[d].op.field = call[c].op.field)
  BY DEF UpdatesInv, Unmixed, Kept, Later, Id, Field
<1>2. LikesInv => \A user \in {call[c].op.by : c \in The("like")} :
        (\A c \in Taps(user) : Alone(c, Taps(user))) =>
            (user \in appLike <=>
                Cardinality({c \in Taps(user) :
                                call[c].answer \in {"liked", "unliked"}}) % 2 = 1)
  BY DEF LikesInv, Turned, TapsAlone, Toggled
<1>3. UpdatesInv /\ LikesInv => UpdatesKept
  BY <1>1, <1>2 DEF UpdatesKept
<1> QED BY <1>3, UpdatesInvariant, LikesInvariant, PTL

(***************************************************************************)
(* The units of a day.                                                     *)
(***************************************************************************)

(* The units of a day that were given back by calls of another day.        *)
Given(key, day) == {i \in DOMAIN strays : strays[i] = [key |-> key, day |-> day]}

(* An entry of the ledger agrees with the calls that were billed.          *)
Agrees(key, day, n) ==
    /\ n <= Cardinality(Billed(key, day))
    /\ Cardinality(Billed(key, day)) <= n + Cardinality(Given(key, day))

Booked(key) ==
    \E entry \in [day : Nat, n : 0 .. DailyMax] :
        /\ daily[key] = entry /\ entry.day <= Today
        /\ \A c \in Metered(key) : call[c].saw # Null => call[c].saw \in 0 .. entry.day
        /\ Agrees(key, entry.day, entry.n)

Unbooked(key) == daily[key] = Null /\ \A c \in Metered(key) : call[c].saw = Null

Ledger(key) ==
    /\ Unbooked(key) \/ Booked(key)
    /\ \A c \in Metered(key) : call[c].at \in {"gather", "model"} => call[c].saw # Null
    /\ \A day \in Nat :
          Cardinality(Billed(key, day)) <= DailyMax + Cardinality(Given(key, day))

DailyInv ==
    /\ now \in Nat /\ DOMAIN daily = QuotaKeys /\ IsSequence(strays)
    /\ \A key \in QuotaKeys : Ledger(key)

(* Days follow each other.                                                 *)
LEMMA DaysFollow ==
    ASSUME NEW t \in Nat
    PROVE  /\ t \div DayLength \in Nat
           /\ t \div DayLength <= (t + 1) \div DayLength
BY LimiterAssumption

(* What is counted is finite.                                              *)
LEMMA CountsAreFinite ==
    ASSUME CallsInv, IsSequence(strays), NEW key, NEW day
    PROVE  /\ IsFiniteSet(Billed(key, day)) /\ Cardinality(Billed(key, day)) \in Nat
           /\ IsFiniteSet(Given(key, day)) /\ Cardinality(Given(key, day)) \in Nat
<1>1. Billed(key, day) \subseteq DOMAIN call
  BY DEF Billed, Metered, The
<1>2. IsFiniteSet(Billed(key, day))
  BY <1>1, CallsAreFinite, FS_Subset
<1>3. Len(strays) \in Nat /\ DOMAIN strays = 1 .. Len(strays)
  BY AppendsTo
<1>4. IsFiniteSet(1 .. Len(strays))
  BY <1>3, FS_Interval
<1>5. Given(key, day) \subseteq 1 .. Len(strays)
  BY <1>3 DEF Given
<1>6. IsFiniteSet(Given(key, day))
  BY <1>4, <1>5, FS_Subset
<1> QED BY <1>2, <1>6, FS_CardinalityType

(* One that was not in is put in, or taken out.                            *)
LEMMA CountsOne ==
    ASSUME NEW S, IsFiniteSet(S), NEW e
    PROVE  /\ e \notin S => Cardinality(S \cup {e}) = Cardinality(S) + 1
           /\ e \in S => Cardinality(S \ {e}) = Cardinality(S) - 1
BY FS_AddElement, FS_RemoveElement

(* The entry of today, whether or not there is one, agrees with the calls. *)
LEMMA EntryAgrees ==
    ASSUME CallsInv, DailyInv, NEW key \in QuotaKeys
    PROVE  /\ Entry(key) \in [day : Nat, n : 0 .. DailyMax] /\ Entry(key).day = Today
           /\ \A c \in Metered(key) : call[c].saw # Null => call[c].saw \in 0 .. Today
           /\ Agrees(key, Today, Entry(key).n)
<1>1. Today \in Nat
  BY DaysFollow DEF Today, DailyInv
<1>2. Cardinality(Given(key, Today)) \in Nat
  BY CountsAreFinite DEF DailyInv
<1>3. CASE daily[key] = Null \/ daily[key].day # Today
  <2>1. \A c \in Metered(key) : call[c].saw # Today
    <3>1. CASE Unbooked(key)
      BY <1>1, <3>1, LimiterAssumption DEF Unbooked
    <3>2. CASE Booked(key)
      <4>1. daily[key].day \in Nat /\ daily[key].day < Today
        BY <1>1, <1>3, <3>2, LimiterAssumption, MeteredAssumption DEF Booked
      <4> QED BY <1>1, <3>2, <4>1, LimiterAssumption DEF Booked
    <3> QED BY <3>1, <3>2 DEF DailyInv, Ledger
  <2>2. Billed(key, Today) = {}
    BY <2>1 DEF Billed
  <2>3. Entry(key) = [day |-> Today, n |-> 0]
    BY <1>3 DEF Entry
  <2>4. Agrees(key, Today, 0)
    BY <1>2, <2>2, FS_EmptySet DEF Agrees
  <2>5. \A c \in Metered(key) : call[c].saw # Null => call[c].saw \in 0 .. Today
    BY <1>1 DEF DailyInv, Ledger, Unbooked, Booked
  <2> QED BY <1>1, <2>3, <2>4, <2>5, MeteredAssumption
<1>4. CASE daily[key] # Null /\ daily[key].day = Today
  BY <1>4 DEF Entry, DailyInv, Ledger, Unbooked, Booked
<1> QED BY <1>3, <1>4

(* Only a call that is metered touches the ledger.                         *)
LEMMA WritesLedger ==
    ASSUME CallsInv, NEW d \in DOMAIN call, CallStep(d)
    PROVE  /\ now' = now
           /\ UNCHANGED <<daily, strays>> \/ MeteredStep(d)
<1>1. CASE MeteredStep(d)
  BY <1>1 DEF MeteredStep, ChatBegins, RefineBegins, RefineGathers, ModelAnswers, ModelFails,
     Meters, Reserves, Denies, Refunds, meteredVars, limiterVars
<1>2. CASE InboxStep(d) /\ UNCHANGED meteredOwn
  BY <1>2 DEF InboxStep, SendAsks, SendAdds, EvictionCounts, EvictionChooses, EvictionDeletes,
     Evicts, MarkAllRead, AsksFor, inboxVars, limiterVars, meteredOwn
<1>3. CASE PeopleStep(d) /\ UNCHANGED meteredOwn
  BY <1>3 DEF PeopleStep, SignInLooks, SignInSetsWallet,
       SignInDerives, SignInAdds, AddFriend, RemoveFriend, ChatAsks, ChatGoesOn, ChatFindsJam,
       ChatAdds, LikeLooks, LikeToggles, AsksFor, peopleVars, limiterVars, meteredOwn
<1> QED BY <1>1, <1>2, <1>3 DEF CallStep, ProfileStep, limiterVars, meteredOwn

(* What a metered call does: it reserves a unit, is refused one, gives one *)
(* back, or leaves the ledger as it is.                                    *)
ReservesOne(d) ==
    /\ call[d].at = "begin" /\ HasQuota(call[d].op.key, DailyMax) /\ Reserves(call[d].op.key)
    /\ strays' = strays
    /\ call'[d].at \in {"gather", "model"} /\ call'[d].saw = Today /\ call'[d].answer = Null

IsDenied(d) ==
    /\ call[d].at = "begin" /\ ~HasQuota(call[d].op.key, DailyMax) /\ Denies(call[d].op.key)
    /\ strays' = strays
    /\ call'[d].at = "end" /\ call'[d].saw = Null /\ call'[d].answer = "QUOTA_EXCEEDED"

GivesBack(d) ==
    /\ ModelFails(d) /\ call'[d].at = "end" /\ call'[d].saw = call[d].saw
    /\ call'[d].answer = "INTERNAL"

LeavesLedger(d) ==
    /\ UNCHANGED <<daily, strays>> /\ call'[d].saw = call[d].saw
    /\ call'[d].answer \notin {"INTERNAL", "QUOTA_EXCEEDED"}
    /\ call'[d].at \in {"gather", "model"} => call[d].at \in {"gather", "model"}

(* What a metered call does next is one of these.                          *)
LEMMA MeteredSteps ==
    ASSUME CallsInv, NEW d \in DOMAIN call, CallStep(d), GoesOn(d),
           call[d].op.name \in {"aiChat", "refine"}
    PROVE  ReservesOne(d) \/ IsDenied(d) \/ GivesBack(d) \/ LeavesLedger(d)
<1>0. Running(d) /\ Null \notin Answers
  BY CallsAssumption DEF GoesOn, Running
<1>1. ASSUME NEW answer \in Answers, Returns(d, answer)
      PROVE  call'[d].at = "end" /\ call'[d].saw = call[d].saw /\ call'[d].answer = answer
  BY <1>0, <1>1, ReturnsNow DEF Now
<1>2. {"ok", "cached", "QUOTA_EXCEEDED", "INTERNAL", "THROWN"} \subseteq Answers
  BY DEF Answers
<1>3. ASSUME NEW step \in {"gather", "model"}, call[d].at = "begin", Meters(d, step),
             strays' = strays
      PROVE  ReservesOne(d) \/ IsDenied(d)
  <2>1. CASE HasQuota(call[d].op.key, DailyMax) /\ Reserves(call[d].op.key)
             /\ Awaits(d, step, Today)
    <3>1. Now(d, step, Today, Null)
      BY <1>0, <1>3, <2>1, AwaitsNow
    <3> QED BY <1>3, <2>1, <3>1 DEF Now, ReservesOne
  <2>2. CASE ~HasQuota(call[d].op.key, DailyMax) /\ Denies(call[d].op.key)
             /\ Returns(d, "QUOTA_EXCEEDED")
    <3>1. call[d].saw = Null
      BY <1>3 DEF CallsInv
    <3> QED BY <1>1, <1>2, <1>3, <2>2, <3>1 DEF IsDenied
  <2> QED BY <1>3, <2>1, <2>2 DEF Meters
<1>4. CASE MeteredStep(d)
  <2>1. CASE ChatBegins(d)
    <3>1. CASE Returns(d, "cached") /\ UNCHANGED limiterVars
      BY <1>0, <1>1, <1>2, <2>1, <3>1 DEF ChatBegins, LeavesLedger, limiterVars
    <3> QED BY <1>3, <2>1, <3>1 DEF ChatBegins, At
  <2>2. CASE RefineBegins(d)
    BY <1>3, <2>2 DEF RefineBegins, At
  <2>3. CASE RefineGathers(d)
    <3>1. Now(d, "model", call[d].saw, Null)
      BY <1>0, <2>3, AwaitsNow DEF RefineGathers, At, IsA
    <3> QED BY <1>0, <1>2, <2>3, <3>1 DEF Now, RefineGathers, At, LeavesLedger, meteredVars, limiterVars
  <2>4. CASE ModelAnswers(d)
    BY <1>0, <1>1, <1>2, <2>4 DEF ModelAnswers, LeavesLedger, limiterVars
  <2>5. CASE ModelFails(d)
    BY <1>1, <1>2, <2>5 DEF ModelFails, GivesBack
  <2> QED BY <1>4, <2>1, <2>2, <2>3, <2>4, <2>5 DEF MeteredStep
<1>5. CASE Fails(d) /\ UNCHANGED <<limiterVars, meteredOwn>>
  BY <1>0, <1>1, <1>2, <1>5 DEF Fails, Throws, LeavesLedger, limiterVars, meteredOwn
<1> QED BY <1>4, <1>5 DEF CallStep, AppDataStep, InboxStep, PeopleStep,
        ProfileStep, GameStep, At, IsA, InsertCounts, InsertAdds, UpdateReads, UpdateWrites,
        DeleteReads, DeleteWrites, ListPages, SetLooks, SetCounts, SetUpserts, Unset,
        Clear, SendAsks, SendAdds, EvictionCounts, EvictionChooses, EvictionDeletes,
        MarkAllRead, SignInLooks, SignInSetsWallet, SignInDerives, SignInAdds, AddFriend,
        RemoveFriend, ChatAsks, ChatFindsJam, ChatAdds, LikeLooks, LikeToggles,
        ClaimBegins, ClaimLooks, ClaimMints, ClaimWrites, TopupLooks, TopupPays,
        TopupWrites, MoveIsSent, MoveIsMined, ResetIsSent, ResetIsMined

(* What is billed stays so, but for what one call does.                    *)
LEMMA BilledStays ==
    ASSUME OpsStay, NEW d \in DOMAIN call, GoesOn(d), NEW key, NEW day
    PROVE  /\ Metered(key)' = Metered(key)
           /\ Billed(key, day)' \ {d} = Billed(key, day) \ {d}
           /\ d \in Billed(key, day)' <=>
                 d \in Metered(key) /\ call'[d].saw = day /\ call'[d].answer # "INTERNAL"
<1>1. Metered(key)' = Metered(key)
  BY DEF Metered, The, IsA, GoesOn, OpsStay
<1>2. \A c \in Metered(key) \ {d} : call'[c] = call[c]
  BY DEF Metered, The, GoesOn
<1> QED BY <1>1, <1>2 DEF Billed

(* A call that leaves the ledger alone leaves what is billed.              *)
LEMMA LedgerSame ==
    ASSUME CallsInv, OpsStay, NEW d \in DOMAIN call, GoesOn(d), now' = now,
           NEW key \in QuotaKeys, Ledger(key), daily'[key] = daily[key],
           \A day : Given(key, day)' = Given(key, day),
           d \notin Metered(key) \/ LeavesLedger(d)
    PROVE  Ledger(key)'
<1>1. Metered(key)' = Metered(key) /\ Today' = Today
  BY BilledStays DEF Today
<1>2. \A day : Billed(key, day)' = Billed(key, day)
  <2>1. call[d].answer # "INTERNAL"
    BY CallsAssumption DEF CallsInv, GoesOn, Answers
  <2> QED BY <2>1, BilledStays DEF LeavesLedger, Billed
<1>3. \A c \in Metered(key) :
        /\ call'[c].saw = call[c].saw
        /\ call'[c].at \in {"gather", "model"} => call[c].at \in {"gather", "model"}
  BY DEF Metered, The, GoesOn, LeavesLedger
<1>4. \A day \in Nat :
        Cardinality(Billed(key, day))' <= DailyMax + Cardinality(Given(key, day))'
  BY <1>2 DEF Ledger
<1>5. CASE Unbooked(key)
  BY <1>1, <1>3, <1>4, <1>5 DEF Ledger, Unbooked
<1>6. CASE Booked(key)
  <2>1. PICK entry \in [day : Nat, n : 0 .. DailyMax] :
          /\ daily[key] = entry /\ entry.day <= Today
          /\ \A c \in Metered(key) : call[c].saw # Null => call[c].saw \in 0 .. entry.day
          /\ Agrees(key, entry.day, entry.n)
    BY <1>6 DEF Booked
  <2>2. Agrees(key, entry.day, entry.n)'
    BY <1>2, <2>1 DEF Agrees
  <2> QED BY <1>1, <1>3, <1>4, <2>1, <2>2 DEF Ledger, Booked
<1> QED BY <1>5, <1>6 DEF Ledger

(* A unit is reserved.                                                     *)
LEMMA LedgerReserves ==
    ASSUME CallsInv, DailyInv, OpsStay, NEW d \in DOMAIN call, GoesOn(d), now' = now,
           NEW key \in QuotaKeys, d \in Metered(key), ReservesOne(d)
    PROVE  Ledger(key)'
<1>1. Metered(key)' = Metered(key) /\ Today' = Today /\ key = call[d].op.key
  BY BilledStays DEF Today, Metered
<1>2. PICK t : t = Today
  OBVIOUS
<1>3. PICK n : n = Entry(key).n
  OBVIOUS
<1>4. /\ t \in Nat /\ n \in 0 .. DailyMax /\ Agrees(key, t, n)
      /\ Entry(key) \in [day : Nat, n : 0 .. DailyMax] /\ Entry(key).day = t
      /\ \A c \in Metered(key) : call[c].saw # Null => call[c].saw \in 0 .. t
  BY <1>2, <1>3, EntryAgrees
<1>5. n + 1 \in 0 .. DailyMax
  BY <1>1, <1>3, <1>4, MeteredAssumption DEF ReservesOne, HasQuota
<1>6. daily'[key] = [day |-> t, n |-> n + 1]
  BY <1>1, <1>3, <1>4 DEF ReservesOne, Reserves, DailyInv
<1>7. \A day : Given(key, day)' = Given(key, day)
  BY DEF ReservesOne, Given
<1>8. \A day \in Nat : d \notin Billed(key, day)
  BY LimiterAssumption DEF ReservesOne, CallsInv, Billed
<1>9. call'[d].saw = t /\ call'[d].answer # "INTERNAL"
  BY <1>2, CallsAssumption DEF ReservesOne, Answers
<1>10. \A day \in Nat : day # t => Billed(key, day)' = Billed(key, day)
  BY <1>8, <1>9, BilledStays
<1>11. Billed(key, t)' = Billed(key, t) \cup {d}
  BY <1>4, <1>8, <1>9, BilledStays
<1>12. Cardinality(Billed(key, t))' = Cardinality(Billed(key, t)) + 1
  <2>1. IsFiniteSet(Billed(key, t)) /\ d \notin Billed(key, t)
    BY <1>4, <1>8, CountsAreFinite DEF DailyInv
  <2> QED BY <1>11, <2>1, CountsOne
<1>13. Cardinality(Billed(key, t)) \in Nat /\ Cardinality(Given(key, t)) \in Nat
  BY CountsAreFinite DEF DailyInv
<1>14. Cardinality(Given(key, t))' = Cardinality(Given(key, t))
  BY <1>7
<1>15. Agrees(key, t, n + 1)'
  BY <1>4, <1>12, <1>13, <1>14 DEF Agrees
<1>16. ASSUME NEW day \in Nat
       PROVE  Cardinality(Billed(key, day))' <= DailyMax + Cardinality(Given(key, day))'
  <2>1. CASE day = t
    <3>1. Cardinality(Billed(key, t))' <= n + 1 + Cardinality(Given(key, t))
      BY <1>4, <1>12, <1>13 DEF Agrees
    <3> QED BY <1>5, <1>12, <1>13, <1>14, <2>1, <3>1, MeteredAssumption
  <2>2. CASE day # t
    BY <1>7, <1>10, <2>2 DEF DailyInv, Ledger
  <2> QED BY <2>1, <2>2
<1>17. Booked(key)'
  <2>1. \A c \in Metered(key) : call'[c].saw # Null => call'[c].saw \in 0 .. t
    BY <1>4, <1>9 DEF Metered, The, GoesOn
  <2>2. [day |-> t, n |-> n + 1] \in [day : Nat, n : 0 .. DailyMax]
    BY <1>4, <1>5
  <2>3. PICK entry : entry = [day |-> t, n |-> n + 1]
    OBVIOUS
  <2>4. Agrees(key, entry.day, entry.n)'
    BY <1>15, <2>3
  <2>5. entry.day = t /\ t <= Today'
    BY <1>1, <1>2, <1>4, <2>3
  <2> QED BY <1>1, <1>6, <2>1, <2>2, <2>3, <2>4, <2>5 DEF Booked
<1>18. \A c \in Metered(key) : call'[c].at \in {"gather", "model"} => call'[c].saw # Null
  BY <1>4, <1>9, LimiterAssumption DEF DailyInv, Ledger, Metered, The, GoesOn
<1> QED BY <1>1, <1>16, <1>17, <1>18 DEF Ledger

(* A unit is refused.                                                      *)
LEMMA LedgerDenies ==
    ASSUME CallsInv, DailyInv, OpsStay, NEW d \in DOMAIN call, GoesOn(d), now' = now,
           NEW key \in QuotaKeys, d \in Metered(key), IsDenied(d)
    PROVE  Ledger(key)'
<1>1. Metered(key)' = Metered(key) /\ Today' = Today /\ key = call[d].op.key
  BY BilledStays DEF Today, Metered
<1>2. PICK entry : entry = Entry(key)
  OBVIOUS
<1>3. /\ entry \in [day : Nat, n : 0 .. DailyMax] /\ entry.day = Today
      /\ \A c \in Metered(key) : call[c].saw # Null => call[c].saw \in 0 .. entry.day
      /\ Agrees(key, entry.day, entry.n)
  BY <1>2, EntryAgrees
<1>4. daily'[key] = entry
  BY <1>1, <1>2 DEF IsDenied, Denies, DailyInv
<1>5. \A day : Given(key, day)' = Given(key, day)
  BY DEF IsDenied, Given
<1>6. \A day \in Nat : Billed(key, day)' = Billed(key, day)
  <2>1. call[d].saw = Null /\ call'[d].saw = Null
    BY DEF IsDenied, CallsInv
  <2>2. \A day \in Nat : d \notin Billed(key, day) /\ d \notin Billed(key, day)'
    BY <2>1, LimiterAssumption, BilledStays DEF Billed
  <2> QED BY <2>2, BilledStays
<1>7. \A c \in Metered(key) : call'[c].saw = call[c].saw /\
        (call'[c].at \in {"gather", "model"} => call[c].at \in {"gather", "model"})
  BY DEF Metered, The, GoesOn, IsDenied, CallsInv
<1>8. Agrees(key, entry.day, entry.n)'
  BY <1>3, <1>5, <1>6 DEF Agrees
<1>9. Booked(key)'
  <2>1. entry.day <= Today'
    BY <1>1, <1>3
  <2> QED BY <1>1, <1>3, <1>4, <1>7, <1>8, <2>1 DEF Booked
<1>10. \A day \in Nat :
        Cardinality(Billed(key, day))' <= DailyMax + Cardinality(Given(key, day))'
  BY <1>5, <1>6 DEF DailyInv, Ledger
<1> QED BY <1>1, <1>7, <1>9, <1>10 DEF DailyInv, Ledger

(* A unit is given back, to its own day or to another one.                 *)
LEMMA LedgerGivesBack ==
    ASSUME CallsInv, DailyInv, OpsStay, NEW d \in DOMAIN call, GoesOn(d), now' = now,
           NEW key \in QuotaKeys, d \in Metered(key), GivesBack(d)
    PROVE  Ledger(key)'
<1>1. Metered(key)' = Metered(key) /\ Today' = Today /\ key = call[d].op.key
  BY BilledStays DEF Today, Metered
<1>2. call[d].at = "model" /\ call[d].saw # Null /\ call[d].answer # "INTERNAL"
  BY CallsAssumption DEF GivesBack, ModelFails, DailyInv, Ledger, CallsInv, GoesOn, Answers
<1>3. PICK entry \in [day : Nat, n : 0 .. DailyMax] :
        /\ daily[key] = entry /\ entry.day <= Today
        /\ \A c \in Metered(key) : call[c].saw # Null => call[c].saw \in 0 .. entry.day
        /\ Agrees(key, entry.day, entry.n)
  BY <1>2 DEF DailyInv, Ledger, Unbooked, Booked
<1>4. PICK s : s = call[d].saw
  OBVIOUS
<1>5. s \in Nat /\ s <= entry.day /\ entry # Null
  BY <1>2, <1>3, <1>4, LimiterAssumption, MeteredAssumption
<1>6. PICK m \in 0 .. DailyMax : m = IF entry.n > 0 THEN entry.n - 1 ELSE entry.n
  BY <1>3, MeteredAssumption
<1>7. daily'[key] = [day |-> entry.day, n |-> m]
  BY <1>1, <1>3, <1>5, <1>6 DEF GivesBack, ModelFails, Refunds, DailyInv
<1>8. \A day : day # s => Billed(key, day)' = Billed(key, day)
  BY <1>2, <1>4, BilledStays DEF Billed, GivesBack
<1>9. Billed(key, s)' = Billed(key, s) \ {d} /\ d \in Billed(key, s)
  BY <1>2, <1>4, BilledStays DEF Billed, GivesBack
<1>10. \A day : /\ Cardinality(Billed(key, day)) \in Nat
                /\ Cardinality(Given(key, day)) \in Nat
                /\ IsFiniteSet(Billed(key, day)) /\ IsFiniteSet(Given(key, day))
  BY CountsAreFinite DEF DailyInv
<1>11. Cardinality(Billed(key, s))' = Cardinality(Billed(key, s)) - 1
  BY <1>9, <1>10, CountsOne
<1>12. /\ entry.day = s => \A day : Given(key, day)' = Given(key, day)
       /\ entry.day # s =>
             /\ \A day : day # entry.day => Given(key, day)' = Given(key, day)
             /\ Cardinality(Given(key, entry.day))' = Cardinality(Given(key, entry.day)) + 1
  <2>1. CASE entry.day = s
    <3>1. strays' = strays
      BY <1>1, <1>3, <1>4, <2>1 DEF GivesBack, ModelFails
    <3> QED BY <2>1, <3>1 DEF Given
  <2>2. CASE entry.day # s
    <3>1. PICK stray : stray = [key |-> key, day |-> entry.day]
      OBVIOUS
    <3>2. strays' = Append(strays, stray)
      BY <1>1, <1>3, <1>4, <2>2, <3>1 DEF GivesBack, ModelFails
    <3>3. PICK len \in Nat : len = Len(strays)
      BY AppendsTo DEF DailyInv
    <3>4. /\ DOMAIN strays = 1 .. len /\ DOMAIN strays' = 1 .. len + 1
          /\ \A i \in DOMAIN strays : strays'[i] = strays[i]
          /\ strays'[len + 1] = stray
      BY <3>2, <3>3, AppendsTo DEF DailyInv
    <3>5. ASSUME NEW day, day # entry.day
          PROVE  Given(key, day)' = Given(key, day)
      <4>1. stray # [key |-> key, day |-> day]
        BY <3>1, <3>5
      <4> QED BY <3>3, <3>4, <4>1 DEF Given
    <3>6. Given(key, entry.day)' = Given(key, entry.day) \cup {len + 1}
      BY <3>1, <3>3, <3>4 DEF Given
    <3>7. len + 1 \notin Given(key, entry.day)
      BY <3>3, <3>4 DEF Given
    <3>8. Cardinality(Given(key, entry.day) \cup {len + 1}) = Cardinality(Given(key, entry.day)) + 1
      BY <1>10, <3>7, CountsOne
    <3> QED BY <2>2, <3>5, <3>6, <3>8
  <2> QED BY <2>1, <2>2
<1>13. PICK b : b = Cardinality(Billed(key, entry.day))
  OBVIOUS
<1>14. PICK g : g = Cardinality(Given(key, entry.day))
  OBVIOUS
<1>15. /\ b \in Nat /\ g \in Nat /\ entry.n <= b /\ b <= entry.n + g
       /\ entry.n \in 0 .. DailyMax
  BY <1>3, <1>10, <1>13, <1>14 DEF Agrees
<1>16. \/ /\ entry.day = s /\ Cardinality(Given(key, entry.day))' = g
          /\ Cardinality(Billed(key, entry.day))' = b - 1 /\ b > 0
       \/ /\ entry.day # s /\ Cardinality(Given(key, entry.day))' = g + 1
          /\ Cardinality(Billed(key, entry.day))' = b
  <2>1. CASE entry.day = s
    <3>1. b # 0
      BY <1>9, <1>10, <1>13, <2>1, FS_EmptySet
    <3>2. Cardinality(Given(key, entry.day))' = g
      BY <1>12, <1>14, <2>1
    <3> QED BY <1>11, <1>13, <1>15, <2>1, <3>1, <3>2
  <2>2. CASE entry.day # s
    BY <1>8, <1>12, <1>13, <1>14, <2>2
  <2> QED BY <2>1, <2>2
<1>17. Agrees(key, entry.day, m)'
  BY <1>6, <1>15, <1>16 DEF Agrees
<1>18. Booked(key)'
  <2>1. PICK new : new = [day |-> entry.day, n |-> m]
    OBVIOUS
  <2>2. new \in [day : Nat, n : 0 .. DailyMax] /\ new.day = entry.day /\ new.n = m
    BY <1>3, <1>6, <2>1
  <2>3. \A c \in Metered(key) : call'[c].saw = call[c].saw
    BY DEF Metered, The, GoesOn, GivesBack
  <2>4. Agrees(key, new.day, new.n)'
    BY <1>17, <2>2
  <2>5. \A c \in Metered(key) : call'[c].saw # Null => call'[c].saw \in 0 .. new.day
    BY <1>3, <2>2, <2>3
  <2> QED BY <1>1, <1>3, <1>7, <2>1, <2>2, <2>4, <2>5 DEF Booked
<1>19. ASSUME NEW day \in Nat
       PROVE  Cardinality(Billed(key, day))' <= DailyMax + Cardinality(Given(key, day))'
  <2>1. Cardinality(Billed(key, day)) <= DailyMax + Cardinality(Given(key, day))
    BY DEF DailyInv, Ledger
  <2>2. Cardinality(Billed(key, day))' <= Cardinality(Billed(key, day))
    <3>1. CASE day = s
      BY <1>10, <1>11, <3>1
    <3>2. CASE day # s
      <4>1. Cardinality(Billed(key, day))' = Cardinality(Billed(key, day))
        BY <1>8, <3>2
      <4> QED BY <1>10, <4>1
    <3> QED BY <3>1, <3>2
  <2>3. Cardinality(Given(key, day))' >= Cardinality(Given(key, day))
        /\ Cardinality(Given(key, day))' \in Nat
    <3>1. CASE day = entry.day
      BY <1>10, <1>14, <1>15, <1>16, <3>1
    <3>2. CASE day # entry.day
      <4>1. Cardinality(Given(key, day))' = Cardinality(Given(key, day))
        BY <1>12, <3>2
      <4> QED BY <1>10, <4>1
    <3> QED BY <3>1, <3>2
  <2>4. Cardinality(Billed(key, day))' \in Nat
    <3>1. CASE day = s
      BY <1>10, <1>11, <1>9, <3>1, CountsOne, FS_RemoveElement, FS_CardinalityType
    <3>2. CASE day # s
      BY <1>8, <1>10, <3>2
    <3> QED BY <3>1, <3>2
  <2> QED BY <1>10, <2>1, <2>2, <2>3, <2>4, MeteredAssumption
<1>20. \A c \in Metered(key) : call'[c].at \in {"gather", "model"} => call'[c].saw # Null
  BY DEF DailyInv, Ledger, Metered, The, GoesOn, GivesBack
<1> QED BY <1>1, <1>18, <1>19, <1>20 DEF Ledger

(* The ledger of one key, after a statement of any call.                   *)
LEMMA LedgerStep ==
    ASSUME CallsInv, OpsInv, DailyInv, OpsStay, NEW d \in DOMAIN call, CallStep(d), GoesOn(d),
           NEW key \in QuotaKeys
    PROVE  Ledger(key)'
<1>1. now' = now /\ Ledger(key)
  BY WritesLedger DEF DailyInv
<1>2. CASE d \in Metered(key)
  <2>1. call[d].op.name \in {"aiChat", "refine"}
    BY <1>2 DEF Metered, The, IsA
  <2>2. CASE LeavesLedger(d)
    <3>1. daily' = daily /\ \A day : Given(key, day)' = Given(key, day)
      BY <2>2 DEF LeavesLedger, Given
    <3> QED BY <1>1, <2>2, <3>1, LedgerSame
  <2> QED BY <1>1, <1>2, <2>1, <2>2, MeteredSteps, LedgerReserves, LedgerDenies, LedgerGivesBack
<1>3. CASE d \notin Metered(key)
  <2>1. CASE UNCHANGED <<daily, strays>>
    <3>1. daily' = daily /\ \A day : Given(key, day)' = Given(key, day)
      BY <2>1 DEF Given
    <3> QED BY <1>1, <1>3, <3>1, LedgerSame
  <2>2. CASE call[d].op.name \in {"aiChat", "refine"} /\ ~LeavesLedger(d)
    <3>1. call[d].op.key # key
      BY <1>3, <2>2 DEF Metered, The, IsA
    <3>2. daily'[key] = daily[key]
      BY <2>2, <3>1, MeteredSteps DEF ReservesOne, Reserves, IsDenied, Denies, GivesBack,
         ModelFails, Refunds, DailyInv
    <3>3. \A day : Given(key, day)' = Given(key, day)
      <4>1. CASE strays' = strays
        BY <4>1 DEF Given
      <4>2. CASE strays' # strays
        <5>1. PICK stray : stray = [key |-> call[d].op.key, day |-> daily[call[d].op.key].day]
          OBVIOUS
        <5>2. strays' = Append(strays, stray)
          BY <2>2, <4>2, <5>1, MeteredSteps DEF ReservesOne, IsDenied, GivesBack, ModelFails
        <5>3. PICK len \in Nat : len = Len(strays)
          BY AppendsTo DEF DailyInv
        <5>4. /\ DOMAIN strays = 1 .. len /\ DOMAIN strays' = 1 .. len + 1
              /\ \A i \in DOMAIN strays : strays'[i] = strays[i]
              /\ strays'[len + 1] = stray
          BY <5>2, <5>3, AppendsTo DEF DailyInv
        <5>5. \A day : stray # [key |-> key, day |-> day]
          BY <3>1, <5>1
        <5> QED BY <5>3, <5>4, <5>5 DEF Given
      <4> QED BY <4>1, <4>2
    <3> QED BY <1>1, <1>3, <3>2, <3>3, LedgerSame
  <2>3. CASE call[d].op.name \notin {"aiChat", "refine"}
    <3>1. ~MeteredStep(d)
      BY <2>3 DEF MeteredStep, ChatBegins, RefineBegins, RefineGathers, ModelAnswers, ModelFails,
         At, IsA, CallsInv
    <3>2. UNCHANGED <<daily, strays>>
      BY <3>1, WritesLedger
    <3>3. daily' = daily /\ \A day : Given(key, day)' = Given(key, day)
      BY <3>2 DEF Given
    <3> QED BY <1>1, <1>3, <3>3, LedgerSame
  <2>4. CASE LeavesLedger(d)
    BY <2>1, <2>4 DEF LeavesLedger
  <2> QED BY <2>2, <2>3, <2>4
<1> QED BY <1>2, <1>3

(* The ledger when a request arrives, or time passes.                      *)
LEMMA LedgerWaits ==
    ASSUME CallsInv, DailyInv, NEW key \in QuotaKeys, UNCHANGED <<daily, strays>>,
           \/ call' = call /\ (now' = now \/ now' = now + 1)
           \/ now' = now /\ \E n : Begins(n)
    PROVE  Ledger(key)'
<1>1. Today' \in Nat /\ Today \in Nat /\ Today <= Today'
  <2>1. PICK t \in Nat : t = now
    BY DEF DailyInv
  <2>2. Today = t \div DayLength /\ (Today' = t \div DayLength \/ Today' = (t + 1) \div DayLength)
    BY <2>1 DEF Today
  <2>3. t + 1 \in Nat
    BY <2>1
  <2> QED BY <2>2, <2>3, DaysFollow
<1>2. \A day : Given(key, day)' = Given(key, day)
  BY DEF Given
<1>3. /\ \A c \in Metered(key)' :
            \/ c \in Metered(key) /\ call'[c] = call[c]
            \/ call'[c].saw = Null /\ call'[c].at = "begin"
      /\ \A c \in Metered(key) : c \in Metered(key)' /\ call'[c] = call[c]
  <2>1. CASE call' = call
    BY <2>1 DEF Metered, The, IsA
  <2>2. ASSUME NEW n, Begins(n)
        PROVE  /\ \A c \in Metered(key)' :
                     \/ c \in Metered(key) /\ call'[c] = call[c]
                     \/ call'[c].saw = Null /\ call'[c].at = "begin"
               /\ \A c \in Metered(key) : c \in Metered(key)' /\ call'[c] = call[c]
    BY <2>2 DEF Begins, Metered, The, IsA
  <2> QED BY <2>1, <2>2
<1>4. \A day \in Nat : Billed(key, day)' = Billed(key, day)
  BY <1>3, LimiterAssumption DEF Billed
<1>5. Unbooked(key)' \/ Booked(key)'
  <2>1. CASE Unbooked(key)
    BY <1>3, <2>1 DEF Unbooked
  <2>2. CASE Booked(key)
    <3>1. PICK entry \in [day : Nat, n : 0 .. DailyMax] :
            /\ daily[key] = entry /\ entry.day <= Today
            /\ \A c \in Metered(key) : call[c].saw # Null => call[c].saw \in 0 .. entry.day
            /\ Agrees(key, entry.day, entry.n)
      BY <2>2 DEF Booked
    <3>2. Agrees(key, entry.day, entry.n)'
      BY <1>2, <1>4, <3>1 DEF Agrees
    <3>3. entry.day <= Today'
      BY <1>1, <3>1
    <3> QED BY <1>3, <3>1, <3>2, <3>3 DEF Booked
  <2> QED BY <2>1, <2>2 DEF DailyInv, Ledger
<1> QED BY <1>2, <1>3, <1>4, <1>5 DEF DailyInv, Ledger

(* The ledger agrees with the calls that were billed, always.              *)
LEMMA DailyInvariant == Spec => []DailyInv
<1>1. Init => DailyInv
  <2> SUFFICES ASSUME Init
               PROVE  DailyInv
    OBVIOUS
  <2>1. /\ DOMAIN call = {} /\ now = 0 /\ daily = [k \in QuotaKeys |-> Null] /\ strays = <<>>
    BY DEF Init, CallsInit, LimiterInit, MeteredInit
  <2>2. DOMAIN strays = {} /\ <<>> \in Seq({})
    BY <2>1, EmptySeq
  <2>3. \A key, day : Metered(key) = {} /\ Billed(key, day) = {} /\ Given(key, day) = {}
    BY <2>1, <2>2 DEF Metered, Billed, Given, The
  <2>4. IsSequence(strays)
    BY <2>1, <2>2 DEF IsSequence
  <2>5. \A key, day : Cardinality(Billed(key, day)) = 0 /\ Cardinality(Given(key, day)) = 0
    BY <2>3, FS_EmptySet
  <2>6. \A key \in QuotaKeys : Ledger(key)
    BY <2>1, <2>3, <2>5, MeteredAssumption DEF Ledger, Unbooked
  <2> QED BY <2>1, <2>4, <2>6 DEF DailyInv
<1>2. CallsInv /\ OpsInv /\ DailyInv /\ [Next]_vars => DailyInv'
  <2> SUFFICES ASSUME CallsInv, OpsInv, DailyInv, [Next]_vars
               PROVE  DailyInv'
    OBVIOUS
  <2>1. ASSUME UNCHANGED <<call, daily, strays>>, now' = now \/ now' = now + 1
        PROVE  DailyInv'
    BY <2>1, LedgerWaits DEF DailyInv
  <2>2. ASSUME NEW n, Begins(n), UNCHANGED <<now, daily, strays>>
        PROVE  DailyInv'
    BY <2>2, LedgerWaits DEF DailyInv
  <2>3. ASSUME NEW d \in DOMAIN call, CallStep(d), GoesOn(d), OpsStay
        PROVE  DailyInv'
    <3>1. now' = now
      BY <2>3, WritesLedger
    <3>2. \A key \in QuotaKeys : Ledger(key)'
      BY <2>3, LedgerStep
    <3>3. CASE UNCHANGED <<daily, strays>>
      BY <3>1, <3>2, <3>3 DEF DailyInv
    <3>4. CASE MeteredStep(d)
      <4>1. DOMAIN daily' = DOMAIN daily
        BY <3>4 DEF MeteredStep, ChatBegins, RefineBegins, RefineGathers, ModelAnswers,
           ModelFails, Meters, Reserves, Denies, Refunds, meteredVars, limiterVars
      <4>2. strays' = strays \/ \E stray : strays' = Append(strays, stray)
        BY <3>4 DEF MeteredStep, ChatBegins, RefineBegins, RefineGathers, ModelAnswers,
           ModelFails, meteredVars
      <4>3. IsSequence(strays) /\ \A stray : IsSequence(Append(strays, stray))
        BY AppendsTo DEF DailyInv
      <4>4. IsSequence(strays')
        BY <4>2, <4>3
      <4> QED BY <3>1, <3>2, <4>1, <4>4 DEF DailyInv
    <3> QED BY <2>3, <3>3, <3>4, WritesLedger
  <2> QED BY <2>1, <2>2, <2>3, StepCases DEF limiterVars, meteredOwn
<1> QED BY <1>1, <1>2, CallsInvariant, OpsInvariant, PTL DEF Spec

(* No day has more than its units (rate-limit.ts:57), but for those that   *)
(* calls of the day before gave back to it (bridge-ai.ts:53).              *)
THEOREM NoDayIsOverspent == Spec => []DailyLimitHolds
<1>1. DailyInv => DailyLimitHolds
  <2> SUFFICES ASSUME DailyInv, NEW key \in QuotaKeys, NEW day \in 0 .. Today
               PROVE  Cardinality(Billed(key, day)) <= DailyMax + Cardinality(Given(key, day))
    BY DEF DailyLimitHolds, Given
  <2>1. day \in Nat
    BY DaysFollow DEF Today, DailyInv
  <2> QED BY <2>1 DEF DailyInv, Ledger
<1> QED BY <1>1, DailyInvariant, PTL

(* Who is refused has had, or has under way, every unit of the day         *)
(* (bridge-ai.ts:42): nobody is billed for what failed.                    *)
THEOREM WhoIsRefusedHasSpent == Spec => RefusedWhenSpent
<1>1. CallsInv /\ OpsInv /\ DailyInv /\ [Next]_vars =>
        [\A key \in QuotaKeys : \A c \in Metered(key) :
            call[c].answer = Null /\ call'[c].answer = "QUOTA_EXCEEDED" =>
                Cardinality(Billed(key, Today)) >= DailyMax]_vars
  <2> SUFFICES ASSUME CallsInv, OpsInv, DailyInv, [Next]_vars, NEW key \in QuotaKeys,
                      NEW c \in Metered(key), call[c].answer = Null,
                      call'[c].answer = "QUOTA_EXCEEDED"
               PROVE  Cardinality(Billed(key, Today)) >= DailyMax
    OBVIOUS
  <2>1. c \in DOMAIN call /\ call[c].op.key = key /\ call[c].op.name \in {"aiChat", "refine"}
    BY DEF Metered, The, IsA
  <2>2. call'[c] # call[c]
    BY CallsAssumption DEF Answers
  <2>3. PICK d \in DOMAIN call : CallStep(d) /\ GoesOn(d)
    BY <2>1, <2>2, StepCases DEF Begins
  <2>4. c = d
    BY <2>1, <2>2, <2>3 DEF GoesOn
  <2>5. IsDenied(c)
    BY <2>1, <2>3, <2>4, MeteredSteps, CallsAssumption
       DEF ReservesOne, GivesBack, LeavesLedger, Answers
  <2>6. ~HasQuota(key, DailyMax)
    BY <2>1, <2>5 DEF IsDenied
  <2>7. Entry(key).n <= Cardinality(Billed(key, Today)) /\ Entry(key).n \in 0 .. DailyMax
    BY EntryAgrees DEF Agrees
  <2>8. Cardinality(Billed(key, Today)) \in Nat
    BY CountsAreFinite DEF DailyInv
  <2> QED BY <2>6, <2>7, <2>8, MeteredAssumption DEF HasQuota
<1> QED BY <1>1, CallsInvariant, OpsInvariant, DailyInvariant, PTL DEF Spec, RefusedWhenSpent

(***************************************************************************)
(* ENS names.                                                              *)
(***************************************************************************)

(* The wallets that a person has brought.                                  *)
WalletsOf(p) == {call[c].op.wallet : c \in {s \in The("signIn") : Me(s) = p}}

(* The person has claimed the label, and it resolves to a wallet of the    *)
(* person, or somebody else has claimed it since or at the same time.      *)
Resolves(p, label) ==
    /\ label \in DOMAIN ens
    /\ \E c \in Claims(label) :
          /\ Me(c) = p
          /\ \/ ens[label] \in WalletsOf(p)
             \/ \E d \in Claims(label) : Me(d) # p /\ (c < d \/ Overlap(c, d))

IsOf(user, p) ==
    /\ DOMAIN user = UserFields /\ user.wallet \in WalletsOf(p)
    /\ user.ensName # Null => Resolves(p, user.ensName)

(* What a claim has read of its person is of that person.                  *)
NamesInv ==
    /\ \A p \in DOMAIN users : IsOf(users[p], p)
    /\ \A c \in The("claim") :
          call[c].at \in {"free", "mint", "row"} => IsOf(call[c].saw, Me(c))

(* Only a mint writes the registry.                                        *)
LEMMA WritesNames ==
    ASSUME NEW d \in DOMAIN call, CallStep(d), ~ClaimMints(d)
    PROVE  ens' = ens
BY DEF CallStep, MeteredStep, AppDataStep, InboxStep, PeopleStep, ProfileStep, GameStep,
       peopleOwn, ClaimBegins, ClaimLooks, ClaimWrites, TopupLooks, TopupPays,
       TopupWrites, profileVars, peopleVars

(* People, and the calls that are about them, stay.                        *)
LEMMA NamingStays ==
    ASSUME OpsStay
    PROVE  /\ \A c \in DOMAIN call : Me(c)' = Me(c)
           /\ \A p : WalletsOf(p) \subseteq WalletsOf(p)'
           /\ \A l : Claims(l) \subseteq Claims(l)' /\ Claims(l) \subseteq DOMAIN call
           /\ \A c, d \in DOMAIN call : Overlap(c, d)' <=> Overlap(c, d)
<1>1. \A c \in DOMAIN call : Me(c)' = Me(c)
  BY DEF OpsStay, Me
<1>2. \A name, c : c \in The(name) => c \in DOMAIN call /\ c \in The(name)'
  BY DEF OpsStay, The, IsA
<1>3. ASSUME NEW p, NEW w \in WalletsOf(p)
      PROVE  w \in WalletsOf(p)'
  <2>1. PICK c \in The("signIn") : Me(c) = p /\ w = call[c].op.wallet
    BY <1>3 DEF WalletsOf
  <2> QED BY <1>1, <1>2, <2>1 DEF WalletsOf, OpsStay
<1>4. \A l : Claims(l) \subseteq Claims(l)' /\ Claims(l) \subseteq DOMAIN call
  BY <1>2 DEF Claims, OpsStay
<1>5. \A c, d \in DOMAIN call : Overlap(c, d)' <=> Overlap(c, d)
  BY DEF OpsStay, Overlap
<1> QED BY <1>1, <1>3, <1>4, <1>5

(* A name that nobody mints resolves as it did.                            *)
LEMMA ResolvesStill ==
    ASSUME OpsStay, NEW p, NEW label, Resolves(p, label),
           label \in DOMAIN ens', ens'[label] = ens[label]
    PROVE  Resolves(p, label)'
BY NamingStays DEF Resolves

(* What is known of a person stays so where the registry does.             *)
LEMMA IsOfStill ==
    ASSUME OpsStay, NEW p, NEW user, IsOf(user, p), ens' = ens
    PROVE  IsOf(user, p)'
BY ResolvesStill, NamingStays DEF IsOf, Resolves

(* A name that is minted resolves to the one it is minted for, and of      *)
(* anybody else the rival has come later, or at the same time.             *)
LEMMA MintResolves ==
    ASSUME CallsInv, OpsStay, NamesInv, NEW d \in DOMAIN call, GoesOn(d),
           At(d, "claim", "mint"), Mints(d)
    PROVE  /\ Resolves(Me(d), call[d].op.label)'
           /\ \A p, label : Resolves(p, label) => Resolves(p, label)'
<1>0. PICK me, l, w : me = Me(d) /\ l = call[d].op.label /\ w = call[d].saw.wallet
  OBVIOUS
<1>1. d \in Claims(l) /\ l \in DOMAIN ens' /\ ens'[l] = w
  BY <1>0 DEF Claims, The, At, Mints
<1>2. w \in WalletsOf(me)' /\ d \in Claims(l)' /\ Me(d)' = me
  <2>1. w \in WalletsOf(me)
    BY <1>0 DEF NamesInv, IsOf, At, The
  <2> QED BY <1>0, <1>1, <2>1, NamingStays
<1>3. Resolves(me, l)'
  BY <1>1, <1>2 DEF Resolves
<1>4. ASSUME NEW p, NEW label, Resolves(p, label)
      PROVE  Resolves(p, label)'
  <2>1. CASE label # l
    <3>1. label \in DOMAIN ens' /\ ens'[label] = ens[label]
      BY <1>0, <1>4, <2>1 DEF Resolves, Mints
    <3> QED BY <1>4, <3>1, ResolvesStill
  <2>2. CASE label = l /\ me = p
    BY <1>3, <2>2
  <2>3. CASE label = l /\ me # p
    <3>1. PICK c \in Claims(l) : Me(c) = p
      BY <1>4, <2>3 DEF Resolves
    <3>2. c \in DOMAIN call /\ c # d /\ c \in Int /\ d \in Int
      BY <1>0, <2>3, <3>1 DEF Claims, The, CallsInv, IsSequence
    <3>3. c < d \/ Overlap(c, d)
      <4>1. d < c => d \in call[c].beside
        BY <3>2 DEF CallsInv, GoesOn
      <4> QED BY <3>2, <4>1 DEF Overlap
    <3>4. c \in Claims(l)' /\ Me(c)' = p /\ (Overlap(c, d)' <=> Overlap(c, d))
      BY <2>3, <3>1, <3>2, NamingStays
    <3> QED BY <1>1, <1>2, <2>3, <3>3, <3>4 DEF Resolves
  <2> QED BY <2>1, <2>2, <2>3
<1>5. call'[d].op.label = l
  BY <1>0 DEF OpsStay
<1> QED BY <1>2, <1>3, <1>4, <1>5

(* What is known of a person stays so, whatever runs.                      *)
LEMMA IsOfStays ==
    ASSUME CallsInv, OpsStay, NamesInv, NEW d \in DOMAIN call, CallStep(d), GoesOn(d),
           NEW p, NEW user, IsOf(user, p)
    PROVE  IsOf(user, p)'
<1>1. CASE ens' = ens
  BY <1>1, IsOfStill
<1>2. CASE ens' # ens
  <2>1. At(d, "claim", "mint") /\ Mints(d)
    BY <1>2, WritesNames DEF ClaimMints
  <2>2. \A label : Resolves(p, label) => Resolves(p, label)'
    BY <2>1, MintResolves
  <2>3. user.wallet \in WalletsOf(p)'
    BY NamingStays DEF IsOf
  <2> QED BY <2>2, <2>3 DEF IsOf
<1> QED BY <1>1, <1>2

(* The table after a statement.                                            *)
LEMMA UsersAreThemselves ==
    ASSUME CallsInv, OpsStay, NamesInv, NEW d \in DOMAIN call, CallStep(d), GoesOn(d),
           NEW p \in DOMAIN users'
    PROVE  IsOf(users[p], p)'
<1>0. PICK user : user = users'[p]
  OBVIOUS
<1> SUFFICES IsOf(user, p)'
  BY <1>0
<1>1. ASSUME p \in DOMAIN users, user.wallet = users[p].wallet \/ user.wallet \in WalletsOf(p),
             user.ensName = users[p].ensName, DOMAIN user = DOMAIN users[p]
      PROVE  IsOf(user, p)'
  <2>1. IsOf(user, p)
    BY <1>1 DEF NamesInv, IsOf
  <2> QED BY <2>1, IsOfStays
<1>2. CASE users' = users
  BY <1>0, <1>1, <1>2
<1>3. CASE SignInSetsWallet(d)
  <2>1. call[d].op.wallet \in WalletsOf(Me(d))
    BY <1>3 DEF SignInSetsWallet, At, WalletsOf, The
  <2>2. users' = [users EXCEPT ![Me(d)].wallet = call[d].op.wallet]
    BY <1>3 DEF SignInSetsWallet, Me
  <2> QED BY <1>0, <1>1, <2>1, <2>2 DEF NamesInv, IsOf, UserFields
<1>4. CASE SignInAdds(d) /\ users' # users
  <2>1. CASE p = Me(d)
    <3>1. call[d].op.wallet \in WalletsOf(p)
      BY <1>4, <2>1 DEF SignInAdds, At, WalletsOf, The
    <3>2. user.wallet = call[d].op.wallet /\ user.ensName = Null /\ DOMAIN user = UserFields
      BY <1>0, <1>4, <2>1 DEF SignInAdds, Me, UserFields
    <3>3. IsOf(user, p)
      BY <3>1, <3>2 DEF IsOf
    <3> QED BY <3>3, IsOfStays
  <2>2. CASE p # Me(d)
    <3>1. p \in DOMAIN users /\ user = users[p]
      BY <1>0, <1>4, <2>2 DEF SignInAdds, Me
    <3> QED BY <1>1, <3>1
  <2> QED BY <2>1, <2>2
<1>5. CASE ClaimWrites(d)
  <2>1. CASE p = Me(d) /\ p \in DOMAIN users /\ users' # users
    <3>1. IsOf(call[d].saw, p)
      BY <1>5, <2>1 DEF ClaimWrites, At, The, NamesInv
    <3>2. DOMAIN users[p] = UserFields /\ users[p].wallet \in WalletsOf(p)
      BY <2>1 DEF NamesInv, IsOf
    <3>3. /\ users' = [users EXCEPT ![p].suffix = call[d].op.label,
                                    ![p].ensName = call[d].saw.ensName]
      BY <1>5, <2>1 DEF ClaimWrites
    <3>4. user.wallet = users[p].wallet /\ user.ensName = call[d].saw.ensName
          /\ DOMAIN user = UserFields
      BY <1>0, <2>1, <3>2, <3>3 DEF UserFields
    <3>5. IsOf(user, p)
      BY <3>1, <3>2, <3>4 DEF IsOf
    <3> QED BY <3>5, IsOfStays
  <2>2. CASE p # Me(d) \/ users' = users
    <3>1. p \in DOMAIN users /\ users'[p] = users[p]
      BY <1>5, <2>2 DEF ClaimWrites
    <3> QED BY <1>0, <1>1, <3>1
  <2>3. DOMAIN users' = DOMAIN users
    BY <1>5 DEF ClaimWrites
  <2> QED BY <2>1, <2>2, <2>3
<1>6. CASE TopupWrites(d)
  BY <1>0, <1>1, <1>6 DEF TopupWrites, NamesInv, IsOf, UserFields
<1> QED BY <1>2, <1>3, <1>4, <1>5, <1>6, WritesUsers DEF SignInChanges

(* What a claim has read, after a statement.                               *)
LEMMA ClaimsReadThemselves ==
    ASSUME CallsInv, OpsStay, NamesInv, NEW d \in DOMAIN call, CallStep(d), GoesOn(d),
           NEW c \in The("claim"), call'[c].at \in {"free", "mint", "row"}
    PROVE  IsOf(call[c].saw, Me(c))'
<1>0. c \in DOMAIN call /\ IsA("claim", c) /\ Me(c)' = Me(c)
  BY NamingStays DEF The
<1>1. PICK p : p = Me(c)
  OBVIOUS
<1>2. PICK user : user = call'[c].saw
  OBVIOUS
<1> SUFFICES IsOf(user, p)'
  BY <1>0, <1>1, <1>2
<1>3. CASE c # d
  <2>1. IsOf(user, p)
    BY <1>0, <1>1, <1>2, <1>3 DEF GoesOn, NamesInv
  <2> QED BY <2>1, IsOfStays
<1>4. CASE c = d
  <2>0. Running(c) /\ {"BAD_REQUEST", "TAKEN", "CONFLICT", "ok", "THROWN"} \subseteq Answers
    BY <1>4 DEF GoesOn, Running, Answers
  <2>1. ASSUME NEW answer \in Answers, Returns(c, answer)
        PROVE  FALSE
    <3>1. call'[c].at = "end"
      BY <1>0, <2>0, <2>1, ReturnsNow DEF Now
    <3> QED BY <3>1
  <2>2. ASSUME NEW step \in {"free", "mint", "row"}, NEW saw, Awaits(c, step, saw)
        PROVE  user = saw
    <3>1. call'[c].saw = saw
      BY <1>0, <2>0, <2>2, AwaitsNow DEF Now
    <3> QED BY <1>2, <3>1
  <2>3. ClaimBegins(c) \/ ClaimLooks(c) \/ ClaimMints(c)
    <3>1. c \in Naming
      BY DEF Naming
    <3>2. ~Fails(c) /\ ~ClaimWrites(c)
      BY <2>0, <2>1 DEF Fails, Throws, ClaimWrites
    <3> QED BY <1>0, <1>4, <3>1, <3>2, NamingSteps DEF IsA
  <2>4. CASE ClaimBegins(c)
    <3>1. user = users[p] /\ p \in DOMAIN users
      BY <1>1, <2>0, <2>1, <2>2, <2>4 DEF ClaimBegins
    <3>2. IsOf(user, p)
      BY <3>1 DEF NamesInv
    <3> QED BY <3>2, IsOfStays
  <2>5. CASE ClaimLooks(c)
    <3>1. user = call[c].saw
      BY <2>0, <2>1, <2>2, <2>5 DEF ClaimLooks
    <3>2. IsOf(user, p)
      BY <1>1, <2>5, <3>1 DEF NamesInv, ClaimLooks, At
    <3> QED BY <3>2, IsOfStays
  <2>6. CASE ClaimMints(c)
    <3>1. IsOf(call[c].saw, p) /\ At(c, "claim", "mint")
      BY <1>1, <2>6 DEF NamesInv, ClaimMints, At
    <3>2. CASE user = call[c].saw
      BY <3>1, <3>2, <1>4, IsOfStays
    <3>3. CASE Mints(c) /\ user = Named(c)
      <4>0. PICK label : label = call[c].op.label
        OBVIOUS
      <4>1. Resolves(p, label)'
        <5>1. Resolves(Me(c), call[c].op.label)'
          BY <1>4, <3>1, <3>3, MintResolves
        <5>2. call'[c].op.label = label
          BY <1>0, <4>0 DEF OpsStay
        <5> QED BY <1>0, <1>1, <5>1, <5>2
      <4>2. user.ensName = label /\ user.wallet = call[c].saw.wallet
            /\ DOMAIN user = UserFields
        BY <3>1, <3>3, <4>0 DEF Named, IsOf, UserFields
      <4>3. user.wallet \in WalletsOf(p)'
        BY <3>1, <4>2, NamingStays DEF IsOf
      <4> QED BY <4>1, <4>2, <4>3 DEF IsOf
    <3>4. ASSUME NEW saw, Awaits(c, "row", saw)
          PROVE  user = saw
      BY <2>2, <3>4
    <3> QED BY <2>6, <3>2, <3>3, <3>4 DEF ClaimMints
  <2> QED BY <2>3, <2>4, <2>5, <2>6
<1> QED BY <1>3, <1>4

(* Names are of who claimed them, always.                                  *)
LEMMA NamesInvariant == Spec => []NamesInv
<1>1. Init => NamesInv
  <2> SUFFICES ASSUME Init
               PROVE  NamesInv
    OBVIOUS
  <2>1. DOMAIN users = {} /\ DOMAIN call = {}
    BY DEF Init, CallsInit, PeopleInit
  <2> QED BY <2>1 DEF NamesInv, The
<1>2. CallsInv /\ NamesInv /\ [Next]_vars => NamesInv'
  <2> SUFFICES ASSUME CallsInv, NamesInv, [Next]_vars
               PROVE  NamesInv'
    OBVIOUS
  <2>0. OpsStay
    BY StepCases
  <2>1. ASSUME users' = users, ens' = ens,
               \A c \in The("claim")' : call'[c].at \in {"free", "mint", "row"} =>
                    c \in The("claim") /\ call'[c] = call[c]
        PROVE  NamesInv'
    <3>1. ASSUME NEW p \in DOMAIN users'
          PROVE  IsOf(users[p], p)'
      <4>1. PICK user : user = users[p]
        OBVIOUS
      <4>2. IsOf(user, p)'
        BY <2>0, <2>1, <3>1, <4>1, IsOfStill DEF NamesInv
      <4> QED BY <2>1, <4>1, <4>2
    <3>2. ASSUME NEW c \in The("claim")', call'[c].at \in {"free", "mint", "row"}
          PROVE  IsOf(call[c].saw, Me(c))'
      <4>1. PICK user : user = call[c].saw
        OBVIOUS
      <4>2. PICK p : p = Me(c)
        OBVIOUS
      <4>3. IsOf(user, p)'
        BY <2>0, <2>1, <3>2, <4>1, <4>2, IsOfStill DEF NamesInv
      <4>4. call'[c].saw = user /\ Me(c)' = p
        BY <2>0, <2>1, <3>2, <4>1, <4>2, NamingStays DEF The
      <4> QED BY <4>3, <4>4
    <3> QED BY <3>1, <3>2 DEF NamesInv
  <2>2. ASSUME UNCHANGED <<call, users, ens>>
        PROVE  NamesInv'
    BY <2>1, <2>2 DEF The, IsA
  <2>3. ASSUME NEW n, Begins(n), UNCHANGED <<users, ens>>
        PROVE  NamesInv'
    BY <2>1, <2>3 DEF Begins, The, IsA
  <2>4. ASSUME NEW d \in DOMAIN call, CallStep(d), GoesOn(d)
        PROVE  NamesInv'
    <3>1. The("claim")' = The("claim")
      BY <2>0, <2>4 DEF The, IsA, GoesOn, OpsStay
    <3>2. \A p \in DOMAIN users' : IsOf(users[p], p)'
      BY <2>0, <2>4, UsersAreThemselves
    <3>3. \A c \in The("claim") : call'[c].at \in {"free", "mint", "row"} =>
            IsOf(call[c].saw, Me(c))'
      BY <2>0, <2>4, ClaimsReadThemselves
    <3> QED BY <3>1, <3>2, <3>3 DEF NamesInv
  <2> QED BY <2>2, <2>3, <2>4, StepCases DEF peopleOwn
<1> QED BY <1>1, <1>2, CallsInvariant, PTL DEF Spec

(* An ENS name on a profile resolves to a wallet of its person, unless     *)
(* somebody else has claimed it since or at the same time (profile.ts:120).*)
THEOREM ClaimedNamesResolve == Spec => []NamesResolve
<1>1. NamesInv => NamesResolve
  <2> SUFFICES ASSUME NamesInv, NEW p \in DOMAIN users, users[p].ensName # Null
               PROVE  LET label == users[p].ensName
                          rivals == {d \in Claims(label) : Me(d) # p} IN
                      /\ label \in DOMAIN ens
                      /\ \/ \E c \in The("signIn") : Me(c) = p /\ call[c].op.wallet = ens[label]
                         \/ \E c \in Claims(label) \ rivals, d \in rivals : c < d \/ Overlap(c, d)
    BY DEF NamesResolve
  <2>1. Resolves(p, users[p].ensName)
    BY DEF NamesInv, IsOf
  <2> QED BY <2>1 DEF Resolves, WalletsOf
<1> QED BY <1>1, NamesInvariant, PTL

(***************************************************************************)
(* Listings, page by page.                                                 *)
(***************************************************************************)

(* The time and the fields that a listing is ordered by are numbers.       *)
RanksInv ==
    /\ \A id \in DOMAIN records :
          records[id].createdAt \in Int /\ records[id].data \in [Fields -> Int]
    /\ \A c \in The("insert") : call[c].at = "row" => call[c].saw \in Int
    /\ \A c \in The("update") : call[c].at = "write" => call[c].saw \in [Fields -> Int]

(* What moves the rows up of a listing in this order.                      *)
Movers(orderBy) ==
    The("delete") \cup (IF orderBy = "createdAt" THEN {} ELSE The("update"))

(* What was there at the first page, and no page has had yet, is still to  *)
(* come.                                                                   *)
IsPaging(saw, orderBy) ==
    /\ DOMAIN saw = {"offset", "had", "got"}
    /\ saw.offset \in Nat /\ saw.had \subseteq DOMAIN records
    /\ \A id \in saw.had : id \in saw.got \/ Position(id, orderBy) >= saw.offset

PagesInv ==
    \A c \in The("list") :
        /\ call[c].at \in {"begin", "page", "end"}
        /\ Alone(c, Movers(call[c].op.orderBy)) =>
            /\ call[c].at = "page" => IsPaging(call[c].saw, call[c].op.orderBy)
            /\ call[c].answer = "ok" => call[c].saw.had \subseteq call[c].saw.got

(* A row's place is a number of rows other than itself.                    *)
LEMMA PositionIsBelow ==
    ASSUME RecordsInv, RanksInv, NEW id \in DOMAIN records,
           NEW orderBy \in Fields \cup {"createdAt"}
    PROVE  /\ Position(id, orderBy) \in Nat
           /\ Position(id, orderBy) < Cardinality(DOMAIN records)
<1> DEFINE R == DOMAIN records
           Above == {other \in R : Rank(other, orderBy) > Rank(id, orderBy)}
<1>1. IsFiniteSet(R)
  BY DEF RecordsInv
<1>2. Rank(id, orderBy) \in Int
  BY DEF RanksInv, Rank
<1>3. Above \subseteq R /\ id \notin Above
  BY <1>2
<1> HIDE DEF R, Above
<1>4. Above \subseteq R \ {id} /\ id \in R
  BY <1>3 DEF R
<1>5. IsFiniteSet(R \ {id}) /\ Cardinality(R \ {id}) = Cardinality(R) - 1
  BY <1>1, <1>4, FS_RemoveElement
<1>6. IsFiniteSet(Above) /\ Cardinality(Above) <= Cardinality(R \ {id})
  BY <1>4, <1>5, FS_Subset
<1>7. Cardinality(Above) \in Nat /\ Cardinality(R) \in Nat
  BY <1>1, <1>6, FS_CardinalityType
<1> QED BY <1>5, <1>6, <1>7 DEF Position, Above, R

(* No row moves up while rows are only added.                              *)
LEMMA RowsMoveDown ==
    ASSUME IsFiniteSet(DOMAIN records'), NEW orderBy, NEW id \in DOMAIN records,
           DOMAIN records \subseteq DOMAIN records',
           \A other \in DOMAIN records : Rank(other, orderBy)' = Rank(other, orderBy)
    PROVE  /\ Position(id, orderBy)' \in Nat
           /\ Position(id, orderBy) <= Position(id, orderBy)'
<1> DEFINE Above == {other \in DOMAIN records : Rank(other, orderBy) > Rank(id, orderBy)}
           Then == {other \in DOMAIN records' : Rank(other, orderBy)' > Rank(id, orderBy)'}
<1>1. Above \subseteq Then /\ Then \subseteq DOMAIN records'
  OBVIOUS
<1>2. Position(id, orderBy) = Cardinality(Above) /\ Position(id, orderBy)' = Cardinality(Then)
  BY DEF Position
<1> HIDE DEF Above, Then
<1>3. IsFiniteSet(Then)
  BY <1>1, FS_Subset
<1>4. Cardinality(Above) <= Cardinality(Then) /\ Cardinality(Then) \in Nat
  BY <1>1, <1>3, FS_Subset, FS_CardinalityType
<1> QED BY <1>2, <1>4

(* The time of a new record is a number.                                   *)
LEMMA StampIsNumber ==
    ASSUME CallsInv PROVE Stamp \in Nat
<1>1. IsFiniteSet(DOMAIN call)
  <2>1. PICK S : call \in Seq(S)
    BY DEF CallsInv, IsSequence
  <2>2. DOMAIN call = 1 .. Len(call) /\ Len(call) \in Nat
    BY <2>1
  <2> QED BY <2>2, FS_Interval
<1> DEFINE passed == {d \in The("insert") : call[d].saw # Null}
<1>2. passed \subseteq DOMAIN call
  BY DEF The
<1> HIDE DEF passed
<1>3. Cardinality(passed) \in Nat
  BY <1>1, <1>2, FS_Subset, FS_CardinalityType
<1> QED BY <1>3 DEF Stamp, passed

(* What a statement makes of the rows.                                     *)
LEMMA RanksOfRows ==
    ASSUME CallsInv, OpsInv, UpdatesInv, RanksInv, NEW d \in DOMAIN call, CallStep(d)
    PROVE  \A id \in DOMAIN records' :
              /\ records'[id].createdAt \in Int /\ records'[id].data \in [Fields -> Int]
              /\ id \in DOMAIN records /\ ~UpdateWrites(d) => records'[id] = records[id]
              /\ id \in DOMAIN records => records'[id].createdAt = records[id].createdAt
<1>1. CASE records' = records
  BY <1>1 DEF RanksInv
<1>2. CASE InsertAdds(d)
  <2>1. call[d].saw \in Int /\ d \in Int
    <3>1. PICK S : call \in Seq(S)
      BY DEF CallsInv, IsSequence
    <3> QED BY <1>2, <3>1 DEF InsertAdds, At, RanksInv, The
  <2>2. [f \in Fields |-> d] \in [Fields -> Int]
    BY <2>1
  <2>3. PICK m : m = [f \in Fields |-> d]
    OBVIOUS
  <2>4. PICK row : row = [by |-> call[d].op.by, createdAt |-> call[d].saw, data |-> m]
    OBVIOUS
  <2>5. /\ records' = [id \in DOMAIN records \cup {call[d].op.id} |->
                          IF id = call[d].op.id THEN row ELSE records[id]]
        /\ call[d].op.id \notin DOMAIN records
    BY <1>2, <2>3, <2>4 DEF InsertAdds
  <2>6. row.createdAt \in Int /\ row.data \in [Fields -> Int]
    BY <2>1, <2>2, <2>3, <2>4
  <2> QED BY <2>5, <2>6 DEF RanksInv
<1>3. CASE UpdateWrites(d) /\ records' # records
  <2>1. /\ d \in The("update") /\ call[d].at = "write" /\ call[d].op.field \in Fields
    BY <1>3, AppDataAssumption DEF UpdateWrites, At, IsA, The, OpsInv
  <2>2. call[d].saw \in [Fields -> Int] /\ d \in Int
    <3>1. PICK S : call \in Seq(S)
      BY DEF CallsInv, IsSequence
    <3> QED BY <2>1, <3>1 DEF RanksInv
  <2>3. Merged(d) \in [Fields -> Int]
    BY <2>1, <2>2 DEF Merged
  <2>4. PICK m : m = Merged(d)
    OBVIOUS
  <2>5. Id(d) \in DOMAIN records /\ records' = [records EXCEPT ![Id(d)].data = m]
    BY <1>3, <2>4 DEF UpdateWrites, Id
  <2>6. DOMAIN records[Id(d)] = {"by", "createdAt", "data"}
    BY <2>5 DEF UpdatesInv, RowFields
  <2> QED BY <1>3, <2>3, <2>4, <2>5, <2>6 DEF RanksInv
<1>4. CASE DeleteWrites(d)
  BY <1>4 DEF DeleteWrites, RanksInv
<1> QED BY <1>1, <1>2, <1>3, <1>4, WritesRows

(* What a call has read that it will write.                                *)
LEMMA RanksAreRead ==
    ASSUME CallsInv, RanksInv, NEW d \in DOMAIN call, CallStep(d), GoesOn(d)
    PROVE  /\ IsA("insert", d) => (call'[d].at = "row" => call'[d].saw \in Int)
           /\ IsA("update", d) => (call'[d].at = "write" => call'[d].saw \in [Fields -> Int])
<1>0. Running(d) /\ {"ok", "THROWN", "QUOTA_EXCEEDED"} \subseteq Answers
  BY DEF GoesOn, Running, Answers
<1>1. ASSUME IsA("insert", d), call'[d].at = "row"
      PROVE  call'[d].saw \in Int
  <2>1. ASSUME NEW answer \in Answers, Returns(d, answer)
        PROVE  FALSE
    BY <1>0, <1>1, <2>1, ReturnsNow DEF Now
  <2>2. Awaits(d, "row", Stamp)
    BY <1>0, <1>1, <2>1, InsertSteps DEF Fails, Throws, InsertCounts, InsertAdds
  <2>3. call'[d].saw = Stamp
    BY <1>0, <2>2, AwaitsNow DEF Now
  <2> QED BY <2>3, StampIsNumber
<1>2. ASSUME IsA("update", d), call'[d].at = "write"
      PROVE  call'[d].saw \in [Fields -> Int]
  BY <1>2, UpdateGoesTo DEF RanksInv
<1> QED BY <1>1, <1>2

(* What a listing is ordered by are numbers, always.                       *)
LEMMA RanksInvariant == Spec => []RanksInv
<1>1. Init => RanksInv
  <2> SUFFICES ASSUME Init
               PROVE  RanksInv
    OBVIOUS
  <2>1. DOMAIN records = {} /\ DOMAIN call = {}
    BY DEF Init, CallsInit, AppDataInit
  <2> QED BY <2>1 DEF RanksInv, The
<1>2. CallsInv /\ OpsInv /\ UpdatesInv /\ RanksInv /\ [Next]_vars => RanksInv'
  <2> SUFFICES ASSUME CallsInv, OpsInv, UpdatesInv, RanksInv, [Next]_vars
               PROVE  RanksInv'
    OBVIOUS
  <2>1. ASSUME UNCHANGED <<call, records>>
        PROVE  RanksInv'
    BY <2>1 DEF RanksInv, The, IsA
  <2>2. ASSUME NEW n, Begins(n), records' = records
        PROVE  RanksInv'
    BY <2>2 DEF Begins, RanksInv, The, IsA
  <2>3. ASSUME NEW d \in DOMAIN call, CallStep(d), GoesOn(d)
        PROVE  RanksInv'
    <3>1. \A id \in DOMAIN records' :
              records'[id].createdAt \in Int /\ records'[id].data \in [Fields -> Int]
      BY <2>3, RanksOfRows
    <3>2. /\ IsA("insert", d) => (call'[d].at = "row" => call'[d].saw \in Int)
          /\ IsA("update", d) => (call'[d].at = "write" => call'[d].saw \in [Fields -> Int])
      BY <2>3, RanksAreRead
    <3>3. \A name, c : c \in The(name)' => c \in The(name)
      BY <2>3 DEF GoesOn, The, IsA
    <3>4. \A c \in The("insert")' : call'[c].at = "row" => call'[c].saw \in Int
      BY <2>3, <3>2, <3>3 DEF GoesOn, The, RanksInv
    <3>5. \A c \in The("update")' : call'[c].at = "write" => call'[c].saw \in [Fields -> Int]
      BY <2>3, <3>2, <3>3 DEF GoesOn, The, RanksInv
    <3> QED BY <3>1, <3>4, <3>5 DEF RanksInv
  <2> QED BY <2>1, <2>2, <2>3, StepCases DEF appDataVars
<1> QED BY <1>1, <1>2, CallsInvariant, OpsInvariant, UpdatesInvariant, PTL DEF Spec

(* What a listing does next.                                               *)
LEMMA ListSteps ==
    ASSUME CallsInv, NEW d \in DOMAIN call, CallStep(d), IsA("list", d)
    PROVE  Fails(d) \/ ListPages(d)
<1>1. call[d].at # "model"
  BY DEF CallsInv, IsA
<1> QED BY <1>1 DEF CallStep, MeteredStep, AppDataStep, InboxStep, PeopleStep,
        ProfileStep, GameStep, At, IsA, ChatBegins, RefineBegins, RefineGathers,
        ModelAnswers, ModelFails, InsertCounts, InsertAdds, UpdateReads, UpdateWrites,
        DeleteReads, DeleteWrites, SetLooks, SetCounts, SetUpserts, Unset,
        Clear, SendAsks, SendAdds, EvictionCounts, EvictionChooses, EvictionDeletes,
        MarkAllRead, SignInLooks, SignInSetsWallet, SignInDerives, SignInAdds, AddFriend,
        RemoveFriend, ChatAsks, ChatFindsJam, ChatAdds, LikeLooks, LikeToggles,
        ClaimBegins, ClaimLooks, ClaimMints, ClaimWrites, TopupLooks, TopupPays,
        TopupWrites, MoveIsSent, MoveIsMined, ResetIsSent, ResetIsMined

(* A listing goes by what it was asked, and by what is beside it.          *)
LEMMA MoversGrow ==
    ASSUME OpsStay, NEW c \in The("list")
    PROVE  /\ c \in DOMAIN call /\ call'[c].op = call[c].op
           /\ Alone(c, Movers(call[c].op.orderBy))' => Alone(c, Movers(call[c].op.orderBy))
<1>1. PICK o : o = call[c].op.orderBy
  OBVIOUS
<1>2. c \in DOMAIN call /\ call'[c].op = call[c].op
  BY DEF OpsStay, The
<1>3. Movers(o) \subseteq Movers(o)' /\ Movers(o) \subseteq DOMAIN call
  BY DEF Movers, The, IsA, OpsStay
<1>4. \A d \in Movers(o) : Overlap(c, d)' <=> Overlap(c, d)
  BY <1>2, <1>3 DEF OpsStay, Overlap
<1>5. Alone(c, Movers(o))' => Alone(c, Movers(o))
  BY <1>3, <1>4 DEF Alone
<1> QED BY <1>1, <1>2, <1>5

(* While a listing is between two pages, no other call moves its rows up.  *)
LEMMA PagingStays ==
    ASSUME CallsInv, OpsInv, UpdatesInv, RecordsInv, RecordsInv', RanksInv, OpsStay,
           NEW d \in DOMAIN call, CallStep(d), GoesOn(d),
           NEW c \in The("list"), c # d, Running(c), NEW orderBy, orderBy = call[c].op.orderBy,
           Alone(c, Movers(orderBy)), NEW saw, IsPaging(saw, orderBy)
    PROVE  IsPaging(saw, orderBy)'
<1>1. orderBy \in Fields \cup {"createdAt"} /\ c \in DOMAIN call
  BY AppDataAssumption DEF OpsInv, The, IsA
<1>2. Overlap(c, d) /\ d \notin Movers(orderBy)
  <2>1. Overlap(c, d)
    BY <1>1, RunningOverlap DEF GoesOn, Running
  <2> QED BY <2>1 DEF Alone
<1>3. ~DeleteWrites(d) /\ (UpdateWrites(d) => orderBy = "createdAt")
  BY <1>2 DEF Movers, DeleteWrites, UpdateWrites, At, The
<1>4. DOMAIN records \subseteq DOMAIN records'
  <2>1. ASSUME InsertAdds(d)
        PROVE  DOMAIN records' = DOMAIN records \cup {call[d].op.id}
    BY <2>1 DEF InsertAdds
  <2> QED BY <1>3, <2>1, WritesRecords
<1>5. \A id \in DOMAIN records : Rank(id, orderBy)' = Rank(id, orderBy)
  BY <1>3, <1>4, RanksOfRows DEF Rank
<1>6. IsFiniteSet(DOMAIN records')
  BY DEF RecordsInv
<1>7. \A id \in DOMAIN records :
          Position(id, orderBy)' \in Nat /\ Position(id, orderBy) <= Position(id, orderBy)'
  BY <1>4, <1>5, <1>6, RowsMoveDown
<1>8. \A id \in DOMAIN records : Position(id, orderBy) \in Nat
  BY <1>1, PositionIsBelow
<1> QED BY <1>4, <1>7, <1>8 DEF IsPaging

(* A page holds what is at its places; the next begins where it ends, and  *)
(* after the last one there is none left.                                  *)
LEMMA PageIsRead ==
    ASSUME CallsInv, OpsInv, RecordsInv, RanksInv, NEW c \in The("list"),
           NEW orderBy, orderBy = call[c].op.orderBy, ListPages(c), GoesOn(c),
           call[c].at = "page" => IsPaging(call[c].saw, orderBy),
           call[c].at \in {"begin", "page"}
    PROVE  \E saw : /\ call'[c].saw = saw /\ saw.had \subseteq DOMAIN records
                    /\ \/ /\ call'[c].at = "page" /\ call'[c].answer = Null
                          /\ IsPaging(saw, orderBy)
                       \/ call'[c].at = "end" /\ saw.had \subseteq saw.got
<1>0. /\ c \in DOMAIN call /\ Running(c) /\ orderBy \in Fields \cup {"createdAt"}
  BY AppDataAssumption DEF OpsInv, The, IsA, GoesOn, Running
<1>1. \A id \in DOMAIN records : /\ Position(id, orderBy) \in Nat
                                 /\ Position(id, orderBy) < Cardinality(DOMAIN records)
  BY <1>0, PositionIsBelow
<1>2. PICK saw : saw = (IF call[c].at = "begin"
                        THEN [offset |-> 0, had |-> DOMAIN records, got |-> {}]
                        ELSE call[c].saw)
  OBVIOUS
<1>3. IsPaging(saw, orderBy)
  <2>1. CASE call[c].at = "begin"
    <3>1. saw = [offset |-> 0, had |-> DOMAIN records, got |-> {}]
      BY <1>2, <2>1
    <3>2. DOMAIN saw = {"offset", "had", "got"} /\ saw.offset = 0 /\ saw.had = DOMAIN records
      BY <3>1
    <3> QED BY <1>1, <3>2 DEF IsPaging
  <2>2. CASE call[c].at = "page"
    BY <1>2, <2>2
  <2> QED BY <2>1, <2>2
<1>4. PICK got : got = saw.got \cup PageFrom(saw.offset, orderBy)
  OBVIOUS
<1>5. PICK next : next = saw.offset + ListMax
  OBVIOUS
<1>6. next \in Nat /\ ListMax \in Nat /\ saw.offset \in Nat /\ Cardinality(DOMAIN records) \in Nat
  BY <1>3, <1>5, AppDataAssumption, FS_CardinalityType DEF IsPaging, RecordsInv
<1>7. \A id \in saw.had : id \in got \/ Position(id, orderBy) >= next
  BY <1>1, <1>3, <1>4, <1>5, <1>6 DEF IsPaging, PageFrom
<1>8. \/ Cardinality(DOMAIN records) > next
         /\ Awaits(c, "page", [saw EXCEPT !.got = got, !.offset = next])
      \/ ~(Cardinality(DOMAIN records) > next) /\ Finds(c, [saw EXCEPT !.got = got])
  BY <1>2, <1>4, <1>5 DEF ListPages, NextOffset
<1>9. ASSUME Awaits(c, "page", [saw EXCEPT !.got = got, !.offset = next])
      PROVE  \E seen : /\ call'[c].saw = seen /\ seen.had \subseteq DOMAIN records
                    /\ call'[c].at = "page" /\ call'[c].answer = Null /\ IsPaging(seen, orderBy)
  <2>1. PICK then : then = [saw EXCEPT !.got = got, !.offset = next]
    OBVIOUS
  <2>2. call'[c].saw = then /\ call'[c].at = "page" /\ call'[c].answer = Null
    BY <1>0, <1>9, <2>1, AwaitsNow DEF Now
  <2>3. /\ DOMAIN then = {"offset", "had", "got"} /\ then.offset = next /\ then.got = got
        /\ then.had = saw.had
    BY <1>3, <2>1 DEF IsPaging
  <2> QED BY <1>3, <1>6, <1>7, <2>2, <2>3 DEF IsPaging
<1>10. ASSUME ~(Cardinality(DOMAIN records) > next), Finds(c, [saw EXCEPT !.got = got])
       PROVE  \E seen : /\ call'[c].saw = seen /\ seen.had \subseteq DOMAIN records
                     /\ call'[c].at = "end" /\ seen.had \subseteq seen.got
  <2>1. PICK then : then = [saw EXCEPT !.got = got]
    OBVIOUS
  <2>2. call'[c].saw = then /\ call'[c].at = "end"
    BY <1>0, <1>10, <2>1, FindsNow DEF Now
  <2>3. then.got = got /\ then.had = saw.had
    BY <1>3, <2>1 DEF IsPaging
  <2>4. \A id \in saw.had : id \in got
    BY <1>1, <1>3, <1>6, <1>7, <1>10 DEF IsPaging
  <2> QED BY <1>3, <2>2, <2>3, <2>4 DEF IsPaging
<1> QED BY <1>8, <1>9, <1>10

(* A listing, after a statement.                                           *)
LEMMA PagesStep ==
    ASSUME CallsInv, OpsInv, UpdatesInv, RecordsInv, RecordsInv', RanksInv, PagesInv, OpsStay,
           NEW d \in DOMAIN call, CallStep(d), GoesOn(d), NEW c \in The("list"),
           NEW orderBy, orderBy = call[c].op.orderBy
    PROVE  /\ call'[c].at \in {"begin", "page", "end"}
           /\ Alone(c, Movers(orderBy)) =>
                /\ call'[c].at = "page" => IsPaging(call[c].saw, orderBy)'
                /\ call'[c].answer = "ok" => call'[c].saw.had \subseteq call'[c].saw.got
<1>0. c \in DOMAIN call /\ IsA("list", c) /\ call[c].at \in {"begin", "page", "end"}
  BY DEF The, PagesInv
<1>1. CASE c # d
  <2>1. call'[c] = call[c]
    BY <1>0, <1>1 DEF GoesOn
  <2>2. ASSUME Alone(c, Movers(orderBy)), call[c].at = "page"
        PROVE  IsPaging(call[c].saw, orderBy)'
    <3>1. PICK saw : saw = call[c].saw
      OBVIOUS
    <3>2. Running(c) /\ IsPaging(saw, orderBy)
      BY <2>2, <3>1 DEF Running, PagesInv
    <3>3. IsPaging(saw, orderBy)'
      BY <1>1, <2>2, <3>2, PagingStays
    <3> QED BY <2>1, <3>1, <3>3
  <2> QED BY <1>0, <2>1, <2>2 DEF PagesInv
<1>2. CASE c = d /\ Fails(c)
  <2>1. Running(c) /\ "THROWN" \in Answers
    BY <1>2 DEF GoesOn, Running, Answers
  <2>2. call'[c].at = "end" /\ call'[c].answer = "THROWN"
    BY <1>0, <1>2, <2>1, ReturnsNow DEF Now, Fails, Throws
  <2> QED BY <2>2
<1>3. CASE c = d /\ ListPages(c)
  <2>0. call[c].at \in {"begin", "page"} /\ Running(c)
    BY <1>0, <1>3 DEF ListPages, Running
  <2>1. ASSUME Alone(c, Movers(orderBy))
        PROVE  /\ call'[c].at \in {"begin", "page", "end"}
               /\ call'[c].at = "page" => IsPaging(call[c].saw, orderBy)'
               /\ call'[c].answer = "ok" => call'[c].saw.had \subseteq call'[c].saw.got
    <3>1. call[c].at = "page" => IsPaging(call[c].saw, orderBy)
      BY <2>1 DEF PagesInv
    <3>2. PICK saw : /\ call'[c].saw = saw /\ saw.had \subseteq DOMAIN records
                     /\ \/ /\ call'[c].at = "page" /\ call'[c].answer = Null
                           /\ IsPaging(saw, orderBy)
                        \/ call'[c].at = "end" /\ saw.had \subseteq saw.got
      BY <1>3, <2>0, <3>1, PageIsRead
    <3>3. records' = records
      BY <1>3 DEF ListPages, appDataVars
    <3>4. IsPaging(saw, orderBy) => IsPaging(saw, orderBy)'
      BY <3>3 DEF IsPaging, Position, Rank
    <3>5. Null # "ok"
      BY CallsAssumption DEF Answers
    <3> QED BY <3>2, <3>4, <3>5
  <2>2. call'[c].at \in {"page", "end"}
    <3>1. ASSUME NEW saw, Awaits(c, "page", saw)
          PROVE  call'[c].at = "page"
      BY <1>0, <2>0, <3>1, AwaitsNow DEF Now
    <3>2. ASSUME NEW saw, Finds(c, saw)
          PROVE  call'[c].at = "end"
      BY <1>0, <2>0, <3>2, FindsNow DEF Now
    <3>3. (\E saw : Awaits(c, "page", saw)) \/ (\E saw : Finds(c, saw))
      BY <1>3 DEF ListPages
    <3> QED BY <3>1, <3>2, <3>3
  <2> QED BY <2>1, <2>2
<1> QED BY <1>0, <1>1, <1>2, <1>3, ListSteps

(* Listings miss nothing between two pages, always.                        *)
LEMMA PagesInvariant == Spec => []PagesInv
<1>1. Init => PagesInv
  <2> SUFFICES ASSUME Init
               PROVE  PagesInv
    OBVIOUS
  <2>1. DOMAIN call = {}
    BY DEF Init, CallsInit
  <2> QED BY <2>1 DEF PagesInv, The
<1>2. /\ CallsInv /\ OpsInv /\ UpdatesInv /\ RecordsInv /\ RecordsInv' /\ RanksInv
      /\ PagesInv /\ [Next]_vars
      => PagesInv'
  <2> SUFFICES ASSUME CallsInv, OpsInv, UpdatesInv, RecordsInv, RecordsInv', RanksInv,
                      PagesInv, [Next]_vars, NEW c \in The("list")'
               PROVE  (/\ call[c].at \in {"begin", "page", "end"}
                       /\ Alone(c, Movers(call[c].op.orderBy)) =>
                            /\ call[c].at = "page" => IsPaging(call[c].saw, call[c].op.orderBy)
                            /\ call[c].answer = "ok" => call[c].saw.had \subseteq call[c].saw.got)'
    BY DEF PagesInv
  <2>0. OpsStay
    BY StepCases
  <2>1. ASSUME records' = records, c \in The("list"), call'[c] = call[c]
        PROVE  (/\ call[c].at \in {"begin", "page", "end"}
                /\ Alone(c, Movers(call[c].op.orderBy)) =>
                     /\ call[c].at = "page" => IsPaging(call[c].saw, call[c].op.orderBy)
                     /\ call[c].answer = "ok" => call[c].saw.had \subseteq call[c].saw.got)'
    <3>1. PICK saw, o : saw = call[c].saw /\ o = call[c].op.orderBy
      OBVIOUS
    <3>2. IsPaging(saw, o)' <=> IsPaging(saw, o)
      BY <2>1 DEF IsPaging, Position, Rank
    <3>3. Alone(c, Movers(call[c].op.orderBy))' => Alone(c, Movers(o))
      BY <2>0, <2>1, <3>1, MoversGrow
    <3>4. /\ call[c].at \in {"begin", "page", "end"}
          /\ Alone(c, Movers(o)) =>
               /\ call[c].at = "page" => IsPaging(saw, o)
               /\ call[c].answer = "ok" => saw.had \subseteq saw.got
      BY <2>1, <3>1 DEF PagesInv
    <3>5. call'[c].saw = saw /\ call'[c].op.orderBy = o /\ call'[c].at = call[c].at
          /\ call'[c].answer = call[c].answer
      BY <2>1, <3>1
    <3> QED BY <3>2, <3>3, <3>4, <3>5
  <2>2. CASE UNCHANGED <<call, records>>
    <3>1. c \in The("list")
      BY <2>2 DEF The, IsA
    <3> QED BY <2>1, <2>2, <3>1
  <2>3. ASSUME NEW n, Begins(n), records' = records
        PROVE  (/\ call[c].at \in {"begin", "page", "end"}
                /\ Alone(c, Movers(call[c].op.orderBy)) =>
                     /\ call[c].at = "page" => IsPaging(call[c].saw, call[c].op.orderBy)
                     /\ call[c].answer = "ok" => call[c].saw.had \subseteq call[c].saw.got)'
    <3>1. CASE c = n
      <4>1. call'[c].at = "begin" /\ call'[c].answer = Null /\ Null # "ok"
        BY <2>3, <3>1, CallsAssumption DEF Begins, Answers
      <4> QED BY <4>1
    <3>2. CASE c # n
      <4>1. c \in The("list") /\ call'[c] = call[c]
        BY <2>3, <3>2 DEF Begins, The, IsA
      <4> QED BY <2>1, <2>3, <4>1
    <3> QED BY <3>1, <3>2
  <2>4. ASSUME NEW d \in DOMAIN call, CallStep(d), GoesOn(d)
        PROVE  (/\ call[c].at \in {"begin", "page", "end"}
                /\ Alone(c, Movers(call[c].op.orderBy)) =>
                     /\ call[c].at = "page" => IsPaging(call[c].saw, call[c].op.orderBy)
                     /\ call[c].answer = "ok" => call[c].saw.had \subseteq call[c].saw.got)'
    <3>1. c \in The("list")
      BY <2>0, <2>4 DEF GoesOn, The, IsA, OpsStay
    <3>2. PICK o : o = call[c].op.orderBy
      OBVIOUS
    <3>3. /\ Alone(c, Movers(call[c].op.orderBy))' => Alone(c, Movers(o))
          /\ call'[c].op.orderBy = o
      BY <2>0, <3>1, <3>2, MoversGrow
    <3>4. /\ call'[c].at \in {"begin", "page", "end"}
          /\ Alone(c, Movers(o)) =>
               /\ call'[c].at = "page" => IsPaging(call[c].saw, o)'
               /\ call'[c].answer = "ok" => call'[c].saw.had \subseteq call'[c].saw.got
      BY <2>0, <2>4, <3>1, <3>2, PagesStep
    <3> QED BY <3>3, <3>4
  <2> QED BY <2>2, <2>3, <2>4, StepCases DEF appDataVars
<1> QED BY <1>1, <1>2, CallsInvariant, OpsInvariant, UpdatesInvariant, RecordsInvariant,
           RanksInvariant, PTL DEF Spec

(* Who lists a collection gets every record that was there at the first    *)
(* page, unless some are deleted, or updated when a field gives the order  *)
(* (data-service.ts:167).                                                  *)
THEOREM PagesAreComplete == Spec => []PagesMissNothing
<1>1. PagesInv => PagesMissNothing
  BY DEF PagesInv, PagesMissNothing, Movers
<1> QED BY <1>1, PagesInvariant, PTL

(***************************************************************************)
(* Windows of a minute.                                                    *)
(***************************************************************************)

(* The calls of a history that were allowed between two times.             *)
Hits(history, from, to) ==
    {i \in DOMAIN history : history[i].ok /\ history[i].at \in from .. to}

IsHistory(history, time) ==
    /\ IsSequence(history)
    /\ \A i \in DOMAIN history : /\ history[i].at \in Nat /\ history[i].at <= time
                                 /\ history[i].ok \in BOOLEAN

(* Windows were opened at these times: one after the other, each by a call *)
(* that was allowed, and every call fell into one of them; none let more   *)
(* than the limit through, and who was refused came after so many.         *)
AreWindows(history, opened, limit) ==
    /\ opened \subseteq Nat
    /\ \A s, t \in opened : s < t => s + Width < t
    /\ \A i \in DOMAIN history : \E t \in opened : history[i].at \in t .. t + Width
    /\ \A t \in opened :
          /\ Cardinality(Hits(history, t, t + Width)) <= limit
          /\ \E i \in DOMAIN history : history[i].ok /\ history[i].at = t
    /\ \A i \in DOMAIN history : ~history[i].ok =>
          \E t \in opened : /\ history[i].at \in t .. t + Width
                            /\ Cardinality(Hits(history, t, history[i].at)) >= limit

(* The counter is that of the window that was opened last.                 *)
IsOpen(window, history, opened, limit) ==
    \/ window = Null /\ opened = {}
    \/ \E t \in opened, n \in Nat \ {0} :
          /\ \A s \in opened : s <= t
          /\ window = [n |-> n, reset |-> t + Width]
          /\ Cardinality(Hits(history, t, t + Width)) = IF n < limit THEN n ELSE limit

Windowed(history, window, opened, limit, time) ==
    /\ IsHistory(history, time) /\ AreWindows(history, opened, limit)
    /\ IsOpen(window, history, opened, limit)

(* Of a history, finitely many were allowed.                               *)
LEMMA HitsAreFinite ==
    ASSUME NEW history, IsSequence(history), NEW from, NEW to
    PROVE  /\ IsFiniteSet(Hits(history, from, to))
           /\ Cardinality(Hits(history, from, to)) \in Nat
<1>1. IsFiniteSet(DOMAIN history)
  <2>1. PICK S : history \in Seq(S)
    BY DEF IsSequence
  <2>2. DOMAIN history = 1 .. Len(history) /\ Len(history) \in Nat
    BY <2>1
  <2> QED BY <2>2, FS_Interval
<1>2. Hits(history, from, to) \subseteq DOMAIN history
  BY DEF Hits
<1> QED BY <1>1, <1>2, FS_Subset, FS_CardinalityType

(* A verdict is added to a history.                                        *)
Adds(then, history, n, e, time) ==
    /\ IsHistory(then, time)
    /\ DOMAIN then = DOMAIN history \cup {n} /\ n \notin DOMAIN history
    /\ \A i \in DOMAIN history : then[i] = history[i]
    /\ then[n] = e
    /\ \A from, to \in Int :
          Hits(then, from, to) = IF e.ok /\ time \in from .. to
                                 THEN Hits(history, from, to) \cup {n}
                                 ELSE Hits(history, from, to)

(* What a verdict adds to those that were allowed.                         *)
LEMMA HitsGrow ==
    ASSUME NEW history, NEW time \in Nat, IsHistory(history, time),
           NEW e, e.at = time, e.ok \in BOOLEAN, NEW then, then = Append(history, e),
           NEW n, n = Len(history) + 1
    PROVE  Adds(then, history, n, e, time)
<1>2. /\ IsSequence(then) /\ Len(history) \in Nat /\ DOMAIN history = 1 .. Len(history)
      /\ DOMAIN then = 1 .. n /\ \A i \in DOMAIN history : then[i] = history[i]
      /\ then[n] = e
  <2>1. IsSequence(history)
    BY DEF IsHistory
  <2> QED BY <2>1, AppendsTo
<1>3. DOMAIN then = DOMAIN history \cup {n} /\ n \notin DOMAIN history
  BY <1>2
<1>4. IsHistory(then, time)
  BY <1>2, <1>3 DEF IsHistory
<1>5. \A from, to \in Int :
          Hits(then, from, to) = IF e.ok /\ time \in from .. to
                                 THEN Hits(history, from, to) \cup {n}
                                 ELSE Hits(history, from, to)
  BY <1>2, <1>3 DEF Hits
<1> QED BY <1>2, <1>3, <1>4, <1>5 DEF Adds

(* A call that comes when the last window is over opens another.           *)
LEMMA WindowOpens ==
    ASSUME NEW history, NEW window, NEW opened, NEW limit \in Nat \ {0}, NEW time \in Nat,
           Windowed(history, window, opened, limit, time),
           window = Null \/ time > window.reset
    PROVE  Windowed(Append(history, [at |-> time, ok |-> TRUE]),
                    [n |-> 1, reset |-> time + Width], opened \cup {time}, limit, time)
<1>0. PICK e : e = [at |-> time, ok |-> TRUE]
  OBVIOUS
<1>a. e.at = time /\ e.ok = TRUE
  BY <1>0
<1>b. e.at = time /\ e.ok \in BOOLEAN
  BY <1>a
<1>1. PICK then : then = Append(history, e)
  OBVIOUS
<1>2. PICK n : n = Len(history) + 1
  OBVIOUS
<1>3. Width \in Nat \ {0} /\ opened \subseteq Nat /\ IsHistory(history, time)
  BY LimiterAssumption DEF Windowed, AreWindows
<1>4. \A s \in opened : s + Width < time
  <2>1. CASE opened = {}
    BY <2>1
  <2>2. ASSUME NEW t \in opened, NEW m \in Nat \ {0}, \A s \in opened : s <= t,
               window = [n |-> m, reset |-> t + Width]
        PROVE  \A s \in opened : s + Width < time
    <3>1. t + Width \in Nat /\ window \in [n : Nat, reset : Nat] /\ window.reset = t + Width
      BY <1>3, <2>2
    <3>2. window # Null
      BY <3>1, LimiterAssumption
    <3> QED BY <1>3, <2>2, <3>1, <3>2
  <2> QED BY <2>1, <2>2 DEF Windowed, IsOpen
<1>c. Adds(then, history, n, e, time)
  BY <1>b, <1>1, <1>2, <1>3, HitsGrow
<1>5. /\ IsHistory(then, time) /\ DOMAIN then = DOMAIN history \cup {n}
      /\ n \notin DOMAIN history
      /\ \A i \in DOMAIN history : then[i] = history[i]
      /\ then[n] = e
  BY <1>c DEF Adds
<1>6. \A from, to \in Int :
          Hits(then, from, to) = IF e.ok /\ time \in from .. to THEN Hits(history, from, to) \cup {n}
                                                        ELSE Hits(history, from, to)
  BY <1>c DEF Adds
<1>7. Cardinality(Hits(then, time, time + Width)) = 1
  <2>1. Hits(history, time, time + Width) = {}
    <3>1. ASSUME NEW i \in DOMAIN history, history[i].at >= time
          PROVE  FALSE
      <4>1. PICK t \in opened : history[i].at \in t .. t + Width
        BY DEF Windowed, AreWindows
      <4> QED BY <1>3, <1>4, <3>1, <4>1
    <3> QED BY <1>3, <3>1 DEF Hits, IsHistory
  <2>2. Hits(then, time, time + Width) = {n}
    BY <1>0, <1>a, <1>3, <1>6, <2>1
  <2> QED BY <2>2, FS_Singleton
<1>8. \A t \in opened : Hits(then, t, t + Width) = Hits(history, t, t + Width)
  BY <1>3, <1>4, <1>6
<1>9. AreWindows(then, opened \cup {time}, limit)
  <2>1. opened \cup {time} \subseteq Nat
    BY <1>3
  <2>2. \A s, t \in opened \cup {time} : s < t => s + Width < t
    <3>1. ASSUME NEW s \in opened \cup {time}, NEW t \in opened \cup {time}, s < t
          PROVE  s + Width < t
      <4>1. CASE s \in opened /\ t \in opened
        BY <3>1, <4>1 DEF Windowed, AreWindows
      <4>2. CASE s \in opened /\ t = time
        BY <1>4, <4>2
      <4>3. CASE s = time /\ t \in opened
        <5>1. t + Width < time /\ t \in Nat
          BY <1>3, <1>4, <4>3
        <5> QED BY <1>3, <3>1, <4>3, <5>1
      <4>4. CASE s = time /\ t = time
        BY <3>1, <4>4
      <4> QED BY <4>1, <4>2, <4>3, <4>4
    <3> QED BY <3>1
  <2>3. \A i \in DOMAIN then : \E t \in opened \cup {time} : then[i].at \in t .. t + Width
    <3>1. then[n].at \in time .. time + Width
      BY <1>0, <1>a, <1>3, <1>5
    <3>2. \A i \in DOMAIN history : \E t \in opened : then[i].at \in t .. t + Width
      BY <1>5 DEF Windowed, AreWindows
    <3> QED BY <1>5, <3>1, <3>2
  <2>4. \A t \in opened \cup {time} :
          /\ Cardinality(Hits(then, t, t + Width)) <= limit
          /\ \E i \in DOMAIN then : then[i].ok /\ then[i].at = t
    <3>1. \A t \in opened :
            /\ Cardinality(Hits(then, t, t + Width)) <= limit
            /\ \E i \in DOMAIN then : then[i].ok /\ then[i].at = t
      BY <1>5, <1>8 DEF Windowed, AreWindows
    <3>2. n \in DOMAIN then /\ then[n].ok /\ then[n].at = time
      BY <1>0, <1>a, <1>5
    <3> QED BY <1>7, <3>1, <3>2
  <2>5. \A i \in DOMAIN then : ~then[i].ok =>
          \E t \in opened \cup {time} : /\ then[i].at \in t .. t + Width
                                        /\ Cardinality(Hits(then, t, then[i].at)) >= limit
    <3>1. ASSUME NEW i \in DOMAIN then, ~then[i].ok
          PROVE  \E t \in opened : /\ then[i].at \in t .. t + Width
                                   /\ Cardinality(Hits(then, t, then[i].at)) >= limit
      <4>1. i \in DOMAIN history /\ then[i] = history[i] /\ history[i].at \in Nat
        BY <1>0, <1>a, <1>3, <1>5, <3>1 DEF IsHistory
      <4>2. PICK t \in opened : /\ history[i].at \in t .. t + Width
                                /\ Cardinality(Hits(history, t, history[i].at)) >= limit
        BY <3>1, <4>1 DEF Windowed, AreWindows
      <4>3. Hits(then, t, history[i].at) = Hits(history, t, history[i].at)
        BY <1>3, <1>4, <1>6, <4>1, <4>2
      <4> QED BY <4>1, <4>2, <4>3
    <3> QED BY <3>1
  <2> QED BY <2>1, <2>2, <2>3, <2>4, <2>5 DEF AreWindows
<1>10. IsOpen([n |-> 1, reset |-> time + Width], then, opened \cup {time}, limit)
  <2>1. \A s \in opened \cup {time} : s <= time
    BY <1>3, <1>4
  <2>2. 1 = IF 1 < limit THEN 1 ELSE limit
    OBVIOUS
  <2> QED BY <1>7, <2>1, <2>2 DEF IsOpen
<1> QED BY <1>0, <1>1, <1>5, <1>9, <1>10 DEF Windowed

(* A call within the last window counts, and is allowed up to the limit.   *)
LEMMA WindowCounts ==
    ASSUME NEW history, NEW window, NEW opened, NEW limit \in Nat \ {0}, NEW time \in Nat,
           Windowed(history, window, opened, limit, time),
           window # Null, ~(time > window.reset)
    PROVE  Windowed(Append(history, [at |-> time, ok |-> window.n + 1 <= limit]),
                    [window EXCEPT !.n = @ + 1], opened, limit, time)
<1>0. PICK ok : ok = (window.n + 1 <= limit)
  OBVIOUS
<1>d. PICK e : e = [at |-> time, ok |-> ok]
  OBVIOUS
<1>a. e.at = time /\ e.ok = ok
  BY <1>d
<1>b. e.at = time /\ e.ok \in BOOLEAN
  BY <1>a, <1>0
<1>1. PICK then : then = Append(history, e)
  OBVIOUS
<1>2. PICK k : k = Len(history) + 1
  OBVIOUS
<1>3. Width \in Nat \ {0} /\ opened \subseteq Nat /\ IsHistory(history, time)
  BY LimiterAssumption DEF Windowed, AreWindows
<1>4. PICK t \in opened, n \in Nat \ {0} :
          /\ \A s \in opened : s <= t
          /\ window = [n |-> n, reset |-> t + Width]
          /\ Cardinality(Hits(history, t, t + Width)) = IF n < limit THEN n ELSE limit
  BY DEF Windowed, IsOpen
<1>5. window.n = n /\ window.reset = t + Width
      /\ [window EXCEPT !.n = @ + 1] = [n |-> n + 1, reset |-> t + Width]
  BY <1>4
<1>6. t <= time /\ time <= t + Width /\ t \in Nat
  <2>1. PICK i \in DOMAIN history : history[i].at = t
    BY DEF Windowed, AreWindows
  <2> QED BY <1>3, <1>5, <2>1 DEF IsHistory
<1>c. Adds(then, history, k, e, time)
  BY <1>b, <1>1, <1>2, <1>3, HitsGrow
<1>7. /\ IsHistory(then, time) /\ DOMAIN then = DOMAIN history \cup {k}
      /\ k \notin DOMAIN history
      /\ \A i \in DOMAIN history : then[i] = history[i]
      /\ then[k] = e
  BY <1>c DEF Adds
<1>8. \A from, to \in Int :
          Hits(then, from, to) = IF e.ok /\ time \in from .. to
                                 THEN Hits(history, from, to) \cup {k}
                                 ELSE Hits(history, from, to)
  BY <1>c DEF Adds
<1>9. IsSequence(history) /\ IsSequence(then) /\ \A from, to : k \notin Hits(history, from, to)
  BY <1>3, <1>7 DEF IsHistory, Hits
<1>10. Cardinality(Hits(then, t, t + Width)) = IF n + 1 < limit THEN n + 1 ELSE limit
  <2>1. CASE e.ok
    <3>1. Hits(then, t, t + Width) = Hits(history, t, t + Width) \cup {k}
      BY <1>3, <1>6, <1>8, <2>1
    <3>2. Cardinality(Hits(then, t, t + Width)) = Cardinality(Hits(history, t, t + Width)) + 1
      BY <1>9, <3>1, HitsAreFinite, FS_AddElement
    <3>3. n + 1 <= limit
      BY <1>0, <1>a, <1>5, <2>1
    <3> QED BY <1>4, <3>2, <3>3
  <2>2. CASE ~e.ok
    <3>1. Hits(then, t, t + Width) = Hits(history, t, t + Width)
      BY <1>3, <1>6, <1>8, <2>2
    <3>2. ~(n + 1 <= limit)
      BY <1>0, <1>a, <1>5, <2>2
    <3> QED BY <1>4, <3>1, <3>2
  <2> QED BY <1>3, <2>1, <2>2
<1>11. \A s \in opened : s # t => Hits(then, s, s + Width) = Hits(history, s, s + Width)
  <2>1. ASSUME NEW s \in opened, s # t
        PROVE  s + Width < t
    BY <1>3, <1>4, <1>6, <2>1 DEF Windowed, AreWindows
  <2> QED BY <1>3, <1>6, <1>8, <2>1
<1>12. AreWindows(then, opened, limit)
  <2>1. \A i \in DOMAIN then : \E s \in opened : then[i].at \in s .. s + Width
    <3>1. then[k].at \in t .. t + Width
      BY <1>0, <1>a, <1>3, <1>6, <1>7
    <3>2. \A i \in DOMAIN history : \E s \in opened : then[i].at \in s .. s + Width
      BY <1>7 DEF Windowed, AreWindows
    <3> QED BY <1>7, <3>1, <3>2
  <2>2. \A s \in opened :
          /\ Cardinality(Hits(then, s, s + Width)) <= limit
          /\ \E i \in DOMAIN then : then[i].ok /\ then[i].at = s
    <3>1. \A s \in opened : \E i \in DOMAIN then : then[i].ok /\ then[i].at = s
      BY <1>7 DEF Windowed, AreWindows
    <3>2. \A s \in opened : Cardinality(Hits(history, s, s + Width)) <= limit
      BY DEF Windowed, AreWindows
    <3>3. Cardinality(Hits(then, t, t + Width)) <= limit
      BY <1>10
    <3> QED BY <1>11, <3>1, <3>2, <3>3
  <2>3. \A i \in DOMAIN then : ~then[i].ok =>
          \E s \in opened : /\ then[i].at \in s .. s + Width
                            /\ Cardinality(Hits(then, s, then[i].at)) >= limit
    <3>1. ASSUME NEW i \in DOMAIN history, ~then[i].ok
          PROVE  \E s \in opened : /\ then[i].at \in s .. s + Width
                                   /\ Cardinality(Hits(then, s, then[i].at)) >= limit
      <4>1. then[i] = history[i] /\ history[i].at \in Nat
        BY <1>3, <1>7 DEF IsHistory
      <4>2. PICK s \in opened : /\ history[i].at \in s .. s + Width
                                /\ Cardinality(Hits(history, s, history[i].at)) >= limit
        BY <3>1, <4>1 DEF Windowed, AreWindows
      <4>3. Hits(history, s, history[i].at) \subseteq Hits(then, s, history[i].at)
        <5>1. s \in Nat
          BY <1>3
        <5>2. history[i].at \in Nat
          BY <4>1
        <5>3. s \in Int /\ history[i].at \in Int
          BY <5>1, <5>2
        <5> QED BY <1>8, <5>3
      <4>4. Cardinality(Hits(history, s, history[i].at))
              <= Cardinality(Hits(then, s, history[i].at))
        BY <1>9, <4>3, HitsAreFinite, FS_Subset
      <4>5. /\ Cardinality(Hits(history, s, history[i].at)) \in Nat
            /\ Cardinality(Hits(then, s, history[i].at)) \in Nat
        BY <1>9, HitsAreFinite
      <4> QED BY <4>1, <4>2, <4>4, <4>5
    <3>2. ASSUME ~e.ok
          PROVE  Cardinality(Hits(then, t, time)) >= limit
      <4>1. Hits(then, t, time) = Hits(then, t, t + Width)
        BY <1>0, <1>a, <1>3, <1>6, <1>7 DEF Hits, IsHistory
      <4>2. ~(n + 1 <= limit)
        BY <1>0, <1>a, <1>5, <3>2
      <4> QED BY <1>10, <4>1, <4>2
    <3>3. then[k].at = time /\ time \in t .. t + Width
      BY <1>0, <1>a, <1>3, <1>6, <1>7
    <3> QED BY <1>7, <3>1, <3>2, <3>3
  <2> QED BY <1>3, <2>1, <2>2, <2>3 DEF AreWindows, Windowed
<1>13. IsOpen([n |-> n + 1, reset |-> t + Width], then, opened, limit)
  <2>1. n + 1 \in Nat \ {0}
    OBVIOUS
  <2> QED BY <1>4, <1>10, <2>1 DEF IsOpen
<1> QED BY <1>0, <1>d, <1>1, <1>5, <1>7, <1>12, <1>13 DEF Windowed

(* A minute that no window opens in meets one window; one that a window    *)
(* opens in meets that one, and at most one before, but not its first call.*)
LEMMA AMinuteMeetsTwo ==
    ASSUME NEW history, NEW opened, NEW limit \in Nat \ {0}, NEW time,
           IsHistory(history, time), AreWindows(history, opened, limit), NEW from \in Nat
    PROVE  Cardinality(Hits(history, from, from + Width)) < 2 * limit
<1>0. Width \in Nat \ {0} /\ opened \subseteq Nat
  BY LimiterAssumption DEF AreWindows
<1> DEFINE H == Hits(history, from, from + Width)
           Of(t) == Hits(history, t, t + Width)
<1>1. IsSequence(history) /\ \A i \in DOMAIN history : history[i].at \in Nat
  BY DEF IsHistory
<1>2. /\ IsFiniteSet(H) /\ Cardinality(H) \in Nat
      /\ \A t : IsFiniteSet(Of(t)) /\ Cardinality(Of(t)) \in Nat
  BY <1>1, HitsAreFinite
<1>3. \A t \in opened : Cardinality(Of(t)) <= limit
  BY DEF AreWindows
<1>4. \A i \in H : /\ i \in DOMAIN history /\ history[i].at \in from .. from + Width
                   /\ \E t \in opened : i \in Of(t)
  BY DEF Hits, AreWindows
<1>5. \A t \in opened : \A i \in Of(t) : history[i].at \in t .. t + Width
  BY DEF Hits
<1>6. \A s, t \in opened : s < t => s + Width < t
  BY DEF AreWindows
<1>7. \A t \in opened : \E i \in Of(t) : history[i].at = t
  <2>1. ASSUME NEW t \in opened
        PROVE  \E i \in Of(t) : history[i].at = t
    <3>1. PICK i \in DOMAIN history : history[i].ok /\ history[i].at = t
      BY DEF AreWindows
    <3>2. t \in Nat /\ t \in t .. t + Width
      BY <1>0
    <3>3. i \in Of(t)
      BY <3>1, <3>2 DEF Hits
    <3> QED BY <3>1, <3>3
  <2> QED BY <2>1
<1> HIDE DEF H, Of
(* Two windows that began before the same time, within the minute.         *)
<1>8. ASSUME NEW s \in opened, NEW t \in opened,
             NEW i \in H, NEW j \in H, i \in Of(s), j \in Of(t),
             s < from, t < from
      PROVE  s = t
  <2>1. /\ s \in Nat /\ t \in Nat /\ history[i].at \in Nat /\ history[j].at \in Nat
        /\ history[i].at >= from /\ history[i].at <= s + Width
        /\ history[j].at >= from /\ history[j].at <= t + Width
    BY <1>0, <1>1, <1>4, <1>5, <1>8
  <2> QED BY <1>0, <1>6, <1>8, <2>1
<1>9. CASE \A i \in H : \E t \in opened : i \in Of(t) /\ t < from
  <2>1. CASE H = {}
    BY <2>1, FS_EmptySet DEF H
  <2>2. ASSUME NEW j \in H
        PROVE  Cardinality(H) <= limit
    <3>1. PICK t \in opened : j \in Of(t) /\ t < from
      BY <1>9, <2>2
    <3>2. H \subseteq Of(t)
      BY <1>0, <1>8, <1>9, <2>2, <3>1
    <3>3. Cardinality(H) <= Cardinality(Of(t))
      BY <1>2, <3>2, FS_Subset
    <3> QED BY <1>2, <1>3, <3>3
  <2> QED BY <1>2, <2>1, <2>2 DEF H
<1>10. ASSUME NEW j \in H, \A t \in opened : j \in Of(t) => ~(t < from)
       PROVE  Cardinality(H) < 2 * limit
  <2>1. PICK s \in opened : j \in Of(s)
    BY <1>4
  <2>2. s \in Nat /\ s >= from /\ s <= from + Width
    BY <1>0, <1>1, <1>4, <1>5, <1>10, <2>1
  <2>3. \A i \in H : \A t \in opened : i \in Of(t) /\ ~(t < from) => t = s
    <3>1. ASSUME NEW i \in H, NEW t \in opened, i \in Of(t), ~(t < from)
          PROVE  t = s
      <4>1. t \in Nat /\ t >= from /\ t <= from + Width
        BY <1>0, <1>1, <1>4, <1>5, <3>1
      <4> QED BY <1>0, <1>6, <2>2, <4>1
    <3> QED BY <3>1
  <2>4. CASE \A i \in H : i \in Of(s)
    <3>1. Cardinality(H) <= Cardinality(Of(s))
      BY <1>2, <2>4, FS_Subset
    <3> QED BY <1>2, <1>3, <3>1
  <2>5. ASSUME NEW k \in H, k \notin Of(s)
        PROVE  Cardinality(H) < 2 * limit
    <3>1. PICK t \in opened : k \in Of(t)
      BY <1>4, <2>5
    <3>2. t < from /\ t \in Nat
      BY <1>0, <2>3, <2>5, <3>1
    <3>3. PICK first \in Of(t) : history[first].at = t
      BY <1>7
    <3>4. first \notin H
      BY <1>0, <1>4, <3>2, <3>3
    <3>5. H \subseteq Of(s) \cup (Of(t) \ {first})
      <4>1. ASSUME NEW i \in H, i \notin Of(s)
            PROVE  i \in Of(t)
        <5>1. PICK r \in opened : i \in Of(r)
          BY <1>4
        <5>2. r < from
          BY <2>3, <4>1, <5>1
        <5> QED BY <1>0, <1>8, <2>5, <3>1, <3>2, <5>1, <5>2
      <4> QED BY <3>4, <4>1
    <3>6. /\ IsFiniteSet(Of(t) \ {first})
          /\ Cardinality(Of(t) \ {first}) = Cardinality(Of(t)) - 1
      BY <1>2, <3>3, FS_RemoveElement
    <3>7. /\ IsFiniteSet(Of(s) \cup (Of(t) \ {first}))
          /\ Cardinality(Of(s) \cup (Of(t) \ {first}))
               = Cardinality(Of(s)) + Cardinality(Of(t) \ {first})
                 - Cardinality(Of(s) \cap (Of(t) \ {first}))
      BY <1>2, <3>6, FS_Union
    <3>8. Cardinality(Of(s) \cap (Of(t) \ {first})) \in Nat
      BY <1>2, FS_Intersection, FS_CardinalityType
    <3>9. Cardinality(H) <= Cardinality(Of(s) \cup (Of(t) \ {first}))
      BY <3>5, <3>7, FS_Subset
    <3> QED BY <1>2, <1>3, <3>6, <3>7, <3>8, <3>9
  <2> QED BY <2>4, <2>5
<1> QED BY <1>9, <1>10 DEF H

(* Whom a window refused has had the limit in the minute before.           *)
LEMMA RefusedHadTheLimit ==
    ASSUME NEW history, NEW opened, NEW limit \in Nat \ {0}, NEW time,
           IsHistory(history, time), AreWindows(history, opened, limit),
           NEW i \in DOMAIN history, ~history[i].ok
    PROVE  Cardinality(Hits(history, history[i].at - Width, history[i].at)) >= limit
<1>1. PICK t \in opened : /\ history[i].at \in t .. t + Width
                          /\ Cardinality(Hits(history, t, history[i].at)) >= limit
  BY DEF AreWindows
<1>2. PICK at \in Nat : at = history[i].at
  BY DEF IsHistory
<1>3. t \in Nat /\ Width \in Nat /\ IsSequence(history)
  BY LimiterAssumption DEF AreWindows, IsHistory
<1>4. Hits(history, t, at) \subseteq Hits(history, at - Width, at)
  BY <1>1, <1>2, <1>3 DEF Hits, IsHistory
<1>5. Cardinality(Hits(history, t, at)) <= Cardinality(Hits(history, at - Width, at))
  BY <1>3, <1>4, HitsAreFinite, FS_Subset
<1>6. Cardinality(Hits(history, t, at)) \in Nat /\ Cardinality(Hits(history, at - Width, at)) \in Nat
  BY <1>3, HitsAreFinite
<1> QED BY <1>1, <1>2, <1>5, <1>6

(* Every key of the rate limiter has had windows of its limit.             *)
MinuteInv ==
    /\ now \in Nat
    /\ \A key \in Keys : \E opened \in SUBSET Nat :
          Windowed(verdicts[key], windows[key], opened, Limit(key), now)

(* The limit of a key is the one that its calls are asked with.            *)
LEMMA LimitsAreAsked ==
    ASSUME NEW limits, NEW i \in DOMAIN limits,
           \/ \E c : limits = MessageLimits(c)
           \/ \E c : limits = ChatLimits(c)
    PROVE  limits[i].max = Limit(limits[i].key)
<1>1. ASSUME NEW c, limits = MessageLimits(c)
      PROVE  limits[i].max = Limit(limits[i].key)
  BY <1>1 DEF MessageLimits, Limit
<1>2. ASSUME NEW c, limits = ChatLimits(c)
      PROVE  limits[i].max = Limit(limits[i].key)
  BY <1>2 DEF ChatLimits, Limit
<1> QED BY <1>1, <1>2

(* The limits are such that a window lets a call through.                  *)
LEMMA LimitsArePositive ==
    ASSUME NEW key \in Keys PROVE Limit(key) \in Nat \ {0}
BY InboxAssumption, PeopleAssumption, ServicesAssumption DEF Limit

(* What asking does to a key.                                              *)
LEMMA KeyIsAsked ==
    ASSUME NEW limits, \A i \in DOMAIN limits : limits[i].max = Limit(limits[i].key),
           AsksFor(limits), NEW key \in Keys
    PROVE  \/ windows'[key] = windows[key] /\ verdicts'[key] = verdicts[key]
           \/ /\ windows'[key] = Counted(key)
              /\ verdicts'[key] = Append(verdicts[key],
                                     [at |-> now, ok |-> Allows(key, Limit(key))])
<1> DEFINE asked == {limits[i] : i \in Asked(limits)}
<1>1. CASE \E l \in asked : l.key = key
  <2>1. PICK chosen : chosen = CHOOSE l \in asked : l.key = key
    OBVIOUS
  <2>2. chosen \in asked /\ chosen.key = key
    BY <1>1, <2>1
  <2>3. chosen.max = Limit(key)
    BY <2>2 DEF Asked
  <2>4. verdicts'[key] = Append(verdicts[key], [at |-> now, ok |-> Allows(key, chosen.max)])
    BY <1>1, <2>1 DEF AsksFor
  <2>5. windows'[key] = Counted(key)
    BY <1>1 DEF AsksFor
  <2> QED BY <2>3, <2>4, <2>5
<1>2. CASE ~\E l \in asked : l.key = key
  BY <1>2 DEF AsksFor
<1> QED BY <1>1, <1>2

(* A key that is asked.                                                    *)
LEMMA KeyStaysWindowed ==
    ASSUME NEW key \in Keys, NEW opened \in SUBSET Nat, now \in Nat,
           Windowed(verdicts[key], windows[key], opened, Limit(key), now),
           windows'[key] = Counted(key), now' = now,
           verdicts'[key] = Append(verdicts[key], [at |-> now, ok |-> Allows(key, Limit(key))])
    PROVE  \E then \in SUBSET Nat :
               Windowed(verdicts[key], windows[key], then, Limit(key), now)'
<1>0. Limit(key) \in Nat \ {0} /\ Limit(key)' = Limit(key)
  BY LimitsArePositive DEF Limit
<1>1. CASE Expired(key)
  <2>1. Allows(key, Limit(key)) = TRUE
    BY <1>1 DEF Allows
  <2>2. /\ windows'[key] = [n |-> 1, reset |-> now + Width]
        /\ verdicts'[key] = Append(verdicts[key], [at |-> now, ok |-> TRUE])
    BY <1>1, <2>1 DEF Counted
  <2>3. Windowed(verdicts'[key], windows'[key], opened \cup {now}, Limit(key), now)
    BY <1>0, <1>1, <2>2, WindowOpens DEF Expired
  <2>4. opened \cup {now} \in SUBSET Nat
    OBVIOUS
  <2> QED BY <1>0, <2>3, <2>4
<1>2. CASE ~Expired(key)
  <2>1. Allows(key, Limit(key)) = (windows[key].n + 1 <= Limit(key))
    BY <1>2 DEF Allows
  <2>2. /\ windows'[key] = [windows[key] EXCEPT !.n = @ + 1]
        /\ verdicts'[key] = Append(verdicts[key],
                               [at |-> now, ok |-> windows[key].n + 1 <= Limit(key)])
    BY <1>2, <2>1 DEF Counted
  <2>3. Windowed(verdicts'[key], windows'[key], opened, Limit(key), now)
    BY <1>0, <1>2, <2>2, WindowCounts DEF Expired
  <2> QED BY <1>0, <2>3
<1> QED BY <1>1, <1>2

(* Time passes.                                                            *)
LEMMA StillWindowed ==
    ASSUME NEW key \in Keys, NEW opened, Windowed(verdicts[key], windows[key], opened, Limit(key), now),
           windows'[key] = windows[key], verdicts'[key] = verdicts[key],
           now \in Nat, now' \in Nat, now <= now'
    PROVE  Windowed(verdicts[key], windows[key], opened, Limit(key), now)'
<1>1. IsHistory(verdicts[key], now')
  BY DEF Windowed, IsHistory
<1>2. Limit(key)' = Limit(key)
  BY DEF Limit
<1>3. Windowed(verdicts[key], windows[key], opened, Limit(key), now')
  BY <1>1 DEF Windowed
<1> QED BY <1>2, <1>3

(* Only a message and a line of a chat ask the limiter for a window.       *)
LEMMA AsksWindows ==
    ASSUME NEW d \in DOMAIN call, CallStep(d)
    PROVE  /\ now' = now
           /\ \/ windows' = windows /\ verdicts' = verdicts
              \/ SendAsks(d) /\ AsksFor(MessageLimits(d))
              \/ ChatAsks(d) /\ AsksFor(ChatLimits(d))
<1>1. ASSUME SendAsks(d)
      PROVE  AsksFor(MessageLimits(d)) /\ now' = now
  BY <1>1 DEF SendAsks, AsksFor
<1>2. ASSUME ChatAsks(d)
      PROVE  \/ UNCHANGED <<now, windows, verdicts>>
             \/ AsksFor(ChatLimits(d)) /\ now' = now
  BY <1>2 DEF ChatAsks, AsksFor, limiterVars
<1>3. ASSUME MeteredStep(d)
      PROVE  UNCHANGED <<now, windows, verdicts>>
  BY <1>3 DEF MeteredStep, ChatBegins, RefineBegins, RefineGathers, ModelAnswers, ModelFails,
     Meters, Reserves, Denies, Refunds, meteredVars, limiterVars
<1>4. ASSUME InboxStep(d), ~SendAsks(d)
      PROVE  UNCHANGED <<now, windows, verdicts>>
  BY <1>4 DEF InboxStep, SendAdds, EvictionCounts, EvictionChooses, EvictionDeletes,
     MarkAllRead, inboxVars, limiterVars
<1>5. ASSUME PeopleStep(d), ~ChatAsks(d)
      PROVE  UNCHANGED <<now, windows, verdicts>>
  BY <1>5 DEF PeopleStep, SignInLooks, SignInSetsWallet, SignInDerives, SignInAdds, AddFriend,
     RemoveFriend, ChatFindsJam, ChatAdds, LikeLooks, LikeToggles, peopleVars, limiterVars
<1>6. ASSUME ProfileStep(d)
      PROVE  UNCHANGED <<now, windows, verdicts>>
  BY <1>6 DEF ProfileStep, ClaimBegins, ClaimLooks, ClaimMints, ClaimWrites, TopupLooks,
     TopupPays, TopupWrites, profileVars, peopleVars, limiterVars
<1>7. ASSUME UNCHANGED limiterVars
      PROVE  UNCHANGED <<now, windows, verdicts>>
  BY <1>7 DEF limiterVars
<1> QED BY <1>1, <1>2, <1>3, <1>4, <1>5, <1>6, <1>7 DEF CallStep

(* Every key has had windows of its limit, always.                         *)
LEMMA MinuteInvariant == Spec => []MinuteInv
<1>1. Init => MinuteInv
  <2> SUFFICES ASSUME Init
               PROVE  MinuteInv
    OBVIOUS
  <2>1. /\ now = 0 /\ windows = [k \in Keys |-> Null] /\ verdicts = [k \in Keys |-> <<>>]
    BY DEF Init, LimiterInit
  <2>2. IsHistory(<<>>, 0)
    <3>1. <<>> \in Seq({}) /\ DOMAIN <<>> = {}
      BY EmptySeq
    <3> QED BY <3>1 DEF IsHistory, IsSequence
  <2>3. ASSUME NEW key \in Keys
        PROVE  Windowed(verdicts[key], windows[key], {}, Limit(key), now)
    <3>1. verdicts[key] = <<>> /\ windows[key] = Null /\ DOMAIN <<>> = {}
      BY <2>1
    <3> QED BY <2>1, <2>2, <3>1 DEF Windowed, AreWindows, IsOpen
  <2> QED BY <2>1, <2>3 DEF MinuteInv
<1>2. CallsInv /\ MinuteInv /\ [Next]_vars => MinuteInv'
  <2> SUFFICES ASSUME CallsInv, MinuteInv, [Next]_vars
               PROVE  MinuteInv'
    OBVIOUS
  <2>1. ASSUME windows' = windows, verdicts' = verdicts, now' = now \/ now' = now + 1
        PROVE  MinuteInv'
    <3>1. now \in Nat /\ now' \in Nat /\ now <= now'
      BY <2>1 DEF MinuteInv
    <3>2. ASSUME NEW key \in Keys
          PROVE  \E opened \in SUBSET Nat :
                     Windowed(verdicts[key], windows[key], opened, Limit(key), now)'
      <4>1. PICK opened \in SUBSET Nat :
                     Windowed(verdicts[key], windows[key], opened, Limit(key), now)
        BY DEF MinuteInv
      <4>2. Windowed(verdicts[key], windows[key], opened, Limit(key), now)'
        BY <2>1, <3>1, <4>1, StillWindowed
      <4> QED BY <4>2
    <3> QED BY <3>1, <3>2 DEF MinuteInv
  <2>2. ASSUME NEW limits, AsksFor(limits), now' = now,
               \A i \in DOMAIN limits : limits[i].max = Limit(limits[i].key)
        PROVE  MinuteInv'
    <3>1. now \in Nat /\ now' = now
      BY <2>2 DEF MinuteInv
    <3>2. ASSUME NEW key \in Keys
          PROVE  \E opened \in SUBSET Nat :
                     Windowed(verdicts[key], windows[key], opened, Limit(key), now)'
      <4>1. PICK opened \in SUBSET Nat :
                     Windowed(verdicts[key], windows[key], opened, Limit(key), now)
        BY DEF MinuteInv
      <4>2. CASE windows'[key] = windows[key] /\ verdicts'[key] = verdicts[key]
        <5>1. Windowed(verdicts[key], windows[key], opened, Limit(key), now)'
          BY <3>1, <4>1, <4>2, StillWindowed
        <5> QED BY <5>1
      <4>3. CASE /\ windows'[key] = Counted(key)
                 /\ verdicts'[key] = Append(verdicts[key],
                                        [at |-> now, ok |-> Allows(key, Limit(key))])
        BY <3>1, <4>1, <4>3, KeyStaysWindowed
      <4> QED BY <2>2, <4>2, <4>3, KeyIsAsked
    <3> QED BY <3>1, <3>2 DEF MinuteInv
  <2>3. ASSUME NEW d \in DOMAIN call, CallStep(d)
        PROVE  MinuteInv'
    <3>1. ASSUME NEW limits, AsksFor(limits), now' = now,
                 limits = MessageLimits(d) \/ limits = ChatLimits(d)
          PROVE  MinuteInv'
      <4>1. \A i \in DOMAIN limits : limits[i].max = Limit(limits[i].key)
        BY <3>1, LimitsAreAsked
      <4> QED BY <2>2, <3>1, <4>1
    <3> QED BY <2>1, <2>3, <3>1, AsksWindows
  <2> QED BY <2>1, <2>3, StepCases DEF limiterVars
<1> QED BY <1>1, <1>2, CallsInvariant, PTL DEF Spec

(* No minute has twice the limit, and who is refused has had the limit     *)
(* within the minute before (rate-limit.ts:26, 30).                        *)
THEOREM MinutesKeepTheLimit == Spec => []LimitsOfAMinute
<1>1. MinuteInv => LimitsOfAMinute
  <2> SUFFICES ASSUME MinuteInv, NEW key \in Keys
               PROVE  /\ \A t \in 0 .. now :
                            Cardinality(AllowedWithin(key, t, t + Width)) < 2 * Limit(key)
                      /\ \A i \in DOMAIN verdicts[key] :
                            LET at == verdicts[key][i].at IN
                            ~verdicts[key][i].ok =>
                              Cardinality(AllowedWithin(key, at - Width, at)) >= Limit(key)
    BY DEF LimitsOfAMinute
  <2>1. PICK opened \in SUBSET Nat :
          Windowed(verdicts[key], windows[key], opened, Limit(key), now)
    BY DEF MinuteInv
  <2>2. IsHistory(verdicts[key], now) /\ AreWindows(verdicts[key], opened, Limit(key))
        /\ now \in Nat /\ Limit(key) \in Nat \ {0}
    BY <2>1, LimitsArePositive DEF Windowed, MinuteInv
  <2>3. \A from, to : AllowedWithin(key, from, to) = Hits(verdicts[key], from, to)
    BY DEF AllowedWithin, Hits
  <2>4. \A t \in 0 .. now : Cardinality(Hits(verdicts[key], t, t + Width)) < 2 * Limit(key)
    BY <2>2, AMinuteMeetsTwo
  <2>5. \A i \in DOMAIN verdicts[key] : ~verdicts[key][i].ok =>
          Cardinality(Hits(verdicts[key], verdicts[key][i].at - Width, verdicts[key][i].at))
            >= Limit(key)
    BY <2>2, RefusedHadTheLimit
  <2> QED BY <2>3, <2>4, <2>5
<1> QED BY <1>1, MinuteInvariant, PTL

(***************************************************************************)
(* The inbox, which sends fill and empty at the same time.                 *)
(***************************************************************************)

(* A strict total order of the numbers up to n puts them in a sequence:    *)
(* each has its rank, and no two have the same.                            *)
LEMMA OrdersSort ==
    ASSUME NEW n \in Nat, NEW R,
           \A i \in 1 .. n : <<i, i>> \notin R,
           \A i, j \in 1 .. n : i # j => <<i, j>> \in R \/ <<j, i>> \in R,
           \A i, j, k \in 1 .. n : <<i, j>> \in R /\ <<j, k>> \in R => <<i, k>> \in R
    PROVE  \E f \in [1 .. n -> 1 .. n] :
              \A i, j \in 1 .. n : i < j => <<f[i], f[j]>> \in R
<1> DEFINE S == 1 .. n
           Before(i) == {j \in S : <<j, i>> \in R}
           rank == [i \in S |-> Cardinality(Before(i)) + 1]
<1>1. IsFiniteSet(S) /\ Cardinality(S) = n
  BY FS_Interval
<1>2. ASSUME NEW i \in S
      PROVE  /\ IsFiniteSet(Before(i)) /\ Cardinality(Before(i)) \in Nat
             /\ Cardinality(Before(i)) <= n - 1
  <2>1. Before(i) \in SUBSET (S \ {i})
    OBVIOUS
  <2>2. IsFiniteSet(S \ {i}) /\ Cardinality(S \ {i}) = n - 1
    BY <1>1, FS_RemoveElement
  <2> HIDE DEF Before
  <2>3. IsFiniteSet(Before(i)) /\ Cardinality(Before(i)) <= n - 1
    BY <2>1, <2>2, FS_Subset
  <2> QED BY <2>3, FS_CardinalityType
<1>3. ASSUME NEW i \in S, NEW j \in S, <<i, j>> \in R
      PROVE  rank[i] < rank[j]
  <2>1. Before(i) \in SUBSET Before(j) /\ i \in Before(j) /\ i \notin Before(i)
    BY <1>3
  <2>2. rank[i] = Cardinality(Before(i)) + 1 /\ rank[j] = Cardinality(Before(j)) + 1
    OBVIOUS
  <2>3. /\ Cardinality(Before(i)) \in Nat /\ Cardinality(Before(j)) \in Nat
        /\ IsFiniteSet(Before(j))
    BY <1>2
  <2> HIDE DEF Before, rank
  <2>4. Cardinality(Before(i)) <= Cardinality(Before(j))
        /\ Cardinality(Before(i)) # Cardinality(Before(j))
    BY <2>1, <2>3, FS_Subset
  <2> QED BY <2>2, <2>3, <2>4
<1>4. rank \in [S -> S]
  <2>1. \A i \in S : Cardinality(Before(i)) + 1 \in S
    <3> HIDE DEF Before
    <3> QED BY <1>2
  <2> HIDE DEF Before
  <2> QED BY <2>1
<1> HIDE DEF Before, rank
<1>5. \A i, j \in S : rank[i] = rank[j] => i = j
  <2> SUFFICES ASSUME NEW i \in S, NEW j \in S, i # j
               PROVE  rank[i] # rank[j]
    OBVIOUS
  <2>1. rank[i] \in Int /\ rank[j] \in Int
    BY <1>4
  <2>2. rank[i] < rank[j] \/ rank[j] < rank[i]
    BY <1>3
  <2> QED BY <2>1, <2>2
<1>6. rank \in Injection(S, S)
  BY <1>4, <1>5 DEF Injection, IsInjective
<1>7. rank \in Surjection(S, S)
  BY <1>1, <1>6, FS_Injection
<1> DEFINE f == [k \in S |-> CHOOSE i \in S : rank[i] = k]
<1>8. \A k \in S : f[k] \in S /\ rank[f[k]] = k
  BY <1>7 DEF Surjection
<1>9. f \in [S -> S]
  BY <1>8
<1> HIDE DEF f
<1>10. ASSUME NEW i \in S, NEW j \in S, i < j
       PROVE  <<f[i], f[j]>> \in R
  <2>1. f[i] # f[j] /\ f[i] \in S /\ f[j] \in S
    BY <1>8, <1>10
  <2>2. ~(rank[f[j]] < rank[f[i]])
    BY <1>8, <1>10
  <2> QED BY <1>3, <2>1, <2>2
<1> QED BY <1>9, <1>10

(* The element at a place is taken out of a sequence.                      *)
LEMMA TakenOut ==
    ASSUME NEW S, NEW s \in Seq(S), NEW i \in 1 .. Len(s)
    PROVE  /\ RemoveAt(s, i) \in Seq(S)
           /\ Len(RemoveAt(s, i)) = Len(s) - 1
           /\ \A j \in 1 .. Len(s) - 1 :
                 RemoveAt(s, i)[j] = IF j < i THEN s[j] ELSE s[j + 1]
<1> DEFINE before == SubSeq(s, 1, i - 1)
           after == SubSeq(s, i + 1, Len(s))
<1>1. Len(s) \in Nat /\ \A j \in 1 .. Len(s) : s[j] \in S
  BY ElementOfSeq
<1>2. /\ before \in Seq(S) /\ Len(before) = i - 1
      /\ \A j \in 1 .. i - 1 : before[j] = s[j]
  <2>1. \A j \in 1 .. i - 1 : s[j] \in S
    BY <1>1
  <2>2. 1 \in Int /\ i - 1 \in Int
    BY <1>1
  <2>3. /\ before \in Seq(S)
        /\ Len(before) = IF 1 <= i - 1 THEN i - 1 - 1 + 1 ELSE 0
        /\ \A j \in 1 .. i - 1 - 1 + 1 : before[j] = s[1 + j - 1]
    BY <2>1, <2>2, SubSeqProperties
  <2> QED BY <1>1, <2>3
<1>3. /\ after \in Seq(S) /\ Len(after) = Len(s) - i
      /\ \A j \in 1 .. Len(s) - i : after[j] = s[i + j]
  <2>1. \A j \in i + 1 .. Len(s) : s[j] \in S
    BY <1>1
  <2>2. i + 1 \in Int /\ Len(s) \in Int
    BY <1>1
  <2>3. /\ after \in Seq(S)
        /\ Len(after) = IF i + 1 <= Len(s) THEN Len(s) - (i + 1) + 1 ELSE 0
        /\ \A j \in 1 .. Len(s) - (i + 1) + 1 : after[j] = s[i + 1 + j - 1]
    BY <2>1, <2>2, SubSeqProperties
  <2> QED BY <1>1, <2>3
<1> HIDE DEF before, after
<1>4. /\ before \o after \in Seq(S)
      /\ Len(before \o after) = Len(before) + Len(after)
      /\ \A j \in 1 .. Len(before) + Len(after) :
           (before \o after)[j] = IF j <= Len(before) THEN before[j] ELSE after[j - Len(before)]
  BY <1>2, <1>3, ConcatProperties
<1>5. RemoveAt(s, i) = before \o after
  BY DEF RemoveAt, before, after
<1>6. PICK r : r = before \o after
  OBVIOUS
<1>7. /\ r \in Seq(S) /\ Len(r) = Len(before) + Len(after)
      /\ \A j \in 1 .. Len(before) + Len(after) :
           r[j] = IF j <= Len(before) THEN before[j] ELSE after[j - Len(before)]
  BY <1>4, <1>6
<1>8. Len(r) = Len(s) - 1
  BY <1>1, <1>2, <1>3, <1>7
<1>9. ASSUME NEW j \in 1 .. Len(s) - 1
      PROVE  r[j] = IF j < i THEN s[j] ELSE s[j + 1]
  <2>1. r[j] = IF j <= i - 1 THEN before[j] ELSE after[j - (i - 1)]
    BY <1>1, <1>2, <1>3, <1>7
  <2>2. CASE j < i
    BY <1>1, <1>2, <2>1, <2>2
  <2>3. CASE ~(j < i)
    <3>1. j - (i - 1) \in 1 .. Len(s) - i /\ i + (j - (i - 1)) = j + 1
      BY <1>1, <2>3
    <3> QED BY <1>1, <1>3, <2>1, <2>3, <3>1
  <2> QED BY <2>2, <2>3
<1> QED BY <1>5, <1>6, <1>7, <1>8, <1>9

Row == [id : Nat, read : BOOLEAN]

(* The rows of an inbox, in whichever order; and their ids.                *)
Rows == {inbox[i] : i \in DOMAIN inbox}

Ids == {inbox[i].id : i \in DOMAIN inbox}

(* The id of a row is of a send that is past adding it, and is its own.    *)
InboxInv ==
    /\ inbox \in Seq(Row)
    /\ \A i, j \in DOMAIN inbox : inbox[i].id = inbox[j].id => i = j
    /\ \A id \in Ids : id \in Sends /\ call[id].at \notin {"begin", "row"}
    /\ \A c \in Sends :
          /\ call[c].at = "victims" => call[c].saw \in Nat \ {0}
          /\ call[c].at = "evict" => call[c].saw \in Seq(Nat) /\ call[c].saw # <<>>

(* An inbox has as many rows as ids.                                       *)
LEMMA RowsHaveIds ==
    ASSUME inbox \in Seq(Row), \A i, j \in DOMAIN inbox : inbox[i].id = inbox[j].id => i = j
    PROVE  /\ Len(inbox) \in Nat /\ DOMAIN inbox = 1 .. Len(inbox)
           /\ IsFiniteSet(Ids) /\ Cardinality(Ids) = Len(inbox)
<1>1. Len(inbox) \in Nat /\ DOMAIN inbox = 1 .. Len(inbox)
  OBVIOUS
<1> DEFINE f == [i \in DOMAIN inbox |-> inbox[i].id]
<1>2. f \in Bijection(DOMAIN inbox, Ids)
  <2>1. f \in [DOMAIN inbox -> Ids] /\ \A id \in Ids : \E i \in DOMAIN inbox : f[i] = id
    BY DEF Ids
  <2>2. \A i, j \in DOMAIN inbox : f[i] = f[j] => i = j
    OBVIOUS
  <2> HIDE DEF f
  <2> QED BY <2>1, <2>2 DEF Bijection, Injection, Surjection, IsInjective
<1>3. IsFiniteSet(DOMAIN inbox) /\ Cardinality(DOMAIN inbox) = Len(inbox)
  BY <1>1, FS_Interval
<1> HIDE DEF f
<1>4. ExistsBijection(DOMAIN inbox, Ids)
  BY <1>2 DEF ExistsBijection
<1> QED BY <1>1, <1>3, <1>4, FS_Bijection

(* The rows have one order in which they are evicted, and it has them all. *)
LEMMA EvictionSorts ==
    ASSUME InboxInv
    PROVE  /\ EvictionOrder \in Bijection(DOMAIN inbox, DOMAIN inbox)
           /\ \A i, j \in DOMAIN inbox :
                 i < j => GoesBefore(EvictionOrder[i], EvictionOrder[j])
<1> DEFINE n == Len(inbox)
           R == {p \in (1 .. n) \X (1 .. n) : GoesBefore(p[1], p[2])}
<1>1. n \in Nat /\ DOMAIN inbox = 1 .. n /\ \A i \in 1 .. n : inbox[i].read \in BOOLEAN
  <2>1. inbox \in Seq(Row)
    BY DEF InboxInv
  <2>2. n \in Nat /\ DOMAIN inbox = 1 .. n /\ \A i \in 1 .. n : inbox[i] \in Row
    BY <2>1, LenProperties, ElementOfSeq
  <2> QED BY <2>2 DEF Row
<1> HIDE DEF n
<1>2. \A i, j \in 1 .. n : <<i, j>> \in R <=> GoesBefore(i, j)
  OBVIOUS
<1> HIDE DEF R
<1>3. \A i \in 1 .. n : <<i, i>> \notin R
  BY <1>1, <1>2 DEF GoesBefore
<1>4. \A i, j \in 1 .. n : i # j => <<i, j>> \in R \/ <<j, i>> \in R
  <2> SUFFICES ASSUME NEW i \in 1 .. n, NEW j \in 1 .. n, i # j
               PROVE  GoesBefore(i, j) \/ GoesBefore(j, i)
    BY <1>2
  <2>1. i < j \/ j < i
    BY <1>1
  <2>2. inbox[i].read \in BOOLEAN /\ inbox[j].read \in BOOLEAN
    BY <1>1
  <2> QED BY <2>1, <2>2 DEF GoesBefore
<1>5. \A i, j, k \in 1 .. n : <<i, j>> \in R /\ <<j, k>> \in R => <<i, k>> \in R
  <2> SUFFICES ASSUME NEW i \in 1 .. n, NEW j \in 1 .. n, NEW k \in 1 .. n,
                      GoesBefore(i, j), GoesBefore(j, k)
               PROVE  GoesBefore(i, k)
    BY <1>2
  <2>1. i < j /\ j < k => i < k
    BY <1>1
  <2> QED BY <1>1, <2>1 DEF GoesBefore
<1>6. \E f \in [1 .. n -> 1 .. n] : \A i, j \in 1 .. n : i < j => <<f[i], f[j]>> \in R
  BY <1>1, <1>3, <1>4, <1>5, OrdersSort
<1>7. \E f \in [1 .. n -> 1 .. n] : \A i, j \in 1 .. n : i < j => GoesBefore(f[i], f[j])
  BY <1>2, <1>6
<1> DEFINE f == EvictionOrder
<1>8. /\ f \in [1 .. n -> 1 .. n]
      /\ \A i, j \in 1 .. n : i < j => GoesBefore(f[i], f[j])
  BY <1>1, <1>7 DEF EvictionOrder
<1> HIDE DEF f
<1>9. \A i, j \in 1 .. n : f[i] = f[j] => i = j
  <2> SUFFICES ASSUME NEW i \in 1 .. n, NEW j \in 1 .. n, i < j, f[i] = f[j]
               PROVE  FALSE
    BY <1>1
  <2>1. GoesBefore(f[i], f[i]) /\ f[i] \in 1 .. n
    BY <1>8
  <2> QED BY <1>1, <2>1 DEF GoesBefore
<1>10. f \in Injection(1 .. n, 1 .. n)
  BY <1>8, <1>9 DEF Injection, IsInjective
<1>11. IsFiniteSet(1 .. n)
  BY <1>1, FS_Interval
<1>12. f \in Surjection(1 .. n, 1 .. n)
  BY <1>10, <1>11, FS_Injection
<1> QED BY <1>1, <1>8, <1>10, <1>12 DEF Bijection, f

(* Who goes is a row of the inbox; nobody goes twice; and unread only      *)
(* after every row that is read.                                           *)
LEMMA VictimsAreFirst ==
    ASSUME InboxInv, NEW over \in Nat \ {0}
    PROVE  /\ Victims(over) \in Seq(Nat)
           /\ Len(Victims(over)) = IF over < Len(inbox) THEN over ELSE Len(inbox)
           /\ \A k, m \in DOMAIN Victims(over) : Victims(over)[k] = Victims(over)[m] => k = m
           /\ \A k \in DOMAIN Victims(over) :
                 \E r \in Rows :
                    /\ r.id = Victims(over)[k]
                    /\ \A q \in Rows : q.read /\ ~r.read =>
                          \E m \in 1 .. k - 1 : q.id = Victims(over)[m]
<1> DEFINE n == Len(inbox)
           size == IF over < n THEN over ELSE n
           f == EvictionOrder
           v == [k \in 1 .. size |-> inbox[f[k]].id]
<1>1. /\ n \in Nat /\ DOMAIN inbox = 1 .. n
      /\ \A i \in 1 .. n : inbox[i] \in Row /\ inbox[i].id \in Nat
      /\ \A i, j \in 1 .. n : inbox[i].id = inbox[j].id => i = j
  <2>1. inbox \in Seq(Row) /\ \A i, j \in DOMAIN inbox : inbox[i].id = inbox[j].id => i = j
    BY DEF InboxInv
  <2>2. n \in Nat /\ DOMAIN inbox = 1 .. n /\ \A i \in 1 .. n : inbox[i] \in Row
    BY <2>1, LenProperties, ElementOfSeq
  <2> QED BY <2>1, <2>2 DEF Row
<1>2. size \in Nat /\ size <= n
  BY <1>1
<1>3. Victims(over) = v
  BY DEF Victims
<1> HIDE DEF n, size
<1>4. /\ \A k \in 1 .. n : f[k] \in 1 .. n
      /\ \A k, m \in 1 .. n : f[k] = f[m] => k = m
      /\ \A i \in 1 .. n : \E k \in 1 .. n : f[k] = i
      /\ \A k, m \in 1 .. n : k < m => GoesBefore(f[k], f[m])
  BY <1>1, EvictionSorts DEF Bijection, Injection, Surjection, IsInjective
<1> HIDE DEF f
<1>5. \A k \in 1 .. size : k \in 1 .. n /\ v[k] = inbox[f[k]].id /\ v[k] \in Nat
  <2> SUFFICES ASSUME NEW k \in 1 .. size
               PROVE  k \in 1 .. n /\ v[k] = inbox[f[k]].id /\ v[k] \in Nat
    OBVIOUS
  <2>1. k \in 1 .. n
    BY <1>1, <1>2
  <2>2. f[k] \in 1 .. n /\ v[k] = inbox[f[k]].id
    BY <1>4, <2>1
  <2> QED BY <1>1, <2>1, <2>2
<1>6. v \in Seq(Nat) /\ Len(v) = size /\ DOMAIN v = 1 .. size
  <2>1. v \in [1 .. size -> Nat]
    BY <1>5
  <2> HIDE DEF v
  <2> QED BY <1>2, <2>1
<1> HIDE DEF v
<1>7. ASSUME NEW k \in 1 .. size, NEW m \in 1 .. size, v[k] = v[m]
      PROVE  k = m
  <2>1. /\ k \in 1 .. n /\ m \in 1 .. n /\ f[k] \in 1 .. n /\ f[m] \in 1 .. n
        /\ inbox[f[k]].id = inbox[f[m]].id
    BY <1>4, <1>5, <1>7
  <2>2. f[k] = f[m]
    BY <1>1, <2>1
  <2> QED BY <1>4, <2>1, <2>2
<1>8. ASSUME NEW k \in 1 .. size
      PROVE  \E r \in Rows :
                /\ r.id = v[k]
                /\ \A q \in Rows : q.read /\ ~r.read => \E m \in 1 .. k - 1 : q.id = v[m]
  <2> DEFINE r == inbox[f[k]]
  <2>1. r \in Rows /\ r.id = v[k] /\ k \in 1 .. n
    BY <1>1, <1>4, <1>5 DEF Rows
  <2>2. ASSUME NEW q \in Rows, q.read, ~r.read
        PROVE  \E m \in 1 .. k - 1 : q.id = v[m]
    <3>1. PICK i \in 1 .. n : q = inbox[i]
      BY <1>1 DEF Rows
    <3>2. PICK m \in 1 .. n : f[m] = i
      BY <1>4
    <3>3. m # k
      BY <2>2, <3>1, <3>2
    <3>4. ~(k < m)
      BY <1>4, <2>1, <2>2, <3>1, <3>2 DEF GoesBefore
    <3>5. m \in 1 .. k - 1 /\ m \in 1 .. size
      BY <1>1, <1>2, <2>1, <3>3, <3>4
    <3> QED BY <1>5, <3>1, <3>2, <3>5
  <2> HIDE DEF r
  <2> QED BY <2>1, <2>2
<1> QED BY <1>3, <1>6, <1>7, <1>8 DEF size, n

(* The rows, but the one with the id.                                      *)
Without(id) == RemoveFirstMatch(inbox, LAMBDA row : row.id = id)

(* A row is deleted by its id.                                             *)
LEMMA RowDeleted ==
    ASSUME InboxInv, NEW id, inbox' = Without(id)
    PROVE  /\ inbox' \in Seq(Row)
           /\ \A i, j \in DOMAIN inbox' : inbox'[i].id = inbox'[j].id => i = j
           /\ Rows' = {r \in Rows : r.id # id}
           /\ Ids' = Ids \ {id}
<1>1. /\ Len(inbox) \in Nat /\ DOMAIN inbox = 1 .. Len(inbox) /\ inbox \in Seq(Row)
      /\ \A i, j \in 1 .. Len(inbox) : inbox[i].id = inbox[j].id => i = j
  BY DEF InboxInv
<1>2. CASE id \notin Ids
  <2>1. ~\E i \in 1 .. Len(inbox) : inbox[i].id = id
    BY <1>1, <1>2 DEF Ids
  <2>2. inbox' = inbox
    BY <2>1 DEF Without, RemoveFirstMatch
  <2> QED BY <1>1, <2>1, <2>2 DEF Rows, Ids
<1>3. CASE id \in Ids
  <2>1. PICK i \in 1 .. Len(inbox) : inbox[i].id = id
    BY <1>1, <1>3 DEF Ids
  <2>2. {k \in 1 .. Len(inbox) : inbox[k].id = id} = {i}
    BY <1>1, <2>1
  <2>3. Min({i}) = i
    BY <1>1 DEF Min
  <2>4. inbox' = RemoveAt(inbox, i)
    BY <2>1, <2>2, <2>3 DEF Without, RemoveFirstMatch, SelectInSeq
  <2>5. /\ inbox' \in Seq(Row) /\ Len(inbox') = Len(inbox) - 1
        /\ \A j \in 1 .. Len(inbox) - 1 :
              inbox'[j] = IF j < i THEN inbox[j] ELSE inbox[j + 1]
    <3>1. PICK t : t = RemoveAt(inbox, i)
      OBVIOUS
    <3>2. /\ t \in Seq(Row) /\ Len(t) = Len(inbox) - 1
          /\ \A j \in 1 .. Len(inbox) - 1 : t[j] = IF j < i THEN inbox[j] ELSE inbox[j + 1]
      <4> HIDE DEF Row
      <4> QED BY <1>1, <3>1, TakenOut
    <3> QED BY <2>4, <3>1, <3>2
  <2> DEFINE old == [j \in 1 .. Len(inbox) - 1 |-> IF j < i THEN j ELSE j + 1]
  <2>6. DOMAIN inbox' = 1 .. Len(inbox) - 1
    BY <2>5
  <2>7. \A j \in 1 .. Len(inbox) - 1 :
           /\ inbox'[j] = inbox[old[j]]
           /\ old[j] \in 1 .. Len(inbox) /\ old[j] # i
    <3> SUFFICES ASSUME NEW j \in 1 .. Len(inbox) - 1
                 PROVE  /\ inbox'[j] = inbox[old[j]]
                        /\ old[j] \in 1 .. Len(inbox) /\ old[j] # i
      OBVIOUS
    <3>1. CASE j < i
      <4>1. old[j] = j
        BY <3>1
      <4> HIDE DEF old
      <4>2. inbox'[j] = inbox[j]
        BY <2>5, <3>1
      <4>3. j \in 1 .. Len(inbox) /\ j # i
        BY <1>1, <3>1
      <4> QED BY <4>1, <4>2, <4>3
    <3>2. CASE ~(j < i)
      <4>1. old[j] = j + 1
        BY <3>2
      <4> HIDE DEF old
      <4>2. inbox'[j] = inbox[j + 1]
        BY <2>5, <3>2
      <4>3. j + 1 \in 1 .. Len(inbox) /\ j + 1 # i
        BY <1>1, <3>2
      <4> QED BY <4>1, <4>2, <4>3
    <3> QED BY <3>1, <3>2
  <2>8. \A j, k \in 1 .. Len(inbox) - 1 : old[j] = old[k] => j = k
    BY <1>1
  <2>9. ASSUME NEW k \in 1 .. Len(inbox), k # i
        PROVE  \E j \in 1 .. Len(inbox) - 1 : old[j] = k
    <3>1. CASE k < i
      <4>1. k \in 1 .. Len(inbox) - 1 /\ old[k] = k
        BY <1>1, <3>1
      <4> QED BY <4>1
    <3>2. CASE ~(k < i)
      <4>1. k - 1 \in 1 .. Len(inbox) - 1 /\ old[k - 1] = k
        BY <1>1, <2>9, <3>2
      <4> QED BY <4>1
    <3> QED BY <3>1, <3>2
  <2> HIDE DEF old
  <2>10. \A j, k \in DOMAIN inbox' : inbox'[j].id = inbox'[k].id => j = k
    <3> SUFFICES ASSUME NEW j \in 1 .. Len(inbox) - 1, NEW k \in 1 .. Len(inbox) - 1,
                        inbox'[j].id = inbox'[k].id
                 PROVE  j = k
      BY <2>6
    <3>1. inbox[old[j]].id = inbox[old[k]].id
      BY <2>7
    <3>2. old[j] = old[k]
      BY <1>1, <2>7, <3>1
    <3> QED BY <2>8, <3>2
  <2>11. \A k \in 1 .. Len(inbox) : k # i <=> inbox[k].id # id
    BY <1>1, <2>1
  <2>12. \A r : r \in Rows' <=> r \in Rows /\ r.id # id
    <3>1. ASSUME NEW r \in Rows'
          PROVE  r \in Rows /\ r.id # id
      <4>1. PICK j \in 1 .. Len(inbox) - 1 : r = inbox'[j]
        BY <2>6 DEF Rows
      <4>2. r = inbox[old[j]] /\ old[j] \in 1 .. Len(inbox) /\ old[j] # i
        BY <2>7, <4>1
      <4>3. r \in Rows
        BY <1>1, <4>2 DEF Rows
      <4> QED BY <2>11, <4>2, <4>3
    <3>2. ASSUME NEW k \in 1 .. Len(inbox), inbox[k].id # id
          PROVE  inbox[k] \in Rows'
      <4>1. PICK j \in 1 .. Len(inbox) - 1 : old[j] = k
        BY <2>9, <2>11, <3>2
      <4> QED BY <2>6, <2>7, <4>1 DEF Rows
    <3> QED BY <1>1, <3>1, <3>2 DEF Rows
  <2>13. Rows' = {r \in Rows : r.id # id}
    BY <2>12
  <2>14. Ids' = Ids \ {id}
    <3>1. Ids = {r.id : r \in Rows} /\ Ids' = {r.id : r \in Rows'}
      BY DEF Ids, Rows
    <3> QED BY <2>12, <3>1
  <2> QED BY <2>5, <2>10, <2>13, <2>14
<1> QED BY <1>2, <1>3

(* What a send does next.                                                  *)
LEMMA SendSteps ==
    ASSUME CallsInv, NEW d \in DOMAIN call, CallStep(d), IsA("send", d)
    PROVE  \/ Fails(d) /\ inbox' = inbox
           \/ SendAsks(d) \/ SendAdds(d) \/ EvictionCounts(d) \/ EvictionChooses(d)
           \/ EvictionDeletes(d)
<1>1. call[d].at # "model"
  BY DEF CallsInv, IsA
<1> QED BY <1>1 DEF CallStep, MeteredStep, AppDataStep, InboxStep, PeopleStep,
        ProfileStep, GameStep, At, IsA, ChatBegins, RefineBegins, RefineGathers,
        ModelAnswers, ModelFails, InsertCounts, InsertAdds, UpdateReads, UpdateWrites,
        DeleteReads, DeleteWrites, ListPages, SetLooks, SetCounts, SetUpserts, Unset,
        Clear, MarkAllRead, SignInLooks, SignInSetsWallet, SignInDerives, SignInAdds,
        AddFriend, RemoveFriend, ChatAsks, ChatFindsJam, ChatAdds, LikeLooks, LikeToggles,
        ClaimBegins, ClaimLooks, ClaimMints, ClaimWrites, TopupLooks, TopupPays,
        TopupWrites, MoveIsSent, MoveIsMined, ResetIsSent, ResetIsMined

(* Nothing else changes an inbox, but to mark it as read.                  *)
LEMMA OthersLeaveInbox ==
    ASSUME NEW d \in DOMAIN call, CallStep(d), ~IsA("send", d)
    PROVE  inbox' = inbox \/ MarkAllRead(d)
BY DEF CallStep, InboxStep, SendAsks, SendAdds, EvictionCounts, EvictionChooses,
       EvictionDeletes, At, inboxVars

Settles(d, answer) == call'[d].at = "end" /\ call'[d].answer = answer
Proceeds(d, step, saw) ==
    call'[d].at = step /\ call'[d].saw = saw /\ call'[d].answer = Null

(* Where a send stands after a step of its own, and what it did.           *)
LEMMA SendGoesTo ==
    ASSUME CallsInv, NEW d \in DOMAIN call, CallStep(d), GoesOn(d), IsA("send", d)
    PROVE  \/ inbox' = inbox /\ Settles(d, "THROWN")
           \/ /\ call[d].at = "begin" /\ inbox' = inbox
              /\ Settles(d, "RATE_LIMITED") \/ Proceeds(d, "row", Null)
           \/ /\ call[d].at = "row" /\ Proceeds(d, "count", Null)
              /\ inbox' = Append(inbox, [id |-> d, read |-> FALSE])
           \/ /\ call[d].at = "count" /\ inbox' = inbox
              /\ LET over == Len(inbox) - InboxCap IN
                 IF over <= 0 THEN Settles(d, "ok") ELSE Proceeds(d, "victims", over)
           \/ /\ call[d].at = "victims" /\ inbox' = inbox
              /\ LET victims == Victims(call[d].saw) IN
                 IF victims = <<>> THEN Settles(d, "ok") ELSE Proceeds(d, "evict", victims)
           \/ /\ call[d].at = "evict"
              /\ inbox' = Without(Head(call[d].saw))
              /\ LET left == Tail(call[d].saw) IN
                 IF left = <<>> THEN Settles(d, "ok") ELSE Proceeds(d, "evict", left)
<1>1. Running(d) /\ {"ok", "THROWN", "RATE_LIMITED"} \subseteq Answers
  BY DEF GoesOn, Running, Answers
<1>2. ASSUME NEW answer \in Answers, Returns(d, answer)
      PROVE  Settles(d, answer)
  BY <1>1, <1>2, ReturnsNow DEF Now, Settles
<1>3. ASSUME NEW step, NEW saw, step \notin {"begin", "end", "model"}, Awaits(d, step, saw)
      PROVE  Proceeds(d, step, saw)
  BY <1>1, <1>3, AwaitsNow DEF Now, Proceeds
<1>4. CASE Fails(d) /\ inbox' = inbox
  BY <1>1, <1>2, <1>4 DEF Fails, Throws
<1>5. CASE SendAsks(d)
  BY <1>1, <1>2, <1>3, <1>5 DEF SendAsks, At
<1>6. CASE SendAdds(d)
  BY <1>3, <1>6 DEF SendAdds, At
<1>7. CASE EvictionCounts(d)
  BY <1>1, <1>2, <1>3, <1>7 DEF EvictionCounts, At, inboxVars
<1>8. CASE EvictionChooses(d)
  <2>1. PICK v : v = Victims(call[d].saw)
    OBVIOUS
  <2>2. IF v = <<>> THEN Settles(d, "ok") ELSE Proceeds(d, "evict", v)
    BY <1>1, <1>2, <1>3, <1>8, <2>1 DEF EvictionChooses, Evicts
  <2> QED BY <1>8, <2>1, <2>2 DEF EvictionChooses, At, inboxVars
<1>9. CASE EvictionDeletes(d)
  <2>1. PICK v : v = Tail(call[d].saw)
    OBVIOUS
  <2>2. IF v = <<>> THEN Settles(d, "ok") ELSE Proceeds(d, "evict", v)
    BY <1>1, <1>2, <1>3, <1>9, <2>1 DEF EvictionDeletes, Evicts
  <2>3. inbox' = Without(Head(call[d].saw))
    BY <1>9 DEF EvictionDeletes, Without
  <2>4. call[d].at = "evict"
    BY <1>9 DEF EvictionDeletes, At
  <2> QED BY <2>1, <2>2, <2>3, <2>4
<1> QED BY <1>4, <1>5, <1>6, <1>7, <1>8, <1>9, SendSteps

(* A row is added, with the id of its send.                                *)
LEMMA RowAdded ==
    ASSUME InboxInv, NEW d \in Nat, d \notin Ids,
           inbox' = Append(inbox, [id |-> d, read |-> FALSE])
    PROVE  /\ inbox' \in Seq(Row)
           /\ \A i, j \in DOMAIN inbox' : inbox'[i].id = inbox'[j].id => i = j
           /\ Ids' = Ids \cup {d}
           /\ \A i \in DOMAIN inbox : \E j \in DOMAIN inbox' : inbox'[j].id = inbox[i].id
<1> DEFINE row == [id |-> d, read |-> FALSE]
<1>1. row \in Row /\ row.id = d
  BY DEF Row
<1>2. /\ inbox \in Seq(Row) /\ Len(inbox) \in Nat /\ DOMAIN inbox = 1 .. Len(inbox)
      /\ \A i, j \in 1 .. Len(inbox) : inbox[i].id = inbox[j].id => i = j
  BY DEF InboxInv
<1> HIDE DEF row, Row
<1>3. /\ inbox' \in Seq(Row) /\ DOMAIN inbox' = 1 .. Len(inbox) + 1
      /\ \A i \in 1 .. Len(inbox) : inbox'[i] = inbox[i]
      /\ inbox'[Len(inbox) + 1] = row
  <2>1. inbox' = Append(inbox, row)
    BY DEF row
  <2> QED BY <1>1, <1>2, <2>1, AppendProperties, LenProperties
<1>4. \A i \in 1 .. Len(inbox) + 1 : i \in 1 .. Len(inbox) \/ i = Len(inbox) + 1
  BY <1>2
<1>5. \A i \in 1 .. Len(inbox) : inbox[i].id # d
  BY <1>2 DEF Ids
<1>6. \A i, j \in DOMAIN inbox' : inbox'[i].id = inbox'[j].id => i = j
  BY <1>1, <1>2, <1>3, <1>4, <1>5
<1>7. \A i \in 1 .. Len(inbox) : i \in DOMAIN inbox'
  BY <1>2, <1>3
<1>8. Len(inbox) + 1 \in DOMAIN inbox'
  BY <1>2, <1>3
<1>9. Ids' = Ids \cup {d}
  BY <1>1, <1>2, <1>3, <1>4, <1>7, <1>8 DEF Ids
<1> QED BY <1>2, <1>3, <1>6, <1>7, <1>9

(* Rows that are read stay where they are.                                 *)
LEMMA RowsRead ==
    ASSUME InboxInv, NEW d \in DOMAIN call, MarkAllRead(d)
    PROVE  /\ inbox' \in Seq(Row)
           /\ \A i, j \in DOMAIN inbox' : inbox'[i].id = inbox'[j].id => i = j
           /\ Ids' = Ids /\ IsA("markAllRead", d)
           /\ \A i \in DOMAIN inbox : \E j \in DOMAIN inbox' : inbox'[j].id = inbox[i].id
<1>1. /\ inbox \in Seq(Row) /\ Len(inbox) \in Nat /\ DOMAIN inbox = 1 .. Len(inbox)
      /\ \A i \in 1 .. Len(inbox) : inbox[i] \in Row
      /\ \A i, j \in 1 .. Len(inbox) : inbox[i].id = inbox[j].id => i = j
  BY DEF InboxInv
<1> DEFINE read == [i \in 1 .. Len(inbox) |-> [inbox[i] EXCEPT !.read = TRUE]]
<1>2. \A i \in 1 .. Len(inbox) : read[i] \in Row /\ read[i].id = inbox[i].id
  BY <1>1 DEF Row
<1>3. inbox' = read /\ IsA("markAllRead", d)
  BY <1>1 DEF MarkAllRead, At
<1>4. read \in [1 .. Len(inbox) -> Row]
  BY <1>2
<1> HIDE DEF read
<1>5. inbox' \in Seq(Row) /\ DOMAIN inbox' = 1 .. Len(inbox)
  BY <1>1, <1>3, <1>4
<1>6. \A i \in 1 .. Len(inbox) : inbox'[i].id = inbox[i].id
  BY <1>2, <1>3
<1> QED BY <1>1, <1>3, <1>5, <1>6 DEF Ids

(* A send that is not the one whose statement runs is as it was.           *)
LEMMA SendsStay ==
    ASSUME CallsInv, NEW d \in DOMAIN call, GoesOn(d), OpsStay
    PROVE  /\ Sends' = Sends /\ The("markAllRead")' = The("markAllRead")
           /\ \A c \in Sends : c \in Nat /\ c \in DOMAIN call /\ IsA("send", c)
           /\ \A c \in Sends : c # d => call'[c] = call[c]
           /\ d \notin Sends <=> ~IsA("send", d)
<1>1. DOMAIN call \subseteq Nat /\ DOMAIN call' = DOMAIN call
  BY DEF CallsInv, IsSequence, GoesOn
<1> QED BY <1>1 DEF Sends, The, IsA, OpsStay, GoesOn

(* A statement of a send, one that is not past adding its row, or is.      *)
LEMMA InboxOfSend ==
    ASSUME CallsInv, InboxInv, OpsStay, NEW d \in Sends, CallStep(d), GoesOn(d)
    PROVE  InboxInv'
<1>1. /\ Sends' = Sends /\ d \in Nat /\ d \in DOMAIN call /\ IsA("send", d)
      /\ \A c \in Sends : c # d => call'[c] = call[c]
  BY SendsStay DEF Sends, The
<1>2. /\ inbox \in Seq(Row)
      /\ \A i, j \in DOMAIN inbox : inbox[i].id = inbox[j].id => i = j
      /\ \A id \in Ids : id \in Sends /\ call[id].at \notin {"begin", "row"}
      /\ call[d].at = "victims" => call[d].saw \in Nat \ {0}
      /\ call[d].at = "evict" => call[d].saw \in Seq(Nat) /\ call[d].saw # <<>>
  BY DEF InboxInv
<1> DEFINE Sound == /\ call'[d].at = "victims" => call'[d].saw \in Nat \ {0}
                    /\ call'[d].at = "evict" => call'[d].saw \in Seq(Nat) /\ call'[d].saw # <<>>
<1>3. ASSUME Sound, inbox' \in Seq(Row),
             \A i, j \in DOMAIN inbox' : inbox'[i].id = inbox'[j].id => i = j,
             \A id \in Ids' : id \in Ids \/ id = d,
             d \in Ids' => call'[d].at \notin {"begin", "row"}
      PROVE  InboxInv'
  <2>1. \A id \in Ids' : id \in Sends' /\ call'[id].at \notin {"begin", "row"}
    BY <1>1, <1>2, <1>3
  <2>2. \A c \in Sends' :
          /\ call'[c].at = "victims" => call'[c].saw \in Nat \ {0}
          /\ call'[c].at = "evict" => call'[c].saw \in Seq(Nat) /\ call'[c].saw # <<>>
    BY <1>1, <1>3 DEF InboxInv
  <2> QED BY <1>3, <2>1, <2>2 DEF InboxInv
<1>4. ASSUME Sound, inbox' = inbox,
             call[d].at \in {"begin", "row"} \/ call'[d].at \notin {"begin", "row"}
      PROVE  InboxInv'
  <2>1. Ids' = Ids
    BY <1>4 DEF Ids
  <2> HIDE DEF Sound
  <2> QED BY <1>2, <1>3, <1>4, <2>1
<1>5. CASE inbox' = inbox /\ Settles(d, "THROWN")
  BY <1>4, <1>5 DEF Settles
<1>6. CASE /\ call[d].at = "begin" /\ inbox' = inbox
           /\ Settles(d, "RATE_LIMITED") \/ Proceeds(d, "row", Null)
  BY <1>4, <1>6 DEF Settles, Proceeds
<1>7. CASE /\ call[d].at = "row" /\ Proceeds(d, "count", Null)
           /\ inbox' = Append(inbox, [id |-> d, read |-> FALSE])
  <2>1. /\ inbox' \in Seq(Row) /\ Ids' = Ids \cup {d}
        /\ \A i, j \in DOMAIN inbox' : inbox'[i].id = inbox'[j].id => i = j
    BY <1>1, <1>2, <1>7, RowAdded
  <2>2. Sound /\ call'[d].at \notin {"begin", "row"}
    BY <1>7 DEF Proceeds
  <2> HIDE DEF Sound
  <2> QED BY <1>3, <2>1, <2>2
<1>8. CASE /\ call[d].at = "count" /\ inbox' = inbox
           /\ LET over == Len(inbox) - InboxCap IN
              IF over <= 0 THEN Settles(d, "ok") ELSE Proceeds(d, "victims", over)
  <2>1. Len(inbox) \in Nat /\ InboxCap \in Nat
    BY <1>2, InboxAssumption
  <2> QED BY <1>4, <1>8, <2>1 DEF Settles, Proceeds
<1>9. CASE /\ call[d].at = "victims" /\ inbox' = inbox
           /\ LET victims == Victims(call[d].saw) IN
              IF victims = <<>> THEN Settles(d, "ok") ELSE Proceeds(d, "evict", victims)
  <2>1. PICK v : v = Victims(call[d].saw)
    OBVIOUS
  <2>2. v \in Seq(Nat)
    BY <1>2, <1>9, <2>1, VictimsAreFirst
  <2>3. IF v = <<>> THEN Settles(d, "ok") ELSE Proceeds(d, "evict", v)
    BY <1>9, <2>1
  <2> QED BY <1>4, <1>9, <2>2, <2>3 DEF Settles, Proceeds
<1>10. CASE /\ call[d].at = "evict"
            /\ inbox' = Without(Head(call[d].saw))
            /\ LET left == Tail(call[d].saw) IN
               IF left = <<>> THEN Settles(d, "ok") ELSE Proceeds(d, "evict", left)
  <2>1. PICK v : v = Tail(call[d].saw)
    OBVIOUS
  <2>2. v \in Seq(Nat)
    BY <1>2, <1>10, <2>1, HeadTailProperties
  <2>3. IF v = <<>> THEN Settles(d, "ok") ELSE Proceeds(d, "evict", v)
    BY <1>10, <2>1
  <2>4. PICK id : id = Head(call[d].saw)
    OBVIOUS
  <2>5. /\ inbox' \in Seq(Row) /\ Ids' = Ids \ {id}
        /\ \A i, j \in DOMAIN inbox' : inbox'[i].id = inbox'[j].id => i = j
    <3>1. inbox' = Without(id)
      BY <1>10, <2>4
    <3> QED BY <3>1, RowDeleted
  <2>6. Sound /\ call'[d].at \notin {"begin", "row"}
    BY <2>2, <2>3 DEF Settles, Proceeds
  <2> HIDE DEF Sound
  <2> QED BY <1>3, <2>5, <2>6
<1> QED BY <1>1, <1>5, <1>6, <1>7, <1>8, <1>9, <1>10, SendGoesTo

(* What is in an inbox, and what the sends that evict have read of it.     *)
LEMMA InboxInvariant == Spec => []InboxInv
<1>1. Init => InboxInv
  <2> SUFFICES ASSUME Init
               PROVE  InboxInv
    OBVIOUS
  <2>1. inbox = <<>> /\ DOMAIN call = {}
    BY DEF Init, CallsInit, InboxInit
  <2>2. inbox \in Seq(Row) /\ DOMAIN inbox = {}
    BY <2>1, EmptySeq
  <2> QED BY <2>1, <2>2 DEF InboxInv, Ids, Sends, The
<1>2. CallsInv /\ InboxInv /\ [Next]_vars => InboxInv'
  <2> SUFFICES ASSUME CallsInv, InboxInv, [Next]_vars
               PROVE  InboxInv'
    OBVIOUS
  <2>1. CASE UNCHANGED <<call, inbox>>
    BY <2>1 DEF InboxInv, Ids, Sends, The, IsA
  <2>2. ASSUME NEW n, Begins(n), inbox' = inbox
        PROVE  InboxInv'
    <3>1. /\ \A c \in Sends : c \in Sends' /\ call'[c] = call[c]
          /\ \A c \in Sends' : c \in Sends \/ call'[c].at = "begin"
      BY <2>2 DEF Begins, Sends, The, IsA
    <3>2. Ids' = Ids
      BY <2>2 DEF Ids
    <3> QED BY <2>2, <3>1, <3>2 DEF InboxInv
  <2>3. ASSUME NEW d \in DOMAIN call, CallStep(d), GoesOn(d), OpsStay
        PROVE  InboxInv'
    <3>1. CASE d \in Sends
      BY <2>3, <3>1, InboxOfSend
    <3>2. CASE d \notin Sends
      <4>1. /\ inbox' \in Seq(Row) /\ Ids' = Ids
            /\ \A i, j \in DOMAIN inbox' : inbox'[i].id = inbox'[j].id => i = j
        <5>1. CASE inbox' = inbox
          BY <5>1 DEF InboxInv, Ids
        <5>2. CASE MarkAllRead(d)
          BY <5>2, RowsRead
        <5> QED BY <2>3, <3>2, <5>1, <5>2, SendsStay, OthersLeaveInbox
      <4>2. Sends' = Sends /\ \A c \in Sends : call'[c] = call[c]
        BY <2>3, <3>2, SendsStay
      <4> QED BY <4>1, <4>2 DEF InboxInv
    <3> QED BY <3>1, <3>2
  <2> QED BY <2>1, <2>2, <2>3, StepCases
<1> QED BY <1>1, <1>2, CallsInvariant, PTL DEF Spec

(* Sends that evict, or are about to; what some of them still delete; and  *)
(* the sends that added a row without doing their eviction, so far.        *)
Evicting == {c \in Sends : call[c].at \in {"victims", "evict"}}

Deletes(c, id) ==
    call[c].at = "evict" /\ \E k \in DOMAIN call[c].saw : call[c].saw[k] = id

Doomed(F) == {id \in Ids : \E c \in F : Deletes(c, id)}

Owing ==
    {c \in Sends : call[c].answer = "THROWN" \/ call[c].at \in {"count", "victims", "evict"}}

(* Room for w victims has what those in F have chosen, or will choose.     *)
Covers(F, w) ==
    /\ \A c \in F : call[c].at = "victims" => call[c].saw <= w
    /\ Cardinality(Doomed(F)) <= w

(* Whichever sends have counted the surplus: when they are done, there are *)
(* no more rows than the cap and those of the other sends.                 *)
BoundInv ==
    \A F \in SUBSET Evicting : \A w \in Nat :
        Covers(F, w) => Cardinality(Ids) <= InboxCap + w + Cardinality(Owing \ F)

(* What is counted here is finite; an inbox has as many rows as ids.       *)
CountsInv ==
    /\ Len(inbox) \in Nat /\ IsFiniteSet(Ids) /\ Cardinality(Ids) = Len(inbox)
    /\ IsFiniteSet(Owing)

(* What is counted in an inbox is finite, always.                          *)
LEMMA CountsInvariant == Spec => []CountsInv
<1>1. CallsInv /\ InboxInv => CountsInv
  <2> SUFFICES ASSUME CallsInv, InboxInv
               PROVE  CountsInv
    OBVIOUS
  <2>1. Len(inbox) \in Nat /\ IsFiniteSet(Ids) /\ Cardinality(Ids) = Len(inbox)
    BY RowsHaveIds DEF InboxInv
  <2>2. DOMAIN call = 1 .. Len(call) /\ Len(call) \in Nat
    BY DEF CallsInv, IsSequence
  <2>3. Owing \in SUBSET (1 .. Len(call))
    BY <2>2 DEF Owing, Sends, The
  <2>4. IsFiniteSet(1 .. Len(call))
    BY <2>2, FS_Interval
  <2>5. IsFiniteSet(Owing)
    BY <2>3, <2>4, FS_Subset
  <2> QED BY <2>1, <2>5 DEF CountsInv
<1> QED BY <1>1, CallsInvariant, InboxInvariant, PTL

(* Parts of what is finite.                                                *)
LEMMA PartsAreFinite ==
    ASSUME NEW ids, IsFiniteSet(ids), NEW doomed \in SUBSET ids,
           NEW owing, IsFiniteSet(owing), NEW F
    PROVE  /\ IsFiniteSet(doomed) /\ Cardinality(doomed) \in Nat
           /\ IsFiniteSet(owing \ F) /\ Cardinality(owing \ F) \in Nat
<1>1. IsFiniteSet(doomed)
  BY FS_Subset
<1>2. IsFiniteSet(owing \ F)
  BY FS_Difference
<1> QED BY <1>1, <1>2, FS_CardinalityType

(* The sends in F stand where they stood, no row is added, or one that is  *)
(* owed, and no debt is forgotten.                                         *)
LEMMA BoundStays ==
    ASSUME InboxInv, CountsInv, BoundInv, CountsInv',
           NEW F \in SUBSET Evicting, NEW w \in Nat, Covers(F, w)',
           \A c \in F : call'[c] = call[c],
           \/ Ids' = Ids /\ Owing \subseteq Owing'
           \/ \E d : Ids' = Ids \cup {d} /\ d \notin Owing /\ d \notin F
                     /\ Owing' = Owing \cup {d}
    PROVE  Cardinality(Ids') <= InboxCap + w + Cardinality(Owing' \ F)
<1>1. /\ IsFiniteSet(Ids) /\ Cardinality(Ids) \in Nat
      /\ IsFiniteSet(Owing \ F) /\ Cardinality(Owing \ F) \in Nat
      /\ Cardinality(Doomed(F)) \in Nat /\ IsFiniteSet(Doomed(F))
  <2>1. Doomed(F) \in SUBSET Ids
    BY DEF Doomed
  <2> QED BY <2>1, PartsAreFinite DEF CountsInv
<1>2. /\ IsFiniteSet(Owing' \ F) /\ Cardinality(Owing' \ F) \in Nat
      /\ IsFiniteSet(Doomed(F)') /\ Cardinality(Doomed(F)') \in Nat
  <2>1. Doomed(F)' \in SUBSET Ids'
    BY DEF Doomed
  <2> QED BY <2>1, PartsAreFinite DEF CountsInv
<1>3. Doomed(F) \in SUBSET Doomed(F)'
  BY DEF Doomed, Deletes
<1>4. Covers(F, w)
  <2>1. Cardinality(Doomed(F)) <= Cardinality(Doomed(F)')
    BY <1>2, <1>3, FS_Subset
  <2> QED BY <1>1, <1>2, <2>1 DEF Covers
<1>5. Cardinality(Ids) <= InboxCap + w + Cardinality(Owing \ F)
  BY <1>4 DEF BoundInv
<1>6. CASE Ids' = Ids /\ Owing \subseteq Owing'
  <2>1. Owing \ F \in SUBSET (Owing' \ F)
    BY <1>6
  <2>2. Cardinality(Owing \ F) <= Cardinality(Owing' \ F)
    BY <1>2, <2>1, FS_Subset
  <2> QED BY <1>1, <1>2, <1>5, <1>6, <2>2, InboxAssumption
<1>7. ASSUME NEW d, Ids' = Ids \cup {d}, d \notin Owing, d \notin F, Owing' = Owing \cup {d}
      PROVE  Cardinality(Ids') <= InboxCap + w + Cardinality(Owing' \ F)
  <2>1. Owing' \ F = (Owing \ F) \cup {d} /\ d \notin Owing \ F
    BY <1>7
  <2>2. Cardinality(Owing' \ F) = Cardinality(Owing \ F) + 1
    BY <1>1, <2>1, FS_AddElement
  <2>3. Cardinality(Ids') <= Cardinality(Ids) + 1 /\ Cardinality(Ids') \in Nat
    <3>1. IsFiniteSet(Ids \cup {d})
          /\ Cardinality(Ids \cup {d}) = IF d \in Ids THEN Cardinality(Ids) ELSE Cardinality(Ids) + 1
      BY <1>1, FS_AddElement
    <3> QED BY <1>1, <1>7, <3>1
  <2>4. Owing' \ F = (Owing \ F) \cup {d}
    BY <2>1
  <2> QED BY <1>1, <1>5, <2>2, <2>3, InboxAssumption
<1> QED BY <1>6, <1>7

(* An inbox no larger than its cap, or than what is to go, is bounded.     *)
LEMMA BoundHolds ==
    ASSUME CountsInv', NEW F, NEW w \in Nat, Cardinality(Ids') <= InboxCap + w
    PROVE  Cardinality(Ids') <= InboxCap + w + Cardinality(Owing' \ F)
<1>1. Cardinality(Owing' \ F) \in Nat /\ Cardinality(Ids') \in Nat
  BY PartsAreFinite DEF CountsInv
<1> QED BY <1>1, InboxAssumption

(* Who has chosen has chosen as many as it counted, or all there are.      *)
LEMMA BoundChosen ==
    ASSUME InboxInv, CountsInv, BoundInv, CountsInv',
           NEW d \in Sends, call[d].at = "victims", inbox' = inbox,
           Proceeds(d, "evict", Victims(call[d].saw)),
           \A c \in Sends : c # d => call'[c] = call[c], Owing' = Owing,
           NEW F \in SUBSET Evicting, NEW w \in Nat, Covers(F, w)', d \in F
    PROVE  Cardinality(Ids') <= InboxCap + w + Cardinality(Owing' \ F)
<1> DEFINE over == call[d].saw
           v == Victims(over)
<1>1. over \in Nat \ {0} /\ Ids' = Ids
  BY DEF InboxInv, Ids
<1> HIDE DEF over
<1>2. /\ v \in Seq(Nat) /\ Len(v) = IF over < Len(inbox) THEN over ELSE Len(inbox)
      /\ \A k, m \in DOMAIN v : v[k] = v[m] => k = m
      /\ \A k \in DOMAIN v : v[k] \in Ids
  <2>1. \A r \in Rows : r.id \in Ids
    BY DEF Rows, Ids
  <2> QED BY <1>1, <2>1, VictimsAreFirst
<1>3. call'[d].at = "evict" /\ call'[d].saw = v
  BY DEF Proceeds, over
<1> HIDE DEF v
<1>4. DOMAIN v = 1 .. Len(v) /\ Len(v) \in Nat
  BY <1>2
<1>5. /\ IsFiniteSet(Doomed(F)') /\ Cardinality(Doomed(F)') \in Nat
      /\ Cardinality(Ids) = Len(inbox) /\ Cardinality(Ids) \in Nat
      /\ IsFiniteSet(Doomed(F)) /\ Cardinality(Doomed(F)) \in Nat
      /\ Cardinality(Owing \ F) \in Nat
  <2>1. Doomed(F) \in SUBSET Ids /\ Doomed(F)' \in SUBSET Ids'
    BY DEF Doomed
  <2> QED BY <1>1, <2>1, PartsAreFinite DEF CountsInv
<1>6. Len(v) <= w
  <2>1. \A k \in 1 .. Len(v) : v[k] \in Doomed(F)'
    BY <1>1, <1>2, <1>3, <1>4 DEF Doomed, Deletes
  <2>2. v \in [1 .. Len(v) -> Doomed(F)']
    BY <1>2, <2>1
  <2>3. v \in Injection(1 .. Len(v), Doomed(F)')
    BY <1>2, <1>4, <2>2 DEF Injection, IsInjective
  <2>4. Cardinality(1 .. Len(v)) <= Cardinality(Doomed(F)')
    BY <1>5, <2>3, FS_Injection
  <2>5. Cardinality(1 .. Len(v)) = Len(v)
    <3>1. PICK n \in Nat : n = Len(v)
      BY <1>4
    <3>2. Cardinality(1 .. n) = n
      BY <3>1, FS_Interval
    <3> QED BY <3>1, <3>2
  <2> QED BY <1>4, <1>5, <2>4, <2>5 DEF Covers
<1>7. CASE over < Len(inbox)
  <2>1. over <= w
    BY <1>2, <1>6, <1>7
  <2>2. Doomed(F) \in SUBSET Doomed(F)'
    <3>1. ASSUME NEW id \in Doomed(F)
          PROVE  id \in Doomed(F)'
      <4>1. PICK c \in F : Deletes(c, id)
        BY DEF Doomed
      <4>2. c # d /\ c \in Sends
        BY <4>1 DEF Deletes, Evicting
      <4> QED BY <1>1, <4>1, <4>2 DEF Doomed, Deletes
    <3> QED BY <3>1
  <2>3. Cardinality(Doomed(F)) <= w
    <3>1. Cardinality(Doomed(F)) <= Cardinality(Doomed(F)')
      BY <1>5, <2>2, FS_Subset
    <3> QED BY <1>5, <3>1 DEF Covers
  <2>4. \A c \in F : call[c].at = "victims" => call[c].saw <= w
    BY <2>1 DEF Covers, over, Evicting
  <2>5. Cardinality(Ids) <= InboxCap + w + Cardinality(Owing \ F)
    BY <2>3, <2>4 DEF Covers, BoundInv
  <2> QED BY <1>1, <2>5
<1>8. CASE ~(over < Len(inbox))
  <2>1. Cardinality(Ids') <= InboxCap + w
    BY <1>1, <1>2, <1>5, <1>6, <1>8, InboxAssumption
  <2> QED BY <2>1, BoundHolds
<1> QED BY <1>7, <1>8

(* A victim is deleted: one row fewer, unless another send was faster; and *)
(* one thing fewer to do.                                                  *)
LEMMA BoundDeleted ==
    ASSUME InboxInv, CountsInv, BoundInv, CountsInv',
           NEW d \in Sends, call[d].at = "evict",
           Ids' = Ids \ {Head(call[d].saw)},
           LET left == Tail(call[d].saw) IN
             IF left = <<>> THEN Settles(d, "ok") ELSE Proceeds(d, "evict", left),
           \A c \in Sends : c # d => call'[c] = call[c],
           Owing' = IF Tail(call[d].saw) = <<>> THEN Owing \ {d} ELSE Owing,
           NEW F \in SUBSET Evicting, NEW w \in Nat, Covers(F, w)',
           Tail(call[d].saw) = <<>> => d \notin F
    PROVE  Cardinality(Ids') <= InboxCap + w + Cardinality(Owing' \ F)
<1> DEFINE saw == call[d].saw
           v == Head(saw)
           left == Tail(saw)
           G == IF left = <<>> THEN F \cup {d} ELSE F
<1>1. saw \in Seq(Nat) /\ saw # <<>>
  BY DEF InboxInv
<1>2. /\ left \in Seq(Nat) /\ DOMAIN saw = 1 .. Len(saw) /\ Len(saw) \in Nat
      /\ DOMAIN left = 1 .. Len(saw) - 1
      /\ \A k \in 1 .. Len(saw) : k # 1 => k - 1 \in DOMAIN left /\ left[k - 1] = saw[k]
      /\ saw[1] = v
  <2> HIDE DEF saw
  <2>1. /\ left \in Seq(Nat) /\ Len(left) = Len(saw) - 1
        /\ \A k \in 1 .. Len(left) : left[k] = saw[k + 1]
    BY <1>1, HeadTailProperties
  <2>2. DOMAIN saw = 1 .. Len(saw) /\ Len(saw) \in Nat /\ saw[1] = v
    BY <1>1
  <2> HIDE DEF left
  <2>3. DOMAIN left = 1 .. Len(saw) - 1
    BY <2>1
  <2>4. ASSUME NEW k \in 1 .. Len(saw), k # 1
        PROVE  k - 1 \in 1 .. Len(saw) - 1 /\ left[k - 1] = saw[k]
    <3>1. k - 1 \in 1 .. Len(saw) - 1 /\ k - 1 + 1 = k
      BY <2>2, <2>4
    <3> QED BY <2>1, <3>1
  <2> QED BY <2>1, <2>2, <2>3, <2>4
<1>3. /\ Ids' = Ids \ {v} /\ Owing' = IF left = <<>> THEN Owing \ {d} ELSE Owing
      /\ left # <<>> => call'[d].at = "evict" /\ call'[d].saw = left
      /\ left = <<>> => d \notin F
  BY DEF Proceeds
<1>4. d \in Evicting
  BY DEF Evicting
<1> HIDE DEF saw, v, left
<1>5. G \in SUBSET Evicting /\ Owing' \ F = Owing \ G
  <2>1. CASE left = <<>>
    <3>1. G = F \cup {d} /\ Owing' = Owing \ {d}
      BY <1>3, <2>1
    <3> HIDE DEF G
    <3> QED BY <1>4, <3>1
  <2>2. CASE left # <<>>
    BY <1>3, <2>2
  <2> QED BY <2>1, <2>2
<1>6. Doomed(G) \in SUBSET (Doomed(F)' \cup {v}) /\ (v \in Doomed(G) => v \in Ids)
  <2>1. ASSUME NEW id \in Doomed(G), id # v
        PROVE  id \in Doomed(F)'
    <3>1. PICK c \in G : Deletes(c, id)
      BY DEF Doomed
    <3>2. id \in Ids'
      BY <1>3, <2>1 DEF Doomed
    <3>3. CASE c # d
      <4>1. c \in F /\ call'[c] = call[c]
        BY <3>3 DEF Evicting
      <4> QED BY <3>1, <3>2, <4>1 DEF Doomed, Deletes
    <3>4. CASE c = d
      <4>1. PICK k \in 1 .. Len(saw) : saw[k] = id
        BY <1>2, <3>1, <3>4 DEF Deletes, saw
      <4>2. k # 1
        BY <1>2, <2>1, <4>1
      <4>3. k - 1 \in DOMAIN left /\ left[k - 1] = id
        BY <1>2, <4>1, <4>2
      <4>4. left # <<>>
        <5>1. DOMAIN left # {}
          BY <4>3
        <5> QED BY <5>1
      <4>5. d \in F
        BY <3>4, <4>4
      <4>6. Deletes(d, id)'
        BY <1>3, <4>3, <4>4 DEF Deletes
      <4> QED BY <3>2, <4>5, <4>6 DEF Doomed
    <3> QED BY <3>3, <3>4
  <2>2. v \in Doomed(G) => v \in Ids
    BY DEF Doomed
  <2> QED BY <2>1, <2>2
<1>7. ASSUME NEW c \in G, call[c].at = "victims"
      PROVE  call[c].saw <= w /\ call[c].saw \in Nat
  <2>1. c # d
    BY <1>7
  <2>2. c \in F /\ c \in Sends /\ call'[c] = call[c]
    BY <2>1 DEF Evicting
  <2> QED BY <1>7, <2>2 DEF Covers, InboxInv
<1>8. /\ IsFiniteSet(Ids) /\ Cardinality(Ids) \in Nat
      /\ IsFiniteSet(Doomed(F)') /\ Cardinality(Doomed(F)') \in Nat
      /\ IsFiniteSet(Doomed(G)) /\ Cardinality(Doomed(G)) \in Nat
      /\ Cardinality(Owing \ G) \in Nat
  <2>1. Doomed(G) \in SUBSET Ids /\ Doomed(F)' \in SUBSET Ids'
    BY DEF Doomed
  <2> HIDE DEF G
  <2> QED BY <2>1, PartsAreFinite DEF CountsInv
<1>9. Cardinality(Doomed(F)') <= w
  BY DEF Covers
<1> HIDE DEF G
<1>10. CASE v \in Ids
  <2>1. Cardinality(Ids') = Cardinality(Ids) - 1
    <3>1. Cardinality(Ids \ {v}) = Cardinality(Ids) - 1
      BY <1>8, <1>10, FS_RemoveElement
    <3> QED BY <1>3, <3>1
  <2>2. Cardinality(Doomed(G)) <= w + 1
    <3>1. /\ IsFiniteSet(Doomed(F)' \cup {v})
          /\ Cardinality(Doomed(F)' \cup {v}) \in Nat
          /\ Cardinality(Doomed(F)' \cup {v}) <= Cardinality(Doomed(F)') + 1
      <4>1. /\ IsFiniteSet(Doomed(F)' \cup {v})
            /\ Cardinality(Doomed(F)' \cup {v}) =
                 IF v \in Doomed(F)' THEN Cardinality(Doomed(F)') ELSE Cardinality(Doomed(F)') + 1
        BY <1>8, FS_AddElement
      <4> QED BY <1>8, <4>1
    <3>2. Cardinality(Doomed(G)) <= Cardinality(Doomed(F)' \cup {v})
      BY <1>6, <3>1, FS_Subset
    <3> QED BY <1>8, <1>9, <3>1, <3>2
  <2>3. Covers(G, w + 1)
    <3>1. \A c \in G : call[c].at = "victims" => call[c].saw <= w + 1
      BY <1>7
    <3> QED BY <2>2, <3>1 DEF Covers
  <2>4. Cardinality(Ids) <= InboxCap + (w + 1) + Cardinality(Owing \ G)
    BY <1>5, <2>3 DEF BoundInv
  <2>5. Owing' \ F = Owing \ G
    BY <1>5
  <2>6. Cardinality(Ids) - 1 <= InboxCap + w + Cardinality(Owing \ G)
    BY <1>8, <2>4, InboxAssumption
  <2> QED BY <2>1, <2>5, <2>6
<1>11. CASE v \notin Ids
  <2>1. Ids' = Ids /\ Doomed(G) \in SUBSET Doomed(F)'
    BY <1>3, <1>6, <1>11
  <2>2. Cardinality(Doomed(G)) <= w
    <3>1. Cardinality(Doomed(G)) <= Cardinality(Doomed(F)')
      BY <1>8, <2>1, FS_Subset
    <3> QED BY <1>8, <1>9, <3>1
  <2>3. Cardinality(Ids) <= InboxCap + w + Cardinality(Owing \ G)
    BY <1>5, <1>7, <2>2 DEF Covers, BoundInv
  <2> QED BY <1>5, <2>1, <2>3
<1> QED BY <1>10, <1>11

(* A statement of a send.                                                  *)
LEMMA BoundOfSend ==
    ASSUME CallsInv, InboxInv, CountsInv, BoundInv, CountsInv', OpsStay,
           NEW d \in Sends, CallStep(d), GoesOn(d),
           NEW F \in SUBSET Evicting', NEW w \in Nat, Covers(F, w)'
    PROVE  Cardinality(Ids') <= InboxCap + w + Cardinality(Owing' \ F)
<1>1. /\ Sends' = Sends /\ d \in DOMAIN call /\ IsA("send", d)
      /\ \A c \in Sends : c # d => call'[c] = call[c]
      /\ F \subseteq Sends
  BY SendsStay DEF Sends, The, Evicting
<1>2. Null # "THROWN" /\ Null # "ok" /\ Null # "RATE_LIMITED"
  BY CallsAssumption DEF Answers
<1>3. call[d].answer = Null <=> call[d].at # "end"
  BY <1>1 DEF CallsInv
<1>4. \A c \in F : c # d => c \in Evicting /\ call'[c] = call[c]
  BY <1>1 DEF Evicting
<1>5. call[d].at # "end"
  BY DEF GoesOn
<1> DEFINE Owes(c) == call[c].answer = "THROWN" \/ call[c].at \in {"count", "victims", "evict"}
<1>6. /\ \A c : c \in Owing <=> c \in Sends /\ Owes(c)
      /\ \A c : c \in Owing' <=> c \in Sends /\ Owes(c)'
  BY <1>1 DEF Owing
<1>7. \A c : c \in Sends /\ c # d => (Owes(c)' <=> Owes(c))
  BY <1>1
<1>8. ASSUME inbox' = inbox, Owes(d) => Owes(d)', d \notin F
      PROVE  Cardinality(Ids') <= InboxCap + w + Cardinality(Owing' \ F)
  <2>1. Ids' = Ids
    BY <1>8 DEF Ids
  <2>2. Owing \subseteq Owing'
    <3> HIDE DEF Owes
    <3> QED BY <1>6, <1>7, <1>8
  <2>3. F \in SUBSET Evicting /\ \A c \in F : call'[c] = call[c]
    BY <1>4, <1>8
  <2> QED BY <2>1, <2>2, <2>3, BoundStays
<1>9. ASSUME inbox' = inbox, NEW answer, Settles(d, answer), Len(inbox) <= InboxCap
      PROVE  Cardinality(Ids') <= InboxCap + w + Cardinality(Owing' \ F)
  <2>1. Cardinality(Ids') <= InboxCap + w
    <3>1. Ids' = Ids /\ Cardinality(Ids) = Len(inbox) /\ Len(inbox) \in Nat
      BY <1>9 DEF Ids, CountsInv
    <3> QED BY <1>9, <3>1, InboxAssumption
  <2> QED BY <2>1, BoundHolds
<1>10. CASE inbox' = inbox /\ Settles(d, "THROWN")
  <2>1. Owes(d)' /\ d \notin F
    BY <1>10 DEF Settles, Evicting
  <2> HIDE DEF Owes
  <2> QED BY <1>8, <1>10, <2>1
<1>11. CASE /\ call[d].at = "begin" /\ inbox' = inbox
            /\ Settles(d, "RATE_LIMITED") \/ Proceeds(d, "row", Null)
  <2>1. ~Owes(d) /\ d \notin F
    BY <1>2, <1>3, <1>11 DEF Settles, Proceeds, Evicting
  <2> HIDE DEF Owes
  <2> QED BY <1>8, <1>11, <2>1
<1>12. CASE /\ call[d].at = "row" /\ Proceeds(d, "count", Null)
            /\ inbox' = Append(inbox, [id |-> d, read |-> FALSE])
  <2>1. d \notin Ids
    BY <1>12 DEF InboxInv
  <2>0. d \in Nat
    BY <1>1, SendsStay
  <2>2. Ids' = Ids \cup {d}
    BY <1>12, <2>0, <2>1, RowAdded
  <2>3. ~Owes(d) /\ Owes(d)' /\ d \notin F
    BY <1>2, <1>3, <1>12 DEF Proceeds, Evicting
  <2> HIDE DEF Owes
  <2>4. d \notin Owing /\ Owing' = Owing \cup {d}
    BY <1>1, <1>6, <1>7, <2>3
  <2>5. F \in SUBSET Evicting /\ \A c \in F : call'[c] = call[c]
    BY <1>4, <2>3
  <2> QED BY <2>2, <2>3, <2>4, <2>5, BoundStays
<1>13. CASE /\ call[d].at = "count" /\ inbox' = inbox
            /\ LET over == Len(inbox) - InboxCap IN
               IF over <= 0 THEN Settles(d, "ok") ELSE Proceeds(d, "victims", over)
  <2>1. Len(inbox) \in Nat /\ InboxCap \in Nat
    BY InboxAssumption DEF CountsInv
  <2>2. CASE Len(inbox) <= InboxCap
    <3>1. Len(inbox) - InboxCap <= 0
      BY <2>1, <2>2
    <3>2. Settles(d, "ok")
      BY <1>13, <3>1
    <3> QED BY <1>9, <1>13, <2>2, <3>2
  <2>3. CASE ~(Len(inbox) <= InboxCap)
    <3>1. Proceeds(d, "victims", Len(inbox) - InboxCap)
      BY <1>13, <2>1, <2>3
    <3>2. CASE d \in F
      <4>1. Len(inbox) - InboxCap <= w
        BY <3>1, <3>2 DEF Proceeds, Covers
      <4>2. Ids' = Ids /\ Cardinality(Ids) = Len(inbox)
        BY <1>13 DEF Ids, CountsInv
      <4>3. Cardinality(Ids') <= InboxCap + w
        BY <2>1, <4>1, <4>2
      <4> QED BY <4>3, BoundHolds
    <3>3. CASE d \notin F
      <4>1. Owes(d)'
        BY <3>1 DEF Proceeds
      <4> HIDE DEF Owes
      <4> QED BY <1>8, <1>13, <3>3, <4>1
    <3> QED BY <3>2, <3>3
  <2> QED BY <2>2, <2>3
<1>14. CASE /\ call[d].at = "victims" /\ inbox' = inbox
            /\ LET victims == Victims(call[d].saw) IN
               IF victims = <<>> THEN Settles(d, "ok") ELSE Proceeds(d, "evict", victims)
  <2>1. PICK v : v = Victims(call[d].saw)
    OBVIOUS
  <2>2. IF v = <<>> THEN Settles(d, "ok") ELSE Proceeds(d, "evict", v)
    BY <1>14, <2>1
  <2>3. call[d].saw \in Nat \ {0}
    BY <1>14 DEF InboxInv
  <2>4. Len(v) = IF call[d].saw < Len(inbox) THEN call[d].saw ELSE Len(inbox)
    BY <2>1, <2>3, VictimsAreFirst
  <2>5. CASE v = <<>>
    <3>1. Len(v) = 0
      BY <2>5
    <3>2. Len(inbox) <= InboxCap
      BY <2>3, <2>4, <3>1, InboxAssumption DEF CountsInv
    <3> QED BY <1>9, <1>14, <2>2, <2>5, <3>2
  <2>6. CASE v # <<>>
    <3>1. Proceeds(d, "evict", v) /\ Owes(d) /\ Owes(d)'
      BY <1>14, <2>2, <2>6 DEF Proceeds
    <3>2. CASE d \notin F
      <4> HIDE DEF Owes
      <4> QED BY <1>8, <1>14, <3>1, <3>2
    <3>3. CASE d \in F
      <4>1. Owing' = Owing
        <5> HIDE DEF Owes
        <5> QED BY <1>6, <1>7, <3>1
      <4>2. F \in SUBSET Evicting
        BY <1>4, <1>14 DEF Evicting
      <4> QED BY <1>1, <1>14, <2>1, <3>1, <3>3, <4>1, <4>2, BoundChosen
    <3> QED BY <3>2, <3>3
  <2> QED BY <2>5, <2>6
<1>15. CASE /\ call[d].at = "evict"
            /\ inbox' = Without(Head(call[d].saw))
            /\ LET left == Tail(call[d].saw) IN
               IF left = <<>> THEN Settles(d, "ok") ELSE Proceeds(d, "evict", left)
  <2>1. Ids' = Ids \ {Head(call[d].saw)}
    BY <1>15, RowDeleted
  <2>2. PICK left : left = Tail(call[d].saw)
    OBVIOUS
  <2>3. IF left = <<>> THEN Settles(d, "ok") ELSE Proceeds(d, "evict", left)
    BY <1>15, <2>2
  <2>4. /\ Owes(d) /\ (left = <<>> => ~Owes(d)' /\ d \notin F)
        /\ left # <<>> => Owes(d)'
    BY <1>2, <1>15, <2>3 DEF Settles, Proceeds, Evicting
  <2>5. Owing' = IF left = <<>> THEN Owing \ {d} ELSE Owing
    <3> HIDE DEF Owes
    <3> QED BY <1>6, <1>7, <2>4
  <2>6. F \in SUBSET Evicting
    BY <1>4, <1>15 DEF Evicting
  <2> QED BY <1>1, <1>15, <2>1, <2>2, <2>3, <2>4, <2>5, <2>6, BoundDeleted
<1> QED BY <1>1, <1>10, <1>11, <1>12, <1>13, <1>14, <1>15, SendGoesTo

(* Whatever the sends have counted and chosen, the surplus is theirs.      *)
LEMMA BoundInvariant == Spec => []BoundInv
<1>1. Init => BoundInv
  <2> SUFFICES ASSUME Init, NEW F \in SUBSET Evicting, NEW w \in Nat
               PROVE  Cardinality(Ids) <= InboxCap + w + Cardinality(Owing \ F)
    BY DEF BoundInv
  <2>1. inbox = <<>> /\ DOMAIN call = {}
    BY DEF Init, CallsInit, InboxInit
  <2>2. Ids = {} /\ Owing \ F = {}
    BY <2>1 DEF Ids, Owing, Sends, The
  <2> QED BY <2>2, FS_EmptySet, InboxAssumption
<1>2. CallsInv /\ InboxInv /\ CountsInv /\ CountsInv' /\ BoundInv /\ [Next]_vars => BoundInv'
  <2> SUFFICES ASSUME CallsInv, InboxInv, CountsInv, CountsInv', BoundInv, [Next]_vars,
                      NEW F \in SUBSET Evicting', NEW w \in Nat, Covers(F, w)'
               PROVE  Cardinality(Ids') <= InboxCap + w + Cardinality(Owing' \ F)
    BY DEF BoundInv
  <2>1. CASE UNCHANGED <<call, inbox>>
    <3>1. Ids' = Ids /\ Owing' = Owing /\ Evicting' = Evicting
      BY <2>1 DEF Ids, Owing, Evicting, Sends, The, IsA
    <3>2. \A c \in F : call'[c] = call[c]
      BY <2>1
    <3> QED BY <3>1, <3>2, BoundStays
  <2>2. ASSUME NEW n, Begins(n), inbox' = inbox
        PROVE  Cardinality(Ids') <= InboxCap + w + Cardinality(Owing' \ F)
    <3>1. /\ \A c \in Sends : c \in Sends' /\ call'[c] = call[c]
          /\ \A c \in Sends' : c \in Sends \/ call'[c].at = "begin"
      BY <2>2 DEF Begins, Sends, The, IsA
    <3>2. Ids' = Ids
      BY <2>2 DEF Ids
    <3>3. F \in SUBSET Evicting /\ \A c \in F : call'[c] = call[c]
      BY <3>1 DEF Evicting
    <3>4. Owing \subseteq Owing'
      BY <3>1 DEF Owing
    <3> QED BY <3>2, <3>3, <3>4, BoundStays
  <2>3. ASSUME NEW d \in DOMAIN call, CallStep(d), GoesOn(d), OpsStay
        PROVE  Cardinality(Ids') <= InboxCap + w + Cardinality(Owing' \ F)
    <3>1. CASE d \in Sends
      BY <2>3, <3>1, BoundOfSend
    <3>2. CASE d \notin Sends
      <4>1. Ids' = Ids
        <5>1. CASE inbox' = inbox
          BY <5>1 DEF Ids
        <5>2. CASE MarkAllRead(d)
          BY <5>2, RowsRead
        <5> QED BY <2>3, <3>2, <5>1, <5>2, SendsStay, OthersLeaveInbox
      <4>2. Sends' = Sends /\ \A c \in Sends : call'[c] = call[c]
        BY <2>3, <3>2, SendsStay
      <4>3. F \in SUBSET Evicting /\ \A c \in F : call'[c] = call[c]
        BY <4>2 DEF Evicting
      <4>4. Owing \subseteq Owing'
        BY <4>2 DEF Owing
      <4> QED BY <4>1, <4>3, <4>4, BoundStays
    <3> QED BY <3>1, <3>2
  <2> QED BY <2>1, <2>2, <2>3, StepCases
<1> QED BY <1>1, <1>2, CallsInvariant, InboxInvariant, CountsInvariant, PTL DEF Spec

(* An inbox has no more rows than its cap and those of sends that are not  *)
(* done, or threw, whichever way evictions overlap (message-service.ts:42). *)
THEOREM InboxIsBounded == Spec => []InboxBounded
<1>1. CallsInv /\ CountsInv /\ BoundInv => InboxBounded
  <2> SUFFICES ASSUME CallsInv, CountsInv, BoundInv
               PROVE  InboxBounded
    OBVIOUS
  <2> DEFINE Under == {c \in Sends : call[c].answer \in {Null, "THROWN"}}
  <2>1. Owing \ {} \in SUBSET Under
    BY DEF Owing, CallsInv, Sends, The
  <2>2. IsFiniteSet(Under)
    <3>1. DOMAIN call = 1 .. Len(call) /\ Len(call) \in Nat
      BY DEF CallsInv, IsSequence
    <3>2. Under \in SUBSET (1 .. Len(call)) /\ IsFiniteSet(1 .. Len(call))
      BY <3>1, FS_Interval DEF Sends, The
    <3> QED BY <3>2, FS_Subset
  <2> HIDE DEF Under
  <2>3. Cardinality(Owing \ {}) <= Cardinality(Under)
        /\ Cardinality(Under) \in Nat /\ Cardinality(Owing \ {}) \in Nat
    BY <2>1, <2>2, FS_Subset, FS_CardinalityType
  <2>4. Covers({}, 0)
    BY FS_EmptySet DEF Covers, Doomed
  <2>5. Cardinality(Ids) <= InboxCap + 0 + Cardinality(Owing \ {})
    BY <2>4 DEF BoundInv
  <2>6. Cardinality(Ids) = Len(inbox) /\ Len(inbox) \in Nat
    BY DEF CountsInv
  <2>7. Len(inbox) <= InboxCap + Cardinality(Under)
    BY <2>3, <2>5, <2>6, InboxAssumption
  <2> QED BY <2>7 DEF InboxBounded, Under
<1> QED BY <1>1, CallsInvariant, CountsInvariant, BoundInvariant, PTL

(* Sends and reads of the inbox, none of which overlaps another.           *)
Readers == Sends \cup The("markAllRead")

OneByOne == \A c \in Readers : Alone(c, Readers)

(* The ids are of these rows, each is there once, and before that of an    *)
(* unread row there are those of all that are read.                        *)
InOrder(rows, ids) ==
    /\ \A k, m \in DOMAIN ids : ids[k] = ids[m] => k = m
    /\ \A k \in DOMAIN ids :
          \E r \in rows :
             /\ r.id = ids[k]
             /\ \A q \in rows : q.read /\ ~r.read => \E m \in 1 .. k - 1 : q.id = ids[m]

(* What is still to be deleted is the surplus, in that order.              *)
Orderly(c) ==
    /\ call[c].at = "victims" => call[c].saw = Len(inbox) - InboxCap
    /\ call[c].at = "evict" =>
          /\ Len(inbox) = InboxCap + Len(call[c].saw)
          /\ InOrder(Rows, call[c].saw)

OrderlyInv == OneByOne => \A c \in Sends : Orderly(c)

(* Who overlaps now has overlapped for ever.                               *)
LEMMA OneByOneBefore ==
    ASSUME OpsStay, OneByOne'
    PROVE  OneByOne
<1>1. \A c \in Readers : c \in Readers' /\ c \in DOMAIN call
  BY DEF Readers, Sends, The, IsA, OpsStay
<1> QED BY <1>1 DEF OneByOne, Alone, Overlap, OpsStay

(* Of those that do not overlap, one is under way.                         *)
LEMMA OneRuns ==
    ASSUME CallsInv, OneByOne, NEW c \in Readers, NEW d \in Readers, Running(c), Running(d)
    PROVE  c = d
<1>1. c \in DOMAIN call /\ d \in DOMAIN call
  BY DEF Readers, Sends, The
<1> QED BY <1>1, RunningOverlap DEF OneByOne, Alone

(* Without the first of them the others are in order still.                *)
LEMMA TailInOrder ==
    ASSUME NEW rows, NEW ids \in Seq(Nat), ids # <<>>, InOrder(rows, ids)
    PROVE  InOrder({r \in rows : r.id # Head(ids)}, Tail(ids))
<1> DEFINE left == Tail(ids)
           rest == {r \in rows : r.id # Head(ids)}
<1>1. Len(ids) \in Nat \ {0} /\ DOMAIN ids = 1 .. Len(ids) /\ Head(ids) = ids[1]
  OBVIOUS
<1>2. /\ left \in Seq(Nat) /\ Len(left) = Len(ids) - 1
      /\ \A k \in 1 .. Len(left) : left[k] = ids[k + 1]
  BY HeadTailProperties
<1>3. \A r : r \in rest <=> r \in rows /\ r.id # ids[1]
  BY <1>1
<1> HIDE DEF left, rest
<1>4. DOMAIN left = 1 .. Len(ids) - 1
  BY <1>1, <1>2
<1>5. /\ \A k \in 1 .. Len(ids) - 1 :
           k + 1 \in DOMAIN ids /\ k + 1 # 1 /\ left[k] = ids[k + 1]
      /\ 1 \in DOMAIN ids
  <2>1. \A k \in 1 .. Len(ids) - 1 : k + 1 \in 1 .. Len(ids) /\ k + 1 # 1 /\ k \in 1 .. Len(left)
    BY <1>1, <1>2
  <2> QED BY <1>1, <1>2, <2>1
<1>6. \A k, m \in DOMAIN left : left[k] = left[m] => k = m
  <2> SUFFICES ASSUME NEW k \in 1 .. Len(ids) - 1, NEW m \in 1 .. Len(ids) - 1,
                      left[k] = left[m]
               PROVE  k = m
    BY <1>4
  <2>1. k + 1 = m + 1
    BY <1>5 DEF InOrder
  <2> QED BY <2>1
<1>7. ASSUME NEW k \in DOMAIN left
      PROVE  \E r \in rest :
                /\ r.id = left[k]
                /\ \A q \in rest : q.read /\ ~r.read => \E m \in 1 .. k - 1 : q.id = left[m]
  <2>1. /\ k \in 1 .. Len(ids) - 1 /\ k + 1 \in DOMAIN ids /\ k + 1 # 1
        /\ left[k] = ids[k + 1]
    BY <1>4, <1>5
  <2>2. PICK r \in rows :
          /\ r.id = ids[k + 1]
          /\ \A q \in rows : q.read /\ ~r.read => \E m \in 1 .. k + 1 - 1 : q.id = ids[m]
    BY <2>1 DEF InOrder
  <2>3. r.id # ids[1]
    BY <1>5, <2>1, <2>2 DEF InOrder
  <2>4. ASSUME NEW q \in rest, q.read, ~r.read
        PROVE  \E m \in 1 .. k - 1 : q.id = left[m]
    <3>1. PICK m \in 1 .. k + 1 - 1 : q.id = ids[m]
      BY <1>3, <2>2, <2>4
    <3>2. m # 1 /\ m \in 1 .. k
      BY <1>3, <2>1, <3>1
    <3>3. m - 1 \in 1 .. k - 1 /\ m - 1 \in 1 .. Len(ids) - 1 /\ m - 1 + 1 = m
      BY <1>1, <2>1, <3>2
    <3>4. left[m - 1] = ids[m]
      BY <1>5, <3>3
    <3> QED BY <3>1, <3>3, <3>4
  <2>5. r \in rest /\ r.id = left[k]
    BY <1>3, <2>1, <2>2, <2>3
  <2> QED BY <2>4, <2>5
<1>8. InOrder(rest, left)
  BY <1>6, <1>7 DEF InOrder
<1> QED BY <1>8 DEF rest, left

(* The first victim goes: the others are there still.                      *)
LEMMA OrderlyDeleted ==
    ASSUME CountsInv, CountsInv', NEW d \in Sends, call[d].at = "evict", Orderly(d),
           call[d].saw \in Seq(Nat), call[d].saw # <<>>,
           Rows' = {r \in Rows : r.id # Head(call[d].saw)},
           Ids' = Ids \ {Head(call[d].saw)},
           call'[d].at = "evict", call'[d].saw = Tail(call[d].saw)
    PROVE  Orderly(d)'
<1> DEFINE saw == call[d].saw
<1>1. /\ saw \in Seq(Nat) /\ saw # <<>> /\ Len(saw) \in Nat /\ Head(saw) = saw[1]
      /\ Len(Tail(saw)) = Len(saw) - 1 /\ 1 \in DOMAIN saw
  OBVIOUS
<1>2. Len(inbox) = InboxCap + Len(saw) /\ InOrder(Rows, saw)
  BY DEF Orderly
<1>3. Ids' = Ids \ {Head(saw)} /\ Rows' = {r \in Rows : r.id # Head(saw)}
      /\ call'[d].at = "evict" /\ call'[d].saw = Tail(saw)
  OBVIOUS
<1> HIDE DEF saw
<1>4. Len(inbox') = InboxCap + Len(Tail(saw))
  <2>1. Head(saw) \in Ids
    <3>1. PICK r \in Rows : r.id = saw[1]
      BY <1>1, <1>2 DEF InOrder
    <3> QED BY <1>1, <3>1 DEF Rows, Ids
  <2>2. Cardinality(Ids \ {Head(saw)}) = Cardinality(Ids) - 1
    BY <2>1, FS_RemoveElement DEF CountsInv
  <2>3. Len(inbox') = Len(inbox) - 1
    BY <1>3, <2>2 DEF CountsInv
  <2> QED BY <1>1, <1>2, <2>3, InboxAssumption
<1>5. InOrder(Rows', Tail(saw))
  BY <1>1, <1>2, <1>3, TailInOrder
<1> QED BY <1>3, <1>4, <1>5 DEF Orderly

(* A statement of a send that nothing overlaps.                            *)
LEMMA OrderlyOfSend ==
    ASSUME CallsInv, InboxInv, CountsInv, CountsInv', NEW d \in Sends, Orderly(d),
           CallStep(d), GoesOn(d)
    PROVE  Orderly(d)'
<1>1. d \in DOMAIN call /\ IsA("send", d) /\ Len(inbox) \in Nat /\ InboxCap \in Nat
  BY InboxAssumption DEF Sends, The, CountsInv
<1>2. ASSUME call'[d].at \notin {"victims", "evict"}
      PROVE  Orderly(d)'
  BY <1>2 DEF Orderly
<1>3. CASE inbox' = inbox /\ Settles(d, "THROWN")
  BY <1>2, <1>3 DEF Settles
<1>4. CASE /\ call[d].at = "begin" /\ inbox' = inbox
           /\ Settles(d, "RATE_LIMITED") \/ Proceeds(d, "row", Null)
  BY <1>2, <1>4 DEF Settles, Proceeds
<1>5. CASE /\ call[d].at = "row" /\ Proceeds(d, "count", Null)
           /\ inbox' = Append(inbox, [id |-> d, read |-> FALSE])
  BY <1>2, <1>5 DEF Proceeds
<1>6. CASE /\ call[d].at = "count" /\ inbox' = inbox
           /\ LET over == Len(inbox) - InboxCap IN
              IF over <= 0 THEN Settles(d, "ok") ELSE Proceeds(d, "victims", over)
  BY <1>1, <1>2, <1>6 DEF Settles, Proceeds, Orderly
<1>7. CASE /\ call[d].at = "victims" /\ inbox' = inbox
           /\ LET victims == Victims(call[d].saw) IN
              IF victims = <<>> THEN Settles(d, "ok") ELSE Proceeds(d, "evict", victims)
  <2> DEFINE over == call[d].saw
             v == Victims(over)
  <2>1. over \in Nat \ {0} /\ over = Len(inbox) - InboxCap
    BY <1>7 DEF InboxInv, Orderly
  <2>2. IF v = <<>> THEN Settles(d, "ok") ELSE Proceeds(d, "evict", v)
    BY <1>7
  <2> HIDE DEF over
  <2>3. /\ v \in Seq(Nat)
        /\ Len(v) = IF over < Len(inbox) THEN over ELSE Len(inbox)
        /\ InOrder(Rows, v)
    BY <2>1, VictimsAreFirst DEF InOrder
  <2> HIDE DEF v
  <2>4. Len(inbox) = InboxCap + Len(v)
    BY <1>1, <2>1, <2>3
  <2>5. Rows' = Rows
    BY <1>7 DEF Rows
  <2>6. CASE v = <<>>
    BY <1>2, <2>2, <2>6 DEF Settles
  <2>7. CASE v # <<>>
    <3>1. call'[d].at = "evict" /\ call'[d].saw = v
      BY <2>2, <2>7 DEF Proceeds
    <3> QED BY <1>7, <2>3, <2>4, <2>5, <3>1 DEF Orderly
  <2> QED BY <2>6, <2>7
<1>8. CASE /\ call[d].at = "evict"
           /\ inbox' = Without(Head(call[d].saw))
           /\ LET left == Tail(call[d].saw) IN
              IF left = <<>> THEN Settles(d, "ok") ELSE Proceeds(d, "evict", left)
  <2>1. call[d].saw \in Seq(Nat) /\ call[d].saw # <<>>
    BY <1>8 DEF InboxInv
  <2>2. /\ Rows' = {r \in Rows : r.id # Head(call[d].saw)}
        /\ Ids' = Ids \ {Head(call[d].saw)}
    BY <1>8, RowDeleted
  <2>3. PICK left : left = Tail(call[d].saw)
    OBVIOUS
  <2>4. IF left = <<>> THEN Settles(d, "ok") ELSE Proceeds(d, "evict", left)
    BY <1>8, <2>3
  <2>5. CASE left = <<>>
    BY <1>2, <2>4, <2>5 DEF Settles
  <2>6. CASE left # <<>>
    <3>1. call'[d].at = "evict" /\ call'[d].saw = Tail(call[d].saw)
      BY <2>3, <2>4, <2>6 DEF Proceeds
    <3> QED BY <1>8, <2>1, <2>2, <3>1, OrderlyDeleted
  <2> QED BY <2>5, <2>6
<1> QED BY <1>1, <1>3, <1>4, <1>5, <1>6, <1>7, <1>8, SendGoesTo

(* A send that nothing overlaps evicts the surplus it has counted.         *)
LEMMA OrderlyInvariant == Spec => []OrderlyInv
<1>1. Init => OrderlyInv
  BY DEF Init, CallsInit, OrderlyInv, Sends, The
<1>2. CallsInv /\ InboxInv /\ CountsInv /\ CountsInv' /\ OrderlyInv /\ [Next]_vars => OrderlyInv'
  <2> SUFFICES ASSUME CallsInv, InboxInv, CountsInv, CountsInv', OrderlyInv, [Next]_vars,
                      OneByOne', NEW c \in Sends'
               PROVE  Orderly(c)'
    BY DEF OrderlyInv
  <2>1. OpsStay /\ OneByOne /\ \A e \in Sends : Orderly(e)
    BY StepCases, OneByOneBefore DEF OrderlyInv
  <2>2. ASSUME c \in Sends, call'[c] = call[c], inbox' = inbox
        PROVE  Orderly(c)'
    <3>1. Rows' = Rows /\ Len(inbox') = Len(inbox)
      BY <2>2 DEF Rows
    <3>2. Orderly(c)
      BY <2>1, <2>2
    <3> QED BY <2>2, <3>1, <3>2 DEF Orderly
  <2>3. CASE UNCHANGED <<call, inbox>>
    <3>1. c \in Sends
      BY <2>3 DEF Sends, The, IsA
    <3> QED BY <2>2, <2>3, <3>1
  <2>4. ASSUME NEW n, Begins(n), inbox' = inbox
        PROVE  Orderly(c)'
    <3>1. \/ c \in Sends /\ call'[c] = call[c]
          \/ call'[c].at = "begin"
      BY <2>4 DEF Begins, Sends, The, IsA
    <3>2. CASE call'[c].at = "begin"
      BY <3>2 DEF Orderly
    <3> QED BY <2>2, <2>4, <3>1, <3>2
  <2>5. ASSUME NEW d \in DOMAIN call, CallStep(d), GoesOn(d)
        PROVE  Orderly(c)'
    <3>1. c \in Sends /\ (c # d => call'[c] = call[c])
      BY <2>1, <2>5, SendsStay
    <3>2. CASE c = d
      BY <2>1, <2>5, <3>1, <3>2, OrderlyOfSend
    <3>3. CASE c # d /\ ~Running(c)
      BY <3>1, <3>3 DEF Running, Orderly
    <3>4. CASE c # d /\ Running(c)
      <4>1. d \notin Readers
        BY <2>1, <2>5, <3>1, <3>4, OneRuns DEF Readers, GoesOn, Running
      <4>2. ~IsA("send", d) /\ ~IsA("markAllRead", d)
        BY <4>1 DEF Readers, Sends, The
      <4>3. inbox' = inbox
        BY <2>5, <4>2, OthersLeaveInbox DEF MarkAllRead, At
      <4> QED BY <2>2, <3>1, <3>4, <4>3
    <3> QED BY <3>2, <3>3, <3>4
  <2> QED BY <2>3, <2>4, <2>5, StepCases
<1> QED BY <1>1, <1>2, CallsInvariant, InboxInvariant, CountsInvariant, PTL DEF Spec

(* When sends and reads come one by one, a row goes only from an inbox     *)
(* above its cap, and an unread one only when no row is read               *)
(* (message-service.ts:46).                                                *)
THEOREM EvictionIsSparing == Spec => EvictsNoMore
<1> DEFINE Step ==
      \A i \in DOMAIN inbox :
        LET others == Sends \cup The("markAllRead") IN
        (\A c \in others : Alone(c, others))
            /\ (\A j \in DOMAIN inbox' : inbox'[j].id # inbox[i].id)
        => /\ Len(inbox) > InboxCap
           /\ inbox[i].read \/ \A j \in DOMAIN inbox : ~inbox[j].read
<1>1. CallsInv /\ InboxInv /\ CountsInv /\ OrderlyInv /\ [Next]_vars => [Step]_vars
  <2> SUFFICES ASSUME CallsInv, InboxInv, OrderlyInv, CountsInv, [Next]_vars, OneByOne,
                      NEW i \in DOMAIN inbox,
                      \A j \in DOMAIN inbox' : inbox'[j].id # inbox[i].id
               PROVE  /\ Len(inbox) > InboxCap
                      /\ inbox[i].read \/ \A j \in DOMAIN inbox : ~inbox[j].read
    BY DEF OneByOne, Readers
  <2>1. inbox' # inbox
    OBVIOUS
  <2>2. PICK d \in DOMAIN call : CallStep(d) /\ GoesOn(d) /\ OpsStay
    BY <2>1, StepCases
  <2>3. d \in Sends /\ IsA("send", d)
    BY <2>1, <2>2, SendsStay, OthersLeaveInbox, RowsRead
  <2>4. ~(inbox' = Append(inbox, [id |-> d, read |-> FALSE]) /\ call[d].at = "row")
    BY <2>2, <2>3, RowAdded, SendsStay DEF InboxInv
  <2>5. call[d].at = "evict" /\ inbox' = Without(Head(call[d].saw))
    BY <2>1, <2>2, <2>3, <2>4, SendGoesTo
  <2>6. /\ call[d].saw \in Seq(Nat) /\ call[d].saw # <<>> /\ Orderly(d)
        /\ \A j, k \in DOMAIN inbox : inbox[j].id = inbox[k].id => j = k
    BY <2>3, <2>5 DEF InboxInv, OrderlyInv
  <2> DEFINE saw == call[d].saw
  <2>7. 1 \in DOMAIN saw /\ Head(saw) = saw[1] /\ Len(saw) \in Nat \ {0}
    BY <2>6
  <2>8. Ids' = Ids \ {Head(saw)}
    BY <2>5, RowDeleted
  <2>9. inbox[i].id = saw[1]
    <3>1. inbox[i].id \in Ids /\ inbox[i].id \notin Ids'
      BY DEF Ids
    <3> QED BY <2>7, <2>8, <3>1
  <2>10. /\ Len(inbox) = InboxCap + Len(saw)
         /\ \E r \in Rows : /\ r.id = saw[1]
                            /\ \A q \in Rows : q.read /\ ~r.read =>
                                  \E m \in 1 .. 1 - 1 : q.id = saw[m]
    BY <2>5, <2>6, <2>7 DEF Orderly, InOrder
  <2> HIDE DEF saw
  <2>11. PICK r \in Rows : r.id = saw[1] /\ \A q \in Rows : ~(q.read /\ ~r.read)
    BY <2>10
  <2>12. r = inbox[i]
    BY <2>6, <2>9, <2>11 DEF Rows
  <2>13. \A j \in DOMAIN inbox : inbox[j] \in Rows
    BY DEF Rows
  <2> QED BY <2>7, <2>10, <2>11, <2>12, <2>13, InboxAssumption
<1> QED BY <1>1, CallsInvariant, InboxInvariant, CountsInvariant, OrderlyInvariant, PTL
        DEF Spec, EvictsNoMore

(***************************************************************************)
(* The game of module Arcade, for every board and set of lines.            *)
(***************************************************************************)
Boards == [Cells -> 0 .. 2]

GameTypeOK ==
    board \in Boards /\ turn \in {1, 2} /\ winner \in 0 .. 3 /\ moves \in Nat

GameInv == GameTypeOK /\ GameDecided

(* A board is full when there are as many marks as cells                   *)
(* (templates.ts:192).                                                     *)
LEMMA FullWhenCounted ==
    ASSUME NEW b \in Boards
    PROVE  /\ \A mark \in {1, 2} : /\ IsFiniteSet(Marked(mark, b))
                                   /\ Cardinality(Marked(mark, b)) \in Nat
           /\ Marked(0, b) = {} <=>
                Cardinality(Marked(1, b)) + Cardinality(Marked(2, b)) = Cardinality(Cells)
<1> DEFINE Both == Marked(1, b) \cup Marked(2, b)
<1>1. IsFiniteSet(Marked(1, b)) /\ IsFiniteSet(Marked(2, b)) /\ IsFiniteSet(Cells)
  <2>1. Marked(1, b) \subseteq Cells /\ Marked(2, b) \subseteq Cells
    BY DEF Marked
  <2> QED
    BY <2>1, FS_Subset, GameAssumption DEF GameAssumption
<1>2. Marked(1, b) \cap Marked(2, b) = {}
  BY DEF Marked
<1>3. /\ Cardinality(Marked(1, b)) \in Nat /\ Cardinality(Marked(2, b)) \in Nat
      /\ Cardinality({}) = 0
  BY <1>1, FS_CardinalityType, FS_EmptySet
<1>4. Cardinality(Both) = Cardinality(Marked(1, b)) + Cardinality(Marked(2, b))
  <2>1. Cardinality(Both) = Cardinality(Marked(1, b)) + Cardinality(Marked(2, b))
                              - Cardinality(Marked(1, b) \cap Marked(2, b))
    BY <1>1, FS_Union
  <2>2. Cardinality(Marked(1, b) \cap Marked(2, b)) = 0
    BY <1>2, <1>3
  <2> HIDE DEF Both
  <2> QED
    BY <2>1, <2>2, <1>3
<1>5. Both \subseteq Cells
  BY DEF Marked
<1>6. Cardinality(Both) = Cardinality(Cells) <=> Both = Cells
  BY <1>1, <1>5, FS_Subset
<1>7. Both = Cells <=> Marked(0, b) = {}
  BY DEF Marked, Boards
<1> QED
  BY <1>1, <1>3, <1>4, <1>6, <1>7

(* A move gives one cell to the mark that makes it, and changes no line of *)
(* the other.                                                              *)
LEMMA MoveAddsOne ==
    ASSUME NEW b \in Boards, NEW cell \in Cells, b[cell] = 0, NEW mark \in {1, 2},
           NEW other \in {1, 2}, other # mark,
           NEW after \in Boards,
           \A x \in Cells : after[x] = IF x = cell THEN mark ELSE b[x]
    PROVE  /\ Cardinality(Marked(mark, after)) = Cardinality(Marked(mark, b)) + 1
           /\ Marked(other, after) = Marked(other, b)
           /\ HasLine(other, after) <=> HasLine(other, b)
<1>2. Marked(mark, after) = Marked(mark, b) \cup {cell} /\ cell \notin Marked(mark, b)
  BY DEF Marked, Boards
<1>3. Cardinality(Marked(mark, after)) = Cardinality(Marked(mark, b)) + 1
  <2>1. IsFiniteSet(Marked(mark, b))
    BY FullWhenCounted
  <2> QED
    BY <1>2, <2>1, FS_AddElement
<1>4. Marked(other, after) = Marked(other, b)
  BY DEF Marked, Boards
<1>5. \A line \in Lines : Owns(other, line, after) <=> Owns(other, line, b)
  BY GameAssumption DEF Owns, GameAssumption, Boards
<1>6. HasLine(other, after) <=> HasLine(other, b)
  BY <1>5 DEF HasLine
<1> QED
  BY <1>3, <1>4, <1>6

-----------------------------------------------------------------------------
(* An empty board has room, and neither marks nor lines.                   *)
LEMMA EmptyBoard ==
    /\ Emptied \in Boards
    /\ Marked(0, Emptied) # {}
    /\ \A mark \in {1, 2} : ~HasLine(mark, Emptied) /\ Cardinality(Marked(mark, Emptied)) = 0
<1>1. Emptied \in Boards
  BY DEF Boards, Emptied
<1>2. Marked(1, Emptied) = {} /\ Marked(2, Emptied) = {} /\ Marked(0, Emptied) # {}
  BY GameAssumption DEF Marked, Emptied, GameAssumption
<1>3. \A mark \in {1, 2} : ~HasLine(mark, Emptied)
  BY GameAssumption DEF HasLine, Owns, Emptied, GameAssumption
<1> QED
  BY <1>1, <1>2, <1>3, FS_EmptySet

(* A move keeps what the board tells.                                      *)
LEMMA MoveKeeps ==
    ASSUME GameInv, NEW cell \in Cells, Playable(cell), Moves(cell)
    PROVE  GameInv'
<1> DEFINE other == Opponent(turn)
           M(mark) == Cardinality(Marked(mark, board))
           N(mark) == Cardinality(Marked(mark, board'))
<1>1. turn \in {1, 2} /\ other \in {1, 2} /\ other # turn
  BY DEF GameInv, GameTypeOK, Opponent
<1>2. board \in Boards /\ board[cell] = 0 /\ winner = 0
      /\ board' = [board EXCEPT ![cell] = turn]
  BY DEF GameInv, GameTypeOK, Playable, Moves
<1>3. /\ board' \in Boards
      /\ N(turn) = M(turn) + 1
      /\ N(other) = M(other)
      /\ HasLine(other, board') <=> HasLine(other, board)
  <2>1. board' \in Boards
    BY <1>1, <1>2 DEF Boards
  <2>2. /\ Cardinality(Marked(turn, board')) = Cardinality(Marked(turn, board)) + 1
        /\ Marked(other, board') = Marked(other, board)
        /\ HasLine(other, board') <=> HasLine(other, board)
    <3>1. \A x \in Cells : board'[x] = IF x = cell THEN turn ELSE board[x]
      BY <1>1, <1>2 DEF Boards
    <3> HIDE DEF other
    <3>2. /\ turn \in {1, 2} /\ other \in {1, 2} /\ other # turn
          /\ board \in Boards /\ board[cell] = 0
      BY <1>1, <1>2
    <3>3. Cardinality(Marked(turn, board')) = Cardinality(Marked(turn, board)) + 1
      BY <2>1, <3>1, <3>2, MoveAddsOne
    <3>4. Marked(other, board') = Marked(other, board)
      BY <2>1, <3>1, <3>2, MoveAddsOne
    <3>5. HasLine(other, board') <=> HasLine(other, board)
      BY <2>1, <3>1, <3>2, MoveAddsOne
    <3> QED
      BY <3>3, <3>4, <3>5
  <2> QED
    BY <2>1, <2>2
<1>4. ~HasLine(other, board')
  BY <1>1, <1>2, <1>3 DEF GameInv, GameTypeOK, GameDecided
<1>5. M(1) \in Nat /\ M(2) \in Nat /\ N(1) \in Nat /\ N(2) \in Nat
  BY <1>2, <1>3, FullWhenCounted
<1>6. moves = M(1) + M(2) /\ M(1) = M(2) + (IF turn = 2 THEN 1 ELSE 0)
  BY <1>2 DEF GameInv, GameTypeOK, GameDecided
<1>7. moves' = moves + 1 /\ moves' = N(1) + N(2)
  BY <1>1, <1>3, <1>5, <1>6 DEF Moves
<1>8. Marked(0, board') = {} <=> moves' = Cardinality(Cells)
  BY <1>3, <1>7, FullWhenCounted
<1>9. CASE HasLine(turn, board')
  <2>1. Checked(board') = turn
    BY <1>1, <1>4, <1>9 DEF Checked
  <2>2. winner' = turn /\ turn' = turn
    BY <1>1, <1>2, <2>1 DEF Moves
  <2>3. \A mark \in {1, 2} : HasLine(mark, board') <=> winner' = mark
    BY <1>1, <1>4, <1>9, <2>2
  <2>4. N(1) = N(2) + (IF (turn' = 2 /\ winner' # 2) \/ winner' = 1 THEN 1 ELSE 0)
    BY <1>1, <1>3, <1>5, <1>6, <2>2
  <2>5. winner' # 3 /\ winner' # 0
    BY <1>1, <2>2
  <2> QED
    BY <1>3, <1>5, <1>7, <2>2, <2>3, <2>4, <2>5 DEF GameInv, GameTypeOK, GameDecided
<1>10. CASE ~HasLine(turn, board')
  <2>1. Checked(board') = 0
    BY <1>1, <1>4, <1>10 DEF Checked
  <2>2. /\ turn' = other
        /\ winner' = IF moves' = Cardinality(Cells) THEN 3 ELSE 0
    BY <1>2, <1>7, <2>1 DEF Moves
  <2>3. \A mark \in {1, 2} : HasLine(mark, board') <=> winner' = mark
    BY <1>1, <1>4, <1>10, <2>2
  <2>4. N(1) = N(2) + (IF (turn' = 2 /\ winner' # 2) \/ winner' = 1 THEN 1 ELSE 0)
    BY <1>1, <1>3, <1>5, <1>6, <2>2
  <2>5. (winner' = 3 => Marked(0, board') = {}) /\ (winner' = 0 => Marked(0, board') # {})
    BY <1>8, <2>2
  <2> QED
    BY <1>1, <1>3, <1>5, <1>7, <2>2, <2>3, <2>4, <2>5 DEF GameInv, GameTypeOK, GameDecided
<1> QED
  BY <1>9, <1>10

(* What the board shows is who won, on every board, in whatever order      *)
(* moves and new games are mined (templates.ts:175).                       *)
THEOREM BoardTellsWinner == GameSpec => []GameDecided
<1>1. GameInit => GameInv
  BY EmptyBoard DEF GameInit, GameInv, GameTypeOK, GameDecided
<1>2. GameInv /\ [GameNext]_gameVars => GameInv'
  <2> SUFFICES ASSUME GameInv, [GameNext]_gameVars PROVE GameInv'
    OBVIOUS
  <2>1. ASSUME NEW cell \in Cells, Playable(cell), Moves(cell) PROVE GameInv'
    BY <2>1, MoveKeeps
  <2>2. CASE Resets
    <3>1. board' = Emptied /\ turn' = 1 /\ winner' = 0 /\ moves' = 0
      BY <2>2 DEF Resets
    <3> QED
      BY <3>1, EmptyBoard DEF GameInv, GameTypeOK, GameDecided
  <2>3. CASE UNCHANGED gameVars
    BY <2>3 DEF gameVars, GameInv, GameTypeOK, GameDecided
  <2> QED
    BY <2>1, <2>2, <2>3 DEF GameNext
<1>3. GameInv => GameDecided
  BY DEF GameInv
<1> QED
  BY <1>1, <1>2, <1>3, PTL DEF GameSpec

(* The platform's calls do nothing else to the game: a press that comes    *)
(* too late is reverted (bridge.ts:402).                                   *)
LEMMA CallsPlayTheGame ==
    ASSUME NEW c, GameStep(c) PROVE [GameNext]_gameVars
<1>1. CASE MoveIsSent(c)
  BY <1>1 DEF MoveIsSent
<1>2. CASE MoveIsMined(c)
  BY <1>2 DEF MoveIsMined, Playable, GameNext
<1>3. CASE ResetIsSent(c)
  BY <1>3 DEF ResetIsSent
<1>4. CASE ResetIsMined(c)
  BY <1>4 DEF ResetIsMined, GameNext
<1> QED
  BY <1>1, <1>2, <1>3, <1>4 DEF GameStep

(* The services implement the game: whatever else is called at the same    *)
(* time, and whatever throws, the board only ever sees moves and resets    *)
(* that the contract allows.                                               *)
THEOREM ServicesPlayTheGame == Spec => GameSpec
<1>1. Init => GameInit
  BY DEF Init
<1>2. [Next]_vars => [GameNext]_gameVars
  <2> SUFFICES ASSUME [Next]_vars
               PROVE  [GameNext]_gameVars
    OBVIOUS
  <2>1. CASE \E c : GameStep(c)
    BY <2>1, CallsPlayTheGame
  <2>2. CASE UNCHANGED gameVars
    BY <2>2
  <2> QED BY <2>1, <2>2, NextCases DEF CallStep, vars
<1> QED BY <1>1, <1>2, PTL DEF Spec, GameSpec

(* Hence the board of the services tells who won.                          *)
THEOREM GameIsDecided == Spec => []GameDecided
BY ServicesPlayTheGame, BoardTellsWinner, PTL
=================================================================================
