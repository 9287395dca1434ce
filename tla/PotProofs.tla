----------------------------- MODULE PotProofs -----------------------------
(***************************************************************************)
(* Theorems about module Pot, for every number of users, pots,             *)
(* transactions, spellings of their hashes and calls.                      *)
(***************************************************************************)
EXTENDS PotProperties, SumLemmas

(***************************************************************************)
(* Type correctness.                                                       *)
(***************************************************************************)

(* The state of a call that has not started is one a call may be in.       *)
LEMMA IdleType == Idle \in CallState
BY DEF Idle, CallState

(* What a payout loop owes is a set of transfers of positive amounts.      *)
LEMMA DueType ==
    ASSUME NEW p, NEW o
    PROVE  DueOf(p, o) \subseteq Due
BY DEF DueOf, Due, Targets, Winners, StakesOf

(* What a payout loop owes is owed to stakes on the books of its pot that  *)
(* the snapshot did not show as paid.                                      *)
LEMMA DueRecorded ==
    ASSUME NEW p, NEW o, NEW d \in DueOf(p, o)
    PROVE  /\ potStake[d.stake] # Null
           /\ potStake[d.stake].pot = p
           /\ potStake[d.stake].paidOutTxHash = Null
BY DEF DueOf, Targets, Winners, StakesOf, PaidEarlier

(* What a call remembers at each of its steps: the inputs of its route, a  *)
(* pot that exists, and in a payout the transfer just made.                *)
CallOK(c) ==
    /\ call[c].at \in StakeSteps =>
          /\ c \in StakeCalls
          /\ call[c].user \in Users
          /\ call[c].pot \in Pots
          /\ pot[call[c].pot] # Null
          /\ call[c].option \in Options
          /\ call[c].txHash \in Hashes
    /\ call[c].at \in ResolveSteps =>
          /\ c \in ResolveCalls
          /\ call[c].pot \in Pots
          /\ pot[call[c].pot] # Null
    /\ call[c].at = "update" =>
          call[c].option \in pot[call[c].pot].options
    /\ call[c].at = "payoutStakes" => call[c].option \in Options
    /\ call[c].at = "mark" => call[c].now \in call[c].due
    /\ \A d \in call[c].due :
          potStake[d.stake] # Null /\ potStake[d.stake].pot = call[c].pot

(* The inductive invariant behind TypeCorrect.                             *)
TypeInv == TypeOK /\ \A c \in Calls : CallOK(c)

(* The empty tables are well typed, and nothing is in flight.              *)
LEMMA InitType == ASSUME PotAssumption, Init PROVE TypeInv
BY IdleType DEF Init, TypeInv, TypeOK, CallOK, Idle, StakeSteps, ResolveSteps, PayoutSteps

(* A stake on the books stays there, and on its pot.                       *)
BooksKept ==
    \A h \in Hashes : potStake[h] # Null =>
        potStake'[h] # Null /\ potStake'[h].pot = potStake[h].pot

(* A step that keeps the pots and changes what one call remembers.         *)
LEMMA CallChangeType ==
    ASSUME TypeInv, UNCHANGED <<mined, delisted, pot>>,
           potStake' \in [Hashes -> StakeRow \cup {Null}], BooksKept,
           ledger' \subseteq Transfer,
           NEW c \in Calls,
           NEW s \in CallState, call' = [call EXCEPT ![c] = s],
           CallOK(c)'
    PROVE  TypeInv'
<1>1. TypeOK'
    BY DEF TypeInv, TypeOK
<1>2. ASSUME NEW d \in Calls, d # c PROVE CallOK(d)'
  <2>1. call'[d] = call[d] /\ call[d] \in CallState /\ CallOK(d)
    BY <1>2 DEF TypeInv, TypeOK
  <2>2. \A e \in call[d].due : e.stake \in Hashes
    BY <2>1 DEF CallState, Due
  <2> QED BY <2>1, <2>2 DEF CallOK, BooksKept
<1> QED BY <1>1, <1>2 DEF TypeInv

(* A step that changes nothing but what one call remembers.                *)
LEMMA CallOnlyType ==
    ASSUME TypeInv, UNCHANGED <<mined, delisted, pot, potStake, ledger>>,
           NEW c \in Calls,
           NEW s \in CallState, call' = [call EXCEPT ![c] = s],
           CallOK(c)'
    PROVE  TypeInv'
<1>1. /\ potStake' \in [Hashes -> StakeRow \cup {Null}]
      /\ ledger' \subseteq Transfer
      /\ BooksKept
    BY DEF TypeInv, TypeOK, BooksKept
<1> QED BY <1>1, CallChangeType

(* A call is over, by itself or by a fault.                                *)
Over(c) == End(c) \/ Fail(c)

(* A step that ends a call, and may write potStake or the ledger.          *)
LEMMA EndChangeType ==
    ASSUME TypeInv, UNCHANGED <<mined, delisted, pot>>,
           potStake' \in [Hashes -> StakeRow \cup {Null}], BooksKept,
           ledger' \subseteq Transfer,
           NEW c \in Calls, Over(c)
    PROVE  TypeInv'
<1>0. PICK how \in {"ended", "failed"} : Leaves(c, how)
    BY DEF Over, End, Fail
<1> DEFINE s == [Idle EXCEPT !.at = how]
<1>1. s \in CallState /\ s.at = how /\ s.due = {}
    BY IdleType DEF Idle, CallState
<1>2. call' = [call EXCEPT ![c] = s]
    BY <1>0 DEF Leaves
<1>3. call'[c].at = how /\ call'[c].due = {}
    BY <1>1, <1>2 DEF TypeInv, TypeOK
<1>4. CallOK(c)'
    BY <1>3 DEF CallOK, StakeSteps, ResolveSteps, PayoutSteps
<1> HIDE DEF s
<1> QED BY <1>1, <1>2, <1>4, CallChangeType

(* A call that returns or throws without writing anything.                 *)
LEMMA EndType ==
    ASSUME TypeInv, UNCHANGED <<mined, delisted, pot, potStake, ledger>>,
           NEW c \in Calls, Over(c)
    PROVE  TypeInv'
<1>1. /\ potStake' \in [Hashes -> StakeRow \cup {Null}]
      /\ ledger' \subseteq Transfer
      /\ BooksKept
    BY DEF TypeInv, TypeOK, BooksKept
<1> QED BY <1>1, EndChangeType

(* A call that is over has nothing to do and nothing to pay.               *)
LEMMA OverEnds ==
    ASSUME TypeInv, NEW c \in Calls, Over(c)
    PROVE  call'[c].at \in {"ended", "failed"} /\ call'[c].due = {}
BY DEF Over, End, Fail, Leaves, Idle, TypeInv, TypeOK

(* A check that passed: the call goes on to its next awaited operation.    *)
LEMMA GotoStepType ==
    ASSUME TypeInv, UNCHANGED <<mined, delisted, pot, potStake, ledger>>,
           NEW c \in Calls,
           NEW step, Goto(c, step),
           \/ call[c].at \in StakeSteps /\ step \in StakeSteps
           \/ call[c].at = "resolveLoad" /\ step = "oracle"
           \/ /\ call[c].at = "resolveLoad" /\ step = "update"
              /\ call[c].option \in pot[call[c].pot].options
    PROVE  TypeInv'
<1> DEFINE s == [call[c] EXCEPT !.at = step]
<1>1. s \in CallState
    BY DEF TypeInv, TypeOK, CallState, StakeSteps, ResolveSteps, PayoutSteps
<1>2. call' = [call EXCEPT ![c] = s]
    BY DEF Goto
<1>3. call'[c] = s
    BY <1>2 DEF TypeInv, TypeOK
<1>4. CallOK(c)'
    BY <1>1, <1>3 DEF TypeInv, TypeOK, CallOK, CallState, StakeSteps, ResolveSteps, PayoutSteps
<1> HIDE DEF s
<1> QED BY <1>1, <1>2, <1>4, CallOnlyType

(* The steps of pot.stake.                                                 *)
LEMMA StakeStepType ==
    ASSUME PotAssumption, TypeInv, NEW c \in StakeCalls, StakeStep(c)
    PROVE  TypeInv'
<1>0. c \in Calls
    BY DEF Calls
<1>1. CASE StakeLoad(c)
  <2>1. CASE Goto(c, "verify")
    BY <1>0, <1>1, <2>1, GotoStepType DEF StakeLoad, StakeSteps
  <2>2. CASE Over(c)
    BY <1>0, <1>1, <2>2, EndType DEF StakeLoad, Over
  <2> QED BY <1>1, <2>1, <2>2 DEF StakeLoad, Over
<1>2. CASE StakeVerify(c)
  <2>1. CASE Goto(c, "sum")
    BY <1>0, <1>2, <2>1, GotoStepType DEF StakeVerify, StakeSteps
  <2>2. CASE Over(c)
    BY <1>0, <1>2, <2>2, EndType DEF StakeVerify, Over
  <2> QED BY <1>2, <2>1, <2>2 DEF StakeVerify, Over
<1>3. CASE StakeSum(c)
  <2>1. CASE Goto(c, "insert")
    BY <1>0, <1>3, <2>1, GotoStepType DEF StakeSum, StakeSteps
  <2>2. CASE Over(c)
    BY <1>0, <1>3, <2>2, EndType DEF StakeSum, Over
  <2> QED BY <1>3, <2>1, <2>2 DEF StakeSum, Over
<1>4. CASE StakeInsert(c)
  <2>1. CallOK(c) /\ call[c].at = "insert"
    BY <1>0, <1>4 DEF StakeInsert, TypeInv
  <2>2. StakeRecord(c) \in StakeRow
    BY <2>1 DEF StakeRecord, StakeRow, CallOK, StakeSteps
  <2>3. potStake' \in [Hashes -> StakeRow \cup {Null}]
    BY <1>4, <2>2 DEF StakeInsert, TypeInv, TypeOK
  <2>4. ledger' \subseteq Transfer /\ BooksKept
    BY <1>4 DEF StakeInsert, TypeInv, TypeOK, BooksKept
  <2> QED BY <1>0, <1>4, <2>3, <2>4, EndChangeType DEF StakeInsert, Over
<1> QED BY <1>1, <1>2, <1>3, <1>4 DEF StakeStep

(* The start of a call of pot.stake.                                       *)
LEMMA StakeStartType ==
    ASSUME PotAssumption, TypeInv, NEW c \in StakeCalls, NEW u \in Users,
           NEW p \in Pots, NEW o \in Options, NEW h \in Hashes,
           StakeStart(c, u, p, o, h)
    PROVE  TypeInv'
<1> DEFINE s == [Idle EXCEPT !.at = "stakeLoad", !.user = u, !.pot = p,
                             !.option = o, !.txHash = h]
<1>1. c \in Calls /\ s \in CallState
    BY DEF Calls, Idle, CallState, StakeSteps
<1>2. call' = [call EXCEPT ![c] = s]
    BY DEF StakeStart
<1>3. call'[c] = s
    BY <1>1, <1>2 DEF TypeInv, TypeOK
<1>4. /\ s.at = "stakeLoad" /\ s.user = u /\ s.pot = p
      /\ s.option = o /\ s.txHash = h /\ s.due = {}
    BY DEF Idle
<1> HIDE DEF s
<1>5. pot'[p] # Null
    BY DEF StakeStart, PotLive
<1>6. CallOK(c)'
    BY <1>3, <1>4, <1>5 DEF CallOK, StakeSteps, ResolveSteps, PayoutSteps
<1> QED BY <1>1, <1>2, <1>6, CallOnlyType DEF StakeStart

(* The start of a resolve, or of a payout on its own.                      *)
LEMMA ResolveStartType ==
    ASSUME PotAssumption, TypeInv, NEW c \in ResolveCalls, NEW p \in Pots,
           \/ \E u \in Users, o \in Options \cup {Null} : ResolveStart(c, u, p, o)
           \/ Rerun(c, p)
    PROVE  TypeInv'
<1>0. c \in Calls
    BY DEF Calls
<1>1. ASSUME NEW u \in Users, NEW o \in Options \cup {Null},
             ResolveStart(c, u, p, o)
      PROVE  TypeInv'
  <2> DEFINE s == [Idle EXCEPT !.at = "resolveLoad", !.user = u, !.pot = p,
                               !.option = o]
  <2>1. s \in CallState
    BY DEF Idle, CallState, ResolveSteps
  <2>2. call' = [call EXCEPT ![c] = s]
    BY <1>1 DEF ResolveStart
  <2>3. call'[c] = s
    BY <1>0, <2>2 DEF TypeInv, TypeOK
  <2>4. s.at = "resolveLoad" /\ s.pot = p /\ s.due = {}
    BY DEF Idle
  <2> HIDE DEF s
  <2>5. pot'[p] # Null
    BY <1>1 DEF ResolveStart, PotLive
  <2>6. CallOK(c)'
    BY <2>3, <2>4, <2>5 DEF CallOK, StakeSteps, ResolveSteps, PayoutSteps
  <2> QED BY <1>0, <1>1, <2>1, <2>2, <2>6, CallOnlyType DEF ResolveStart
<1>2. ASSUME Rerun(c, p) PROVE TypeInv'
  <2> DEFINE s == [Idle EXCEPT !.at = "payoutLoad", !.pot = p]
  <2>1. s \in CallState
    BY DEF Idle, CallState, ResolveSteps, PayoutSteps
  <2>2. call' = [call EXCEPT ![c] = s]
    BY <1>2 DEF Rerun
  <2>3. call'[c] = s
    BY <1>0, <2>2 DEF TypeInv, TypeOK
  <2>4. s.at = "payoutLoad" /\ s.pot = p /\ s.due = {}
    BY DEF Idle
  <2> HIDE DEF s
  <2>5. pot'[p] # Null
    BY <1>2 DEF Rerun
  <2>6. CallOK(c)'
    BY <2>3, <2>4, <2>5 DEF CallOK, StakeSteps, ResolveSteps, PayoutSteps
  <2> QED BY <1>0, <1>2, <2>1, <2>2, <2>6, CallOnlyType DEF Rerun
<1> QED BY <1>1, <1>2

(* The first read of pot.resolve, and the checks on it.                    *)
LEMMA ResolveLoadType ==
    ASSUME PotAssumption, TypeInv, NEW c \in ResolveCalls, ResolveLoad(c)
    PROVE  TypeInv'
<1>0. c \in Calls
    BY DEF Calls
<1>1. CASE Over(c)
    BY <1>0, <1>1, EndType DEF ResolveLoad, Over
<1>2. CASE Goto(c, "oracle")
    BY <1>0, <1>2, GotoStepType DEF ResolveLoad
<1>3. CASE Goto(c, "update") /\ call[c].option \in pot[call[c].pot].options
    BY <1>0, <1>3, GotoStepType DEF ResolveLoad
<1> QED BY <1>1, <1>2, <1>3 DEF ResolveLoad, Over

(* The oracle's answer, taken only if it is an option of the pot.          *)
LEMMA OracleType ==
    ASSUME PotAssumption, TypeInv, NEW c \in ResolveCalls, NEW o \in Options,
           OracleAnswers(c, o)
    PROVE  TypeInv'
<1>0. c \in Calls
    BY DEF Calls
<1>1. CASE Over(c)
    BY <1>0, <1>1, EndType DEF OracleAnswers, Over
<1>2. CASE /\ o \in pot[call[c].pot].options
           /\ call' = [call EXCEPT ![c] = [@ EXCEPT !.at = "update",
                                                    !.option = o]]
  <2> DEFINE s == [call[c] EXCEPT !.at = "update", !.option = o]
  <2>0. call[c] \in CallState
    BY <1>0 DEF TypeInv, TypeOK
  <2>1. s \in CallState
    BY <2>0 DEF CallState, ResolveSteps
  <2>2. call' = [call EXCEPT ![c] = s]
    BY <1>2
  <2>3. call'[c] = s
    BY <1>0, <2>2 DEF TypeInv, TypeOK
  <2>4. CallOK(c)'
    BY <1>0, <1>2, <2>1, <2>3 DEF OracleAnswers, TypeInv, TypeOK, CallOK,
       CallState, StakeSteps, ResolveSteps, PayoutSteps
  <2> HIDE DEF s
  <2> QED BY <1>0, <2>1, <2>2, <2>4, CallOnlyType DEF OracleAnswers
<1> QED BY <1>1, <1>2 DEF OracleAnswers, Over

(* The update of the pot: its outcome is one of its own options.           *)
LEMMA ResolveUpdateType ==
    ASSUME PotAssumption, TypeInv, NEW c \in ResolveCalls, ResolveUpdate(c)
    PROVE  TypeInv'
<1> DEFINE p == call[c].pot
           row == [pot[p] EXCEPT !.status = "resolved",
                                 !.resolvedOption = call[c].option]
           s == [call[c] EXCEPT !.at = "payoutLoad", !.option = Null]
<1>0. c \in Calls
    BY DEF Calls
<1>1. /\ CallOK(c) /\ call[c] \in CallState /\ call[c].at = "update"
      /\ p \in Pots /\ pot[p] # Null
    BY <1>0 DEF ResolveUpdate, TypeInv, TypeOK, CallOK, ResolveSteps
<1>2. pot[p] \in PotRow
    BY <1>1 DEF TypeInv, TypeOK
<1>3. call[c].option \in pot[p].options /\ call[c].option \in Options
    BY <1>1, <1>2 DEF CallOK, PotRow
<1>4. /\ row \in PotRow
      /\ row.status = "resolved" /\ row.resolvedOption = call[c].option
      /\ row.options = pot[p].options
  <2>1. row \in PotRow
    BY <1>2, <1>3 DEF PotRow
  <2>2. row.status = "resolved" /\ row.resolvedOption = call[c].option
    BY <1>2 DEF PotRow
  <2>3. row.options = pot[p].options
    BY <1>2 DEF PotRow
  <2> QED BY <2>1, <2>2, <2>3
<1>5. pot' = [pot EXCEPT ![p] = row] /\ call' = [call EXCEPT ![c] = s]
    BY DEF ResolveUpdate
<1>6. s \in CallState /\ s.at = "payoutLoad" /\ s.pot = p
      /\ s.due = call[c].due
    BY <1>1 DEF CallState, ResolveSteps, PayoutSteps
<1>7. row # Null
    BY <1>3, <1>4, <1>1, <1>2, NullAssumption
<1> HIDE DEF row, s
<1>8. TypeOK'
  <2>1. pot' \in [Pots -> PotRow \cup {Null}]
    BY <1>4, <1>5 DEF TypeInv, TypeOK
  <2>2. call' \in [Calls -> CallState]
    BY <1>5, <1>6 DEF TypeInv, TypeOK
  <2>3. ASSUME NEW q \in Pots, pot'[q] # Null
        PROVE  IF pot'[q].status = "open" THEN pot'[q].resolvedOption = Null
                                          ELSE pot'[q].resolvedOption \in pot'[q].options
    <3>1. CASE q = p
      <4>1. pot'[q] = row
        BY <1>1, <1>5, <3>1 DEF TypeInv, TypeOK
      <4> QED BY <4>1, <1>3, <1>4
    <3>2. CASE q # p
      <4>1. pot'[q] = pot[q]
        BY <1>1, <1>5, <3>2 DEF TypeInv, TypeOK
      <4> QED BY <4>1, <2>3 DEF TypeInv, TypeOK
    <3> QED BY <3>1, <3>2
  <2> QED BY <2>1, <2>2, <2>3 DEF ResolveUpdate, TypeInv, TypeOK
<1>9. ASSUME NEW d \in Calls PROVE CallOK(d)'
  <2>1. \A q \in Pots : pot'[q].options = pot[q].options
    BY <1>1, <1>4, <1>5 DEF TypeInv, TypeOK
  <2>2. \A q \in Pots : pot[q] # Null => pot'[q] # Null
    BY <1>1, <1>5, <1>7 DEF TypeInv, TypeOK
  <2>3. CASE d = c
    <3>1. call'[c] = s /\ potStake' = potStake
      BY <1>0, <1>5 DEF ResolveUpdate, TypeInv, TypeOK
    <3> QED BY <1>1, <1>6, <2>2, <2>3, <3>1
        DEF CallOK, StakeSteps, ResolveSteps, PayoutSteps
  <2>4. CASE d # c
    <3>1. call'[d] = call[d] /\ CallOK(d) /\ potStake' = potStake
      BY <1>5, <2>4 DEF ResolveUpdate, TypeInv, TypeOK
    <3> QED BY <3>1, <2>1, <2>2
        DEF CallOK, StakeSteps, ResolveSteps, PayoutSteps
  <2> QED BY <2>3, <2>4
<1> QED BY <1>8, <1>9 DEF TypeInv

(* The steps of payout that only read.                                     *)
LEMMA PayoutReadType ==
    ASSUME PotAssumption, TypeInv, NEW c \in ResolveCalls,
           PayoutLoad(c) \/ PayoutStakes(c)
    PROVE  TypeInv'
<1>0. c \in Calls /\ call[c] \in CallState /\ CallOK(c)
    BY DEF Calls, TypeInv, TypeOK
<1>1. CASE PayoutLoad(c) /\ Over(c)
    BY <1>0, <1>1, EndType DEF PayoutLoad, Over
<1>2. CASE PayoutLoad(c) /\ ~Over(c)
  <2> DEFINE p == call[c].pot
             s == [call[c] EXCEPT !.at = "payoutStakes",
                                  !.option = pot[p].resolvedOption]
  <2>1. p \in Pots /\ pot[p] # Null /\ call[c].at = "payoutLoad"
    BY <1>0, <1>2 DEF PayoutLoad, CallOK, ResolveSteps, PayoutSteps
  <2>2. pot[p].resolvedOption \in Options
    BY <1>2, <2>1 DEF PayoutLoad, Over, TypeInv, TypeOK, PotRow
  <2>3. s \in CallState /\ s.at = "payoutStakes" /\ s.pot = p
        /\ s.option = pot[p].resolvedOption /\ s.due = call[c].due
    BY <1>0, <2>2 DEF CallState, ResolveSteps, PayoutSteps
  <2>4. call' = [call EXCEPT ![c] = s]
    BY <1>2 DEF PayoutLoad, Over
  <2>5. call'[c] = s /\ pot' = pot /\ potStake' = potStake
    BY <1>0, <1>2, <2>4 DEF PayoutLoad, TypeInv, TypeOK
  <2> HIDE DEF s
  <2>6. CallOK(c)'
    BY <1>0, <2>1, <2>2, <2>3, <2>5 DEF CallOK, StakeSteps, ResolveSteps, PayoutSteps
  <2> QED BY <1>0, <1>2, <2>3, <2>4, <2>6, CallOnlyType DEF PayoutLoad
<1>3. CASE PayoutStakes(c)
  <2> DEFINE p == call[c].pot
             s == [call[c] EXCEPT !.at = "send", !.option = Null,
                                  !.due = DueOf(p, call[c].option)]
  <2>1. p \in Pots /\ pot[p] # Null
    BY <1>0, <1>3 DEF PayoutStakes, CallOK, ResolveSteps, PayoutSteps
  <2>2. s \in CallState /\ s.at = "send" /\ s.pot = p
        /\ s.due = DueOf(p, call[c].option)
    BY <1>0, DueType DEF CallState, ResolveSteps, PayoutSteps
  <2>3. call' = [call EXCEPT ![c] = s]
    BY <1>3 DEF PayoutStakes
  <2>4. call'[c] = s /\ pot' = pot /\ potStake' = potStake
    BY <1>0, <1>3, <2>3 DEF PayoutStakes, TypeInv, TypeOK
  <2> HIDE DEF s
  <2>5. CallOK(c)'
    BY DueRecorded, <2>1, <2>2, <2>4 DEF CallOK, StakeSteps, ResolveSteps, PayoutSteps
  <2> QED BY <1>0, <1>3, <2>2, <2>3, <2>5, CallOnlyType DEF PayoutStakes
<1> QED BY <1>1, <1>2, <1>3

(* The transfers, and the update after each.                               *)
LEMMA SendType ==
    ASSUME PotAssumption, TypeInv, NEW c \in ResolveCalls,
           \/ \E d \in call[c].due, landed \in BOOLEAN : Send(c, d, landed)
           \/ \E d \in call[c].due : SendLost(c, d)
    PROVE  TypeInv'
<1>0. c \in Calls /\ call[c] \in CallState /\ CallOK(c)
    BY DEF Calls, TypeInv, TypeOK
<1>1. ASSUME NEW d \in call[c].due, NEW landed \in BOOLEAN, Sent(c, d, landed)
      PROVE  ledger' \subseteq Transfer
  <2>1. d \in Due
    BY <1>0 DEF CallState
  <2> QED BY <1>0, <1>1, <2>1 DEF Sent, Due, Transfer, TypeInv, TypeOK
<1>2. ASSUME NEW d \in call[c].due, NEW landed \in BOOLEAN, Send(c, d, landed)
      PROVE  TypeInv'
  <2> DEFINE s == [call[c] EXCEPT !.at = "mark", !.now = d]
  <2>1. d \in Due
    BY <1>0 DEF CallState
  <2>2. s \in CallState /\ s.at = "mark" /\ s.pot = call[c].pot /\ s.now = d
        /\ s.due = call[c].due
    BY <1>0, <2>1 DEF CallState, ResolveSteps, PayoutSteps
  <2>3. call' = [call EXCEPT ![c] = s]
    BY <1>2 DEF Send
  <2>4. call'[c] = s /\ pot' = pot /\ potStake' = potStake
    BY <1>0, <1>2, <2>3 DEF Send, TypeInv, TypeOK
  <2> HIDE DEF s
  <2>5. CallOK(c)'
    BY <1>0, <1>2, <2>2, <2>4
    DEF Send, CallOK, StakeSteps, ResolveSteps, PayoutSteps
  <2>6. /\ potStake' \in [Hashes -> StakeRow \cup {Null}]
        /\ ledger' \subseteq Transfer
        /\ BooksKept
    BY <1>1, <1>2 DEF Send, TypeInv, TypeOK, BooksKept
  <2> QED BY <1>0, <1>2, <2>2, <2>3, <2>5, <2>6, CallChangeType DEF Send
<1>3. ASSUME NEW d \in call[c].due, SendLost(c, d) PROVE TypeInv'
  <2>1. /\ potStake' \in [Hashes -> StakeRow \cup {Null}]
        /\ ledger' \subseteq Transfer
        /\ BooksKept
    BY <1>1, <1>3 DEF SendLost, TypeInv, TypeOK, BooksKept
  <2> QED BY <1>0, <1>3, <2>1, EndChangeType DEF SendLost, Over
<1> QED BY <1>2, <1>3

(* The update of paidOutTxHash keeps the rest of the row.                  *)
LEMMA MarkType ==
    ASSUME PotAssumption, TypeInv, NEW c \in ResolveCalls, Mark(c)
    PROVE  TypeInv'
<1> DEFINE h == call[c].now.stake
           s == [call[c] EXCEPT !.at = "send", !.now = Null,
                                !.due = call[c].due \ {call[c].now}]
<1>1. c \in Calls /\ call[c] \in CallState /\ CallOK(c) /\ call[c].at = "mark"
    BY DEF Mark, Calls, TypeInv, TypeOK
<1>2. s \in CallState /\ s.at = "send" /\ s.pot = call[c].pot
      /\ s.due \subseteq call[c].due
    BY <1>1 DEF CallState, ResolveSteps, PayoutSteps
<1>3. call' = [call EXCEPT ![c] = s]
    BY DEF Mark
<1>4. call'[c] = s /\ pot' = pot
    BY <1>1, <1>3 DEF Mark, TypeInv, TypeOK
<1> HIDE DEF s
<1>5. call[c].now \in call[c].due /\ h \in Hashes /\ potStake[h] \in StakeRow
    BY <1>1 DEF CallOK, CallState, Due, TypeInv, TypeOK
<1> DEFINE row == [potStake[h] EXCEPT !.paidOutTxHash = c]
<1>6. row \in StakeRow /\ row.pot = potStake[h].pot
    BY <1>1, <1>5 DEF StakeRow
<1>7. row # Null
    BY <1>6, NullAssumption
<1>8. potStake' = [potStake EXCEPT ![h] = row]
    BY DEF Mark
<1> HIDE DEF row
<1>9. /\ potStake' \in [Hashes -> StakeRow \cup {Null}]
      /\ ledger' \subseteq Transfer
      /\ BooksKept
    BY <1>5, <1>6, <1>7, <1>8 DEF Mark, TypeInv, TypeOK, BooksKept
<1>10. \A d \in call[c].due : d.stake \in Hashes
    BY <1>1 DEF CallState, Due
<1>11. CallOK(c)'
    BY <1>1, <1>2, <1>4, <1>9, <1>10
    DEF CallOK, BooksKept, StakeSteps, ResolveSteps, PayoutSteps
<1> QED BY <1>1, <1>2, <1>3, <1>9, <1>11, CallChangeType DEF Mark

(* The world around the service.                                           *)
LEMMA WorldType ==
    ASSUME PotAssumption, TypeInv,
           \/ \E t \in Txs : Mine(t)
           \/ \E a \in Apps : Discard(a)
           \/ \E p \in Pots, a \in Apps, u \in Users, os \in SUBSET Options :
                 Create(p, a, u, os)
    PROVE  TypeInv'
<1>1. ASSUME NEW t \in Txs, Mine(t) PROVE TypeInv'
    BY <1>1 DEF Mine, TypeInv, TypeOK, CallOK
<1>2. ASSUME NEW a \in Apps, Discard(a) PROVE TypeInv'
    BY <1>2 DEF Discard, TypeInv, TypeOK, CallOK
<1>3. ASSUME NEW p \in Pots, NEW a \in Apps, NEW u \in Users,
             NEW os \in SUBSET Options, Create(p, a, u, os)
      PROVE  TypeInv'
  <2> DEFINE row == [app |-> a, creator |-> u, options |-> os,
                     status |-> "open", resolvedOption |-> Null]
  <2>1. row \in PotRow /\ row.status = "open" /\ row.resolvedOption = Null
    BY DEF PotRow
  <2>2. pot' = [pot EXCEPT ![p] = row] /\ pot[p] = Null
    BY <1>3 DEF Create
  <2>3. row # Null
    BY <2>1, NullAssumption
  <2> HIDE DEF row
  <2>4. TypeOK'
    BY <1>3, <2>1, <2>2 DEF Create, TypeInv, TypeOK
  <2>5. \A q \in Pots : pot[q] # Null => pot'[q] = pot[q]
    BY <2>2 DEF TypeInv, TypeOK
  <2>6. call' = call /\ potStake' = potStake
    BY <1>3 DEF Create
  <2>7. ASSUME NEW c \in Calls PROVE CallOK(c)'
    <3>1. CallOK(c)
      BY DEF TypeInv
    <3> QED BY <3>1, <2>5, <2>6 DEF CallOK, StakeSteps, ResolveSteps, PayoutSteps
  <2> QED BY <2>4, <2>7 DEF TypeInv
<1> QED BY <1>1, <1>2, <1>3

(* Every step of pot.stake preserves the typing invariant.                 *)
LEMMA StakeActionType ==
    ASSUME PotAssumption, TypeInv, NEW c \in StakeCalls, StakeAction(c)
    PROVE  TypeInv'
BY StakeStartType, StakeStepType DEF StakeAction

(* Every step of pot.resolve and of payout preserves the typing invariant. *)
LEMMA ResolveActionType ==
    ASSUME PotAssumption, TypeInv, NEW c \in ResolveCalls, ResolveAction(c)
    PROVE  TypeInv'
<1>1. c \in Calls
    BY DEF Calls
<1>2. CASE \/ \E u \in Users, p \in Pots, o \in Options \cup {Null} :
                 ResolveStart(c, u, p, o)
           \/ \E p \in Pots : Rerun(c, p)
    BY <1>2, ResolveStartType
<1>3. CASE ResolveStep(c)
  <2>1. CASE PayoutReturns(c)
    BY <1>1, <2>1, EndType DEF PayoutReturns, Over
  <2>2. CASE \E d \in call[c].due : Send(c, d, TRUE)
    BY <2>2, SendType
  <2> QED BY <1>3, <2>1, <2>2, ResolveLoadType, OracleType, ResolveUpdateType,
             PayoutReadType, MarkType DEF ResolveStep
<1>4. CASE \E d \in call[c].due : Send(c, d, FALSE) \/ SendLost(c, d)
    BY <1>4, SendType
<1>5. CASE SendRejected(c)
    BY <1>1, <1>5, EndType DEF SendRejected, Over
<1> QED BY <1>2, <1>3, <1>4, <1>5 DEF ResolveAction

(* So does every step of the system.                                       *)
LEMMA NextType ==
    ASSUME PotAssumption, TypeInv, [Next]_vars
    PROVE  TypeInv'
<1>1. CASE World
    BY <1>1, WorldType DEF World
<1>2. ASSUME NEW c \in Calls, Abort(c) PROVE TypeInv'
    BY <1>2, EndType DEF Abort, Over
<1>3. CASE UNCHANGED vars
    BY <1>3 DEF vars, TypeInv, TypeOK, CallOK
<1> QED BY <1>1, <1>2, <1>3, StakeActionType, ResolveActionType DEF Next

(* The typing invariant holds in every reachable state.                    *)
LEMMA TypeInvariant == Spec => []TypeInv
<1>1. Init => TypeInv
    BY InitType, PotAssumption
<1>2. TypeInv /\ [Next]_vars => TypeInv'
    BY NextType, PotAssumption
<1> QED BY <1>1, <1>2, PTL DEF Spec

(* Every reachable state is well typed, and a pot shows an outcome, one of *)
(* its own options, exactly when it is resolved (the pot and pot_stake     *)
(* tables under every interleaving of the routes).                         *)
THEOREM TypeCorrect == Spec => []TypeOK
<1>1. TypeInv => TypeOK
    BY DEF TypeInv
<1> QED BY <1>1, TypeInvariant, PTL

(***************************************************************************)
(* Stakes are backed by transfers.                                         *)
(***************************************************************************)

(* What a call of pot.stake has established at each step.  Nothing it      *)
(* relies on can be undone by another call: receipts stay on the chain,    *)
(* and no route changes a pot's options.                                   *)
StakeChecked(c) ==
    /\ call[c].at \in {"verify", "sum", "insert"} =>
          call[c].option \in pot[call[c].pot].options
    /\ call[c].at \in {"sum", "insert"} =>
          /\ TxOf[call[c].txHash] \in mined
          /\ TxFrom[TxOf[call[c].txHash]] = call[c].user
          /\ TxValue[TxOf[call[c].txHash]] \in 1 .. StakeMax

StakesInv == StakesBacked /\ \A c \in Calls : StakeChecked(c)

(* No step takes back a receipt, a pot or its options.                     *)
WorldKept ==
    /\ mined \subseteq mined'
    /\ \A p \in Pots : pot[p] # Null =>
          pot'[p] # Null /\ pot'[p].options = pot[p].options
                         /\ pot'[p].creator = pot[p].creator

(* A step is one call's: it leaves what every other call remembers.        *)
LEMMA OthersKept ==
    ASSUME TypeInv, NEW c \in Calls, NEW d \in Calls, c # d,
           \/ StakeAction(d)
           \/ ResolveAction(d)
           \/ Abort(d)
    PROVE  call'[c] = call[c]
BY DEF TypeInv, TypeOK, StakeAction, StakeStart, StakeStep, StakeLoad,
       StakeVerify, StakeSum, StakeInsert, ResolveAction, ResolveStart, Rerun,
       ResolveStep, ResolveLoad, OracleAnswers, ResolveUpdate, PayoutLoad,
       PayoutStakes, Send, Mark, PayoutReturns, SendLost, SendRejected, Abort,
       Goto, End, Fail, Leaves

(* A stake on the books keeps its pot, its owner and its option.           *)
RowsKept ==
    \A h \in Hashes : potStake[h] # Null =>
        /\ potStake'[h] # Null
        /\ potStake'[h].pot = potStake[h].pot
        /\ potStake'[h].user = potStake[h].user
        /\ potStake'[h].option = potStake[h].option

(* No step takes a transaction off the chain, or changes who made a pot,   *)
(* for which jam and with which options.                                   *)
LEMMA WorldStep ==
    ASSUME PotAssumption, TypeInv, [Next]_vars
    PROVE  WorldKept
<1>1. CASE mined \subseteq mined' /\ UNCHANGED pot
    BY <1>1 DEF WorldKept
<1>2. ASSUME NEW p \in Pots, NEW a \in Apps, NEW u \in Users,
             NEW os \in SUBSET Options, Create(p, a, u, os)
      PROVE  WorldKept
    BY <1>2 DEF Create, WorldKept, TypeInv, TypeOK
<1>3. ASSUME NEW c \in ResolveCalls, ResolveUpdate(c) PROVE WorldKept
  <2> DEFINE p == call[c].pot
             row == [pot[p] EXCEPT !.status = "resolved",
                                   !.resolvedOption = call[c].option]
  <2>1. CallOK(c) /\ call[c].at = "update"
    BY <1>3 DEF ResolveUpdate, TypeInv, Calls
  <2>2. p \in Pots /\ pot[p] # Null
    BY <2>1 DEF CallOK, ResolveSteps
  <2>3. pot[p] \in PotRow
    BY <2>2 DEF TypeInv, TypeOK
  <2>4. row.options = pot[p].options /\ row.creator = pot[p].creator
    BY <2>3 DEF PotRow
  <2>5. pot' = [pot EXCEPT ![p] = row] /\ mined' = mined
    BY <1>3 DEF ResolveUpdate
  <2>6. row \in PotRow
    BY <2>1, <2>3 DEF CallOK, PotRow
  <2>7. pot'[p] # Null
    BY <2>2, <2>5, <2>6, NullAssumption DEF TypeInv, TypeOK
  <2> HIDE DEF row
  <2> QED BY <2>2, <2>4, <2>5, <2>7 DEF WorldKept, TypeInv, TypeOK
<1> QED BY <1>1, <1>2, <1>3 DEF Next, vars, World, Mine, Discard,
       StakeAction, ResolveAction, StakeStart, StakeStep, StakeLoad, StakeVerify, StakeSum, StakeInsert, ResolveStart,
       Rerun, ResolveStep, ResolveLoad, OracleAnswers, PayoutLoad, PayoutStakes,
       Send, Mark, PayoutReturns, SendLost, SendRejected, Abort

(* No step removes a stake, or changes whose it is, on which pot and which *)
(* option.                                                                 *)
LEMMA RowsStep ==
    ASSUME PotAssumption, TypeInv, [Next]_vars
    PROVE  RowsKept
<1>1. CASE UNCHANGED potStake
    BY <1>1 DEF RowsKept
<1>2. ASSUME NEW c \in StakeCalls, StakeInsert(c) PROVE RowsKept
    BY <1>2 DEF StakeInsert, RowsKept, TypeInv, TypeOK
<1>3. ASSUME NEW c \in ResolveCalls, Mark(c) PROVE RowsKept
  <2> DEFINE h == call[c].now.stake
             row == [potStake[h] EXCEPT !.paidOutTxHash = c]
  <2>1. CallOK(c) /\ call[c].at = "mark" /\ call[c] \in CallState /\ c \in Calls
    BY <1>3 DEF Mark, TypeInv, TypeOK, Calls
  <2>2. h \in Hashes /\ potStake[h] # Null
    BY <2>1 DEF CallOK, CallState, Due
  <2>3. potStake[h] \in StakeRow
    BY <2>2 DEF TypeInv, TypeOK
  <2>4. row \in StakeRow /\ row.pot = potStake[h].pot
        /\ row.user = potStake[h].user /\ row.option = potStake[h].option
    BY <2>1, <2>3 DEF StakeRow
  <2>5. row # Null
    BY <2>4, NullAssumption
  <2>6. potStake' = [potStake EXCEPT ![h] = row]
    BY <1>3 DEF Mark
  <2> HIDE DEF row
  <2> QED BY <2>2, <2>4, <2>5, <2>6 DEF RowsKept, TypeInv, TypeOK
<1> QED BY <1>1, <1>2, <1>3 DEF Next, vars, World, Mine, Discard, Create,
       StakeAction, ResolveAction, StakeStart, StakeStep, StakeLoad, StakeVerify, StakeSum, ResolveStart, Rerun,
       ResolveStep, ResolveLoad, OracleAnswers, ResolveUpdate, PayoutLoad,
       PayoutStakes, Send, PayoutReturns, SendLost, SendRejected, Abort

(* A call whose own state a step leaves alone keeps what it has checked.   *)
LEMMA StakeCheckedKept ==
    ASSUME TypeInv, WorldKept, NEW c \in Calls, StakeChecked(c),
           call'[c] = call[c]
    PROVE  StakeChecked(c)'
<1>1. CallOK(c)
    BY DEF TypeInv
<1> QED BY <1>1 DEF StakeChecked, WorldKept, CallOK, StakeSteps

(* Neither does a call that is not at one of the last steps of pot.stake.  *)
LEMMA StakeCheckedElsewhere ==
    ASSUME NEW c \in Calls, call'[c].at \notin {"verify", "sum", "insert"}
    PROVE  StakeChecked(c)'
BY DEF StakeChecked

(* Which calls a step may bring to those steps: only the calls of          *)
(* pot.stake, each by the check it has just passed.                        *)
LEMMA StakeCheckedStep ==
    ASSUME PotAssumption, TypeInv, [Next]_vars, \A c \in Calls : StakeChecked(c),
           NEW c \in Calls
    PROVE  StakeChecked(c)'
<1>0. /\ WorldKept /\ StakeChecked(c) /\ CallOK(c) /\ call[c] \in CallState
      /\ TypeInv'
    BY WorldStep, NextType DEF TypeInv, TypeOK
<1>1. CASE call'[c] = call[c]
    BY <1>0, <1>1, StakeCheckedKept
<1>2. CASE Over(c)
    BY <1>2, OverEnds, StakeCheckedElsewhere
<1>3. CASE c \in StakeCalls /\ StakeLoad(c)
  <2>1. CASE StakeAdmitted(c) /\ Goto(c, "verify")
    BY <1>0, <1>3, <2>1 DEF StakeLoad, Goto, StakeAdmitted, StakeChecked,
       TypeInv, TypeOK, CallState
  <2> QED BY <1>2, <1>3, <2>1 DEF StakeLoad, Over
<1>4. CASE c \in StakeCalls /\ StakeVerify(c)
  <2>1. CASE Verified(c) /\ Goto(c, "sum")
    <3>1. call[c].txHash \in Hashes
      BY <1>0, <1>4 DEF StakeVerify, CallOK, StakeSteps
    <3>2. TxValue[TxOf[call[c].txHash]] \in 1 .. StakeMax
      BY <2>1, <3>1, PotAssumption DEF Verified, PotAssumption
    <3>3. /\ call'[c].at = "sum" /\ call'[c].txHash = call[c].txHash
          /\ call'[c].user = call[c].user /\ call'[c].pot = call[c].pot
          /\ call'[c].option = call[c].option
      BY <1>0, <2>1 DEF Goto, TypeInv, TypeOK, CallState
    <3> QED BY <1>4, <2>1, <3>2, <3>3 DEF StakeVerify, Verified, StakeChecked
  <2> QED BY <1>2, <1>4, <2>1 DEF StakeVerify, Over
<1>5. CASE c \in StakeCalls /\ StakeSum(c)
  <2>1. CASE Goto(c, "insert")
    <3>1. /\ call'[c].at = "insert" /\ call'[c].txHash = call[c].txHash
          /\ call'[c].user = call[c].user /\ call'[c].pot = call[c].pot
          /\ call'[c].option = call[c].option
      BY <1>0, <2>1 DEF Goto, TypeInv, TypeOK, CallState
    <3> QED BY <1>0, <1>5, <3>1 DEF StakeSum, StakeChecked
  <2> QED BY <1>2, <1>5, <2>1 DEF StakeSum, Over
<1>6. CASE c \in StakeCalls /\ StakeInsert(c)
    BY <1>2, <1>6 DEF StakeInsert, Over
<1>7. CASE call'[c].at \notin StakeSteps
    BY <1>7, StakeCheckedElsewhere DEF StakeSteps
<1>8. CASE call'[c].at = "stakeLoad"
    BY <1>8, StakeCheckedElsewhere
<1>9. CASE c \in ResolveCalls
    BY <1>0, <1>7, <1>9, PotAssumption DEF TypeInv, CallOK, PotAssumption
<1>10. CASE c \in StakeCalls /\ StakeAction(c)
  <2>1. ASSUME NEW u \in Users, NEW p \in Pots, NEW o \in Options,
               NEW h \in Hashes, StakeStart(c, u, p, o, h)
        PROVE  call'[c].at = "stakeLoad"
    BY <2>1 DEF StakeStart, TypeInv, TypeOK, Idle
  <2> QED BY <1>3, <1>4, <1>5, <1>6, <1>8, <1>10, <2>1
          DEF StakeAction, StakeStep
<1>11. ASSUME NEW d \in Calls, d # c,
              StakeAction(d) \/ ResolveAction(d) \/ Abort(d)
       PROVE  StakeChecked(c)'
    BY <1>1, <1>11, OthersKept
<1>12. CASE UNCHANGED call
    BY <1>1, <1>12
<1> QED BY <1>2, <1>9, <1>10, <1>11, <1>12
        DEF Next, vars, World, Mine, Discard, Create, Abort, Over, Calls

(* A row is new only by an insert of pot.stake, for the call's hash.        *)
LEMMA NewRow ==
    ASSUME PotAssumption, TypeInv, [Next]_vars, NEW h \in Hashes,
           potStake'[h] # Null, potStake[h] = Null
    PROVE  \E c \in StakeCalls :
              StakeInsert(c) /\ call[c].txHash = h /\ potStake'[h] = StakeRecord(c)
<1>1. CASE UNCHANGED potStake
    BY <1>1
<1>2. ASSUME NEW c \in StakeCalls, StakeInsert(c)
      PROVE  call[c].txHash = h /\ potStake'[h] = StakeRecord(c)
    BY <1>2 DEF StakeInsert, TypeInv, TypeOK
<1>3. ASSUME NEW c \in ResolveCalls, Mark(c) PROVE FALSE
  <2>1. CallOK(c) /\ call[c].at = "mark" /\ call[c] \in CallState
    BY <1>3 DEF Mark, TypeInv, TypeOK, Calls
  <2>2. call[c].now.stake # h
    BY <1>3, <2>1 DEF CallOK
  <2> QED BY <1>3, <2>2 DEF Mark, TypeInv, TypeOK
<1> QED BY <1>1, <1>2, <1>3 DEF Next, vars, World, Mine, Discard, Create,
       StakeAction, ResolveAction, StakeStart, StakeStep, StakeLoad,
       StakeVerify, StakeSum, ResolveStart, Rerun, ResolveStep, ResolveLoad,
       OracleAnswers, ResolveUpdate, PayoutLoad, PayoutStakes, Send,
       PayoutReturns, SendLost, SendRejected, Abort

(* What a call of pot.stake has verified still holds when it inserts the   *)
(* row, so every step preserves the invariant of the stakes.               *)
LEMMA StakesStep ==
    ASSUME PotAssumption, TypeInv, StakesInv, [Next]_vars
    PROVE  StakesInv'
<1>1. \A c \in Calls : StakeChecked(c)'
    BY StakeCheckedStep DEF StakesInv
<1>2. ASSUME NEW h \in Hashes, potStake'[h] # Null, potStake[h] # Null
      PROVE  /\ TxOf[h] \in mined'
             /\ TxFrom[TxOf[h]] = potStake'[h].user
             /\ TxValue[TxOf[h]] \in 1 .. StakeMax
             /\ pot'[potStake'[h].pot] # Null
             /\ potStake'[h].option \in pot'[potStake'[h].pot].options
  <2>1. potStake[h].pot \in Pots
    BY <1>2 DEF TypeInv, TypeOK, StakeRow
  <2> QED BY <1>2, <2>1, WorldStep, RowsStep
          DEF WorldKept, RowsKept, StakesInv, StakesBacked
<1>3. ASSUME NEW h \in Hashes, potStake'[h] # Null, potStake[h] = Null
      PROVE  /\ TxOf[h] \in mined'
             /\ TxFrom[TxOf[h]] = potStake'[h].user
             /\ TxValue[TxOf[h]] \in 1 .. StakeMax
             /\ pot'[potStake'[h].pot] # Null
             /\ potStake'[h].option \in pot'[potStake'[h].pot].options
  <2>1. PICK c \in StakeCalls :
            StakeInsert(c) /\ call[c].txHash = h /\ potStake'[h] = StakeRecord(c)
    BY <1>3, NewRow
  <2>2. StakeChecked(c) /\ CallOK(c) /\ call[c].at = "insert"
    BY <2>1 DEF StakeInsert, StakesInv, TypeInv, Calls
  <2> QED BY <2>1, <2>2, WorldStep DEF StakeInsert, StakeRecord, StakeChecked,
             CallOK, StakeSteps, WorldKept
<1> QED BY <1>1, <1>2, <1>3 DEF StakesInv, StakesBacked

(* Under every interleaving and every fault, a stake on the books is the   *)
(* staker's own mined transfer into escrow, within the cap, on an option   *)
(* of an existing pot: the checks stake makes before its last await still  *)
(* hold when the row is written.                                           *)
THEOREM StakesAreBacked == Spec => []StakesBacked
<1>1. Init => StakesInv
    BY DEF Init, StakesInv, StakesBacked, StakeChecked, Idle
<1>2. TypeInv /\ StakesInv /\ [Next]_vars => StakesInv'
    BY StakesStep, PotAssumption
<1>3. StakesInv => StakesBacked
    BY DEF StakesInv
<1> QED BY <1>1, <1>2, <1>3, TypeInvariant, PTL DEF Spec
(***************************************************************************)
(* What a step does to the calls of pot.resolve, seen from its payouts.    *)
(***************************************************************************)

(* A snapshot names a stake once.                                          *)
LEMMA DueOnce ==
    ASSUME NEW p, NEW o, NEW d \in DueOf(p, o), NEW f \in DueOf(p, o),
           d.stake = f.stake
    PROVE  d = f
BY DEF DueOf

Quiet == UNCHANGED <<pot, potStake, ledger>>

(* The call goes on to another await, about the same pot.                  *)
Moves(c, from, to) ==
    call[c].at \in from /\ call'[c].at \in to /\ call'[c].pot = call[c].pot

(* A resolve, or a payout on its own, begins.                              *)
Starts(c) ==
    /\ call[c].at = "new" /\ call'[c].at \in {"resolveLoad", "payoutLoad"}
    /\ call'[c].due = {}
    /\ SerialResolves => NoResolveInFlight(call'[c].pot)
    /\ Quiet

(* It stops, having sent nothing in this step; after a transfer that is    *)
(* not marked, by a fault.                                                 *)
Stops(c) ==
    /\ call[c].at \in ResolveSteps
    /\ call'[c].at \in {"ended", "failed"} /\ call'[c].due = {}
    /\ call[c].at = "mark" => call'[c].at = "failed"
    /\ Quiet

(* It has read an open pot, or has an outcome to write.                    *)
Checks(c) ==
    /\ Moves(c, {"resolveLoad", "oracle"}, {"oracle", "update"})
    /\ call'[c].due = call[c].due
    /\ call[c].at = "resolveLoad" => pot[call[c].pot].status = "open"
    /\ Quiet

(* It writes the outcome.                                                  *)
Updates(c) ==
    LET p == call[c].pot
    IN  /\ Moves(c, {"update"}, {"payoutLoad"})
        /\ call'[c].due = call[c].due
        /\ p \in Pots /\ pot[p] # Null /\ pot'[p] # Null
        /\ call[c].option \in pot[p].options
        /\ pot'[p].status = "resolved"
        /\ pot'[p].resolvedOption = call[c].option
        /\ \A q \in Pots : q # p => pot'[q] = pot[q]
        /\ UNCHANGED <<potStake, ledger>>

(* It reads the outcome of a resolved pot.                                 *)
Reads(c) ==
    /\ Moves(c, {"payoutLoad"}, {"payoutStakes"})
    /\ call'[c].due = call[c].due
    /\ pot[call[c].pot].status = "resolved"
    /\ call'[c].option = pot[call[c].pot].resolvedOption
    /\ Quiet

(* It reads the stakes of the pot.                                         *)
Snapshots(c) ==
    /\ Moves(c, {"payoutStakes"}, {"send"})
    /\ call'[c].due = DueOf(call[c].pot, call[c].option)
    /\ Quiet

(* It makes a transfer it owes, e, and goes on to mark the stake or, not   *)
(* seeing the receipt, stops.                                              *)
Sends(c, d, e) ==
    /\ call[c].at = "send" /\ d \in call[c].due
    /\ e.stake = d.stake /\ e.value = d.value /\ e.call = c
    /\ ledger' = ledger \cup {e}
    /\ \/ /\ call'[c].at = "mark" /\ call'[c].now = d
          /\ call'[c].pot = call[c].pot /\ call'[c].due = call[c].due
       \/ call'[c].at = "failed" /\ call'[c].due = {}
    /\ UNCHANGED <<pot, potStake>>

(* It marks the stake it has sent the transfer for.                        *)
Marks(c) ==
    LET d == call[c].now
    IN  /\ Moves(c, {"mark"}, {"send"})
        /\ d \in call[c].due /\ call'[c].due = call[c].due \ {d}
        /\ d.stake \in Hashes
        /\ potStake'[d.stake].paidOutTxHash = c
        /\ \A h \in Hashes : h # d.stake => potStake'[h] = potStake[h]
        /\ UNCHANGED <<pot, ledger>>

Does(c) ==
    \/ Starts(c) \/ Stops(c) \/ Checks(c) \/ Updates(c) \/ Reads(c)
    \/ Snapshots(c) \/ Marks(c)
    \/ \E d \in call[c].due : \E e : Sends(c, d, e)

(* A call that stops, having sent nothing.                                 *)
LEMMA OverStops ==
    ASSUME PotAssumption, TypeInv, NEW c \in ResolveCalls, Over(c),
           call[c].at \in ResolveSteps, call[c].at = "mark" => Fail(c),
           UNCHANGED <<pot, potStake, ledger>>
    PROVE  Stops(c)
<1>1. c \in Calls
    BY DEF Calls
<1>2. Fail(c) => call'[c].at = "failed"
    BY <1>1 DEF Fail, Leaves, Idle, TypeInv, TypeOK
<1> QED BY <1>1, <1>2, OverEnds DEF Stops, Quiet

(* The first half of a resolve.                                            *)
LEMMA DecidesDoes ==
    ASSUME PotAssumption, TypeInv, NEW c \in ResolveCalls,
           \/ \E u \in Users, p \in Pots, o \in Options \cup {Null} :
                 ResolveStart(c, u, p, o)
           \/ \E p \in Pots : Rerun(c, p)
           \/ ResolveLoad(c)
           \/ \E o \in Options : OracleAnswers(c, o)
           \/ ResolveUpdate(c)
    PROVE  Starts(c) \/ Stops(c) \/ Checks(c) \/ Updates(c)
<1>1. c \in Calls /\ call[c] \in CallState /\ CallOK(c)
    BY DEF Calls, TypeInv, TypeOK
<1>2. ASSUME NEW u \in Users, NEW p \in Pots, NEW o \in Options \cup {Null},
             ResolveStart(c, u, p, o)
      PROVE  Starts(c)
    BY <1>1, <1>2 DEF ResolveStart, IsNext, Starts, Quiet, Idle, TypeInv, TypeOK
<1>3. ASSUME NEW p \in Pots, Rerun(c, p) PROVE Starts(c)
    BY <1>1, <1>3 DEF Rerun, IsNext, Starts, Quiet, Idle, TypeInv, TypeOK
<1>4. CASE ResolveLoad(c)
  <2>1. ASSUME NEW step \in {"oracle", "update"}, Goto(c, step), ResolveAdmitted(c)
        PROVE  Checks(c)
    <3>1. call'[c].at = step /\ call'[c].pot = call[c].pot /\ call'[c].due = call[c].due
      BY <1>1, <2>1 DEF Goto, TypeInv, TypeOK, CallState
    <3> QED BY <1>4, <2>1, <3>1 DEF ResolveLoad, ResolveAdmitted, Checks, Moves, Quiet
  <2>2. CASE Over(c)
    BY <1>4, <2>2, OverStops DEF ResolveLoad, ResolveSteps
  <2> QED BY <1>4, <2>1, <2>2 DEF ResolveLoad, Over
<1>5. ASSUME NEW o \in Options, OracleAnswers(c, o) PROVE Checks(c) \/ Stops(c)
  <2>1. CASE Over(c)
    BY <1>5, <2>1, OverStops DEF OracleAnswers, ResolveSteps
  <2>2. CASE ~Over(c)
    <3> DEFINE s == [call[c] EXCEPT !.at = "update", !.option = o]
    <3>1. call' = [call EXCEPT ![c] = s] /\ call[c].at = "oracle"
      BY <1>5, <2>2 DEF OracleAnswers, Over
    <3>2. s.at = "update" /\ s.pot = call[c].pot /\ s.due = call[c].due
      BY <1>1 DEF CallState
    <3>3. call'[c] = s
      BY <1>1, <3>1 DEF TypeInv, TypeOK
    <3> HIDE DEF s
    <3> QED BY <1>5, <3>1, <3>2, <3>3 DEF OracleAnswers, Checks, Moves, Quiet
  <2> QED BY <2>1, <2>2
<1>6. CASE ResolveUpdate(c)
  <2> DEFINE p == call[c].pot
             s == [call[c] EXCEPT !.at = "payoutLoad", !.option = Null]
             row == [pot[p] EXCEPT !.status = "resolved",
                                   !.resolvedOption = call[c].option]
  <2>1. /\ call' = [call EXCEPT ![c] = s] /\ pot' = [pot EXCEPT ![p] = row]
        /\ call[c].at = "update" /\ UNCHANGED <<potStake, ledger>>
    BY <1>6 DEF ResolveUpdate
  <2>2. p \in Pots /\ pot[p] # Null /\ call[c].option \in pot[p].options
    BY <1>1, <2>1 DEF CallOK, ResolveSteps
  <2>3. pot[p] \in PotRow
    BY <2>2 DEF TypeInv, TypeOK
  <2>4. row \in PotRow /\ row.status = "resolved" /\ row.resolvedOption = call[c].option
    BY <2>2, <2>3 DEF PotRow
  <2>5. row # Null
    BY <2>4, NullAssumption
  <2>6. s.at = "payoutLoad" /\ s.pot = p /\ s.due = call[c].due
    BY <1>1 DEF CallState
  <2>7. call'[c] = s
    BY <1>1, <2>1 DEF TypeInv, TypeOK
  <2> HIDE DEF s, row
  <2>8. pot'[p] = row /\ \A q \in Pots : q # p => pot'[q] = pot[q]
    BY <2>1, <2>2 DEF TypeInv, TypeOK
  <2> QED BY <2>1, <2>2, <2>4, <2>5, <2>6, <2>7, <2>8 DEF Updates, Moves
<1> QED BY <1>2, <1>3, <1>4, <1>5, <1>6

(* The payout.                                                             *)
LEMMA PaysDoes ==
    ASSUME PotAssumption, TypeInv, NEW c \in ResolveCalls,
           \/ PayoutLoad(c) \/ PayoutStakes(c) \/ Mark(c) \/ PayoutReturns(c)
           \/ SendRejected(c)
           \/ \E d \in call[c].due, landed \in BOOLEAN : Send(c, d, landed)
           \/ \E d \in call[c].due : SendLost(c, d)
    PROVE  \/ Stops(c) \/ Reads(c) \/ Snapshots(c) \/ Marks(c)
           \/ \E d \in call[c].due : \E e : Sends(c, d, e)
<1>1. c \in Calls /\ call[c] \in CallState /\ CallOK(c)
    BY DEF Calls, TypeInv, TypeOK
<1>2. CASE PayoutLoad(c)
  <2>1. CASE Over(c)
    BY <1>2, <2>1, OverStops DEF PayoutLoad, ResolveSteps, PayoutSteps
  <2>2. CASE ~Over(c)
    <3> DEFINE s == [call[c] EXCEPT !.at = "payoutStakes",
                                    !.option = pot[call[c].pot].resolvedOption]
    <3>1. call' = [call EXCEPT ![c] = s]
      BY <1>2, <2>2 DEF PayoutLoad, Over
    <3>2. /\ s.at = "payoutStakes" /\ s.pot = call[c].pot /\ s.due = call[c].due
          /\ s.option = pot[call[c].pot].resolvedOption
      BY <1>1 DEF CallState
    <3>3. call'[c] = s
      BY <1>1, <3>1 DEF TypeInv, TypeOK
    <3> HIDE DEF s
    <3> QED BY <1>2, <2>2, <3>2, <3>3 DEF PayoutLoad, Over, Reads, Moves, Quiet
  <2> QED BY <2>1, <2>2
<1>3. CASE PayoutStakes(c)
  <2> DEFINE s == [call[c] EXCEPT !.at = "send", !.option = Null,
                                  !.due = DueOf(call[c].pot, call[c].option)]
  <2>1. call' = [call EXCEPT ![c] = s]
    BY <1>3 DEF PayoutStakes
  <2>2. /\ s.at = "send" /\ s.pot = call[c].pot
        /\ s.due = DueOf(call[c].pot, call[c].option)
    BY <1>1 DEF CallState
  <2>3. call'[c] = s
    BY <1>1, <2>1 DEF TypeInv, TypeOK
  <2> HIDE DEF s
  <2> QED BY <1>3, <2>2, <2>3 DEF PayoutStakes, Snapshots, Moves, Quiet
<1>4. CASE Mark(c)
  <2> DEFINE d == call[c].now
             s == [call[c] EXCEPT !.at = "send", !.now = Null,
                                  !.due = call[c].due \ {d}]
             row == [potStake[d.stake] EXCEPT !.paidOutTxHash = c]
  <2>1. /\ call' = [call EXCEPT ![c] = s] /\ call[c].at = "mark"
        /\ potStake' = [potStake EXCEPT ![d.stake] = row]
        /\ UNCHANGED <<pot, ledger>>
    BY <1>4 DEF Mark
  <2>2. s.at = "send" /\ s.pot = call[c].pot /\ s.due = call[c].due \ {d}
    BY <1>1 DEF CallState
  <2>3. call'[c] = s
    BY <1>1, <2>1 DEF TypeInv, TypeOK
  <2>4. d \in call[c].due /\ d.stake \in Hashes /\ potStake[d.stake] \in StakeRow
    BY <1>1, <2>1 DEF CallOK, CallState, Due, TypeInv, TypeOK
  <2>5. row.paidOutTxHash = c
    BY <2>4 DEF StakeRow
  <2> HIDE DEF s, row
  <2>6. potStake'[d.stake] = row /\ \A h \in Hashes : h # d.stake => potStake'[h] = potStake[h]
    BY <2>1, <2>4 DEF TypeInv, TypeOK
  <2> QED BY <2>1, <2>2, <2>3, <2>4, <2>5, <2>6 DEF Marks, Moves
<1>5. CASE PayoutReturns(c) \/ SendRejected(c)
    BY <1>5, OverStops DEF PayoutReturns, SendRejected, Over, ResolveSteps, PayoutSteps
<1>6. ASSUME NEW d \in call[c].due, NEW landed \in BOOLEAN,
             Send(c, d, landed) \/ (landed = TRUE /\ SendLost(c, d))
      PROVE  \E e : Sends(c, d, e)
  <2> DEFINE e == [stake |-> d.stake, call |-> c, value |-> d.value, landed |-> landed]
             s == [call[c] EXCEPT !.at = "mark", !.now = d]
  <2>1. e.stake = d.stake /\ e.value = d.value /\ e.call = c
    OBVIOUS
  <2>2. ledger' = ledger \cup {e} /\ call[c].at = "send" /\ UNCHANGED <<pot, potStake>>
    BY <1>6 DEF Send, SendLost, Sent
  <2>3. CASE Send(c, d, landed)
    <3>1. s.at = "mark" /\ s.now = d /\ s.pot = call[c].pot /\ s.due = call[c].due
      BY <1>1 DEF CallState
    <3>2. call'[c] = s
      BY <1>1, <2>3 DEF Send, TypeInv, TypeOK
    <3> HIDE DEF s, e
    <3>3. Sends(c, d, e)
      BY <2>1, <2>2, <3>1, <3>2 DEF Sends
    <3> QED BY <3>3
  <2>4. CASE SendLost(c, d)
    <3>1. call'[c].at = "failed" /\ call'[c].due = {}
      BY <1>1, <2>4 DEF SendLost, Fail, Leaves, Idle, TypeInv, TypeOK
    <3> HIDE DEF s, e
    <3>2. Sends(c, d, e)
      BY <2>1, <2>2, <3>1 DEF Sends
    <3> QED BY <3>2
  <2> QED BY <1>6, <2>3, <2>4
<1> QED BY <1>2, <1>3, <1>4, <1>5, <1>6

(* Whatever a call of pot.resolve does is one of these.                    *)
LEMMA ResolverDoes ==
    ASSUME PotAssumption, TypeInv, NEW c \in ResolveCalls,
           ResolveAction(c) \/ Abort(c)
    PROVE  Does(c)
<1>1. CASE Abort(c)
  <2>1. c \in Calls /\ call[c] \in CallState /\ CallOK(c)
    BY DEF Calls, TypeInv, TypeOK
  <2>2. call[c].at \in ResolveSteps
    BY <1>1, <2>1 DEF Abort, InFlight, CallState, CallOK, PotAssumption
  <2> QED BY <1>1, <2>2, OverStops DEF Abort, Over, Does
<1>2. CASE ResolveAction(c)
    BY <1>2, DecidesDoes, PaysDoes DEF ResolveAction, ResolveStep, Does
<1> QED BY <1>1, <1>2

(* Nobody's resolve: the tables grow, by undecided pots and unpaid stakes,  *)
(* and what was in them stays.                                             *)
Outside ==
    /\ \A c \in ResolveCalls : call'[c] = call[c]
    /\ \A p \in Pots : \/ pot'[p] = pot[p]
                       \/ /\ pot[p] = Null
                          /\ pot'[p] = Null \/ pot'[p].resolvedOption = Null
    /\ \A h \in Hashes : \/ potStake'[h] = potStake[h]
                         \/ /\ potStake[h] = Null
                            /\ \/ potStake'[h] = Null
                               \/ potStake'[h].paidOutTxHash = Null
    /\ ledger' = ledger

(* A step is one resolve's, or nobody's.                                   *)
LEMMA Turns ==
    ASSUME PotAssumption, TypeInv, [Next]_vars
    PROVE  \/ Outside
           \/ \E c \in ResolveCalls :
                 /\ Does(c)
                 /\ \A d \in ResolveCalls : d # c => call'[d] = call[d]
<1>1. CASE UNCHANGED <<pot, potStake, call, ledger>>
    BY <1>1 DEF Outside
<1>2. ASSUME NEW p \in Pots, NEW a \in Apps, NEW u \in Users,
             NEW os \in SUBSET Options, Create(p, a, u, os)
      PROVE  Outside
  <2>1. pot'[p] # Null => pot'[p].resolvedOption = Null
    BY <1>2 DEF Create, TypeInv, TypeOK
  <2>2. pot[p] = Null /\ \A q \in Pots : q # p => pot'[q] = pot[q]
    BY <1>2 DEF Create, TypeInv, TypeOK
  <2> QED BY <1>2, <2>1, <2>2 DEF Create, Outside
<1>3. CASE World
    BY <1>1, <1>2, <1>3 DEF World, Mine, Discard
<1>4. ASSUME NEW c \in StakeCalls, StakeAction(c) PROVE Outside
  <2>1. UNCHANGED <<pot, ledger>>
    BY <1>4 DEF StakeAction, StakeStart, StakeStep, StakeLoad, StakeVerify,
       StakeSum, StakeInsert
  <2>2. \A d \in ResolveCalls : call'[d] = call[d]
    BY <1>4, OthersKept, PotAssumption DEF Calls, PotAssumption
  <2>3. \A h \in Hashes : \/ potStake'[h] = potStake[h]
                            \/ /\ potStake[h] = Null
                               /\ potStake'[h] = StakeRecord(c)
    BY <1>4 DEF StakeAction, StakeStart, StakeStep, StakeLoad, StakeVerify,
       StakeSum, StakeInsert, TypeInv, TypeOK
  <2>4. StakeRecord(c).paidOutTxHash = Null
    BY DEF StakeRecord
  <2> QED BY <2>1, <2>2, <2>3, <2>4 DEF Outside
<1>5. ASSUME NEW c \in ResolveCalls, ResolveAction(c) \/ Abort(c)
      PROVE  Does(c) /\ \A d \in ResolveCalls : d # c => call'[d] = call[d]
    BY <1>5, ResolverDoes, OthersKept DEF Calls
<1>6. ASSUME NEW c \in StakeCalls, Abort(c) PROVE Outside
  <2>1. \A d \in ResolveCalls : call'[d] = call[d]
    BY <1>6, OthersKept, PotAssumption DEF Calls, PotAssumption
  <2> QED BY <1>6, <2>1 DEF Abort, Outside
<1> QED BY <1>1, <1>3, <1>4, <1>5, <1>6 DEF Next, vars, Calls

(***************************************************************************)
(* A payout on its own: it makes one transfer for a stake at most.         *)
(***************************************************************************)

(* What a call of pot.resolve has sent, and what it has still to send.     *)
OwnOK(c) ==
    /\ call[c].at \notin {"send", "mark"} => call[c].due = {}
    /\ call[c].at \notin {"send", "mark", "ended", "failed"} =>
          \A e \in ledger : e.call # c
    /\ call[c].at = "send" =>
          \A e \in ledger, d \in call[c].due : e.call = c => e.stake # d.stake
    /\ call[c].at = "mark" =>
          \A e \in ledger, d \in call[c].due :
             (e.call = c /\ d # call[c].now) => e.stake # d.stake
    /\ \A d, f \in call[c].due : d.stake = f.stake => d = f

(* Transfers are made by payouts for stakes on the books, one payout       *)
(* making one for a stake at most.                                         *)
SentOnce ==
    /\ \A e \in ledger : e.call \in ResolveCalls /\ potStake[e.stake] # Null
    /\ \A e, f \in ledger : (e.call = f.call /\ e.stake = f.stake) => e = f

OwnInv == SentOnce /\ \A c \in ResolveCalls : OwnOK(c)

(* The step of a call keeps its own part of the invariant.                 *)
LEMMA OwnMoves ==
    ASSUME PotAssumption, TypeInv, OwnInv, NEW c \in ResolveCalls, Does(c)
    PROVE  OwnOK(c)'
<1>1. c \in Calls /\ call[c] \in CallState /\ CallOK(c) /\ OwnOK(c)
    BY DEF Calls, TypeInv, TypeOK, OwnInv
<1>2. CASE Starts(c)
    BY <1>1, <1>2 DEF Starts, Quiet, OwnOK
<1>3. CASE Stops(c)
    BY <1>3 DEF Stops, OwnOK
<1>4. CASE Checks(c) \/ Updates(c) \/ Reads(c)
  <2>1. /\ call[c].at \notin {"send", "mark", "ended", "failed"}
        /\ call'[c].at \notin {"send", "mark", "ended", "failed"}
        /\ call'[c].due = call[c].due /\ ledger' = ledger
    BY <1>4 DEF Checks, Updates, Reads, Moves, Quiet
  <2> QED BY <1>1, <2>1 DEF OwnOK
<1>5. CASE Snapshots(c)
  <2>1. \A e \in ledger' : e.call # c
    BY <1>1, <1>5 DEF Snapshots, Moves, Quiet, OwnOK
  <2> QED BY <1>5, <2>1, DueOnce DEF Snapshots, Moves, OwnOK
<1>6. ASSUME NEW d \in call[c].due, NEW e, Sends(c, d, e) PROVE OwnOK(c)'
    BY <1>1, <1>6 DEF Sends, OwnOK
<1>7. CASE Marks(c)
    BY <1>1, <1>7 DEF Marks, Moves, OwnOK
<1> QED BY <1>2, <1>3, <1>4, <1>5, <1>6, <1>7 DEF Does

(* The ledger changes only by such a transfer.                             *)
LEMMA LedgerMoves ==
    ASSUME PotAssumption, TypeInv, [Next]_vars, ledger' # ledger
    PROVE  \E c \in ResolveCalls : \E d \in call[c].due : \E e : Sends(c, d, e)
BY Turns DEF Outside, Does, Starts, Stops, Checks, Updates, Reads, Snapshots,
   Marks, Quiet

(* Every step keeps the invariant, whatever overlaps.                      *)
LEMMA OwnStep ==
    ASSUME PotAssumption, TypeInv, OwnInv, [Next]_vars
    PROVE  OwnInv'
<1>1. RowsKept /\ \A e \in ledger : e.stake \in Hashes
    BY RowsStep DEF TypeInv, TypeOK, Transfer
<1>2. ASSUME NEW c \in ResolveCalls PROVE OwnOK(c)'
  <2>1. OwnOK(c)
    BY DEF OwnInv
  <2>2. CASE Outside
    BY <2>1, <2>2 DEF Outside, OwnOK
  <2>3. ASSUME NEW d \in ResolveCalls, Does(d), d # c, call'[c] = call[c]
        PROVE  OwnOK(c)'
    <3>1. \A e \in ledger' \ ledger : e.call # c
      BY <2>3 DEF Does, Starts, Stops, Checks, Updates, Reads, Snapshots, Marks,
         Sends, Quiet
    <3> QED BY <2>1, <2>3, <3>1 DEF OwnOK
  <2> QED BY <2>2, <2>3, Turns, OwnMoves
<1>3. SentOnce'
  <2>1. CASE ledger' = ledger
    BY <1>1, <2>1 DEF OwnInv, SentOnce, RowsKept
  <2>2. CASE ledger' # ledger
    <3>1. PICK c \in ResolveCalls : \E d \in call[c].due : \E e : Sends(c, d, e)
      BY <2>2, LedgerMoves
    <3>2. PICK d \in call[c].due : \E e : Sends(c, d, e)
      BY <3>1
    <3>3. PICK e : Sends(c, d, e)
      BY <3>2
    <3>4. OwnOK(c) /\ CallOK(c)
      BY DEF OwnInv, TypeInv, Calls
    <3>5. \A f \in ledger : f.call = c => f.stake # e.stake
      BY <3>3, <3>4 DEF Sends, OwnOK
    <3>6. potStake[e.stake] # Null
      BY <3>3, <3>4 DEF Sends, CallOK
    <3> QED BY <3>3, <3>5, <3>6 DEF Sends, OwnInv, SentOnce
  <2> QED BY <2>1, <2>2
<1> QED BY <1>2, <1>3 DEF OwnInv

(* So it holds in every reachable state.                                   *)
LEMMA OwnInvariant == Spec => []OwnInv
<1>1. Init => OwnInv
    BY DEF Init, OwnInv, SentOnce, OwnOK, Idle, Calls
<1>2. TypeInv /\ OwnInv /\ [Next]_vars => OwnInv'
    BY OwnStep, PotAssumption
<1> QED BY <1>1, <1>2, TypeInvariant, PTL DEF Spec

(***************************************************************************)
(* Payouts of a pot that do not overlap, however often payout is called    *)
(* and whatever fails.                                                     *)
(*                                                                         *)
(* The argument: the pot of a call about to write its outcome is still     *)
(* open, so its outcome is written once; a payout owes stakes that are not *)
(* marked, and only the one payout of the pot in flight can mark them; a   *)
(* transfer whose stake is not marked was made by a call that is about to  *)
(* mark it, or was cut short by a fault.                                   *)
(***************************************************************************)

(* Two resolves in flight are of different pots.                           *)
OneResolver ==
    \A c, d \in ResolveCalls :
        (c # d /\ call[c].at \in ResolveSteps /\ call[d].at \in ResolveSteps)
            => call[c].pot # call[d].pot

(* The state of the pot and of its stakes at each step of a resolve.       *)
ResolverOK(c) ==
    /\ call[c].at \in {"oracle", "update"} => pot[call[c].pot].status = "open"
    /\ call[c].at \in {"payoutStakes", "send", "mark"} =>
          pot[call[c].pot].status = "resolved"
    /\ call[c].at = "payoutStakes" =>
          call[c].option = pot[call[c].pot].resolvedOption
    /\ \A d \in call[c].due : potStake[d.stake].paidOutTxHash = Null

(* About to be marked by the call that made the transfer.                  *)
Marking(e) == call[e.call].at = "mark" /\ call[e.call].now.stake = e.stake

(* Transfers were made for stakes of resolved pots; what is not marked is  *)
(* about to be, or its call was cut short; and of two for one stake the    *)
(* call of one was.                                                        *)
LedgerInv ==
    /\ \A e \in ledger : pot[PotOf(e)] # Null /\ pot[PotOf(e)].status = "resolved"
    /\ \A e \in ledger :
          potStake[e.stake].paidOutTxHash = Null
            => call[e.call].at = "failed" \/ Marking(e)
    /\ \A e, f \in ledger :
          (e.stake = f.stake /\ e # f)
            => call[e.call].at = "failed" \/ call[f.call].at = "failed"

PayoutInv == OneResolver /\ LedgerInv /\ \A c \in ResolveCalls : ResolverOK(c)

(* A resolve in flight stays with its pot; one that starts finds no other  *)
(* of its pot.                                                             *)
LEMMA ResolverMoves ==
    ASSUME SerialResolves, NEW c \in ResolveCalls, Does(c),
           call'[c].at \in ResolveSteps
    PROVE  \/ call[c].at \in ResolveSteps /\ call'[c].pot = call[c].pot
           \/ NoResolveInFlight(call'[c].pot)
BY DEF Does, Starts, Stops, Checks, Updates, Reads, Snapshots, Marks, Sends, Moves,
   ResolveSteps, PayoutSteps

(* Serialised resolves keep at most one resolver of a pot in flight.       *)
LEMMA OneResolverStep ==
    ASSUME PotAssumption, SerialResolves, TypeInv, OneResolver, [Next]_vars
    PROVE  OneResolver'
<1>1. CASE Outside
    BY <1>1 DEF Outside, OneResolver
<1>2. ASSUME NEW c \in ResolveCalls, Does(c),
             \A d \in ResolveCalls : d # c => call'[d] = call[d]
      PROVE  OneResolver'
    BY <1>2, ResolverMoves DEF OneResolver, NoResolveInFlight
<1> QED BY <1>1, <1>2, Turns

(* A resolved pot stays resolved.                                          *)
ResolvedKept ==
    \A p \in Pots :
        (pot[p] # Null /\ pot[p].status = "resolved")
            => pot'[p] # Null /\ pot'[p].status = "resolved"

(* No step takes a pot back from resolved to open.                         *)
LEMMA ResolvedStep ==
    ASSUME PotAssumption, TypeInv, [Next]_vars
    PROVE  ResolvedKept
<1>1. CASE Outside
    BY <1>1 DEF Outside, ResolvedKept
<1>2. ASSUME NEW c \in ResolveCalls, Does(c) PROVE ResolvedKept
    BY <1>2 DEF Does, Starts, Stops, Checks, Updates, Reads, Snapshots, Marks,
       Sends, Quiet, ResolvedKept
<1> QED BY <1>1, <1>2, Turns

(* What the books say of a call's pot and of the stakes it owes.           *)
LEMMA OwedRows ==
    ASSUME TypeInv, NEW c \in ResolveCalls
    PROVE  /\ call[c].at \in ResolveSteps =>
                 call[c].pot \in Pots /\ pot[call[c].pot] # Null
           /\ call[c].at \in {"oracle", "update", "payoutStakes", "send", "mark"} =>
                 call[c].pot \in Pots /\ pot[call[c].pot] # Null
           /\ call[c].at = "mark" => call[c].now \in call[c].due
           /\ \A d \in call[c].due :
                 /\ d.stake \in Hashes /\ potStake[d.stake] # Null
                 /\ potStake[d.stake].pot = call[c].pot
<1>1. c \in Calls /\ call[c] \in CallState /\ CallOK(c)
    BY DEF Calls, TypeInv, TypeOK
<1>2. \A d \in call[c].due : d.stake \in Hashes
    BY <1>1 DEF CallState, Due
<1> QED BY <1>1, <1>2 DEF CallOK, ResolveSteps, PayoutSteps

(* A step of another call, for another pot, leaves what a call relies on.  *)
LEMMA ResolverKept ==
    ASSUME PotAssumption, TypeInv, NEW c \in ResolveCalls, ResolverOK(c),
           OwnOK(c), call'[c] = call[c],
           call[c].at \in ResolveSteps =>
              /\ pot'[call[c].pot] = pot[call[c].pot]
              /\ \A d \in call[c].due : potStake'[d.stake] = potStake[d.stake]
    PROVE  ResolverOK(c)'
<1>1. CASE call[c].at \in ResolveSteps
    BY <1>1 DEF ResolverOK
<1>2. CASE call[c].at \notin ResolveSteps
    BY <1>2 DEF ResolverOK, OwnOK, ResolveSteps, PayoutSteps
<1> QED BY <1>1, <1>2

(* A call's own step keeps what it relies on.                              *)
LEMMA ResolverOwn ==
    ASSUME PotAssumption, TypeInv, OwnInv, NEW c \in ResolveCalls,
           ResolverOK(c), Does(c)
    PROVE  ResolverOK(c)'
<1>1. OwnOK(c)
    BY DEF OwnInv
<1>2. CASE Starts(c)
    BY <1>2 DEF Starts, ResolverOK
<1>3. CASE Stops(c)
    BY <1>3 DEF Stops, ResolverOK
<1>4. CASE Checks(c)
    BY <1>1, <1>4 DEF Checks, Moves, Quiet, ResolverOK
<1>5. CASE Updates(c)
    BY <1>1, <1>5 DEF Updates, Moves, ResolverOK
<1>6. CASE Reads(c)
    BY <1>1, <1>6 DEF Reads, Moves, Quiet, ResolverOK
<1>7. CASE Snapshots(c)
  <2>1. \A d \in call'[c].due : potStake[d.stake].paidOutTxHash = Null
    BY <1>7, DueRecorded DEF Snapshots
  <2> QED BY <1>7, <2>1 DEF Snapshots, Moves, Quiet, ResolverOK
<1>8. ASSUME NEW d \in call[c].due, NEW e, Sends(c, d, e) PROVE ResolverOK(c)'
    BY <1>8 DEF Sends, ResolverOK
<1>9. CASE Marks(c)
  <2>1. ASSUME NEW d \in call'[c].due PROVE potStake'[d.stake] = potStake[d.stake]
    <3>1. d \in call[c].due /\ d.stake \in Hashes /\ d.stake # call[c].now.stake
      BY <1>1, <1>9, OwedRows DEF Marks, OwnOK
    <3> QED BY <1>9, <3>1 DEF Marks
  <2> QED BY <1>9, <2>1 DEF Marks, Moves, ResolverOK
<1> QED BY <1>2, <1>3, <1>4, <1>5, <1>6, <1>7, <1>8, <1>9 DEF Does

(* Every step keeps what a call relies on: the resolver of a pot is alone. *)
LEMMA ResolverStep ==
    ASSUME PotAssumption, TypeInv, OwnInv, PayoutInv, [Next]_vars,
           NEW c \in ResolveCalls
    PROVE  ResolverOK(c)'
<1>1. OwnOK(c) /\ ResolverOK(c) /\ OneResolver
    BY DEF OwnInv, PayoutInv
<1>2. CASE Outside
    BY <1>1, <1>2, OwedRows, ResolverKept DEF Outside
<1>3. ASSUME NEW d \in ResolveCalls, Does(d), d # c, call'[c] = call[c]
      PROVE  ResolverOK(c)'
  <2>1. CASE UNCHANGED <<pot, potStake>>
    BY <1>1, <1>3, <2>1, ResolverKept
  <2>2. ASSUME Updates(d) \/ Marks(d), call[c].at \in ResolveSteps
        PROVE  call[d].pot # call[c].pot
    BY <1>1, <1>3, <2>2 DEF OneResolver, Updates, Marks, Moves, ResolveSteps, PayoutSteps
  <2>3. CASE Updates(d)
    BY <1>1, <1>3, <2>2, <2>3, OwedRows, ResolverKept DEF Updates
  <2>4. CASE Marks(d)
    <3>1. call[d].now \in call[d].due
      BY <2>4 DEF Marks
    <3>2. ASSUME call[c].at \in ResolveSteps, NEW x \in call[c].due
          PROVE  potStake'[x.stake] = potStake[x.stake]
      <4>1. x.stake \in Hashes /\ x.stake # call[d].now.stake
        BY <2>2, <2>4, <3>1, <3>2, OwedRows
      <4> QED BY <2>4, <4>1 DEF Marks
    <3> QED BY <1>1, <1>3, <2>4, <3>2, ResolverKept DEF Marks
  <2> QED BY <1>3, <2>1, <2>3, <2>4 DEF Does, Starts, Stops, Checks, Reads,
       Snapshots, Sends, Quiet
<1> QED BY <1>1, <1>2, <1>3, ResolverOwn, Turns

(* What a stake in the ledger is on the books, and which call sent it.     *)
LEMMA LedgerRows ==
    ASSUME TypeInv, OwnInv, NEW e \in ledger
    PROVE  /\ e.stake \in Hashes /\ potStake[e.stake] # Null
           /\ PotOf(e) \in Pots /\ e.call \in ResolveCalls
<1>1. e.stake \in Hashes /\ potStake[e.stake] # Null /\ e.call \in ResolveCalls
    BY DEF TypeInv, TypeOK, Transfer, OwnInv, SentOnce
<1>2. potStake[e.stake] \in StakeRow
    BY <1>1 DEF TypeInv, TypeOK
<1> QED BY <1>1, <1>2 DEF PotOf, StakeRow

(* A call that was cut short does nothing more.                            *)
LEMMA FailedKept ==
    ASSUME PotAssumption, TypeInv, OwnInv, [Next]_vars, NEW c \in ResolveCalls,
           call[c].at = "failed"
    PROVE  call'[c].at = "failed"
<1>1. OwnOK(c) /\ call[c].due = {}
    BY DEF OwnInv, OwnOK
<1>2. ~Does(c)
    BY <1>1 DEF Does, Starts, Stops, Checks, Updates, Reads, Snapshots, Marks,
       Moves, ResolveSteps, PayoutSteps
<1> QED BY <1>2, Turns DEF Outside

(* A mark is never taken back.                                             *)
LEMMA MarkedKept ==
    ASSUME PotAssumption, TypeInv, [Next]_vars, NEW h \in Hashes,
           potStake[h] # Null, potStake[h].paidOutTxHash # Null
    PROVE  potStake'[h].paidOutTxHash # Null
<1>1. CASE potStake'[h] = potStake[h]
    BY <1>1
<1>2. ASSUME NEW c \in ResolveCalls, Marks(c) PROVE potStake'[h].paidOutTxHash # Null
    BY <1>2 DEF Marks, PotAssumption, Calls
<1>3. ASSUME NEW c \in ResolveCalls, Does(c), ~Marks(c) PROVE potStake'[h] = potStake[h]
    BY <1>3 DEF Does, Starts, Stops, Checks, Updates, Reads, Snapshots, Sends, Quiet
<1> QED BY <1>1, <1>2, <1>3, Turns DEF Outside

(* A transfer is made for a stake of a resolved pot, and of an earlier one *)
(* for the same stake the call was cut short.                              *)
LEMMA SentAgain ==
    ASSUME PotAssumption, TypeInv, OwnInv, PayoutInv, NEW c \in ResolveCalls,
           NEW d \in call[c].due, call[c].at = "send"
    PROVE  /\ pot[call[c].pot] # Null /\ pot[call[c].pot].status = "resolved"
           /\ \A f \in ledger : f.stake = d.stake => call[f.call].at = "failed"
<1>1. ResolverOK(c) /\ OwnOK(c) /\ OneResolver /\ LedgerInv
    BY DEF PayoutInv, OwnInv
<1>2. /\ pot[call[c].pot] # Null /\ pot[call[c].pot].status = "resolved"
      /\ potStake[d.stake].paidOutTxHash = Null
      /\ potStake[d.stake].pot = call[c].pot
    BY <1>1, OwedRows DEF ResolverOK
<1>3. ASSUME NEW f \in ledger, f.stake = d.stake, Marking(f) PROVE FALSE
  <2>1. f.call \in ResolveCalls /\ call[f.call].now \in call[f.call].due
    BY <1>3, LedgerRows, OwedRows DEF Marking
  <2>2. potStake[d.stake].pot = call[f.call].pot
    BY <1>3, <2>1, OwedRows DEF Marking
  <2>3. f.call # c
    BY <1>3 DEF Marking
  <2> QED BY <1>1, <1>2, <1>3, <2>1, <2>2, <2>3
          DEF OneResolver, Marking, ResolveSteps, PayoutSteps
<1> QED BY <1>1, <1>2, <1>3 DEF LedgerInv

(* A transfer whose stake is not marked stays excused: its call marks the  *)
(* stake, or is cut short.                                                 *)
LEMMA UnmarkedStep ==
    ASSUME PotAssumption, TypeInv, OwnInv, PayoutInv, [Next]_vars,
           NEW e \in ledger, potStake'[e.stake].paidOutTxHash = Null
    PROVE  call'[e.call].at = "failed" \/ Marking(e)'
<1>1. /\ e.stake \in Hashes /\ potStake[e.stake] # Null /\ e.call \in ResolveCalls
    BY LedgerRows
<1>2. call[e.call].at = "failed" \/ Marking(e)
    BY <1>1, MarkedKept DEF PayoutInv, LedgerInv
<1>3. CASE call[e.call].at = "failed"
    BY <1>1, <1>3, FailedKept
<1>4. CASE Marking(e) /\ call'[e.call] = call[e.call]
    BY <1>4 DEF Marking
<1>5. CASE Marking(e) /\ Does(e.call)
  <2>1. Stops(e.call) \/ Marks(e.call)
    BY <1>5 DEF Does, Marking, Starts, Checks, Updates, Reads, Snapshots, Moves, Sends
  <2>2. ~Marks(e.call)
    BY <1>1, <1>5 DEF Marks, Marking, PotAssumption, Calls
  <2> QED BY <1>5, <2>1, <2>2 DEF Stops, Marking
<1> QED BY <1>1, <1>2, <1>3, <1>4, <1>5, Turns DEF Outside

(* Every step keeps the books of the transfers.                            *)
LEMMA LedgerStep ==
    ASSUME PotAssumption, TypeInv, OwnInv, PayoutInv, [Next]_vars
    PROVE  LedgerInv'
<1>1. RowsKept /\ ResolvedKept /\ LedgerInv
    BY RowsStep, ResolvedStep DEF PayoutInv
<1>2. ASSUME NEW e \in ledger
      PROVE  pot'[PotOf(e)'] # Null /\ pot'[PotOf(e)'].status = "resolved"
  <2>1. e.stake \in Hashes /\ potStake[e.stake] # Null /\ PotOf(e) \in Pots
    BY LedgerRows
  <2> QED BY <1>1, <2>1 DEF LedgerInv, PotOf, RowsKept, ResolvedKept
<1>3. ASSUME NEW e \in ledger, NEW f \in ledger, e.stake = f.stake, e # f
      PROVE  call'[e.call].at = "failed" \/ call'[f.call].at = "failed"
    BY <1>1, <1>3, LedgerRows, FailedKept DEF LedgerInv
<1>4. CASE ledger' = ledger
    BY <1>2, <1>3, <1>4, UnmarkedStep DEF LedgerInv
<1>5. CASE ledger' # ledger
  <2>1. PICK c \in ResolveCalls : \E d \in call[c].due : \E e : Sends(c, d, e)
    BY <1>5, LedgerMoves
  <2>2. PICK d \in call[c].due : \E e : Sends(c, d, e)
    BY <2>1
  <2>3. PICK new : Sends(c, d, new)
    BY <2>2
  <2>4. /\ potStake[d.stake].pot = call[c].pot
        /\ pot[call[c].pot] # Null /\ pot[call[c].pot].status = "resolved"
        /\ \A f \in ledger : f.stake = d.stake => call[f.call].at = "failed"
    BY <2>3, OwedRows, SentAgain DEF Sends
  <2>5. /\ new.stake = d.stake /\ new.call = c /\ ledger' = ledger \cup {new}
        /\ UNCHANGED <<pot, potStake>>
        /\ call'[c].at = "failed" \/ (call'[c].at = "mark" /\ call'[c].now = d)
    BY <2>3 DEF Sends
  <2>6. pot'[PotOf(new)'] # Null /\ pot'[PotOf(new)'].status = "resolved"
    BY <2>4, <2>5 DEF PotOf
  <2>7. call'[new.call].at = "failed" \/ Marking(new)'
    BY <2>5 DEF Marking
  <2>8. \A f \in ledger : f.stake = new.stake => call'[f.call].at = "failed"
    BY <2>4, <2>5, LedgerRows, FailedKept
  <2> QED BY <1>2, <1>3, <2>5, <2>6, <2>7, <2>8, UnmarkedStep DEF LedgerInv
<1> QED BY <1>4, <1>5

(* With one resolver of a pot at a time, the invariant of the payouts      *)
(* holds in every reachable state.                                         *)
LEMMA PayoutInvariant ==
    ASSUME SerialResolves
    PROVE  Spec => []PayoutInv
<1>1. Init => PayoutInv
    BY DEF Init, PayoutInv, OneResolver, LedgerInv, ResolverOK, Idle,
       Calls, ResolveSteps, PayoutSteps
<1>2. TypeInv /\ OwnInv /\ PayoutInv /\ [Next]_vars => PayoutInv'
    BY OneResolverStep, LedgerStep, ResolverStep, PotAssumption DEF PayoutInv
<1> QED BY <1>1, <1>2, TypeInvariant, OwnInvariant, PTL DEF Spec

(* When payouts of a pot do not overlap a stake is paid twice only if a    *)
(* fault cut one of the payouts short, between its transfer and the update *)
(* of paidOutTxHash or later: however often payout is called, at most one  *)
(* payment of a stake is by a call that ran to its end                     *)
(* (pot-service.ts:258-277).                                               *)
THEOREM NeverPaidTwice ==
    ASSUME SerialResolves
    PROVE  Spec => []PaidTwiceOnlyAfterFailure
<1>1. PayoutInv => PaidTwiceOnlyAfterFailure
    BY DEF PayoutInv, LedgerInv, PaidTwiceOnlyAfterFailure, Landed
<1> QED BY <1>1, PayoutInvariant, PTL

(* Only an open pot is ever given an outcome.                              *)
LEMMA FinalStep ==
    ASSUME PotAssumption, TypeInv, PayoutInv, [Next]_vars, NEW p \in Pots,
           pot[p] # Null, pot[p].status = "resolved"
    PROVE  pot'[p] = pot[p]
<1>1. CASE Outside
    BY <1>1 DEF Outside
<1>2. ASSUME NEW c \in ResolveCalls, Updates(c) PROVE pot'[p] = pot[p]
    BY <1>2 DEF Updates, Moves, PayoutInv, ResolverOK
<1>3. ASSUME NEW c \in ResolveCalls, Does(c), ~Updates(c) PROVE UNCHANGED pot
    BY <1>3 DEF Does, Starts, Stops, Checks, Reads, Snapshots, Marks, Sends, Quiet
<1> QED BY <1>1, <1>2, <1>3, Turns

(* Under the same assumption a resolved pot is final: the unconditional    *)
(* update of resolve (pot-service.ts:222-225) only ever meets an open pot. *)
THEOREM ResolutionIsFinal ==
    ASSUME SerialResolves
    PROVE  Spec => ResolvedIsFinal
<1>1. TypeInv /\ PayoutInv /\ [Next]_vars
        => [\A p \in Pots :
               (pot[p] # Null /\ pot[p].status = "resolved") => pot'[p] = pot[p]]_vars
    BY FinalStep, PotAssumption
<1> QED BY <1>1, TypeInvariant, PayoutInvariant, PTL DEF Spec, ResolvedIsFinal

(***************************************************************************)
(* A payout is a split of the pool it found.                               *)
(***************************************************************************)

(* Only as many stakes and transfers are recorded as steps were taken.     *)
Recorded == {h \in Hashes : potStake[h] # Null}

FiniteInv == IsFiniteSet(Recorded) /\ IsFiniteSet(ledger)

(* One step records at most one stake more.                                *)
LEMMA RecordedStep ==
    ASSUME PotAssumption, TypeInv, IsFiniteSet(Recorded), [Next]_vars
    PROVE  IsFiniteSet(Recorded')
<1>1. \E x : Recorded' \subseteq Recorded \cup {x}
  <2>1. CASE Recorded' \subseteq Recorded
    BY <2>1
  <2>2. ASSUME NEW h \in Recorded', h \notin Recorded
        PROVE  \E x : Recorded' \subseteq Recorded \cup {x}
    <3>1. h \in Hashes /\ potStake'[h] # Null /\ potStake[h] = Null
      BY <2>2 DEF Recorded
    <3>2. PICK c \in StakeCalls : StakeInsert(c) /\ call[c].txHash = h
      BY <3>1, NewRow
    <3>3. \A u \in Hashes : u # h => potStake'[u] = potStake[u]
      BY <3>2 DEF StakeInsert, TypeInv, TypeOK
    <3> QED BY <3>3 DEF Recorded
  <2> QED BY <2>1, <2>2
<1>2. PICK x : Recorded' \subseteq Recorded \cup {x}
    BY <1>1
<1>3. IsFiniteSet(Recorded \cup {x})
    BY FS_AddElement
<1> QED BY <1>2, <1>3, FS_Subset

(* So the stakes and the transfers recorded stay finitely many.            *)
LEMMA FiniteStep ==
    ASSUME PotAssumption, TypeInv, FiniteInv, [Next]_vars
    PROVE  FiniteInv'
<1>1. IsFiniteSet(ledger')
  <2>1. CASE ledger' = ledger
    BY <2>1 DEF FiniteInv
  <2>2. CASE ledger' # ledger
    <3>1. PICK e : ledger' = ledger \cup {e}
      BY <2>2, LedgerMoves DEF Sends
    <3> QED BY <3>1, FS_AddElement DEF FiniteInv
  <2> QED BY <2>1, <2>2
<1> QED BY <1>1, RecordedStep DEF FiniteInv

(* The stakes of a pot are some of the recorded ones, and stay its stakes. *)
LEMMA StakesOfFinite ==
    ASSUME FiniteInv, NEW p
    PROVE  IsFiniteSet(StakesOf(p))
<1>1. StakesOf(p) \subseteq Recorded
    BY DEF StakesOf, Recorded
<1> QED BY <1>1, FS_Subset DEF FiniteInv

(* A stake stays a stake of its pot.                                       *)
LEMMA StakesOfGrow ==
    ASSUME RowsKept, NEW p
    PROVE  StakesOf(p) \subseteq StakesOf(p)'
BY DEF RowsKept, StakesOf

(* The amount staked on a set of stakes is a sum of the library's lemmas.  *)
LEMMA SumUsdcIsSum == ASSUME NEW S PROVE SumUsdc(S) = Sum(amountUsdc, S)
BY DEF SumUsdc, Sum

(* The amount of a stake is what its transaction moved.                    *)
LEMMA AmountNat ==
    ASSUME PotAssumption, NEW h \in Hashes
    PROVE  amountUsdc[h] = TxValue[TxOf[h]] /\ amountUsdc[h] \in Nat
BY DEF PotAssumption, amountUsdc

(* The stakes in a set add up to an amount, and a part of them to no more. *)
LEMMA SumUsdcBounds ==
    ASSUME PotAssumption, NEW S \in SUBSET Hashes, IsFiniteSet(S), NEW T \in SUBSET S
    PROVE  /\ SumUsdc(S) \in Nat
           /\ SumUsdc(T) \in Nat
           /\ SumUsdc(T) <= SumUsdc(S)
           /\ \A h \in S : amountUsdc[h] <= SumUsdc(S)
<1>1. \A h \in S : amountUsdc[h] \in Nat
    BY AmountNat
<1>2. IsFiniteSet(T)
    BY FS_Subset
<1> QED BY <1>1, <1>2, SumUsdcIsSum, SumNat, SumMonotonic, SumBoundsTerm

(* Every transfer a call has made or still owes for a pot.                 *)
Promised(c, p) ==
    {e \in ledger : e.call = c /\ PotOf(e) = p}
        \cup (IF call[c].pot = p THEN call[c].due ELSE {})

(* A transfer is its stake's part of the pool, split over the targets.     *)
IsShare(x, targets, pool) ==
    /\ x.stake \in targets
    /\ x.value = ProRata(pool, amountUsdc[x.stake], SumUsdc(targets))

(* The pool is split over stakes on an outcome or, with none on it, given  *)
(* back; and it is the outcome the pot shows if resolves do not overlap.   *)
Splits(c, p, targets, pool, o) ==
    /\ \/ \A h \in targets : potStake[h].option = o
       \/ /\ pool = SumUsdc(targets)
          /\ \A h \in targets : potStake[h].option # o
    /\ \A x \in Promised(c, p) : IsShare(x, targets, pool)
    /\ (SerialResolves /\ Promised(c, p) # {}) => o = pot[p].resolvedOption

(* One split, of no more than the pool, explains all a call sends.         *)
SplitInv ==
    \A c \in ResolveCalls, p \in Pots :
        \E targets \in SUBSET StakesOf(p), pool \in 0 .. SumUsdc(StakesOf(p)),
           o \in Options \cup {Null} : Splits(c, p, targets, pool, o)

SerialInv == SerialResolves => PayoutInv

(* What a call has promised for a pot it promised before, unless it has    *)
(* just read the pot's stakes.                                             *)
LEMMA PromisedMoves ==
    ASSUME PotAssumption, TypeInv, OwnInv, [Next]_vars,
           NEW c \in ResolveCalls, NEW p \in Pots,
           ~(Snapshots(c) /\ call[c].pot = p), NEW x \in Promised(c, p)'
    PROVE  \E y \in Promised(c, p) : y.stake = x.stake /\ y.value = x.value
<1>1. OwnOK(c) /\ RowsKept
    BY RowsStep DEF OwnInv
<1>2. \A e \in ledger : PotOf(e)' = PotOf(e)
    BY <1>1, LedgerRows DEF RowsKept, PotOf
<1>3. ASSUME x \in ledger, x.call = c, PotOf(x)' = p
      PROVE  \E y \in Promised(c, p) : y.stake = x.stake /\ y.value = x.value
    BY <1>2, <1>3 DEF Promised
<1>4. ASSUME x \in ledger', x \notin ledger, x.call = c, PotOf(x)' = p
      PROVE  \E y \in Promised(c, p) : y.stake = x.stake /\ y.value = x.value
  <2>1. PICK b \in ResolveCalls : \E d \in call[b].due : \E e : Sends(b, d, e)
    BY <1>4, LedgerMoves
  <2>2. PICK d \in call[b].due : \E e : Sends(b, d, e)
    BY <2>1
  <2>3. PICK e : Sends(b, d, e)
    BY <2>2
  <2>4. /\ x = e /\ b = c /\ potStake' = potStake
        /\ x.stake = d.stake /\ x.value = d.value
    BY <1>4, <2>3 DEF Sends
  <2>5. call[c].pot = p
    BY <1>4, <2>4, OwedRows DEF PotOf
  <2> QED BY <2>4, <2>5 DEF Promised
<1>5. ASSUME call'[c].pot = p, x \in call'[c].due
      PROVE  \E y \in Promised(c, p) : y.stake = x.stake /\ y.value = x.value
  <2>1. CASE call'[c] = call[c]
    BY <1>5, <2>1 DEF Promised
  <2>2. CASE Does(c)
    <3>1. call[c].pot = p /\ x \in call[c].due
      BY <1>1, <1>5, <2>2 DEF Does, Starts, Stops, Checks, Updates, Reads, Snapshots,
         Marks, Sends, Moves
    <3> QED BY <3>1 DEF Promised
  <2> QED BY <2>1, <2>2, Turns DEF Outside
<1> QED BY <1>3, <1>4, <1>5 DEF Promised

(* A call that reads the stakes of a pot has promised nothing before.      *)
LEMMA PromisedRead ==
    ASSUME PotAssumption, TypeInv, OwnInv, NEW c \in ResolveCalls, NEW p \in Pots,
           Snapshots(c)
    PROVE  /\ call[c].pot = p => Promised(c, p)' \subseteq DueOf(p, call[c].option)
           /\ call[c].pot # p => Promised(c, p)' = {}
BY DEF OwnInv, OwnOK, Snapshots, Moves, Quiet, Promised

(* A fresh snapshot splits the pool of the moment over its targets.        *)
LEMMA SplitRead ==
    ASSUME PotAssumption, TypeInv, FiniteInv, OwnInv, SerialInv,
           NEW c \in ResolveCalls, NEW p \in Pots, Snapshots(c), call[c].pot = p
    PROVE  \E targets \in SUBSET StakesOf(p)', pool \in 0 .. SumUsdc(StakesOf(p)'),
              o \in Options \cup {Null} : Splits(c, p, targets, pool, o)'
<1>1. UNCHANGED <<pot, potStake, ledger>> /\ call[c].option \in Options
    BY DEF Snapshots, Moves, Quiet, TypeInv, CallOK, Calls
<1>0. PICK o, targets, pool :
          /\ o = call[c].option /\ o \in Options
          /\ targets = Targets(p, o) /\ pool = SumUsdc(StakesOf(p))
    BY <1>1
<1>2. StakesOf(p)' = StakesOf(p)
    BY <1>1 DEF StakesOf
<1>3. StakesOf(p) \in SUBSET Hashes /\ IsFiniteSet(StakesOf(p))
    BY StakesOfFinite DEF StakesOf
<1>4. targets \in SUBSET StakesOf(p)
    BY <1>0 DEF Targets, Winners
<1>5. pool \in 0 .. SumUsdc(StakesOf(p))
    BY <1>0, <1>3, SumUsdcBounds
<1>6. \A x \in Promised(c, p)' : IsShare(x, targets, pool)
  <2>1. \A x \in DueOf(p, o) : IsShare(x, targets, pool)
    BY <1>0 DEF DueOf, Share, IsShare
  <2> QED BY <1>0, <2>1, PromisedRead
<1>7. \/ \A h \in targets : potStake[h].option = o
      \/ /\ pool = SumUsdc(targets)
         /\ \A h \in targets : potStake[h].option # o
    BY <1>0 DEF Targets, Winners
<1>8. SerialResolves => o = pot[p].resolvedOption
    BY <1>0 DEF SerialInv, PayoutInv, ResolverOK, Snapshots, Moves
<1>9. Splits(c, p, targets, pool, o)'
    BY <1>1, <1>6, <1>7, <1>8 DEF Splits, IsShare
<1>10. SumUsdc(StakesOf(p)') = SumUsdc(StakesOf(p))
    BY <1>2
<1> QED BY <1>0, <1>1, <1>2, <1>4, <1>5, <1>9, <1>10

(* What is promised is promised for a resolved pot.                        *)
LEMMA PromisedResolved ==
    ASSUME PotAssumption, TypeInv, OwnInv, PayoutInv, NEW c \in ResolveCalls,
           NEW p \in Pots, Promised(c, p) # {}
    PROVE  pot[p] # Null /\ pot[p].status = "resolved"
<1>1. OwnOK(c) /\ ResolverOK(c)
    BY DEF OwnInv, PayoutInv
<1>2. ASSUME NEW e \in ledger, PotOf(e) = p
      PROVE  pot[p] # Null /\ pot[p].status = "resolved"
    BY <1>2 DEF PayoutInv, LedgerInv
<1>3. ASSUME call[c].pot = p, call[c].due # {}
      PROVE  pot[p] # Null /\ pot[p].status = "resolved"
    BY <1>1, <1>3, OwedRows DEF OwnOK, ResolverOK
<1> QED BY <1>2, <1>3 DEF Promised

(* Every other step leaves the split of a call as it is.                   *)
LEMMA SplitKept ==
    ASSUME PotAssumption, TypeInv, OwnInv, SerialInv, SplitInv, [Next]_vars,
           FiniteInv', NEW c \in ResolveCalls, NEW p \in Pots,
           ~(Snapshots(c) /\ call[c].pot = p)
    PROVE  \E targets \in SUBSET StakesOf(p)', pool \in 0 .. SumUsdc(StakesOf(p)'),
              o \in Options \cup {Null} : Splits(c, p, targets, pool, o)'
<1>1. RowsKept
    BY RowsStep
<1>2. /\ StakesOf(p) \subseteq StakesOf(p)' /\ StakesOf(p)' \in SUBSET Hashes
      /\ IsFiniteSet(StakesOf(p)')
  <2>1. StakesOf(p)' \subseteq Recorded' /\ IsFiniteSet(Recorded')
    BY DEF StakesOf, Recorded, FiniteInv
  <2>2. IsFiniteSet(StakesOf(p)')
    BY <2>1, FS_Subset
  <2> QED BY <1>1, <2>2, StakesOfGrow DEF StakesOf
<1>3. SumUsdc(StakesOf(p)) \in Nat /\ SumUsdc(StakesOf(p)') \in Nat
      /\ SumUsdc(StakesOf(p)) <= SumUsdc(StakesOf(p)')
    BY <1>2, SumUsdcBounds
<1>4. \A x \in Promised(c, p)' :
          \E y \in Promised(c, p) : y.stake = x.stake /\ y.value = x.value
    BY PromisedMoves
<1>5. PICK targets \in SUBSET StakesOf(p), pool \in 0 .. SumUsdc(StakesOf(p)),
           o \in Options \cup {Null} : Splits(c, p, targets, pool, o)
    BY DEF SplitInv
<1>6. \A h \in targets : potStake'[h].option = potStake[h].option
    BY <1>1 DEF RowsKept, StakesOf
<1>7. \A x \in Promised(c, p)' : IsShare(x, targets, pool)
    BY <1>4, <1>5 DEF Splits, IsShare
<1>8. SerialResolves /\ Promised(c, p)' # {} => o = pot'[p].resolvedOption
  <2> SUFFICES ASSUME SerialResolves, Promised(c, p)' # {} PROVE o = pot'[p].resolvedOption
    OBVIOUS
  <2>1. PayoutInv /\ Promised(c, p) # {}
    BY <1>4 DEF SerialInv
  <2>2. pot'[p] = pot[p]
    BY <2>1, PromisedResolved, FinalStep
  <2> QED BY <1>5, <2>1, <2>2 DEF Splits
<1>9. Splits(c, p, targets, pool, o)'
    BY <1>5, <1>6, <1>7, <1>8 DEF Splits, IsShare
<1>10. pool \in 0 .. SumUsdc(StakesOf(p)')
    BY <1>3
<1> QED BY <1>2, <1>9, <1>10

SettleInv == FiniteInv /\ SplitInv

(* Every step keeps the splits.                                            *)
LEMMA SettleStep ==
    ASSUME PotAssumption, TypeInv, OwnInv, SerialInv, SettleInv, [Next]_vars
    PROVE  SettleInv'
<1>1. FiniteInv'
    BY FiniteStep DEF SettleInv
<1>2. ASSUME NEW c \in ResolveCalls, NEW p \in Pots
      PROVE  (\E targets \in SUBSET StakesOf(p), pool \in 0 .. SumUsdc(StakesOf(p)),
                 o \in Options \cup {Null} : Splits(c, p, targets, pool, o))'
    BY <1>1, SplitRead, SplitKept DEF SettleInv
<1> QED BY <1>1, <1>2 DEF SettleInv, SplitInv

(* So a split explains all a call sends, in every reachable state.         *)
LEMMA SettleInvariant ==
    Spec => [](TypeInv /\ StakesInv /\ OwnInv /\ SerialInv /\ SettleInv)
<1>1. Init => SettleInv
  <2> SUFFICES ASSUME Init PROVE SettleInv
    OBVIOUS
  <2>1. Recorded = {} /\ ledger = {}
    BY DEF Init, Recorded
  <2>2. FiniteInv
    BY <2>1, FS_EmptySet DEF FiniteInv
  <2>3. ASSUME NEW c \in ResolveCalls, NEW p \in Pots
        PROVE  \E targets \in SUBSET StakesOf(p), pool \in 0 .. SumUsdc(StakesOf(p)),
                  o \in Options \cup {Null} : Splits(c, p, targets, pool, o)
    <3>1. Promised(c, p) = {}
      BY <2>1 DEF Init, Promised, Idle, Calls
    <3>2. StakesOf(p) \in SUBSET Hashes /\ IsFiniteSet(StakesOf(p))
      BY <2>2, StakesOfFinite DEF StakesOf
    <3>3. SumUsdc(StakesOf(p)) \in Nat
      BY <3>2, SumUsdcBounds, PotAssumption
    <3>4. Splits(c, p, {}, 0, Null)
      BY <3>1 DEF Splits
    <3>5. 0 \in 0 .. SumUsdc(StakesOf(p)) /\ {} \in SUBSET StakesOf(p)
      BY <3>3
    <3> QED BY <3>4, <3>5
  <2> QED BY <2>2, <2>3 DEF SettleInv, SplitInv
<1>2. Init => StakesInv
    BY DEF Init, StakesInv, StakesBacked, StakeChecked, Idle
<1>3. TypeInv /\ StakesInv /\ [Next]_vars => StakesInv'
    BY StakesStep, PotAssumption
<1>4. Init => SerialInv
    BY DEF Init, SerialInv, PayoutInv, OneResolver, LedgerInv, ResolverOK, Idle,
       Calls, ResolveSteps, PayoutSteps
<1>5. TypeInv /\ OwnInv /\ SerialInv /\ [Next]_vars => SerialInv'
    BY OneResolverStep, LedgerStep, ResolverStep, PotAssumption DEF SerialInv, PayoutInv
<1>6. TypeInv /\ OwnInv /\ SerialInv /\ SettleInv /\ [Next]_vars => SettleInv'
    BY SettleStep, PotAssumption
<1> QED BY <1>1, <1>2, <1>3, <1>4, <1>5, <1>6, TypeInvariant, OwnInvariant, PTL DEF Spec

(* What the transfers of a pot add up to, as a sum of the library's lemmas. *)
IsValueSums(f, E) ==
    f = [s \in SUBSET E |-> IF s = {} THEN 0 ELSE Pick(s).value + f[s \ {Pick(s)}]]

(* What a finite set of transfers pays is the sum of their values.         *)
LEMMA SumOfValues ==
    ASSUME NEW E, IsFiniteSet(E)
    PROVE  MapThenSumSet(LAMBDA e : e.value, E) = Sum([e \in E |-> e.value], E)
<1> DEFINE g == [e \in E |-> e.value]
           f == CHOOSE h : IsValueSums(h, E)
<1>1. MapThenSumSet(LAMBDA e : e.value, E) = f[E]
    BY DEF MapThenSumSet, MapThenFoldSet, IsValueSums, Pick
<1>2. IsSums(Sums(g, E), g, E)
    BY SumsOfSize DEF Sums
<1>3. \A s \in SUBSET E : s # {} => Pick(s) \in E
    BY DEF Pick
<1>4. IsValueSums(Sums(g, E), E)
  <2> DEFINE k == Sums(g, E)
  <2>1. k = [s \in SUBSET E |-> IF s = {} THEN 0 ELSE g[Pick(s)] + k[s \ {Pick(s)}]]
    BY <1>2 DEF IsSums
  <2> HIDE DEF k
  <2>2. k = [s \in SUBSET E |-> IF s = {} THEN 0 ELSE Pick(s).value + k[s \ {Pick(s)}]]
    BY <1>3, <2>1
  <2> QED BY <2>2 DEF IsValueSums, k
<1>5. IsValueSums(f, E)
    BY <1>4
<1> HIDE DEF f
<1>6. \A s \in SUBSET E : f[s] = IF s = {} THEN 0 ELSE Pick(s).value + f[s \ {Pick(s)}]
    BY <1>5 DEF IsValueSums
<1> DEFINE Good == {s \in SUBSET E : f[s] = Sum(g, s)}
<1>7. ASSUME NEW T \in SUBSET E, \A U \in SUBSET T : U # T => U \in Good PROVE T \in Good
  <2>1. CASE T = {}
    BY <1>6, <2>1, SumEmpty
  <2>2. CASE T # {}
    <3>1. IsFiniteSet(T)
      BY FS_Subset
    <3>2. Pick(T) \in T /\ Sum(g, T) = g[Pick(T)] + Sum(g, T \ {Pick(T)})
      BY <2>2, <3>1, SumPicks
    <3>3. T \ {Pick(T)} \in Good
      BY <1>7, <3>2
    <3> QED BY <1>6, <2>2, <3>2, <3>3
  <2> QED BY <2>1, <2>2
<1> HIDE DEF Good
<1>8. E \in Good
    BY <1>7, SubsetInduction
<1> QED BY <1>1, <1>8 DEF Good

(* A pot is split over finitely many stakes.                               *)
LEMMA TargetsFinite ==
    ASSUME FiniteInv, NEW p, NEW targets \in SUBSET StakesOf(p)
    PROVE  targets \in SUBSET Hashes /\ IsFiniteSet(targets)
<1>1. IsFiniteSet(StakesOf(p))
    BY StakesOfFinite
<1>2. IsFiniteSet(targets)
    BY <1>1, FS_Subset
<1>3. StakesOf(p) \subseteq Hashes
    BY DEF StakesOf
<1> QED BY <1>2, <1>3

(* The pool of a pot is an amount.                                         *)
LEMMA PoolNat ==
    ASSUME PotAssumption, FiniteInv, NEW p
    PROVE  SumUsdc(StakesOf(p)) \in Nat
<1>1. StakesOf(p) \in SUBSET Hashes /\ IsFiniteSet(StakesOf(p))
    BY TargetsFinite
<1> QED BY <1>1, SumUsdcBounds

(* A stake that is due a share was paid in, so its targets hold money.     *)
LEMMA ShareOfPool ==
    ASSUME PotAssumption, StakesInv, FiniteInv, NEW p,
           NEW targets \in SUBSET StakesOf(p), NEW pool \in Nat,
           NEW x, IsShare(x, targets, pool)
    PROVE  /\ amountUsdc[x.stake] \in Nat
           /\ SumUsdc(targets) \in Nat \ {0}
           /\ x.value \in Nat
           /\ x.value * SumUsdc(targets) <= pool * amountUsdc[x.stake]
           /\ pool = SumUsdc(targets) => x.value = amountUsdc[x.stake]
<1>1. targets \in SUBSET Hashes /\ IsFiniteSet(targets)
    BY TargetsFinite
<1>2. x.stake \in targets /\ potStake[x.stake] # Null
    BY DEF IsShare, StakesOf
<1>3. amountUsdc[x.stake] \in Nat \ {0}
    BY <1>1, <1>2, AmountNat DEF StakesInv, StakesBacked
<1>4. SumUsdc(targets) \in Nat /\ amountUsdc[x.stake] <= SumUsdc(targets)
    BY <1>1, <1>2, SumUsdcBounds
<1> DEFINE whole == SumUsdc(targets)
           part == amountUsdc[x.stake]
<1>5. whole \in Nat \ {0} /\ part \in Nat
    BY <1>3, <1>4
<1>6. x.value = (pool * part) \div whole
    BY DEF IsShare, ProRata
<1> HIDE DEF whole, part
<1>7. (pool * part) \div whole \in Nat /\ ((pool * part) \div whole) * whole <= pool * part
    BY <1>5, ShareFloored
<1>8. pool = whole => (pool * part) \div whole = part
    BY <1>5, ShareOfWhole
<1>9. x.value \in Nat /\ x.value * whole <= pool * part
    BY <1>6, <1>7
<1> QED BY <1>5, <1>6, <1>8, <1>9 DEF whole, part

(* The shares of a split add up to no more than the pool that was split.   *)
LEMMA SharesWithinPool ==
    ASSUME PotAssumption, StakesInv, FiniteInv, NEW p,
           NEW targets \in SUBSET StakesOf(p), NEW pool \in Nat,
           NEW E, IsFiniteSet(E), \A e \in E : IsShare(e, targets, pool),
           \A e, f \in E : e.stake = f.stake => e = f
    PROVE  MapThenSumSet(LAMBDA e : e.value, E) <= pool
<1> DEFINE v == [e \in E |-> e.value]
           w == [e \in E |-> amountUsdc[e.stake]]
           k == [e \in E |-> e.stake]
           whole == SumUsdc(targets)
           paid == {k[e] : e \in E}
<1>1. MapThenSumSet(LAMBDA e : e.value, E) = Sum(v, E)
    BY SumOfValues
<1>2. CASE E = {}
    BY <1>1, <1>2, SumEmpty
<1>3. CASE E # {}
  <2>1. whole \in Nat \ {0}
    BY <1>3, ShareOfPool
  <2>2. \A e \in E : v[e] \in Nat /\ w[e] \in Nat /\ v[e] * whole <= pool * w[e]
    BY ShareOfPool
  <2>3. paid \in SUBSET targets /\ targets \in SUBSET Hashes /\ IsFiniteSet(targets)
    BY TargetsFinite DEF IsShare
  <2>4. Sum(w, E) = Sum(amountUsdc, paid)
    <3>1. \A e \in E : amountUsdc[k[e]] \in Int /\ w[e] = amountUsdc[k[e]]
      BY <2>2
    <3>2. \A e, f \in E : k[e] = k[f] => e = f
      OBVIOUS
    <3> HIDE DEF k, w
    <3> QED BY <3>1, <3>2, SumOfImage
  <2>5. Sum(amountUsdc, paid) <= whole
    <3>1. SumUsdc(paid) <= SumUsdc(targets)
      BY <2>3, SumUsdcBounds
    <3> QED BY <3>1, SumUsdcIsSum
  <2> HIDE DEF v, w, paid, whole
  <2>6. Sum(v, E) * whole <= pool * Sum(w, E)
    BY <2>1, <2>2, SumOfShares
  <2>7. Sum(v, E) \in Nat /\ Sum(w, E) \in Nat
    BY <2>2, SumNat
  <2>8. Sum(v, E) * whole <= pool * whole
    <3>1. \A n \in Nat : n <= whole => pool * n <= pool * whole
      BY <2>1
    <3>2. pool * Sum(w, E) \in Nat /\ pool * whole \in Nat /\ Sum(v, E) * whole \in Nat
      BY <2>1, <2>7
    <3> QED BY <2>4, <2>5, <2>6, <2>7, <3>1, <3>2
  <2> QED BY <1>1, <2>1, <2>7, <2>8, Divides
<1> QED BY <1>2, <1>3

(* Without two spellings of one transaction, what the books say came in    *)
(* for a pot did come in.                                                  *)
LEMMA BooksReceived ==
    ASSUME PotAssumption, FiniteInv, NEW p,
           \A h \in StakesOf(p) : TxBacksOneStake(TxOf[h])
    PROVE  Received(p) = SumUsdc(StakesOf(p))
<1> DEFINE E == StakesOf(p)
<1>1. IsFiniteSet(E) /\ E \subseteq Hashes
    BY StakesOfFinite DEF StakesOf
<1>2. \A h \in E : amountUsdc[h] = TxValue[TxOf[h]] /\ TxValue[TxOf[h]] \in Int
    BY <1>1, AmountNat
<1>3. \A h, k \in E : TxOf[h] = TxOf[k] => h = k
    BY DEF TxBacksOneStake, StakesOf
<1>4. Received(p) = Sum(TxValue, {TxOf[h] : h \in E})
    BY DEF Received, Sum
<1> HIDE DEF E
<1>5. Sum(amountUsdc, E) = Sum(TxValue, {TxOf[h] : h \in E})
    BY <1>1, <1>2, <1>3, SumOfImage
<1> QED BY <1>4, <1>5, SumUsdcIsSum DEF E

(* One payout sends for a pot at most what the pot's stakes add up to,     *)
(* whatever is rounded, refunded, lost or staked while it runs and however *)
(* payouts overlap; and at most what the pot's stakers sent in, unless one *)
(* transfer is on the books in two spellings of its hash                   *)
(* (pot-service.ts:236-279).                                               *)
THEOREM PotsAreSolvent == Spec => []PoolSolvent
<1>1. ASSUME TypeInv, StakesInv, OwnInv, SettleInv PROVE PoolSolvent
  <2> SUFFICES ASSUME NEW p \in Pots, NEW c \in ResolveCalls
               PROVE  PaidBy(c, p) <= SumUsdc(StakesOf(p))
    BY <1>1, BooksReceived, PotAssumption DEF PoolSolvent, SettleInv
  <2> DEFINE E == {e \in Landed : e.call = c /\ PotOf(e) = p}
  <2>1. PICK targets \in SUBSET StakesOf(p), pool \in 0 .. SumUsdc(StakesOf(p)),
             o \in Options \cup {Null} : Splits(c, p, targets, pool, o)
    BY <1>1 DEF SettleInv, SplitInv
  <2>2. IsFiniteSet(E)
    BY <1>1, FS_Subset DEF SettleInv, FiniteInv, Landed
  <2>3. \A e \in E : IsShare(e, targets, pool)
    BY <2>1 DEF Splits, Promised, Landed
  <2>4. \A e, f \in E : e.stake = f.stake => e = f
    BY <1>1 DEF OwnInv, SentOnce, Landed
  <2>5. SumUsdc(StakesOf(p)) \in Nat
    BY <1>1, PoolNat, PotAssumption DEF SettleInv
  <2>6. PaidBy(c, p) = MapThenSumSet(LAMBDA e : e.value, E)
    BY DEF PaidBy
  <2> HIDE DEF E
  <2>7. pool \in Nat /\ pool <= SumUsdc(StakesOf(p))
    BY <2>5
  <2>8. MapThenSumSet(LAMBDA e : e.value, E) <= pool
    BY <1>1, <2>2, <2>3, <2>4, <2>7, SharesWithinPool, PotAssumption DEF SettleInv
  <2>9. MapThenSumSet(LAMBDA e : e.value, E) \in Nat
    <3> DEFINE v == [e \in E |-> e.value]
    <3>1. \A e \in E : v[e] \in Nat
      BY <1>1, <2>3, <2>7, ShareOfPool, PotAssumption DEF SettleInv
    <3>2. MapThenSumSet(LAMBDA e : e.value, E) = Sum(v, E)
      BY <2>2, SumOfValues
    <3> HIDE DEF v
    <3> QED BY <2>2, <3>1, <3>2, SumNat
  <2> QED BY <2>5, <2>6, <2>7, <2>8, <2>9
<1> QED BY <1>1, SettleInvariant, PTL

(* When payouts of a pot do not overlap, a payment goes to a stake on the  *)
(* outcome the pot shows, or is exactly the stake, of a call that paid no  *)
(* stake of the pot on that outcome (pot-service.ts:241-257).              *)
THEOREM PayoutsFollowOutcome ==
    ASSUME SerialResolves
    PROVE  Spec => []PayoutsMatchOutcome
<1>1. ASSUME TypeInv, StakesInv, OwnInv, SerialInv, SettleInv PROVE PayoutsMatchOutcome
  <2> SUFFICES ASSUME NEW e \in Landed
               PROVE  /\ pot[PotOf(e)].resolvedOption # Null
                      /\ \/ potStake[e.stake].option = pot[PotOf(e)].resolvedOption
                         \/ /\ e.value = amountUsdc[e.stake]
                            /\ \A f \in Landed :
                                  (f.call = e.call /\ PotOf(f) = PotOf(e)) =>
                                  potStake[f.stake].option # pot[PotOf(e)].resolvedOption
    BY DEF PayoutsMatchOutcome
  <2> DEFINE p == PotOf(e)
             c == e.call
  <2>1. /\ e \in ledger /\ potStake[e.stake] # Null /\ p \in Pots
        /\ c \in ResolveCalls
        /\ pot[p] # Null /\ pot[p].status = "resolved"
    BY <1>1, LedgerRows DEF Landed, SerialInv, PayoutInv, LedgerInv
  <2>2. pot[p].resolvedOption # Null
    BY <1>1, <2>1, PotAssumption DEF PotAssumption, TypeInv, TypeOK, PotRow
  <2>3. PICK targets \in SUBSET StakesOf(p), pool \in 0 .. SumUsdc(StakesOf(p)),
             o \in Options \cup {Null} : Splits(c, p, targets, pool, o)
    BY <1>1, <2>1 DEF SettleInv, SplitInv
  <2>4. \A f \in Landed : f.call = c /\ PotOf(f) = p => IsShare(f, targets, pool)
    BY <2>3 DEF Splits, Promised, Landed
  <2>5. o = pot[p].resolvedOption
    BY <2>1, <2>3 DEF Splits, Promised
  <2>6. CASE \A h \in targets : potStake[h].option = o
    BY <2>2, <2>4, <2>5, <2>6 DEF IsShare
  <2>7. CASE /\ pool = SumUsdc(targets)
             /\ \A h \in targets : potStake[h].option # o
    <3>1. SumUsdc(StakesOf(p)) \in Nat
      BY <1>1, PoolNat, PotAssumption DEF SettleInv
    <3>2. pool \in Nat
      BY <3>1
    <3>3. IsShare(e, targets, pool)
      BY <2>4
    <3>4. e.value = amountUsdc[e.stake]
      BY <1>1, <2>7, <3>2, <3>3, ShareOfPool, PotAssumption DEF SettleInv
    <3> QED BY <2>2, <2>4, <2>5, <2>7, <3>4 DEF IsShare
  <2> QED BY <2>3, <2>6, <2>7 DEF Splits
<1> QED BY <1>1, SettleInvariant, PTL

(***************************************************************************)
(* Pot implements PotEscrow, step by step, when payouts of a pot do not    *)
(* overlap.                                                                *)
(***************************************************************************)

(* What a pot, a stake, a mark and a transfer are to the escrow.           *)
Outcomes == [p \in Pots |-> IF pot[p] = Null THEN Null
                            ELSE pot[p].resolvedOption]

Held == [h \in Hashes |-> IF potStake[h] = Null THEN Null
                          ELSE [pot |-> potStake[h].pot,
                                option |-> potStake[h].option]]

Marked == {h \in Hashes : potStake[h] # Null /\ potStake[h].paidOutTxHash # Null}

Paid == {[stake |-> e.stake, ref |-> e.call, value |-> e.value] : e \in Landed}

(* Rows that keep their pot and their option are the same stakes.          *)
LEMMA HeldKept ==
    ASSUME RowsKept, \A h \in Hashes : potStake'[h] # Null => potStake[h] # Null
    PROVE  Held' = Held
<1>1. \A h \in Hashes :
         (IF potStake'[h] = Null THEN Null
          ELSE [pot |-> potStake'[h].pot, option |-> potStake'[h].option])
         = (IF potStake[h] = Null THEN Null
            ELSE [pot |-> potStake[h].pot, option |-> potStake[h].option])
    BY DEF RowsKept
<1> QED BY <1>1 DEF Held

(* What the escrow holds of a stake.                                       *)
LEMMA HeldRow ==
    ASSUME TypeInv, NEW h \in Hashes, potStake[h] # Null
    PROVE  /\ Held[h] # Null /\ Held[h].pot = potStake[h].pot
           /\ Held[h].option = potStake[h].option
<1>1. potStake[h].pot \in Pots /\ potStake[h].option \in Options
    BY DEF TypeInv, TypeOK, StakeRow
<1>2. Held[h] = [pot |-> potStake[h].pot, option |-> potStake[h].option]
    BY DEF Held
<1> QED BY <1>1, <1>2, EscrowAssumption

(* A row inserted by pot.stake is a stake the escrow did not hold.         *)
LEMMA HeldStep ==
    ASSUME PotAssumption, TypeInv, [Next]_vars, Held' # Held
    PROVE  \E h \in Hashes, p \in Pots, o \in Options : Escrow!Stake(h, p, o)
<1>1. PICK h \in Hashes : potStake'[h] # Null /\ potStake[h] = Null
    BY RowsStep, HeldKept
<1>2. PICK c \in StakeCalls :
          StakeInsert(c) /\ call[c].txHash = h /\ potStake'[h] = StakeRecord(c)
    BY <1>1, NewRow
<1>3. CallOK(c) /\ call[c].at = "insert"
    BY <1>2 DEF StakeInsert, TypeInv, Calls
<1>4. PICK p \in Pots, o \in Options : p = call[c].pot /\ o = call[c].option
    BY <1>3 DEF CallOK, StakeSteps
<1>5. \A u \in Hashes : u # h => potStake'[u] = potStake[u]
    BY <1>2 DEF StakeInsert, TypeInv, TypeOK
<1>6. /\ potStake'[h].pot = p /\ potStake'[h].option = o
      /\ potStake'[h].paidOutTxHash = Null
    BY <1>2, <1>4 DEF StakeRecord
<1>7. Held' = [Held EXCEPT ![h] = [pot |-> p, option |-> o]] /\ Held[h] = Null
    BY <1>1, <1>5, <1>6 DEF Held
<1>8. Outcomes' = Outcomes /\ Paid' = Paid /\ Marked' = Marked
    BY <1>1, <1>2, <1>5, <1>6 DEF StakeInsert, Outcomes, Paid, Landed, Marked
<1>9. Escrow!Stake(h, p, o)
    BY <1>7, <1>8 DEF Escrow!Stake, Outcomes, Held, Marked, Paid
<1> QED BY <1>9

(* The update of a resolve decides a pot the escrow held undecided.        *)
LEMMA OutcomesStep ==
    ASSUME PotAssumption, TypeInv, PayoutInv, NEW c \in ResolveCalls, Updates(c)
    PROVE  \E p \in Pots, o \in Options : Escrow!Decide(p, o)
<1> DEFINE p == call[c].pot
<1>1. pot[p].status = "open"
    BY DEF Updates, Moves, PayoutInv, ResolverOK
<1>2. p \in Pots /\ pot[p] # Null /\ call[c].option \in pot[p].options
    BY DEF Updates
<1>3. pot[p] \in PotRow /\ pot[p].resolvedOption = Null
    BY <1>1, <1>2 DEF TypeInv, TypeOK
<1>4. PICK q \in Pots, o \in Options : q = p /\ o = call[c].option
    BY <1>2, <1>3 DEF PotRow
<1>5. pot'[q] # Null /\ pot'[q].resolvedOption = o /\ \A r \in Pots : r # q => pot'[r] = pot[r]
    BY <1>4 DEF Updates
<1>6. Outcomes' = [Outcomes EXCEPT ![q] = o] /\ Outcomes[q] = Null
    BY <1>2, <1>3, <1>4, <1>5 DEF Outcomes
<1>7. Held' = Held /\ Paid' = Paid /\ Marked' = Marked
    BY DEF Updates, Held, Paid, Landed, Marked
<1>8. Escrow!Decide(q, o)
    BY <1>6, <1>7 DEF Escrow!Decide, Outcomes, Held, Marked, Paid
<1> QED BY <1>8

(* The mark books a stake of a decided pot that was not booked.            *)
LEMMA MarkedStep ==
    ASSUME PotAssumption, TypeInv, PayoutInv, [Next]_vars,
           NEW c \in ResolveCalls, Marks(c)
    PROVE  \E h \in Hashes : Escrow!Book(h)
<1>1. ResolverOK(c) /\ call[c].at = "mark" /\ c \in Calls
    BY DEF Marks, Moves, PayoutInv, Calls
<1>2. PICK h \in Hashes : h = call[c].now.stake
    BY DEF Marks
<1>3. /\ potStake[h] # Null /\ potStake[h].paidOutTxHash = Null
      /\ potStake[h].pot \in Pots
      /\ pot[potStake[h].pot] # Null /\ pot[potStake[h].pot].status = "resolved"
    BY <1>1, <1>2, OwedRows DEF Marks, ResolverOK
<1>4. pot[potStake[h].pot].resolvedOption # Null
    BY <1>3 DEF PotAssumption, TypeInv, TypeOK, PotRow
<1>5. /\ potStake'[h].paidOutTxHash # Null /\ potStake'[h] # Null
      /\ \A k \in Hashes : k # h => potStake'[k] = potStake[k]
      /\ UNCHANGED <<pot, ledger>>
    BY <1>1, <1>2, <1>3, RowsStep DEF Marks, RowsKept, PotAssumption
<1>6. Marked' = Marked \cup {h} /\ h \notin Marked
    BY <1>3, <1>5 DEF Marked
<1>7. Held' = Held
    BY <1>3, <1>5, RowsStep, HeldKept
<1>8. Outcomes' = Outcomes /\ Paid' = Paid
    BY <1>5 DEF Outcomes, Paid, Landed
<1>9. Held[h] # Null /\ Outcomes[Held[h].pot] # Null
    BY <1>3, <1>4, HeldRow DEF Outcomes
<1>10. Escrow!Book(h)
    BY <1>6, <1>7, <1>8, <1>9 DEF Escrow!Book, Outcomes, Held, Marked, Paid
<1> QED BY <1>10

(* A transfer that lands pays a stake of a decided pot that is not booked: *)
(* its share of a win, or exactly what was staked.                         *)
LEMMA PaidStep ==
    ASSUME PotAssumption, TypeInv, StakesInv, OwnInv, SerialResolves, PayoutInv,
           SettleInv, Paid' # Paid,
           NEW c \in ResolveCalls, NEW d \in call[c].due, NEW e, Sends(c, d, e)
    PROVE  \E f \in Paid' \ Paid : Escrow!Pay(f.stake, f.ref, f.value)
<1> DEFINE paid == [stake |-> e.stake, ref |-> e.call, value |-> e.value]
           p == potStake[e.stake].pot
<1>1. /\ c \in Calls /\ call[c] \in CallState /\ ResolverOK(c)
      /\ call[c].at = "send" /\ UNCHANGED <<pot, potStake>>
      /\ e.stake = d.stake /\ e.value = d.value /\ e.call = c
    BY DEF Calls, TypeInv, TypeOK, PayoutInv, Sends
<1>2. e.stake \in Hashes /\ e.call \in Calls /\ e.value \in Nat \ {0}
    BY <1>1 DEF CallState, Due
<1>3. /\ potStake[e.stake] # Null /\ call[c].pot = p /\ p \in Pots
      /\ pot[p] # Null /\ pot[p].status = "resolved"
      /\ potStake[e.stake].paidOutTxHash = Null
    BY <1>1, OwedRows DEF ResolverOK
<1>4. pot[p].resolvedOption # Null
    BY <1>3 DEF PotAssumption, TypeInv, TypeOK, PotRow
<1>5. Paid' = Paid \cup {paid} /\ paid \in Paid' \ Paid
  <2>1. Landed' \subseteq Landed \cup {e} /\ Landed \subseteq Landed'
    BY DEF Landed, Sends
  <2>2. Landed' = Landed \/ Landed' = Landed \cup {e}
    BY <2>1
  <2>3. Paid' = Paid \/ Paid' = Paid \cup {paid}
    BY <2>2 DEF Paid
  <2> QED BY <2>3
<1>6. \/ potStake[e.stake].option = pot[p].resolvedOption
      \/ e.value = amountUsdc[e.stake]
  <2>1. PICK targets \in SUBSET StakesOf(p), pool \in 0 .. SumUsdc(StakesOf(p)),
             o \in Options \cup {Null} : Splits(c, p, targets, pool, o)
    BY <1>3 DEF SettleInv, SplitInv
  <2>2. IsShare(d, targets, pool) /\ o = pot[p].resolvedOption
    BY <1>3, <2>1 DEF Splits, Promised
  <2>3. pool \in Nat
    <3>1. SumUsdc(StakesOf(p)) \in Nat
      BY PoolNat DEF SettleInv
    <3> QED BY <3>1
  <2>4. pool = SumUsdc(targets) => d.value = amountUsdc[d.stake]
    BY <2>2, <2>3, ShareOfPool DEF SettleInv
  <2> QED BY <1>1, <2>1, <2>2, <2>4 DEF Splits, IsShare
<1>7. Outcomes' = Outcomes /\ Held' = Held /\ Marked' = Marked
    BY <1>1 DEF Outcomes, Held, Marked
<1>8. /\ Held[e.stake] # Null /\ Held[e.stake].pot = p
      /\ Held[e.stake].option = potStake[e.stake].option
      /\ Outcomes[p] = pot[p].resolvedOption /\ e.stake \notin Marked
    BY <1>2, <1>3, HeldRow DEF Outcomes, Marked
<1>9. PICK h, ref, v : h = e.stake /\ ref = e.call /\ v = e.value
    OBVIOUS
<1>10. paid = [stake |-> h, ref |-> ref, value |-> v]
    BY <1>9
<1> HIDE DEF paid, p
<1>11. Escrow!Pay(h, ref, v)
    BY <1>2, <1>4, <1>5, <1>6, <1>7, <1>8, <1>9, <1>10
    DEF Escrow!Pay, Outcomes, Held, Marked, Paid
<1>12. paid.stake = h /\ paid.ref = ref /\ paid.value = v
    BY <1>10
<1> QED BY <1>5, <1>11, <1>12

(* Without the calls a pot is an escrow: a stake is recorded once under a  *)
(* spelling of its hash, a pot is decided once, and a stake is paid only   *)
(* after the decision, for the right amount, and never again once it is    *)
(* marked as paid (pot-service.ts:5-7).                                    *)
THEOREM PotRefinesEscrow ==
    ASSUME SerialResolves
    PROVE  Spec => ImplementsEscrow
<1>1. Init => Escrow!Init
  <2> SUFFICES ASSUME Init PROVE Escrow!Init
    OBVIOUS
  <2>1. /\ Outcomes = [p \in Pots |-> Null] /\ Held = [h \in Hashes |-> Null]
        /\ Marked = {} /\ Paid = {}
    BY DEF Init, Outcomes, Held, Marked, Paid, Landed
  <2> QED BY <2>1 DEF Escrow!Init, Outcomes, Held, Marked, Paid
<1>2. TypeInv /\ StakesInv /\ OwnInv /\ SerialInv /\ SettleInv /\ [Next]_vars
        => [Escrow!Next]_(Escrow!vars)
  <2> SUFFICES ASSUME TypeInv, StakesInv, OwnInv, PayoutInv, SettleInv, [Next]_vars
               PROVE  Escrow!Next \/ UNCHANGED Escrow!vars
    BY DEF SerialInv
  <2>1. CASE Held' # Held
    BY <2>1, HeldStep, PotAssumption DEF Escrow!Next
  <2>2. ASSUME NEW c \in ResolveCalls, Updates(c) PROVE Escrow!Next
    BY <2>2, OutcomesStep, PotAssumption DEF Escrow!Next
  <2>3. ASSUME NEW c \in ResolveCalls, Marks(c) PROVE Escrow!Next
    BY <2>3, MarkedStep, PotAssumption DEF Escrow!Next
  <2>4. ASSUME NEW c \in ResolveCalls, NEW d \in call[c].due, NEW e, Sends(c, d, e),
               Paid' # Paid
        PROVE  Escrow!Next
    BY <2>4, PaidStep, PotAssumption DEF Escrow!Next, Paid
  <2>5. CASE UNCHANGED <<Held, Outcomes, Marked, Paid>>
    BY <2>5 DEF Escrow!vars, Held, Outcomes, Marked, Paid
  <2>6. ASSUME NEW c \in ResolveCalls, Does(c), ~Updates(c), ~Marks(c),
               Paid' = Paid \/ ~\E d \in call[c].due : \E e : Sends(c, d, e)
        PROVE  UNCHANGED <<Held, Outcomes, Marked, Paid>>
    BY <2>6 DEF Does, Starts, Stops, Checks, Reads, Snapshots, Sends, Quiet,
       Held, Outcomes, Marked, Paid, Landed
  <2>7. ASSUME Outside, Held' = Held PROVE UNCHANGED <<Held, Outcomes, Marked, Paid>>
    <3>1. Paid' = Paid
      BY <2>7 DEF Outside, Paid, Landed
    <3>2. Outcomes' = Outcomes
      <4>1. ASSUME NEW p \in Pots PROVE Outcomes'[p] = Outcomes[p]
        BY <2>7 DEF Outside, Outcomes
      <4> QED BY <4>1 DEF Outcomes
    <3>3. Marked' = Marked
      BY <2>7 DEF Outside, Marked
    <3> QED BY <2>7, <3>1, <3>2, <3>3
  <2> QED BY <2>1, <2>2, <2>3, <2>4, <2>5, <2>6, <2>7, Turns, PotAssumption
<1> QED BY <1>1, <1>2, SettleInvariant, PTL DEF Spec, ImplementsEscrow, Escrow!Spec

(***************************************************************************)
(* How far overlapping stakes pass the cap of a pool.                      *)
(*                                                                         *)
(* The argument: the stakes on the books and those whose call has passed   *)
(* the check of the total but not yet inserted add up to at most the cap   *)
(* and a capped stake for every other call in flight.  A check that passes *)
(* adds a stake that fits under the cap next to the books; an insert moves *)
(* a stake from the calls to the books; anything else drops one.           *)
(***************************************************************************)

(* The calls of pot.stake in flight.                                       *)
Staking == {c \in StakeCalls : InFlight(c)}

(* The calls about to insert a stake on a pot, and what each is about to.  *)
Inserting(p) == {c \in StakeCalls : call[c].at = "insert" /\ call[c].pot = p}

Amounts == [c \in StakeCalls |-> amountUsdc[call[c].txHash]]

(* Finitely many calls and stakes, and every pot within the bound.         *)
OvershootInv ==
    /\ IsFiniteSet(Staking) /\ Cardinality(Staking) <= MaxStakesInFlight
    /\ IsFiniteSet(Recorded)
    /\ \A p \in Pots :
          SumUsdc(StakesOf(p)) + Sum(Amounts, Inserting(p))
              <= TotalMax + (MaxStakesInFlight - 1) * StakeMax

(* What a step does to the calls in flight: one starts while there is room *)
(* for it, or none does.                                                   *)
LEMMA StakingMoves ==
    ASSUME PotAssumption, TypeInv, [Next]_vars
    PROVE  \/ Staking' \subseteq Staking
           \/ /\ Cardinality(Staking) < MaxStakesInFlight
              /\ \E c : Staking' \subseteq Staking \cup {c}
<1>1. ASSUME NEW c \in StakeCalls, StakeAction(c)
      PROVE  \/ Staking' \subseteq Staking
             \/ /\ Cardinality(Staking) < MaxStakesInFlight
                /\ Staking' \subseteq Staking \cup {c}
  <2>1. \A d \in StakeCalls : d # c => call'[d] = call[d]
    BY <1>1, OthersKept DEF Calls
  <2>2. Staking' \subseteq Staking \cup {c}
    BY <2>1 DEF Staking, InFlight
  <2>3. CASE StakeStep(c)
    <3>1. c \in Staking
      BY <2>3 DEF Staking, InFlight, StakeStep, StakeLoad, StakeVerify, StakeSum, StakeInsert
    <3> QED BY <2>2, <3>1
  <2>4. CASE ~StakeStep(c)
    <3>1. Cardinality(Staking) < MaxStakesInFlight
      BY <1>1, <2>4 DEF StakeAction, StakeStart, Staking
    <3> QED BY <2>2, <3>1
  <2> QED BY <2>3, <2>4
<1>2. ASSUME NEW c \in ResolveCalls, ResolveAction(c) PROVE Staking' \subseteq Staking
  <2>1. \A d \in StakeCalls : call'[d] = call[d]
    BY <1>2, OthersKept DEF Calls, PotAssumption
  <2> QED BY <2>1 DEF Staking, InFlight
<1>3. ASSUME NEW c \in Calls, Abort(c) PROVE Staking' \subseteq Staking
  <2>1. \A d \in StakeCalls : d # c => call'[d] = call[d]
    BY <1>3, OthersKept DEF Calls
  <2>2. call'[c].at \in {"ended", "failed"}
    BY <1>3, OverEnds DEF Abort, Over
  <2> QED BY <2>1, <2>2 DEF Staking, InFlight
<1>4. CASE World \/ UNCHANGED vars
    BY <1>4 DEF World, Mine, Discard, Create, vars, Staking, InFlight
<1> QED BY <1>1, <1>2, <1>3, <1>4 DEF Next

(* What a step does to the calls about to insert: a check of the total     *)
(* passes, a stake is inserted, or calls only leave.                       *)
LEMMA InsertingMoves ==
    ASSUME PotAssumption, TypeInv, [Next]_vars, NEW p \in Pots
    PROVE  \/ /\ Inserting(p)' \subseteq Inserting(p)
              /\ StakesOf(p)' = StakesOf(p)
              /\ \A c \in Inserting(p)' : Amounts'[c] = Amounts[c]
           \/ \E c \in StakeCalls :
                 /\ call[c].at = "sum" /\ call[c].pot = p /\ HasRoom(c)
                 /\ Inserting(p)' = Inserting(p) \cup {c}
                 /\ StakesOf(p)' = StakesOf(p)
                 /\ \A d \in Inserting(p)' : Amounts'[d] = Amounts[d]
           \/ \E c \in Inserting(p) :
                 /\ Inserting(p)' = Inserting(p) \ {c}
                 /\ StakesOf(p)' \subseteq StakesOf(p) \cup {call[c].txHash}
                 /\ \A d \in Inserting(p)' : Amounts'[d] = Amounts[d]
<1> DEFINE Thins == /\ Inserting(p)' \subseteq Inserting(p)
                    /\ StakesOf(p)' = StakesOf(p)
                    /\ \A c \in Inserting(p)' : Amounts'[c] = Amounts[c]
<1>1. ASSUME \A d \in StakeCalls : call'[d] = call[d] \/ call'[d].at # "insert",
             StakesOf(p)' = StakesOf(p)
      PROVE  Thins
    BY <1>1 DEF Inserting, Amounts
<1>2. RowsKept
    BY RowsStep
<1>3. CASE potStake' = potStake /\ UNCHANGED call
    BY <1>1, <1>3 DEF StakesOf
<1>4. ASSUME NEW c \in ResolveCalls, ResolveAction(c) PROVE Thins
  <2>1. \A d \in StakeCalls : call'[d] = call[d]
    BY <1>4, OthersKept DEF Calls, PotAssumption
  <2>2. \A h \in Hashes : potStake'[h] # Null => potStake[h] # Null
    <3>1. ASSUME NEW h \in Hashes, potStake'[h] # Null, potStake[h] = Null PROVE FALSE
      <4>1. PICK d \in StakeCalls : StakeInsert(d)
        BY <3>1, NewRow
      <4>2. call'[d] = call[d] /\ call[d].at = "insert" /\ call'[d].at = "ended"
        BY <2>1, <4>1 DEF StakeInsert, Over, End, Fail, Leaves, Idle, TypeInv, TypeOK, Calls
      <4> QED BY <4>2
    <3> QED BY <3>1
  <2>3. StakesOf(p)' = StakesOf(p)
    BY <1>2, <2>2 DEF RowsKept, StakesOf
  <2> QED BY <1>1, <2>1, <2>3
<1>5. ASSUME NEW c \in Calls, Abort(c) PROVE Thins
  <2>1. \A d \in Calls : call'[d] = call[d] \/ call'[d].at \in {"ended", "failed"}
    BY <1>5, OthersKept, OverEnds DEF Abort, Over
  <2>2. StakesOf(p)' = StakesOf(p)
    BY <1>5 DEF Abort, StakesOf
  <2> QED BY <1>1, <2>1, <2>2 DEF Calls
<1>6. ASSUME NEW c \in StakeCalls, StakeAction(c), call'[c].at # "insert",
             potStake' = potStake
      PROVE  Thins
  <2>1. \A d \in StakeCalls : d # c => call'[d] = call[d]
    BY <1>6, OthersKept DEF Calls
  <2> QED BY <1>1, <1>6, <2>1 DEF StakesOf
<1>7. ASSUME NEW c \in StakeCalls, StakeSum(c), HasRoom(c), Goto(c, "insert")
      PROVE  \/ Thins
             \/ /\ call[c].at = "sum" /\ call[c].pot = p /\ HasRoom(c)
                /\ Inserting(p)' = Inserting(p) \cup {c}
                /\ StakesOf(p)' = StakesOf(p)
                /\ \A d \in Inserting(p)' : Amounts'[d] = Amounts[d]
  <2>1. /\ \A d \in StakeCalls : d # c => call'[d] = call[d]
        /\ call'[c].at = "insert" /\ call'[c].pot = call[c].pot
        /\ call'[c].txHash = call[c].txHash /\ call[c].at = "sum"
        /\ StakesOf(p)' = StakesOf(p)
    BY <1>7 DEF StakeSum, Goto, TypeInv, TypeOK, Calls, CallState, StakesOf
  <2>2. \A d \in StakeCalls : Amounts'[d] = Amounts[d]
    BY <2>1 DEF Amounts
  <2>3. CASE call[c].pot = p
    BY <1>7, <2>1, <2>2, <2>3 DEF Inserting
  <2>4. CASE call[c].pot # p
    BY <2>1, <2>2, <2>4 DEF Inserting
  <2> QED BY <2>3, <2>4
<1>8. ASSUME NEW c \in StakeCalls, StakeInsert(c)
      PROVE  \/ Thins
             \/ /\ c \in Inserting(p)
                /\ Inserting(p)' = Inserting(p) \ {c}
                /\ StakesOf(p)' \subseteq StakesOf(p) \cup {call[c].txHash}
                /\ \A d \in Inserting(p)' : Amounts'[d] = Amounts[d]
  <2>1. /\ \A d \in StakeCalls : d # c => call'[d] = call[d]
        /\ call'[c].at = "ended" /\ call[c].at = "insert"
    BY <1>8 DEF StakeInsert, Over, End, Fail, Leaves, Idle, TypeInv, TypeOK, Calls
  <2>2. ASSUME NEW h \in StakesOf(p)', h \notin StakesOf(p)
        PROVE  h = call[c].txHash /\ call[c].pot = p
    <3>1. h \in Hashes /\ potStake'[h] # Null /\ potStake'[h].pot = p
      BY <2>2 DEF StakesOf
    <3>2. potStake[h] = Null
      BY <1>2, <2>2, <3>1 DEF RowsKept, StakesOf
    <3> QED BY <1>8, <3>1, <3>2 DEF StakeInsert, StakeRecord, TypeInv, TypeOK
  <2>3. CASE call[c].pot = p
    BY <2>1, <2>2, <2>3 DEF Inserting, Amounts
  <2>4. CASE call[c].pot # p
    <3>1. StakesOf(p)' = StakesOf(p)
      BY <1>2, <2>2, <2>4, StakesOfGrow
    <3> QED BY <1>1, <2>1, <3>1
  <2> QED BY <2>3, <2>4
<1>9. ASSUME NEW c \in StakeCalls, StakeAction(c), ~StakeInsert(c),
             ~(StakeSum(c) /\ HasRoom(c))
      PROVE  Thins
  <2>1. potStake' = potStake
    BY <1>9 DEF StakeAction, StakeStart, StakeStep, StakeLoad, StakeVerify, StakeSum
  <2>2. call'[c].at # "insert"
    <3>1. CASE Over(c)
      BY <3>1, OverEnds DEF Calls
    <3>2. CASE Goto(c, "verify") \/ Goto(c, "sum")
      BY <3>2 DEF Goto, TypeInv, TypeOK, Calls, CallState
    <3>3. ASSUME NEW u, NEW q, NEW o, NEW h, StakeStart(c, u, q, o, h)
          PROVE  call'[c].at # "insert"
      BY <3>3 DEF StakeStart, Idle, TypeInv, TypeOK, Calls
    <3> QED BY <1>9, <3>1, <3>2, <3>3
         DEF Over, StakeAction, StakeStep, StakeLoad, StakeVerify, StakeSum
  <2> QED BY <1>6, <1>9, <2>1, <2>2
<1>10. CASE World \/ UNCHANGED vars
    BY <1>3, <1>10 DEF World, Mine, Discard, Create, vars
<1> HIDE DEF Thins
<1>11. ASSUME NEW c \in StakeCalls, StakeSum(c), HasRoom(c) PROVE Goto(c, "insert")
    BY <1>11 DEF StakeSum
<1>12. CASE Thins
    BY <1>12 DEF Thins
<1> QED BY <1>4, <1>5, <1>7, <1>8, <1>9, <1>10, <1>11, <1>12 DEF Next

(* What a call about to insert is about to insert is a capped amount.      *)
LEMMA InsertingCapped ==
    ASSUME PotAssumption, TypeInv, StakesInv, NEW c \in StakeCalls,
           call[c].at \in {"sum", "insert"}
    PROVE  /\ call[c].txHash \in Hashes /\ call[c].pot \in Pots
           /\ Amounts[c] = amountUsdc[call[c].txHash]
           /\ Amounts[c] \in Nat /\ Amounts[c] <= StakeMax
<1>1. CallOK(c) /\ StakeChecked(c)
    BY DEF TypeInv, StakesInv, Calls
<1>2. amountUsdc[call[c].txHash] \in 1 .. StakeMax
    BY <1>1 DEF StakeChecked, CallOK, StakeSteps, amountUsdc
<1> QED BY <1>1, <1>2 DEF CallOK, StakeSteps, Amounts, PotAssumption

(* Every step keeps the stakes on the books and on their way to them below *)
(* the bound.                                                              *)
LEMMA OvershootStep ==
    ASSUME PotAssumption, TypeInv, StakesInv, OvershootInv, [Next]_vars
    PROVE  OvershootInv'
<1>1. IsFiniteSet(Staking') /\ Cardinality(Staking') <= MaxStakesInFlight
  <2>1. /\ IsFiniteSet(Staking) /\ Cardinality(Staking) \in Nat
        /\ Cardinality(Staking) <= MaxStakesInFlight /\ MaxStakesInFlight \in Nat
    BY FS_CardinalityType DEF OvershootInv, PotAssumption
  <2>2. CASE Staking' \subseteq Staking
    <3>1. IsFiniteSet(Staking') /\ Cardinality(Staking') <= Cardinality(Staking)
      BY <2>1, <2>2, FS_Subset
    <3>2. Cardinality(Staking') \in Nat
      BY <3>1, FS_CardinalityType
    <3> QED BY <2>1, <3>1, <3>2
  <2>3. ASSUME NEW c, Staking' \subseteq Staking \cup {c},
               Cardinality(Staking) < MaxStakesInFlight
        PROVE  IsFiniteSet(Staking') /\ Cardinality(Staking') <= MaxStakesInFlight
    <3>1. /\ IsFiniteSet(Staking \cup {c})
          /\ Cardinality(Staking \cup {c}) <= Cardinality(Staking) + 1
      <4>1. /\ IsFiniteSet(Staking \cup {c})
            /\ Cardinality(Staking \cup {c})
                  = IF c \in Staking THEN Cardinality(Staking) ELSE Cardinality(Staking) + 1
        BY <2>1, FS_AddElement
      <4> QED BY <2>1, <4>1
    <3>2. IsFiniteSet(Staking') /\ Cardinality(Staking') <= Cardinality(Staking \cup {c})
      BY <2>3, <3>1, FS_Subset
    <3>3. Cardinality(Staking') \in Nat /\ Cardinality(Staking \cup {c}) \in Nat
      BY <3>1, <3>2, FS_CardinalityType
    <3> QED BY <2>1, <2>3, <3>1, <3>2, <3>3
  <2> QED BY <2>2, <2>3, StakingMoves
<1>2. IsFiniteSet(Recorded')
    BY RecordedStep DEF OvershootInv
<1>3. ASSUME NEW p \in Pots
      PROVE  (SumUsdc(StakesOf(p)) + Sum(Amounts, Inserting(p)))'
                <= TotalMax + (MaxStakesInFlight - 1) * StakeMax
  <2> DEFINE I == Inserting(p)
             J == Inserting(p)'
             S == StakesOf(p)
             R == StakesOf(p)'
             bound == TotalMax + (MaxStakesInFlight - 1) * StakeMax
  <2>1. /\ S \in SUBSET Hashes /\ IsFiniteSet(S) /\ R \in SUBSET Hashes /\ IsFiniteSet(R)
    <3>1. S \in SUBSET Recorded /\ R \in SUBSET Recorded'
      BY DEF StakesOf, Recorded
    <3>2. IsFiniteSet(S) /\ IsFiniteSet(R)
      BY <1>2, <3>1, FS_Subset DEF OvershootInv
    <3> QED BY <3>2 DEF StakesOf
  <2>2. I \subseteq Staking /\ IsFiniteSet(I)
    <3>1. I \subseteq Staking
      BY DEF Inserting, Staking, InFlight
    <3> QED BY <3>1, FS_Subset DEF OvershootInv
  <2>3. \A c \in I : Amounts[c] \in Nat /\ Amounts[c] <= StakeMax
    BY InsertingCapped DEF Inserting
  <2>4. SumUsdc(S) + Sum(Amounts, I) <= bound
    BY DEF OvershootInv
  <2>5. SumUsdc(S) \in Nat /\ SumUsdc(R) \in Nat /\ Sum(Amounts, I) \in Nat /\ bound \in Int
    <3>1. bound \in Int
      BY DEF PotAssumption
    <3> QED BY <2>1, <2>2, <2>3, <3>1, SumUsdcBounds, SumNat
  <2> HIDE DEF I, J, S, R, bound
  <2>6. ASSUME J \subseteq I, R = S, \A c \in J : Amounts'[c] = Amounts[c]
        PROVE  SumUsdc(R) + Sum(Amounts', J) <= bound
    <3>1. IsFiniteSet(J) /\ \A c \in J : Amounts[c] \in Nat
      BY <2>2, <2>3, <2>6, FS_Subset
    <3>2. Sum(Amounts', J) = Sum(Amounts, J)
      BY <2>6, <3>1, SumEqual
    <3>3. Sum(Amounts, J) <= Sum(Amounts, I) /\ Sum(Amounts, J) \in Nat
      BY <2>2, <2>3, <2>6, <3>1, SumMonotonic, SumNat
    <3> QED BY <2>4, <2>5, <2>6, <3>2, <3>3
  <2>7. ASSUME NEW c \in StakeCalls, call[c].at = "sum", call[c].pot = p, HasRoom(c),
               J = I \cup {c}, R = S, \A d \in J : Amounts'[d] = Amounts[d]
        PROVE  SumUsdc(R) + Sum(Amounts', J) <= bound
    <3>1. c \notin I /\ c \in Staking
      BY <2>7 DEF I, Inserting, Staking, InFlight
    <3>2. Amounts[c] = amountUsdc[call[c].txHash] /\ Amounts[c] \in Nat /\ Amounts[c] <= StakeMax
      BY <2>7, InsertingCapped
    <3>3. SumUsdc(S) + Amounts[c] <= TotalMax
      BY <2>7, <3>2 DEF HasRoom, S
    <3>4. IsFiniteSet(J) /\ \A d \in J : Amounts[d] \in Nat
      BY <2>2, <2>3, <2>7, <3>2, FS_AddElement
    <3>5. Sum(Amounts', J) = Sum(Amounts, J)
      BY <2>7, <3>4, SumEqual
    <3>6. Sum(Amounts, J) = Amounts[c] + Sum(Amounts, I)
      <4>1. J \ {c} = I /\ c \in J
        BY <2>7, <3>1
      <4> QED BY <3>4, <4>1, SumRemoves
    <3>7. Sum(Amounts, I) <= Cardinality(I) * StakeMax
      BY <2>2, <2>3, SumCapped DEF PotAssumption
    <3>8. Cardinality(I) \in Nat /\ Cardinality(I) <= MaxStakesInFlight - 1
      <4>1. IsFiniteSet(Staking) /\ Cardinality(Staking) <= MaxStakesInFlight
        BY DEF OvershootInv
      <4>2. I \in SUBSET (Staking \ {c})
        BY <2>2, <3>1
      <4>3. IsFiniteSet(Staking \ {c}) /\ Cardinality(Staking \ {c}) = Cardinality(Staking) - 1
        BY <3>1, <4>1, FS_RemoveElement
      <4>4. Cardinality(I) <= Cardinality(Staking \ {c})
        BY <4>2, <4>3, FS_Subset
      <4>5. /\ Cardinality(I) \in Nat /\ Cardinality(Staking) \in Nat
            /\ MaxStakesInFlight \in Nat
        BY <2>2, <4>1, FS_CardinalityType DEF PotAssumption
      <4> QED BY <4>1, <4>3, <4>4, <4>5
    <3>9. Cardinality(I) * StakeMax <= (MaxStakesInFlight - 1) * StakeMax
      <4>1. MaxStakesInFlight - 1 \in Nat /\ StakeMax \in Nat
        BY DEF PotAssumption
      <4> HIDE DEF I
      <4> QED BY <3>8, <4>1, TimesMonotonic
    <3>10. /\ Cardinality(I) * StakeMax \in Int
           /\ (MaxStakesInFlight - 1) * StakeMax \in Int /\ TotalMax \in Int
      BY <3>8 DEF PotAssumption
    <3> QED BY <2>5, <2>7, <3>2, <3>3, <3>5, <3>6, <3>7, <3>9, <3>10 DEF bound
  <2>8. ASSUME NEW c \in I, J = I \ {c}, R \subseteq S \cup {call[c].txHash},
               \A d \in J : Amounts'[d] = Amounts[d]
        PROVE  SumUsdc(R) + Sum(Amounts', J) <= bound
    <3> DEFINE h == call[c].txHash
    <3>1. h \in Hashes /\ Amounts[c] = amountUsdc[h] /\ Amounts[c] \in Nat
      BY InsertingCapped DEF I, Inserting
    <3>2. IsFiniteSet(J) /\ \A d \in J : Amounts[d] \in Nat
      BY <2>2, <2>3, <2>8, FS_Subset
    <3>3. Sum(Amounts', J) = Sum(Amounts, J)
      BY <2>8, <3>2, SumEqual
    <3>4. Sum(Amounts, I) = Amounts[c] + Sum(Amounts, J) /\ Sum(Amounts, J) \in Nat
      BY <2>2, <2>3, <2>8, <3>2, SumRemoves, SumNat
    <3> HIDE DEF h
    <3>5. SumUsdc(R) <= SumUsdc(S) + amountUsdc[h]
      <4> DEFINE T == S \cup {h}
      <4>1. T \in SUBSET Hashes /\ IsFiniteSet(T) /\ R \in SUBSET T
        BY <2>1, <2>8, <3>1, FS_AddElement DEF h
      <4>2. SumUsdc(R) <= SumUsdc(T) /\ SumUsdc(T) \in Nat
        BY <4>1, SumUsdcBounds
      <4>3. CASE h \in S
        <5>1. T = S
          BY <4>3
        <5>2. amountUsdc[h] \in Nat
          BY <3>1, AmountNat
        <5> HIDE DEF T
        <5> QED BY <2>5, <4>2, <5>1, <5>2
      <4>4. CASE h \notin S
        <5>1. T \ {h} = S /\ h \in T
          BY <4>4
        <5>2. \A u \in T : amountUsdc[u] \in Int
          BY <4>1, AmountNat
        <5> HIDE DEF T
        <5>3. Sum(amountUsdc, T) = amountUsdc[h] + Sum(amountUsdc, S)
          BY <4>1, <5>1, <5>2, SumRemoves
        <5>4. SumUsdc(T) = amountUsdc[h] + SumUsdc(S)
          BY <5>3, SumUsdcIsSum
        <5>5. amountUsdc[h] \in Nat
          BY <3>1, AmountNat
        <5> QED BY <2>5, <4>2, <5>4, <5>5
      <4> QED BY <4>3, <4>4
    <3> QED BY <2>4, <2>5, <3>1, <3>3, <3>4, <3>5
  <2>9. SumUsdc(R) + Sum(Amounts', J) <= bound
    BY <2>6, <2>7, <2>8, InsertingMoves DEF I, J, S, R
  <2> QED BY <2>9 DEF J, R, bound
<1> QED BY <1>1, <1>2, <1>3 DEF OvershootInv

(* Stakes of one pot that overlap pass the cap on its pool by at most one  *)
(* capped stake for each other call in flight (pot-service.ts:132-148).    *)
THEOREM OvershootIsBounded == Spec => []PoolOvershootBounded
<1>1. Init => OvershootInv
  <2> SUFFICES ASSUME Init PROVE OvershootInv
    OBVIOUS
  <2>1. Staking = {} /\ Recorded = {} /\ \A p : Inserting(p) = {} /\ StakesOf(p) = {}
    BY DEF Init, Staking, Recorded, Inserting, StakesOf, InFlight, Idle, Calls
  <2>2. SumUsdc({}) = 0 /\ Sum(Amounts, {}) = 0
    BY SumEmpty, SumUsdcIsSum
  <2> DEFINE excess == (MaxStakesInFlight - 1) * StakeMax
  <2>3. excess \in Nat /\ TotalMax \in Nat /\ MaxStakesInFlight \in Nat
    BY PotAssumption DEF PotAssumption
  <2>4. \A p \in Pots : SumUsdc(StakesOf(p)) + Sum(Amounts, Inserting(p)) = 0
    BY <2>1, <2>2
  <2>5. IsFiniteSet({}) /\ Cardinality({}) = 0
    BY FS_EmptySet
  <2>6. \A p \in Pots : SumUsdc(StakesOf(p)) + Sum(Amounts, Inserting(p)) <= TotalMax + excess
    <3> HIDE DEF excess
    <3> QED BY <2>3, <2>4
  <2>7. IsFiniteSet(Staking) /\ Cardinality(Staking) <= MaxStakesInFlight
    BY <2>1, <2>3, <2>5
  <2>8. IsFiniteSet(Recorded)
    BY <2>1, <2>5
  <2> QED BY <2>6, <2>7, <2>8 DEF OvershootInv
<1>2. TypeInv /\ StakesInv /\ OvershootInv /\ [Next]_vars => OvershootInv'
    BY OvershootStep, PotAssumption
<1>3. TypeInv /\ StakesInv /\ OvershootInv => PoolOvershootBounded
  <2> SUFFICES ASSUME TypeInv, StakesInv, OvershootInv, NEW p \in Pots
               PROVE  SumUsdc(StakesOf(p))
                         <= TotalMax + (MaxStakesInFlight - 1) * StakeMax
    BY DEF PoolOvershootBounded
  <2>1. Inserting(p) \subseteq Staking
    BY DEF Inserting, Staking, InFlight
  <2>2. IsFiniteSet(Inserting(p))
    BY <2>1, FS_Subset DEF OvershootInv
  <2>3. \A c \in Inserting(p) : Amounts[c] \in Nat
    BY InsertingCapped, PotAssumption DEF Inserting
  <2>4. Sum(Amounts, Inserting(p)) \in Nat
    BY <2>2, <2>3, SumNat
  <2>5. SumUsdc(StakesOf(p)) \in Nat
    <3>1. StakesOf(p) \in SUBSET Recorded /\ StakesOf(p) \in SUBSET Hashes
      BY DEF StakesOf, Recorded
    <3>2. IsFiniteSet(StakesOf(p))
      BY <3>1, FS_Subset DEF OvershootInv
    <3> QED BY <3>1, <3>2, SumUsdcBounds, PotAssumption
  <2>6. TotalMax + (MaxStakesInFlight - 1) * StakeMax \in Int
    BY PotAssumption DEF PotAssumption
  <2>7. SumUsdc(StakesOf(p)) + Sum(Amounts, Inserting(p))
           <= TotalMax + (MaxStakesInFlight - 1) * StakeMax
    BY DEF OvershootInv
  <2> QED BY <2>4, <2>5, <2>6, <2>7
<1>4. Init => StakesInv
    BY DEF Init, StakesInv, StakesBacked, StakeChecked, Idle
<1>5. TypeInv /\ StakesInv /\ [Next]_vars => StakesInv'
    BY StakesStep, PotAssumption
<1> QED BY <1>1, <1>2, <1>3, <1>4, <1>5, TypeInvariant, PTL DEF Spec
=============================================================================
