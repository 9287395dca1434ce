-------------------------------- MODULE Pot --------------------------------
(***************************************************************************)
(* sdk.pot: escrowed social wagers.                                        *)
(*                                                                         *)
(* Translated from packages/api/src/services/pot-service.ts (the service), *)
(* packages/api/src/routers/pot.ts (its routes), the pot and pot_stake     *)
(* tables of packages/db/src/schema/payment.db.ts, and the chain calls of  *)
(* packages/onchain/src/{verify,viem-server-wallet,money}.ts.              *)
(*                                                                         *)
(* Every route is an async function: a call runs alone only between two    *)
(* awaits, so one action is one awaited read, write or chain call with the *)
(* synchronous code after it.  Calls of one server interleave freely; no   *)
(* route opens a transaction and no update is guarded by what was read.    *)
(***************************************************************************)
EXTENDS Integers, FiniteSets, FiniteSetsExt

CONSTANTS
    Users,          \* users; the wallet on file for a user is the user's own
    Wallets,        \* the users that have a wallet on file
    Apps,           \* jams
    Pots,           \* identifiers of pots
    Options,        \* option labels
    Hashes,         \* transaction hashes as callers spell them: hexadecimal
                    \* digits in either case, which nothing normalises
    Txs,            \* chain transactions
    TxOf,           \* [Hashes -> Txs], the transaction the chain finds
    TxFrom,         \* [Txs -> Users], the sender in the Transfer log
    TxValue,        \* [Txs -> Nat], the USDC the log moves into escrow; 0 if
                    \* the transaction reverted or pays somebody else
    StakeMax,       \* POT_STAKE_MAX_USDC
    TotalMax,       \* POT_TOTAL_MAX_USDC
    StakeCalls,     \* calls of pot.stake, by number
    ResolveCalls,   \* calls of pot.resolve (and of payout, see Reruns)
    Creators,       \* bound: the users that create pots
    Tried,          \* bound: the stakes that are tried, <<user, option, hash>>
    MaxStakesInFlight, \* bound: calls of pot.stake in flight at a time
    SerialResolves, \* a creator starts a resolve only when none is in flight
    Reruns,         \* service.payout is also called on its own, as the test
                    \* "payout is idempotent" does to simulate a retry
    Faults,         \* which faults happen: see FaultKinds
    Null            \* a null column, and the absence of a row

Calls == StakeCalls \cup ResolveCalls

(* "reject": the transfer is refused before it is broadcast.               *)
(* "lost":   it lands, but waiting for its receipt throws.                 *)
(* "revert": it is mined and reverted; submit() does not look at status.   *)
(* "abort":  an awaited read or write throws, or the server goes down.     *)
FaultKinds == {"reject", "lost", "revert", "abort"}

ASSUME PotAssumption ==
    /\ Wallets \subseteq Users
    /\ TxOf \in [Hashes -> Txs]
    /\ TxFrom \in [Txs -> Users]
    /\ TxValue \in [Txs -> Nat]
    /\ StakeMax \in Nat
    /\ TotalMax \in Nat
    /\ MaxStakesInFlight \in Nat \ {0}
    /\ SerialResolves \in BOOLEAN
    /\ Reruns \in BOOLEAN
    /\ Faults \subseteq FaultKinds
    /\ Calls \subseteq Nat
    /\ StakeCalls \cap ResolveCalls = {}
    /\ Null \notin Users \cup Options \cup Calls \cup Hashes

VARIABLES
    mined,      \* the transactions on the chain
    delisted,   \* the jams whose owner discarded them
    pot,        \* table pot
    potStake,   \* table pot_stake, keyed by its unique column txHash, which
                \* is compared as text
    call,       \* the calls: where each stands, and what it remembers
    ledger      \* history: the outgoing transfers, [stake, call, value, landed]

vars == <<mined, delisted, pot, potStake, call, ledger>>

-----------------------------------------------------------------------------
(* Types                                                                   *)

PotRow == [app: Apps, creator: Users, options: SUBSET Options,
           status: {"open", "resolved"}, resolvedOption: Options \cup {Null}]

(* paidOutTxHash: the call whose transfer the hash belongs to.             *)
StakeRow == [pot: Pots, user: Users, option: Options,
             paidOutTxHash: Calls \cup {Null}]

(* Where a call stands: the awaited operation it is about to perform.      *)
StakeSteps == {"stakeLoad", "verify", "sum", "insert"}
PayoutSteps == {"payoutLoad", "payoutStakes", "send", "mark"}
ResolveSteps == {"resolveLoad", "oracle", "update"} \cup PayoutSteps

(* One transfer the payout loop still has to make.                         *)
Due == [stake: Hashes, value: Nat \ {0}]

CallState ==
    [at: {"new", "ended", "failed"} \cup StakeSteps \cup ResolveSteps,
     user: Users \cup {Null}, pot: Pots \cup {Null},
     option: Options \cup {Null}, txHash: Hashes \cup {Null},
     due: SUBSET Due, now: Due \cup {Null}]

Idle == [at |-> "new", user |-> Null, pot |-> Null, option |-> Null,
         txHash |-> Null, due |-> {}, now |-> Null]

Transfer == [stake: Hashes, call: Calls, value: Nat \ {0}, landed: BOOLEAN]

ASSUME NullAssumption ==
    Null \notin PotRow /\ Null \notin StakeRow /\ Null \notin Due

(* Every column is typed, and a pot has an outcome, one of its options,    *)
(* exactly when it is resolved.                                            *)
TypeOK ==
    /\ mined \subseteq Txs
    /\ delisted \subseteq Apps
    /\ pot \in [Pots -> PotRow \cup {Null}]
    /\ potStake \in [Hashes -> StakeRow \cup {Null}]
    /\ call \in [Calls -> CallState]
    /\ ledger \subseteq Transfer
    /\ \A p \in Pots : pot[p] # Null =>
          IF pot[p].status = "open" THEN pot[p].resolvedOption = Null
                                    ELSE pot[p].resolvedOption \in pot[p].options

Init ==
    /\ mined = {}
    /\ delisted = {}
    /\ pot = [p \in Pots |-> Null]
    /\ potStake = [h \in Hashes |-> Null]
    /\ call = [c \in Calls |-> Idle]
    /\ ledger = {}

-----------------------------------------------------------------------------
(* Money                                                                   *)

(* stakesOf: the rows of a pot.                                            *)
StakesOf(p) == {h \in Hashes : potStake[h] # Null /\ potStake[h].pot = p}

(* The column amountUsdc of a stake: what its transaction moved.           *)
amountUsdc == [h \in Hashes |-> TxValue[TxOf[h]]]

SumUsdc(hs) == MapThenSumSet(LAMBDA h : amountUsdc[h], hs)

(* Rounded up: a stake may get a little more than its part.                *)
ProRataUp(total, part, whole) == (total * part + whole - 1) \div whole

(* proRata: floored.  The caller's whole is never zero.                     *)
ProRata(total, part, whole) == (total * part) \div whole

-----------------------------------------------------------------------------
(* Calls                                                                   *)

Goto(c, step) == call' = [call EXCEPT ![c].at = step]

(* The call is over: nothing of it is left but its effects, and whether it *)
(* ran to its own end (a result, or an error the code throws) or was cut   *)
(* short by a fault.                                                       *)
Leaves(c, how) == call' = [call EXCEPT ![c] = [Idle EXCEPT !.at = how]]

End(c) == Leaves(c, "ended")

Fail(c) == Leaves(c, "failed")

InFlight(c) == call[c].at \notin {"new", "ended", "failed"}

(* The next call of its kind to be made: the calls of a kind are numbered  *)
(* in the order in which they start.                                       *)
IsNext(c, kind) ==
    call[c].at = "new" /\ \A d \in kind : d < c => call[d].at # "new"

(* requireApp: the jam exists and is not delisted.                         *)
AppLive(a) == a \notin delisted

(* A call on a pot of another jam finds no pot, so a call always names the *)
(* jam of its pot here.                                                    *)
PotLive(p) == pot[p] # Null /\ AppLive(pot[p].app)

-----------------------------------------------------------------------------
(* The world around the service                                            *)

(* A wallet's transfer is mined.                                           *)
Mine(t) ==
    /\ t \notin mined
    /\ mined' = mined \cup {t}
    /\ UNCHANGED <<delisted, pot, potStake, call, ledger>>

(* apps.discard: the owner of a jam delists it.                            *)
Discard(a) ==
    /\ AppLive(a)
    /\ delisted' = delisted \cup {a}
    /\ UNCHANGED <<mined, pot, potStake, call, ledger>>

(* pot.create: the check of the jam, and the single insert.  They are two   *)
(* awaits in the code; a discard in between only makes a pot nobody can    *)
(* use, since every other call checks the jam again.                       *)
Create(p, a, u, options) ==
    /\ u \in Creators
    /\ pot[p] = Null
    /\ AppLive(a)
    /\ Cardinality(options) >= 2
    /\ pot' = [pot EXCEPT ![p] =
          [app |-> a, creator |-> u, options |-> options,
           status |-> "open", resolvedOption |-> Null]]
    /\ UNCHANGED <<mined, delisted, potStake, call, ledger>>

-----------------------------------------------------------------------------
(* pot.stake                                                               *)

StakeStart(c, u, p, o, h) ==
    /\ IsNext(c, StakeCalls)
    /\ <<u, o, h>> \in Tried
    /\ PotLive(p)
    /\ Cardinality({d \in StakeCalls : InFlight(d)}) < MaxStakesInFlight
    /\ call' = [call EXCEPT ![c] = [Idle EXCEPT !.at = "stakeLoad",
          !.user = u, !.pot = p, !.option = o, !.txHash = h]]
    /\ UNCHANGED <<mined, delisted, pot, potStake, ledger>>

(* The checks on the pot as read: it is open, has the option, and the      *)
(* actor a wallet.  None is repeated after the awaits that follow.         *)
StakeAdmitted(c) ==
    LET row == pot[call[c].pot]
    IN  /\ row.status = "open"
        /\ call[c].option \in row.options
        /\ call[c].user \in Wallets

StakeLoad(c) ==
    /\ call[c].at = "stakeLoad"
    /\ IF StakeAdmitted(c) THEN Goto(c, "verify") ELSE End(c)
    /\ UNCHANGED <<mined, delisted, pot, potStake, ledger>>

VerifiedWithoutSender(c) ==
    LET t == TxOf[call[c].txHash]
    IN  t \in mined /\ TxValue[t] \in 1 .. StakeMax

(* verifyUsdcTransfer and the checks on its result: the receipt exists and *)
(* moves at least MIN_STAKE into escrow, from the actor's own wallet, and  *)
(* no more than the cap.  The chain finds a receipt by its hash in any     *)
(* spelling.                                                               *)
Verified(c) ==
    LET t == TxOf[call[c].txHash]
    IN  /\ t \in mined
        /\ TxValue[t] >= 1
        /\ TxFrom[t] = call[c].user
        /\ TxValue[t] <= StakeMax

StakeVerify(c) ==
    /\ call[c].at = "verify"
    /\ IF Verified(c) THEN Goto(c, "sum") ELSE End(c)
    /\ UNCHANGED <<mined, delisted, pot, potStake, ledger>>

HasRoom(c) ==
    SumUsdc(StakesOf(call[c].pot)) + amountUsdc[call[c].txHash] <= TotalMax

StakeSum(c) ==
    /\ call[c].at = "sum"
    /\ IF HasRoom(c) THEN Goto(c, "insert") ELSE End(c)
    /\ UNCHANGED <<mined, delisted, pot, potStake, ledger>>

StakeRecord(c) ==
    [pot |-> call[c].pot, user |-> call[c].user, option |-> call[c].option,
     paidOutTxHash |-> Null]

(* The unique index dropped: a reused hash overwrites its stake.           *)
StakeInsertAsUpsert(c) ==
    /\ call[c].at = "insert"
    /\ potStake' = [potStake EXCEPT ![call[c].txHash] = StakeRecord(c)]
    /\ End(c)
    /\ UNCHANGED <<mined, delisted, pot, ledger>>

(* The insert, refused by the unique index when a row has the same hash in *)
(* the same spelling.  In another spelling the same transaction is a new   *)
(* row: the validator takes digits in either case and the column is text.  *)
StakeInsert(c) ==
    /\ call[c].at = "insert"
    /\ potStake' = IF potStake[call[c].txHash] = Null
                     THEN [potStake EXCEPT ![call[c].txHash] = StakeRecord(c)]
                     ELSE potStake
    /\ End(c)
    /\ UNCHANGED <<mined, delisted, pot, ledger>>

-----------------------------------------------------------------------------
(* pot.resolve                                                             *)

(* No other resolve or payout of the pot is in flight.                     *)
NoResolveInFlight(p) ==
    \A c \in ResolveCalls : call[c].at \in ResolveSteps => call[c].pot # p

ResolveStart(c, u, p, o) ==
    /\ IsNext(c, ResolveCalls)
    /\ PotLive(p)
    /\ SerialResolves => NoResolveInFlight(p)
    /\ call' = [call EXCEPT ![c] = [Idle EXCEPT !.at = "resolveLoad",
          !.user = u, !.pot = p, !.option = o]]
    /\ UNCHANGED <<mined, delisted, pot, potStake, ledger>>

(* The checks on the pot as read: the creator resolves an open pot.        *)
ResolveAdmitted(c) ==
    LET row == pot[call[c].pot]
    IN  row.creator = call[c].user /\ row.status = "open"

(* Without an outcome of the creator's the oracle is asked; with one it    *)
(* must be an option of the pot.                                           *)
ResolveLoad(c) ==
    /\ call[c].at = "resolveLoad"
    /\ IF ~ResolveAdmitted(c) THEN End(c)
       ELSE IF call[c].option = Null THEN Goto(c, "oracle")
       ELSE IF call[c].option \in pot[call[c].pot].options THEN Goto(c, "update")
       ELSE End(c)
    /\ UNCHANGED <<mined, delisted, pot, potStake, ledger>>

(* The oracle answers, and its answer is checked against the options read  *)
(* before it was asked (a pot's options never change).                     *)
OracleAnswers(c, o) ==
    /\ call[c].at = "oracle"
    /\ IF o \in pot[call[c].pot].options
         THEN call' = [call EXCEPT ![c] = [@ EXCEPT !.at = "update",
                                                   !.option = o]]
         ELSE End(c)
    /\ UNCHANGED <<mined, delisted, pot, potStake, ledger>>

(* UPDATE pot ... WHERE id: no condition on the status it found.           *)
ResolveUpdate(c) ==
    /\ call[c].at = "update"
    /\ pot' = [pot EXCEPT ![call[c].pot] =
          [@ EXCEPT !.status = "resolved", !.resolvedOption = call[c].option]]
    /\ call' = [call EXCEPT ![c] = [@ EXCEPT !.at = "payoutLoad",
                                            !.option = Null]]
    /\ UNCHANGED <<mined, delisted, potStake, ledger>>

-----------------------------------------------------------------------------
(* payout                                                                  *)

(* payout called on its own, as a retry of an earlier resolve would.       *)
Rerun(c, p) ==
    /\ Reruns
    /\ IsNext(c, ResolveCalls)
    /\ pot[p] # Null
    /\ SerialResolves => NoResolveInFlight(p)
    /\ call' = [call EXCEPT ![c] = [Idle EXCEPT !.at = "payoutLoad", !.pot = p]]
    /\ UNCHANGED <<mined, delisted, pot, potStake, ledger>>

(* The pot is read again, and its outcome with it.                         *)
PayoutLoad(c) ==
    LET row == pot[call[c].pot]
    IN  /\ call[c].at = "payoutLoad"
        /\ IF row.status = "resolved" /\ row.resolvedOption # Null
             THEN call' = [call EXCEPT ![c] =
                     [@ EXCEPT !.at = "payoutStakes",
                               !.option = row.resolvedOption]]
             ELSE End(c)
        /\ UNCHANGED <<mined, delisted, pot, potStake, ledger>>

Winners(p, o) == {h \in StakesOf(p) : potStake[h].option = o}

TargetsEverybody(p, o) == StakesOf(p)

(* The winners, or everybody when there is none.                           *)
Targets(p, o) == IF Winners(p, o) # {} THEN Winners(p, o) ELSE StakesOf(p)

(* What a stake is owed: its part of the whole pool.                       *)
Share(p, o, h) ==
    ProRata(SumUsdc(StakesOf(p)), amountUsdc[h], SumUsdc(Targets(p, o)))

PaidEarlierIgnored(h) == FALSE

(* paidOutTxHash as the snapshot of the rows shows it.                     *)
PaidEarlier(h) == potStake[h].paidOutTxHash # Null

(* The transfers the loop will make: of the targets not marked as paid,    *)
(* with a payout above zero and a wallet to send it to.                    *)
DueOf(p, o) ==
    {d \in [stake: Targets(p, o),
            value: {Share(p, o, h) : h \in Targets(p, o)} \cap (Nat \ {0})] :
        /\ d.value = Share(p, o, d.stake)
        /\ ~PaidEarlier(d.stake)
        /\ potStake[d.stake].user \in Wallets}

(* The rows are read once, and the loop works on that snapshot; the        *)
(* wallets, read next, are constants here.                                 *)
PayoutStakes(c) ==
    /\ call[c].at = "payoutStakes"
    /\ call' = [call EXCEPT ![c] =
          [@ EXCEPT !.at = "send", !.option = Null,
                    !.due = DueOf(call[c].pot, call[c].option)]]
    /\ UNCHANGED <<mined, delisted, pot, potStake, ledger>>

Sent(c, d, landed) ==
    ledger' = ledger \cup {[stake |-> d.stake, call |-> c, value |-> d.value,
                            landed |-> landed]}

(* sendUsdc returned a hash: the transfer was mined, whatever its status.  *)
Send(c, d, landed) ==
    /\ call[c].at = "send"
    /\ d \in call[c].due
    /\ landed \/ "revert" \in Faults
    /\ Sent(c, d, landed)
    /\ call' = [call EXCEPT ![c] = [@ EXCEPT !.at = "mark", !.now = d]]
    /\ UNCHANGED <<mined, delisted, pot, potStake>>

(* sendUsdc threw RELAY_FAILED before broadcasting: the loop is abandoned. *)
SendRejected(c) ==
    /\ "reject" \in Faults
    /\ call[c].at = "send"
    /\ call[c].due # {}
    /\ Fail(c)
    /\ UNCHANGED <<mined, delisted, pot, potStake, ledger>>

(* sendUsdc threw while waiting for the receipt of a transfer that landed. *)
SendLost(c, d) ==
    /\ "lost" \in Faults
    /\ call[c].at = "send"
    /\ d \in call[c].due
    /\ Sent(c, d, TRUE)
    /\ Fail(c)
    /\ UNCHANGED <<mined, delisted, pot, potStake>>

(* The update left out.                                                    *)
MarkNothing(c) ==
    /\ call[c].at = "mark"
    /\ call' = [call EXCEPT ![c] =
          [@ EXCEPT !.at = "send", !.now = Null,
                    !.due = call[c].due \ {call[c].now}]]
    /\ UNCHANGED <<mined, delisted, pot, potStake, ledger>>

(* UPDATE pot_stake SET paidOutTxHash: unconditional, after the transfer.  *)
Mark(c) ==
    /\ call[c].at = "mark"
    /\ potStake' = [potStake EXCEPT ![call[c].now.stake].paidOutTxHash = c]
    /\ call' = [call EXCEPT ![c] =
          [@ EXCEPT !.at = "send", !.now = Null,
                    !.due = call[c].due \ {call[c].now}]]
    /\ UNCHANGED <<mined, delisted, pot, ledger>>

PayoutReturns(c) ==
    /\ call[c].at = "send"
    /\ call[c].due = {}
    /\ End(c)
    /\ UNCHANGED <<mined, delisted, pot, potStake, ledger>>

-----------------------------------------------------------------------------
(* An awaited read or write of the call throws, or the server goes down    *)
(* with it: what it did stays, what it knew is gone.  Only of a resolve is *)
(* it remembered that it was cut short.                                    *)
Abort(c) ==
    /\ "abort" \in Faults
    /\ InFlight(c)
    /\ IF c \in ResolveCalls THEN Fail(c) ELSE End(c)
    /\ UNCHANGED <<mined, delisted, pot, potStake, ledger>>

(* The steps the server takes on its own once a call has started.          *)
StakeStep(c) == StakeLoad(c) \/ StakeVerify(c) \/ StakeSum(c) \/ StakeInsert(c)

ResolveStep(c) ==
    \/ ResolveLoad(c)
    \/ \E o \in Options : OracleAnswers(c, o)
    \/ ResolveUpdate(c)
    \/ PayoutLoad(c)
    \/ PayoutStakes(c)
    \/ \E d \in call[c].due : Send(c, d, TRUE)
    \/ Mark(c)
    \/ PayoutReturns(c)

World ==
    \/ \E t \in Txs : Mine(t)
    \/ \E a \in Apps : Discard(a)
    \/ \E p \in Pots, a \in Apps, u \in Users, os \in SUBSET Options :
          Create(p, a, u, os)

StakeAction(c) ==
    \/ \E u \in Users, p \in Pots, o \in Options, h \in Hashes :
          StakeStart(c, u, p, o, h)
    \/ StakeStep(c)

ResolveAction(c) ==
    \/ \E u \in Users, p \in Pots, o \in Options \cup {Null} :
          ResolveStart(c, u, p, o)
    \/ \E p \in Pots : Rerun(c, p)
    \/ ResolveStep(c)
    \/ \E d \in call[c].due : Send(c, d, FALSE) \/ SendLost(c, d)
    \/ SendRejected(c)

Next ==
    \/ World
    \/ \E c \in StakeCalls : StakeAction(c)
    \/ \E c \in ResolveCalls : ResolveAction(c)
    \/ \E c \in Calls : Abort(c)

Spec == Init /\ [][Next]_vars

(* A promise that settles is resumed by the event loop: a resolve in       *)
(* flight goes on, or is cut short.  Nothing makes a user call, a chain    *)
(* fail or an owner discard, and no stake is counted on to go on.          *)
Fairness == \A c \in ResolveCalls : WF_vars(ResolveStep(c))

FairSpec == Spec /\ Fairness
=============================================================================
