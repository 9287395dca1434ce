----------------------------- MODULE PotEscrow -----------------------------
(***************************************************************************)
(* What an escrowed pot promises its stakers, without requests, awaits or  *)
(* failures: a hash, as it is spelled, stands for at most one stake; a pot *)
(* is decided at most once; a stake is paid only after the decision, and   *)
(* only as a share of a winning stake or as a refund of exactly its        *)
(* amount; and once it is booked as paid it is never paid again.  It is    *)
(* not promised that a payment is booked: until then it may be repeated.   *)
(* Module Pot is shown to implement it.                                    *)
(***************************************************************************)
EXTENDS Integers

CONSTANTS
    Pots,       \* the pots
    Options,    \* the options stakers pick from
    Hashes,     \* the spellings of hashes a stake can be recorded under
    Amount,     \* [Hashes -> Nat], the USDC each one moves into escrow
    Refs,       \* references of outgoing transfers
    Null        \* "not yet"

VARIABLES
    outcome,    \* [Pots -> Options \cup {Null}]
    stakes,     \* [Hashes -> [pot: Pots, option: Options] \cup {Null}]
    booked,     \* the stakes booked as paid
    payouts     \* outgoing transfers that landed: [stake, ref, value]

vars == <<outcome, stakes, booked, payouts>>

Init ==
    /\ outcome = [p \in Pots |-> Null]
    /\ stakes = [h \in Hashes |-> Null]
    /\ booked = {}
    /\ payouts = {}

(* A hash is recorded as one stake.  The book does not close when the pot  *)
(* is decided: the program lets a stake in flight land afterwards.         *)
Stake(h, p, o) ==
    /\ stakes[h] = Null
    /\ stakes' = [stakes EXCEPT ![h] = [pot |-> p, option |-> o]]
    /\ UNCHANGED <<outcome, booked, payouts>>

(* A pot is decided once.                                                  *)
Decide(p, o) ==
    /\ outcome[p] = Null
    /\ outcome' = [outcome EXCEPT ![p] = o]
    /\ UNCHANGED <<stakes, booked, payouts>>

(* A stake of a decided pot that is not booked as paid is paid: a winner   *)
(* its share, and anybody else exactly the stake back.                     *)
Pay(h, ref, v) ==
    /\ h \in Hashes /\ ref \in Refs /\ v \in Nat \ {0}
    /\ stakes[h] # Null
    /\ outcome[stakes[h].pot] # Null
    /\ h \notin booked
    /\ \/ stakes[h].option = outcome[stakes[h].pot]
       \/ v = Amount[h]
    /\ payouts' = payouts \cup {[stake |-> h, ref |-> ref, value |-> v]}
    /\ UNCHANGED <<outcome, stakes, booked>>

(* A stake of a decided pot is booked as paid, once and for good.          *)
Book(h) ==
    /\ stakes[h] # Null
    /\ outcome[stakes[h].pot] # Null
    /\ h \notin booked
    /\ booked' = booked \cup {h}
    /\ UNCHANGED <<outcome, stakes, payouts>>

(* The payout of a step is the one it adds; written so, Next needs no bound *)
(* on the values.                                                           *)
Next ==
    \/ \E h \in Hashes, p \in Pots, o \in Options : Stake(h, p, o)
    \/ \E p \in Pots, o \in Options : Decide(p, o)
    \/ \E e \in payouts' \ payouts : Pay(e.stake, e.ref, e.value)
    \/ \E h \in Hashes : Book(h)

Spec == Init /\ [][Next]_vars
=============================================================================
