--------------------------- MODULE PotProperties ---------------------------
(***************************************************************************)
(* What makes the escrow of module Pot correct.                            *)
(***************************************************************************)
EXTENDS Pot

Landed == {e \in ledger : e.landed}

PotOf(e) == potStake[e.stake].pot

(* Every stake on the books is backed by a mined transfer into escrow from *)
(* the staker's own wallet, within the cap, on an option of an existing    *)
(* pot: the checks of stake are spread over four awaits, and the row is    *)
(* written after the last of them.                                         *)
StakesBacked ==
    \A h \in Hashes : potStake[h] # Null =>
        /\ TxOf[h] \in mined
        /\ TxFrom[TxOf[h]] = potStake[h].user
        /\ TxValue[TxOf[h]] \in 1 .. StakeMax
        /\ pot[potStake[h].pot] # Null
        /\ potStake[h].option \in pot[potStake[h].pot].options

(* "txHash UNIQUE = replay guard" (pot-service.ts:152): a transfer backs   *)
(* one stake.  False of the program, whose unique index compares text: one *)
(* transfer in two spellings of its hash is two stakes.                    *)
TxBacksOneStake(t) ==
    \A h, k \in Hashes :
        (TxOf[h] = t /\ TxOf[k] = t /\ potStake[h] # Null /\ potStake[k] # Null)
            => h = k

OneStakePerTransfer == \A t \in Txs : TxBacksOneStake(t)

(* "idempotent pro-rata payout: each winning stake's paidOutTxHash gates   *)
(* its payout so retries/sweeps never double-pay" (pot-service.ts:5-6), and *)
(* "Safe to re-run after a partial failure" (pot-service.ts:231): at most  *)
(* one transfer for a stake ever lands.  False of the program when two     *)
(* resolves overlap, and when payout is called again after a failure.      *)
NoDoublePay ==
    \A e, f \in Landed : e.stake = f.stake => e = f

(* What the mark does achieve when payouts of a pot do not overlap: of two *)
(* payments of one stake the call that made one of them was cut short by a *)
(* fault, as one is between its transfer and the update of paidOutTxHash.  *)
(* So however often payout is called, a stake has at most one payment by   *)
(* calls that ran to their end.                                            *)
PaidTwiceOnlyAfterFailure ==
    \A e, f \in Landed :
        (e.stake = f.stake /\ e # f)
            => call[e.call].at = "failed" \/ call[f.call].at = "failed"

(* What a call sends for a pot, what the books say came in for the pot, and *)
(* what did come in: a transfer on the books twice came in once.           *)
PaidBy(c, p) ==
    MapThenSumSet(LAMBDA e : e.value, {e \in Landed : e.call = c /\ PotOf(e) = p})

Received(p) ==
    MapThenSumSet(LAMBDA t : TxValue[t], {TxOf[h] : h \in StakesOf(p)})

(* One payout never sends more for a pot than the pot's stakes add up to,  *)
(* with the rounding of the code and whatever is staked while it runs; and *)
(* unless a transfer of the pot is on the books twice, never more than the *)
(* pot's stakers sent in, so the pot is not paid from another's money.     *)
PoolSolvent ==
    \A p \in Pots, c \in ResolveCalls :
        /\ PaidBy(c, p) <= SumUsdc(StakesOf(p))
        /\ (\A h \in StakesOf(p) : TxBacksOneStake(TxOf[h]))
              => PaidBy(c, p) <= Received(p)

(* A payout agrees with the outcome the pot shows: a share of a stake on   *)
(* that outcome or, when its call paid no such stake, the stake given back. *)
PayoutsMatchOutcome ==
    \A e \in Landed :
        LET outcome == pot[PotOf(e)].resolvedOption
            Won(f) == potStake[f.stake].option = outcome
        IN  /\ outcome # Null
            /\ \/ Won(e)
               \/ /\ e.value = amountUsdc[e.stake]
                  /\ \A f \in Landed :
                        (f.call = e.call /\ PotOf(f) = PotOf(e)) => ~Won(f)

(* A resolved pot keeps its row, and its outcome, for good: "double-resolve *)
(* -> CONFLICT" (pot-service.test.ts:96-114).                               *)
ResolvedIsFinal ==
    [][\A p \in Pots :
          (pot[p] # Null /\ pot[p].status = "resolved") => pot'[p] = pot[p]]_vars

(* "pot total capped 100 USDC" (SPEC.md:741).                              *)
PoolCapped == \A p \in Pots : SumUsdc(StakesOf(p)) <= TotalMax

(* What the check of the total achieves when stakes overlap: it is made    *)
(* against a sum read before the insert, so a pool passes the cap by at    *)
(* most one capped stake for each other call in flight.                    *)
PoolOvershootBounded ==
    \A p \in Pots : SumUsdc(StakesOf(p)) <=
        TotalMax + (MaxStakesInFlight - 1) * StakeMax

(***************************************************************************)
(* Refinement: without the calls, a pot is the escrow of PotEscrow.        *)
(***************************************************************************)
(* What the escrow keeps of a stake is never taken for the absence of one. *)
ASSUME EscrowAssumption == Null \notin [pot: Pots, option: Options]

Escrow == INSTANCE PotEscrow WITH
    Amount <- amountUsdc,
    Refs <- Calls,
    outcome <- [p \in Pots |-> IF pot[p] = Null THEN Null
                               ELSE pot[p].resolvedOption],
    stakes <- [h \in Hashes |-> IF potStake[h] = Null THEN Null
                                ELSE [pot |-> potStake[h].pot,
                                      option |-> potStake[h].option]],
    booked <- {h \in Hashes : potStake[h] # Null
                                /\ potStake[h].paidOutTxHash # Null},
    payouts <- {[stake |-> e.stake, ref |-> e.call, value |-> e.value] :
                   e \in Landed}

(* Pot implements PotEscrow: a hash recorded once, a pot decided once, a   *)
(* stake paid only after the decision, for the right amount, and never     *)
(* again once paidOutTxHash is set.                                        *)
ImplementsEscrow == Escrow!Spec

(***************************************************************************)
(* Liveness, under Fairness.                                               *)
(***************************************************************************)

(* A winning stake that was on the books when its pot was resolved is sent *)
(* a transfer, whose hash its row shows, or the very call that resolved    *)
(* the pot is cut short by a fault: whatever stakes are recorded while the *)
(* payout runs, and however often payout is called.                        *)
RecordedWinnersPaid ==
    \A h \in Hashes, c \in ResolveCalls :
        (/\ potStake[h] # Null
         /\ call[c].at = "update"
         /\ call[c].pot = potStake[h].pot
         /\ call[c].option = potStake[h].option)
        ~> \/ call[c].at = "failed"
           \/ \E e \in ledger :
                 e.stake = h /\ potStake[h].paidOutTxHash = e.call

WonByNobody(p) ==
    pot[p].status = "resolved" /\ Winners(p, pot[p].resolvedOption) = {}

(* "No winner => every stake is refunded" (pot-service.ts:6-7).            *)
NoWinnerRefundsAll ==
    \A h \in Hashes :
        (potStake[h] # Null /\ WonByNobody(potStake[h].pot))
        ~> (\/ \E e \in Landed : e.stake = h
            \/ potStake[h] # Null /\ ~WonByNobody(potStake[h].pot))

(* "failed transfers retry next tick" (SPEC.md:949): a winner of a         *)
(* resolved pot whose transfer failed is paid in the end.                  *)
FailedPayoutRetried ==
    \A h \in Hashes :
        (/\ potStake[h] # Null
         /\ pot[potStake[h].pot].resolvedOption = potStake[h].option
         /\ \E c \in ResolveCalls : \E d \in call[c].due : d.stake = h)
        ~> (\E e \in Landed : e.stake = h)
=============================================================================
