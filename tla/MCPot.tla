------------------------------- MODULE MCPot -------------------------------
(***************************************************************************)
(* Instances of Pot for TLC.  Two stakers with one transfer each, of 1 and *)
(* of 2; the first of them can be spelled in two ways.  Staked in all      *)
(* three ways the pool is 4, of which the winners may hold 3 (shares that  *)
(* are rounded down), 2, 1, or nothing (refunds).                          *)
(***************************************************************************)
EXTENDS PotProperties, TLC

CONSTANTS alice, bob, yes, no, t1, t2, h1, H1, h2

MCUsers == {alice, bob}
MCTxOf == (h1 :> t1) @@ (H1 :> t1) @@ (h2 :> t2)
MCTxFrom == (t1 :> alice) @@ (t2 :> bob)
MCTxValue == (t1 :> 1) @@ (t2 :> 2)

(* A winner in one spelling and a loser in the other, a second winner, and *)
(* a transfer of somebody else's; each may be tried by every call.         *)
MCTried == {<<alice, yes, h1>>, <<alice, no, H1>>, <<bob, yes, h2>>,
            <<bob, no, h1>>}
=============================================================================
