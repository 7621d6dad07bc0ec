------------------------------- MODULE MCSwap -------------------------------
(* The swap of scripts/test_swap.sh: alice on owner1 and fabric, dan on     *)
(* owner2 and evm.                                                          *)
EXTENDS Swap, TLC

CONSTANTS owner1, owner2, e1, none, Ahead

MCHome == alice :> owner1 @@ dan :> owner2
MCHolds == alice :> {secret} @@ dan :> {}
MCSupply == netA :> (alice :> 1 @@ dan :> 0) @@ netD :> (alice :> 0 @@ dan :> 1)
\* The clocks of the nodes and endorsers in Ahead are one tick ahead.
MCSkew == [x \in Nodes \cup Endorsers |-> IF x \in Ahead THEN 1 ELSE 0]
MCRequests == {Step(c) : c \in Calls}
=============================================================================
