------------------------------- MODULE Escrow -------------------------------
(***************************************************************************)
(* What a hash time-locked contract promises: a quantity leaves the locker *)
(* into escrow and then goes, once and whole, either to the recipient or   *)
(* back to the locker, and that not before the deadline.                   *)
(***************************************************************************)
EXTENDS Integers

CONSTANTS Calls, Nets, Accounts, Supply, None

VARIABLES now,     \* the earliest of the clocks that decide
          deal,    \* [Calls -> the terms of a lock, or None]
          escrow,  \* [Calls -> "none", "held", "paid" or "returned"]
          bal      \* [Nets -> [Accounts -> Int]]

vars == <<now, deal, escrow, bal>>

Init ==
  /\ now \in Nat
  /\ deal = [c \in Calls |-> None]
  /\ escrow = [c \in Calls |-> "none"]
  /\ bal = Supply

Terms == [net : Nets, from : Accounts, to : Accounts, qty : Nat, deadline : Nat]

\* The terms of lock c are set, once.
Offer(c) ==
  /\ deal[c] = None /\ deal'[c] \in Terms
  /\ deal' = [deal EXCEPT ![c] = deal'[c]]
  /\ UNCHANGED <<now, escrow, bal>>

Hold(c) ==
  /\ deal[c] # None /\ escrow[c] = "none"
  /\ bal[deal[c].net][deal[c].from] >= deal[c].qty
  /\ escrow' = [escrow EXCEPT ![c] = "held"]
  /\ bal' = [bal EXCEPT ![deal[c].net][deal[c].from] = @ - deal[c].qty]
  /\ UNCHANGED <<now, deal>>

Pay(c) ==
  /\ escrow[c] = "held"
  /\ escrow' = [escrow EXCEPT ![c] = "paid"]
  /\ bal' = [bal EXCEPT ![deal[c].net][deal[c].to] = @ + deal[c].qty]
  /\ UNCHANGED <<now, deal>>

Return(c) ==
  /\ escrow[c] = "held" /\ now >= deal[c].deadline
  /\ escrow' = [escrow EXCEPT ![c] = "returned"]
  /\ bal' = [bal EXCEPT ![deal[c].net][deal[c].from] = @ + deal[c].qty]
  /\ UNCHANGED <<now, deal>>

Advance == /\ now' > now
           /\ UNCHANGED <<deal, escrow, bal>>

Next == \/ \E c \in Calls : Offer(c) \/ Hold(c) \/ Pay(c) \/ Return(c)
        \/ Advance

Spec == Init /\ [][Next]_vars
=============================================================================
