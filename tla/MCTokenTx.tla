------------------------------ MODULE MCTokenTx ------------------------------
(* Instances of TokenTx: the issuer and two owner nodes, alice and bob on   *)
(* owner1, dan on owner2.                                                   *)
EXTENDS TokenTxProperties, TLC

CONSTANTS issuer, owner1, owner2, alice, bob, dan, none

MCNodes == {issuer, owner1, owner2}
MCHome == alice :> owner1 @@ bob :> owner1 @@ dan :> owner2

Issue(a, m, q) == [kind |-> "issue", at |-> issuer, from |-> none, to |-> a, node |-> m, qty |-> q]
Pay(n, a, b, m, q) == [kind |-> "transfer", at |-> n, from |-> a, to |-> b, node |-> m, qty |-> q]
Burn(n, a, q) == [kind |-> "redeem", at |-> n, from |-> a, to |-> none, node |-> none, qty |-> q]

\* Issue 2, then spend 1 (with change) or 2 of it in competing ways.
SpendRequests == {Issue(alice, owner1, 2), Pay(owner1, alice, dan, owner2, 1), Burn(owner1, alice, 2)}

\* Every answer a call may give: a local payment, a payment to an account the
\* named node does not host, payments from and to accounts hosted elsewhere.
AnswerRequests == {Issue(alice, owner1, 1), Issue(dan, owner1, 1),
                   Pay(owner1, alice, bob, none, 1), Pay(owner1, alice, dan, owner2, 1),
                   Pay(owner1, alice, dan, issuer, 1), Pay(owner1, alice, dan, none, 1),
                   Pay(owner2, alice, dan, none, 1), Pay(owner1, alice, alice, none, 1), Burn(owner1, alice, 1), Burn(owner2, alice, 1)}

LiveRequests == {Issue(alice, owner1, 1), Pay(owner1, alice, dan, owner2, 1), Burn(owner1, alice, 1)}

TxSymmetry == Permutations(Txs) \cup Permutations(Endorsers)
=============================================================================
