------------------------------- MODULE MCHtlc -------------------------------
(* One network; alice on owner1 locks for dan on owner2 and for bob on her  *)
(* own node, with a hash of her own or a generated one.                     *)
EXTENDS HtlcProperties, TLC

CONSTANTS owner1, owner2, alice, bob, dan, e1, s, net, none, Ahead

MCHome == alice :> owner1 @@ bob :> owner1 @@ dan :> owner2
MCHolds == alice :> {s} @@ bob :> {} @@ dan :> {s}
MCSupply == net :> (alice :> 2 @@ bob :> 0 @@ dan :> 0)
\* The clocks of the nodes and endorsers in Ahead are one tick ahead.
MCSkew == [x \in Nodes \cup Endorsers |-> IF x \in Ahead THEN 1 ELSE 0]

Lock(to, remote, q, d, hash) ==
  [op |-> "lock", at |-> owner1, net |-> net, acct |-> alice, to |-> to,
   remote |-> remote, qty |-> q, dur |-> d, secret |-> hash]
Claim(n, a, hash) == [op |-> "claim", at |-> n, net |-> net, acct |-> a, secret |-> hash]
Reclaim(hash) == [op |-> "reclaim", at |-> owner1, net |-> net, acct |-> alice, secret |-> hash]

\* A lock, and calls that claim and reclaim it.
SpendRequests == {Lock(dan, TRUE, 1, 1, s), Claim(owner2, dan, s), Reclaim(s)}
\* A local lock with a generated hash, calls that spend it, and calls refused.
LocalRequests == {Lock(bob, FALSE, 2, 1, none), Lock(bob, TRUE, 1, 1, s), Lock(dan, FALSE, 1, 1, s)}
  \cup {Claim(owner1, bob, c) : c \in Calls} \cup {Reclaim(c) : c \in Calls}

CallSymmetry == Permutations(Calls)
=============================================================================
