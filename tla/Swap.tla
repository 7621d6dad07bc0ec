-------------------------------- MODULE Swap --------------------------------
(***************************************************************************)
(* The swap of scripts/test_swap.sh: alice locks on one network for dan,   *)
(* dan locks on another for alice under the same hash, alice claims dan's  *)
(* lock, which reveals the pre-image, and dan claims alice's lock with it; *)
(* each takes the own lock back after its deadline.  The users drive the   *)
(* HTLC endpoints of Htlc, each step of the script one call.               *)
(*                                                                         *)
(* The clients of the script wait for one call before the next, so time is *)
(* bounded here: a call that does not fail has committed and is known to   *)
(* the nodes Delay ticks after it was made; dan makes his lock at most     *)
(* Wait ticks after alice made hers, and his claim at most React ticks     *)
(* after the pre-image must have become public.  Alice may be late.        *)
(***************************************************************************)
EXTENDS Htlc

CONSTANTS alice, dan,
          netA, netD,                  \* the network of alice's lock, and of dan's
          secret,
          lockA, lockD, claimA, claimD, reclaimA, reclaimD,  \* the calls
          DurA, DurD,                  \* the "deadline" of the lock requests
          Wait, React, Delay

VARIABLE since    \* [Calls -> when the call was made]
swapvars == <<vars, since>>

LockRequest(a, b, n, d) ==
  [op |-> "lock", at |-> Home[a], net |-> n, acct |-> a, to |-> b,
   remote |-> TRUE, qty |-> 1, dur |-> d, secret |-> secret]
SpendRequest(op, a, n) ==
  [op |-> op, at |-> Home[a], net |-> n, acct |-> a, secret |-> secret]

\* The request of every step of the script.
Step(c) == CASE c = lockA    -> LockRequest(alice, dan, netA, DurA)
             [] c = lockD    -> LockRequest(dan, alice, netD, DurD)
             [] c = claimA   -> SpendRequest("claim", alice, netD)
             [] c = claimD   -> SpendRequest("claim", dan, netA)
             [] c = reclaimA -> SpendRequest("reclaim", alice, netA)
             [] c = reclaimD -> SpendRequest("reclaim", dan, netD)

\* The script's own names, and the margin: alice's deadline covers dan's and all
\* that may happen until dan has claimed, on every clock that judges it.
ASSUME SwapAssumption ==
  /\ Calls = {lockA, lockD, claimA, claimD, reclaimA, reclaimD}
  /\ lockA \notin {lockD, claimA, claimD, reclaimA, reclaimD}
  /\ lockD \notin {claimA, claimD, reclaimA, reclaimD}
  /\ claimA \notin {claimD, reclaimA, reclaimD}
  /\ claimD \notin {reclaimA, reclaimD} /\ reclaimA # reclaimD
  /\ alice # dan /\ netA # netD
  /\ {Step(c) : c \in Calls} \subseteq Requests
  /\ {Wait, React, Delay} \subseteq Nat
  /\ \A m \in {Delay + Skew[e] : e \in Endorsers} \cup {Skew[Home[dan]]} :
       DurA + 2 * Skew[Home[alice]] >=
         DurD + Skew[Home[dan]] + Wait + 2 * Delay + React + m

Sees(a, l) == l \in seen[Home[a]] /\ chain[l] = "valid"
Gone(a, l) == Spends(l) \cap seen[Home[a]] # {}

\* When a user makes the call.
Ready(c) ==
  CASE c = lockA    -> TRUE
    [] c = lockD    -> Sees(dan, lockA) /\ now <= since[lockA] + Wait
    [] c = claimA   -> Sees(alice, lockD) /\ ~Gone(alice, lockD)
    [] c = claimD   -> Sees(dan, lockA) /\ ~Gone(dan, lockA) /\ secret \in Public
    [] c = reclaimA -> /\ Sees(alice, lockA) /\ ~Gone(alice, lockA)
                       /\ Clock(Home[alice]) >= deadline[lockA]
    [] c = reclaimD -> /\ Sees(dan, lockD) /\ ~Gone(dan, lockD)
                       /\ Clock(Home[dan]) >= deadline[lockD]

SwapInit == Init /\ since = [c \in Calls |-> 0]

SwapOpen(c) ==
  /\ Ready(c) /\ Open(c, Step(c))
  /\ since' = [since EXCEPT ![c] = now]

\* The locks may fail; a claim or reclaim fails only if an endorser refuses it.
SwapFails(c) ==
  /\ Fails(c)
  /\ c \in {lockA, lockD} \/ (pc[c] = "collect" /\ \E e \in Endorsers : ~MayEndorse(c, e))
  /\ UNCHANGED since

\* A call has been decided, and the nodes have heard.
Settled(c) ==
  /\ pc[c] \notin Running /\ chain[c] # "sent"
  /\ chain[c] # "none" => \A n \in Parties(c) : c \in seen[n]

SwapTick ==
  /\ Tick
  /\ \A c \in Calls : pc[c] = "idle" \/ Settled(c) \/ now < since[c] + Delay
  /\ pc[claimD] = "idle" /\ Ready(claimD) => now < since[claimA] + Delay + React
  /\ UNCHANGED since

SwapNext ==
  \/ \E c \in Calls : SwapOpen(c) \/ SwapFails(c) \/ (ViewStep(c) /\ UNCHANGED since)
  \/ SwapTick
  \/ Quiet /\ UNCHANGED since

SwapSpec == SwapInit /\ [][SwapNext]_swapvars

-----------------------------------------------------------------------------
Claimed(l) == Spends(l) \cap Valid("claim") # {}
Reclaimed(l) == Spends(l) \cap Valid("reclaim") # {}

\* "walking away with both sides of the swap": dan, who keeps to the times of
\* the script, never loses his tokens without getting alice's, however late
\* alice claims; nor does alice if she claims with Delay ticks to spare on the
\* clocks of the endorsers.
SwapIsFair ==
  /\ ~(Claimed(lockD) /\ Reclaimed(lockA))
  /\ ~(/\ Claimed(lockA) /\ Reclaimed(lockD)
       /\ \A e \in Endorsers : since[claimA] + Delay + Skew[e] < deadline[lockD])
=============================================================================
