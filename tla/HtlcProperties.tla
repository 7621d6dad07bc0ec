--------------------------- MODULE HtlcProperties ---------------------------
(***************************************************************************)
(* What Htlc must guarantee.                                               *)
(***************************************************************************)
EXTENDS Htlc, FiniteSetsExt

\* A lock ends once: of all the claims and reclaims of one lock, concurrent,
\* repeated or endorsed on both sides of the deadline, at most one commits.
LocksEndOnce == \A l \in Calls : Cardinality(Spends(l)) <= 1

\* Nothing takes a lock back while an endorser's clock is before its deadline.
ReclaimWaits ==
  \A c \in Valid("reclaim") : \A e \in Endorsers : Clock(e) >= deadline[target[c]]

\* A lock, its claim and its reclaim move funds only between the parties the
\* lock names, and a lock for another node's wallet was accepted there before
\* its deadline passed on that node.
LocksAreAccepted ==
  /\ \A l \in Valid("lock") : req[l].remote => l \in acked
  /\ \A c \in Valid("claim") : /\ req[target[c]].to = req[c].acct
                               /\ Knows(req[c].acct, Hash(target[c]))
  /\ \A c \in Valid("reclaim") : req[target[c]].acct = req[c].acct

\* "ok" of a view and the end of a responder without an error are true.
LockAnswersAreTrue ==
  \A c \in Calls : pc[c] = "ok" \/ rsp[c] = "done" => chain[c] = "valid"

-----------------------------------------------------------------------------
Deal == [c \in Calls |->
           IF deadline[c] = None THEN None
           ELSE [net |-> req[c].net, from |-> req[c].acct, to |-> req[c].to,
                 qty |-> req[c].qty, deadline |-> deadline[c]]]
State == [c \in Calls |-> CASE c \notin Valid("lock") -> "none"
                            [] c \in Locked -> "held"
                            [] OTHER -> IF Valid("claim") \cap Spends(c) # {}
                                        THEN "paid" ELSE "returned"]
\* The slowest of the endorsers' clocks.
Slowest == Min({Clock(e) : e \in Endorsers})

E == INSTANCE Escrow WITH now <- Slowest, deal <- Deal, escrow <- State,
       bal <- [n \in Nets |-> [a \in Accounts |-> Balance(n, a)]]

\* What stands for a lock without terms is not itself terms.
ASSUME EscrowAssumption == None \notin E!Terms

\* The views, endorsers and ledgers implement an escrow.
ImplementsEscrow == E!Spec

-----------------------------------------------------------------------------
\* "If dan does not claim in time, alice can reclaim the tokens after the
\* deadline" (README): once the lock call is over, the client that locked the
\* tokens knows the hash that the reclaim endpoint asks for.
LockerKnowsHash ==
  \A l \in Locked : pc[l] \notin Running =>
    Hash(l) \in Secrets \/ Answered(l)
=============================================================================
