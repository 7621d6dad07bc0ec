-------------------------------- MODULE Htlc --------------------------------
(***************************************************************************)
(* The hash time-locked contracts of the owner nodes: LockView with its    *)
(* responder LockAcceptView, ClaimView and ReclaimView, on one or several  *)
(* networks (token management services), with the time that decides        *)
(* between claim and reclaim.  Every node and every endorser reads its own *)
(* clock.                                                                  *)
(*                                                                         *)
(* A call c \in Calls is an HTTP request, the view it starts and the       *)
(* transaction the view makes; a lock call also names the locked token.    *)
(* A hash is represented by its pre-image; the pre-image a node generates  *)
(* for lock c is c itself.  Which tokens pay for a lock is TokenTx's       *)
(* subject: here an account has a balance on every network.  A node that   *)
(* stops is a Fails of each of its views.                                  *)
(***************************************************************************)
EXTENDS Integers, FiniteSets, Functions

CONSTANTS Calls,      \* calls, see above
          Nets,       \* networks, each a ledger of its own
          Nodes,      \* owner nodes
          Accounts,   \* wallets
          Home,       \* [Accounts -> Nodes]: the node whose core.yaml declares the wallet
          Endorsers,  \* the endorsers of every network ("all" policy)
          Secrets,    \* pre-images the clients choose
          Holds,      \* [Accounts -> SUBSET Secrets]: the ones an account's user has
          Supply,     \* [Nets -> [Accounts -> Nat]]: balances before any lock
          Skew,       \* [Nodes \cup Endorsers -> Nat]: how far a clock is ahead
          Requests,   \* the HTTP requests the clients may send
          MaxTime,    \* bound of the clock
          None        \* no value

Request ==
  [op : {"lock"}, at : Nodes, net : Nets, acct : Accounts, to : Accounts,
   remote : BOOLEAN, qty : Nat \ {0}, dur : Nat \ {0}, secret : Secrets \cup {None}]
  \cup
  [op : {"claim", "reclaim"}, at : Nodes, net : Nets, acct : Accounts,
   secret : Secrets \cup Calls]

ASSUME HtlcAssumption ==
  /\ Home \in [Accounts -> Nodes]
  /\ Requests \subseteq Request
  /\ Holds \in [Accounts -> SUBSET Secrets]
  /\ Supply \in [Nets -> [Accounts -> Nat]]
  /\ Skew \in [Nodes \cup Endorsers -> Nat] /\ Endorsers # {}
  /\ MaxTime \in Nat
  /\ None \notin Request \cup Calls \cup Secrets \cup Nat

VARIABLES
  now,       \* the time
  req,       \* [Calls -> Request or None]
  pc,        \* [Calls -> where the view is, or its answer]
  rsp,       \* [Calls -> where LockAcceptView is]
  acked,     \* locks whose recipient's node has accepted
  deadline,  \* [Calls -> the deadline in the script of a lock]
  target,    \* [Calls -> the lock that a claim or reclaim spends]
  signed,    \* [Calls -> the endorsers that have signed]
  chain,     \* [Calls -> none, sent, valid or invalid]
  seen       \* [Nodes -> the calls whose commit the node has heard of]

script == <<deadline, target>>
vars == <<now, req, pc, rsp, acked, deadline, target, signed, chain, seen>>

Running == {"exchange", "build", "collect", "ready", "ordered"}

TypeOK ==
  /\ now \in 0 .. MaxTime
  /\ req \in [Calls -> Requests \cup {None}]
  /\ pc \in [Calls -> {"idle", "ok", "error"} \cup Running]
  /\ rsp \in [Calls -> {"none", "receive", "finality", "done", "failed"}]
  /\ acked \subseteq Calls
  /\ deadline \in [Calls -> Nat \cup {None}]
  /\ target \in [Calls -> Calls \cup {None}]
  /\ signed \in [Calls -> SUBSET Endorsers]
  /\ chain \in [Calls -> {"none", "sent", "valid", "invalid"}]
  /\ seen \in [Nodes -> SUBSET Calls]

Init ==
  /\ now = 0
  /\ req = [c \in Calls |-> None]
  /\ pc = [c \in Calls |-> "idle"]
  /\ rsp = [c \in Calls |-> "none"]
  /\ acked = {}
  /\ deadline = [c \in Calls |-> None]
  /\ target = [c \in Calls |-> None]
  /\ signed = [c \in Calls |-> {}]
  /\ chain = [c \in Calls |-> "none"]
  /\ seen = [n \in Nodes |-> {}]

-----------------------------------------------------------------------------
Clock(x) == now + Skew[x]

IsOp(c, op) == req[c] # None /\ req[c].op = op
Hash(l) == IF req[l].secret = None THEN l ELSE req[l].secret

Valid(op) == {c \in Calls : IsOp(c, op) /\ chain[c] = "valid"}
Spends(l) == {c \in Valid("claim") \cup Valid("reclaim") : target[c] = l}
\* The locks on the ledgers that nothing has spent.
Locked == {l \in Valid("lock") : Spends(l) = {}}

Paid_Locker(l) == req[l].acct
\* A claim credits the recipient of the lock, a reclaim the locker.
Paid(l) == IF Valid("claim") \cap Spends(l) # {} THEN req[l].to ELSE req[l].acct
Balance(n, a) ==
  LET Total(L) == SumFunction([l \in L |-> req[l].qty])
      locks == {l \in Valid("lock") : req[l].net = n}
  IN  Supply[n][a] - Total({l \in locks : req[l].acct = a})
                   + Total({l \in locks \ Locked : Paid(l) = a})

\* Pre-images that claims have put into a block.
Public == {req[c].secret : c \in {d \in Calls : IsOp(d, "claim")
                                                /\ chain[d] \in {"valid", "invalid"}}}
\* The answer of a lock call gives its hash and a generated pre-image to the
\* client, who passes the pre-image to the recipient out of band.
Answered(s) == s \in Calls /\ IsOp(s, "lock") /\ pc[s] = "ok"
Knows(a, s) ==
  \/ s \in Holds[a] \cup Public
  \/ Answered(s) /\ a \in {req[s].acct, req[s].to}

\* The unspent locks in the token database of node n.
Known(n, net, s) ==
  {l \in Valid("lock") \cap seen[n] : /\ req[l].net = net
                                      /\ Hash(l) = s
                                      /\ Spends(l) \cap seen[n] = {}}

-----------------------------------------------------------------------------
(* LockView.                                                               *)

OpenLock(c, r) ==
  /\ r.op = "lock"
  /\ pc' = [pc EXCEPT ![c] = "exchange"]
  /\ UNCHANGED target

\* LockAcceptView answers the identity exchange.  Whatever node the account
\* name is bound to, only the one that has the wallet can answer.
RespondExchange(c) ==
  /\ pc[c] = "exchange" /\ rsp[c] = "none"
  /\ req[c].remote
  /\ rsp' = [rsp EXCEPT ![c] = "receive"]
  /\ UNCHANGED <<now, req, pc, acked, script, signed, chain, seen>>

ReceiveIdentities(c) ==
  /\ pc[c] = "exchange"
  /\ IF req[c].remote THEN rsp[c] # "none" ELSE Home[req[c].to] = req[c].at
  /\ pc' = [pc EXCEPT ![c] = "build"]
  /\ UNCHANGED <<now, req, rsp, acked, script, signed, chain, seen>>

\* tx.Lock: the deadline counts from the clock of the locker's node.
Build(c) ==
  /\ pc[c] = "build"
  /\ Home[req[c].acct] = req[c].at
  /\ Balance(req[c].net, req[c].acct) >= req[c].qty
  /\ deadline' = [deadline EXCEPT ![c] = Clock(req[c].at) + req[c].dur]
  /\ pc' = [pc EXCEPT ![c] = "collect"]
  /\ UNCHANGED <<now, req, rsp, acked, target, signed, chain, seen>>

\* LockAcceptView receives the endorsed transaction and validates the script
\* against its own clock.
Accept(c) ==
  /\ rsp[c] = "receive"
  /\ pc[c] = "collect" /\ signed[c] = Endorsers
  /\ IF deadline[c] >= Clock(Home[req[c].to])
     THEN /\ rsp' = [rsp EXCEPT ![c] = "finality"]
          /\ acked' = acked \cup {c}
     ELSE /\ rsp' = [rsp EXCEPT ![c] = "failed"]
          /\ UNCHANGED acked
  /\ UNCHANGED <<now, req, pc, script, signed, chain, seen>>

ResponderFinality(c) ==
  /\ rsp[c] = "finality" /\ c \in seen[Home[req[c].to]]
  /\ rsp' = [rsp EXCEPT ![c] = IF chain[c] = "valid" THEN "done" ELSE "failed"]
  /\ UNCHANGED <<now, req, pc, acked, script, signed, chain, seen>>

ResponderFails(c) ==
  /\ rsp[c] \in {"receive", "finality"}
  /\ rsp' = [rsp EXCEPT ![c] = "failed"]
  /\ UNCHANGED <<now, req, pc, acked, script, signed, chain, seen>>

-----------------------------------------------------------------------------
(* ClaimView and ReclaimView: find the lock in the wallet, then spend it.  *)

Claimable(r) ==
  {l \in Known(r.at, r.net, r.secret) : /\ req[l].to = r.acct
                                        /\ Clock(r.at) < deadline[l]}
Expired(r) ==
  {l \in Known(r.at, r.net, r.secret) : /\ req[l].acct = r.acct
                                        /\ Clock(r.at) >= deadline[l]}

OpenClaim(c, r) ==
  /\ r.op = "claim" /\ Knows(r.acct, r.secret)
  /\ LET matched == Claimable(r)
     IN  IF Home[r.acct] = r.at /\ Cardinality(matched) = 1
         THEN /\ target' = [target EXCEPT ![c] = CHOOSE l \in matched : TRUE]
              /\ pc' = [pc EXCEPT ![c] = "collect"]
         ELSE /\ pc' = [pc EXCEPT ![c] = "error"]
              /\ UNCHANGED target

\* GetExpiredByHash returns one lock; with several it may return any or none.
OpenReclaim(c, r) ==
  /\ r.op = "reclaim"
  /\ r.secret \in Secrets \/ Answered(r.secret)
  /\ \/ /\ Home[r.acct] = r.at
        /\ \E l \in Expired(r) : target' = [target EXCEPT ![c] = l]
        /\ pc' = [pc EXCEPT ![c] = "collect"]
     \/ /\ Home[r.acct] # r.at \/ Cardinality(Expired(r)) # 1
        /\ pc' = [pc EXCEPT ![c] = "error"]
        /\ UNCHANGED target

-----------------------------------------------------------------------------
(* CollectEndorsements, OrderingAndFinality and the ledger.                *)

Open(c, r) ==
  /\ pc[c] = "idle"
  /\ req' = [req EXCEPT ![c] = r]
  /\ OpenLock(c, r) \/ OpenClaim(c, r) \/ OpenReclaim(c, r)
  /\ UNCHANGED <<now, rsp, acked, deadline, signed, chain, seen>>

MayEndorse_Late(c, e) ==
  CASE IsOp(c, "lock")    -> /\ Clock(e) <= deadline[c]
                             /\ Balance(req[c].net, req[c].acct) >= req[c].qty
    [] IsOp(c, "claim")   -> target[c] \in Locked
    [] IsOp(c, "reclaim") -> target[c] \in Locked
\* The token validation at an endorser: before its deadline a lock can only be
\* claimed, afterwards it can only be reclaimed.
MayEndorse(c, e) ==
  CASE IsOp(c, "lock")    -> /\ Clock(e) <= deadline[c]
                             /\ Balance(req[c].net, req[c].acct) >= req[c].qty
    [] IsOp(c, "claim")   -> target[c] \in Locked /\ Clock(e) < deadline[target[c]]
    [] IsOp(c, "reclaim") -> target[c] \in Locked /\ Clock(e) >= deadline[target[c]]

Endorse(c, e) ==
  /\ pc[c] = "collect" /\ e \notin signed[c]
  /\ MayEndorse(c, e)
  /\ signed' = [signed EXCEPT ![c] = @ \cup {e}]
  /\ UNCHANGED <<now, req, pc, rsp, acked, script, chain, seen>>

Collected_NoAck(c) ==
  /\ pc[c] = "collect" /\ signed[c] = Endorsers
  /\ pc' = [pc EXCEPT ![c] = "ready"]
  /\ UNCHANGED <<now, req, rsp, acked, script, signed, chain, seen>>

\* Everyone has signed, and the recipient of a remote lock has accepted it.
Collected(c) ==
  /\ pc[c] = "collect" /\ signed[c] = Endorsers
  /\ IsOp(c, "lock") /\ req[c].remote => c \in acked
  /\ pc' = [pc EXCEPT ![c] = "ready"]
  /\ UNCHANGED <<now, req, rsp, acked, script, signed, chain, seen>>

Order(c) ==
  /\ pc[c] = "ready"
  /\ pc' = [pc EXCEPT ![c] = "ordered"]
  /\ chain' = [chain EXCEPT ![c] = "sent"]
  /\ UNCHANGED <<now, req, rsp, acked, script, signed, seen>>

Committable_Stale(c) == TRUE
\* The committer checks that what the transaction spends is still there.
Committable(c) == IF IsOp(c, "lock")
                  THEN Balance(req[c].net, req[c].acct) >= req[c].qty
                  ELSE target[c] \in Locked

Commit(c) ==
  /\ chain[c] = "sent"
  /\ chain' = [chain EXCEPT ![c] = IF Committable(c) THEN "valid" ELSE "invalid"]
  /\ UNCHANGED <<now, req, pc, rsp, acked, script, signed, seen>>

\* The nodes whose wallets the transaction touches.
Parties(c) ==
  LET l == IF IsOp(c, "lock") THEN c ELSE target[c]
  IN  {Home[req[l].acct], Home[req[l].to]}

CommitEvent(n, c) ==
  /\ chain[c] \in {"valid", "invalid"}
  /\ n \in Parties(c) \ {m \in Nodes : c \in seen[m]}
  /\ seen' = [seen EXCEPT ![n] = @ \cup {c}]
  /\ UNCHANGED <<now, req, pc, rsp, acked, script, signed, chain>>

Finality_Early(c) ==
  /\ pc[c] = "ordered"
  /\ pc' = [pc EXCEPT ![c] = "ok"]
  /\ UNCHANGED <<now, req, rsp, acked, script, signed, chain, seen>>

Finality_Status(c) ==
  /\ pc[c] = "ordered" /\ c \in seen[req[c].at]
  /\ pc' = [pc EXCEPT ![c] = chain[c]]
  /\ UNCHANGED <<now, req, rsp, acked, script, signed, chain, seen>>

\* The view answers once its node has heard of the commit.
Finality(c) ==
  /\ pc[c] = "ordered" /\ c \in seen[req[c].at]
  /\ pc' = [pc EXCEPT ![c] = IF chain[c] = "valid" THEN "ok" ELSE "error"]
  /\ UNCHANGED <<now, req, rsp, acked, script, signed, chain, seen>>

\* A view returns an error: a peer, an endorser or the orderer refuses, fails
\* or is late, or the node stops.  What was ordered may still commit.
Fails(c) ==
  /\ pc[c] \in Running
  /\ pc' = [pc EXCEPT ![c] = "error"]
  /\ chain' \in {chain} \cup
       (IF pc[c] = "ready" THEN {[chain EXCEPT ![c] = "sent"]} ELSE {})
  /\ UNCHANGED <<now, req, rsp, acked, script, signed, seen>>

Tick ==
  /\ now < MaxTime
  /\ now' = now + 1
  /\ UNCHANGED <<req, pc, rsp, acked, script, signed, chain, seen>>

\* All views have ended and the clock has reached its bound.
Quiet ==
  /\ now = MaxTime
  /\ \A c \in Calls : pc[c] \notin Running /\ chain[c] # "sent"
  /\ UNCHANGED vars

ViewStep(c) ==
  \/ RespondExchange(c) \/ ReceiveIdentities(c) \/ Build(c) \/ Accept(c)
  \/ \E e \in Endorsers : Endorse(c, e)
  \/ Collected(c) \/ Order(c) \/ Commit(c)
  \/ \E n \in Nodes : CommitEvent(n, c)
  \/ Finality(c)

Next ==
  \/ \E c \in Calls : \/ \E r \in Requests : Open(c, r)
                      \/ ViewStep(c) \/ Fails(c)
                      \/ ResponderFinality(c) \/ ResponderFails(c)
  \/ Tick
  \/ Quiet

Spec == Init /\ [][Next]_vars
=============================================================================
