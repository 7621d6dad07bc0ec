------------------------------ MODULE TokenTx ------------------------------
(***************************************************************************)
(* The token transactions of the sample: an HTTP call makes an issuer or   *)
(* an owner node run an initiator view (IssueCashView, TransferView,       *)
(* RedeemView); the view talks to a responder view on another node         *)
(* (AcceptCashView on the recipient's node, IssuerRedeemAcceptView on the  *)
(* issuer's), collects endorsements, hands the transaction to the orderer  *)
(* and waits for finality.  Any number of calls run concurrently on every  *)
(* node; a node may be stopped (fsc.Stop), which ends its running views    *)
(* while its databases survive.                                            *)
(*                                                                         *)
(* A transaction identifier t \in Txs stands for one HTTP call, the view   *)
(* it starts and the one transaction that view creates.  A call that a     *)
(* client repeats after an error is another member of Txs with the same    *)
(* request.  The token library (selection, endorsement, ledger, commit     *)
(* events) is modelled from how the views use it.                          *)
(***************************************************************************)
EXTENDS Naturals, FiniteSets, Functions

CONSTANTS Nodes,        \* FSC nodes that run views
          Issuer,       \* the node called "issuer"
          Accounts,     \* owner wallets
          Home,         \* [Accounts -> Nodes]: the node whose core.yaml declares the wallet
          Endorsers,    \* the endorsers of the "all" policy
          Txs,          \* calls, see above
          Requests,     \* the HTTP requests the clients may send
          MaxRestarts,  \* bound: how many times nodes are stopped and started
          None          \* no value: no node, no account

Kinds == {"issue", "transfer", "redeem"}

Request == [kind : Kinds, at : Nodes, from : Accounts \cup {None},
            to : Accounts \cup {None}, node : Nodes \cup {None}, qty : Nat \ {0}]

ASSUME ConstantsAssumption ==
  /\ Issuer \in Nodes
  /\ Home \in [Accounts -> Nodes]
  /\ None \notin Nodes /\ None \notin Accounts /\ None \notin Requests
  /\ MaxRestarts \in Nat

ASSUME RequestsAssumption ==
  /\ Requests \subseteq Request
  /\ \A r \in Requests :
       /\ r.kind = "issue"    => r.from = None /\ r.to # None /\ r.node # None
       /\ r.kind = "transfer" => r.from # None /\ r.to # None
       /\ r.kind = "redeem"   => r.from # None /\ r.to = None /\ r.node = None

VARIABLES
  req,        \* [Txs -> Request or None]: the call's request
  ini,        \* [Txs -> where the initiator view is, or the answer it gave]
  rsp,        \* [Txs -> where the responder view is]
  peer,       \* [Txs -> the node the initiator's session reaches]
  reply,      \* [Txs -> the account whose identity is the recipient, or an error]
  acked,      \* transactions the recipient's AcceptView has acknowledged
  inputs,     \* [Txs -> the tokens the transaction consumes]
  outs,       \* [Txs -> the tokens the transaction creates]
  endorsed,   \* [Txs -> the endorsers that signed]
  submitted,  \* transactions the orderer has received
  verdict,    \* [Txs -> what the committer decided]
  status,     \* [Txs -> [Nodes -> the status in the node's transaction database]]
  bind,       \* [Nodes -> [Accounts -> the node the name is bound to]]
  restarts    \* how often a node has been stopped

call    == <<req, peer, bind>>
content == <<reply, inputs, outs>>
ledger  == <<submitted, verdict>>
vars == <<req, ini, rsp, peer, reply, acked, inputs, outs, endorsed,
          submitted, verdict, status, bind, restarts>>

Errors   == {"notfound", "connection", "insufficient", "error", "lost"}
Answers  == {"ok"} \cup Errors
Running  == {"identity", "build", "collect", "ready", "ordered"}
Waiting  == {"receive", "accepted", "finality", "check"}
Statuses == {"Unknown", "Pending", "Confirmed", "Deleted"}

Token == [id : Txs \X {"out", "change"}, owner : Accounts, val : Nat]
Value(T) == SumFunction([k \in T |-> k.val])

TypeOK ==
  /\ req \in [Txs -> Requests \cup {None}]
  /\ ini \in [Txs -> {"idle"} \cup Running \cup Answers]
  /\ rsp \in [Txs -> {"none", "done", "failed"} \cup Waiting]
  /\ peer \in [Txs -> Nodes \cup {None}]
  /\ reply \in [Txs -> Accounts \cup {None, "notfound"}]
  /\ acked \subseteq Txs
  /\ inputs \in [Txs -> SUBSET Token]
  /\ outs \in [Txs -> SUBSET Token]
  /\ endorsed \in [Txs -> SUBSET Endorsers]
  /\ submitted \subseteq Txs
  /\ verdict \in [Txs -> {"none", "valid", "invalid"}]
  /\ status \in [Txs -> [Nodes -> Statuses]]
  /\ bind \in [Nodes -> [Accounts -> Nodes \cup {None}]]
  /\ restarts \in 0 .. MaxRestarts

Init ==
  /\ req = [t \in Txs |-> None]
  /\ ini = [t \in Txs |-> "idle"]
  /\ rsp = [t \in Txs |-> "none"]
  /\ peer = [t \in Txs |-> None]
  /\ reply = [t \in Txs |-> None]
  /\ acked = {}
  /\ inputs = [t \in Txs |-> {}]
  /\ outs = [t \in Txs |-> {}]
  /\ endorsed = [t \in Txs |-> {}]
  /\ submitted = {}
  /\ verdict = [t \in Txs |-> "none"]
  /\ status = [t \in Txs |-> [n \in Nodes |-> "Unknown"]]
  /\ bind = [n \in Nodes |-> [a \in Accounts |-> None]]
  /\ restarts = 0

-----------------------------------------------------------------------------
(* What the ledger and the nodes' databases hold.                          *)

Valid == {t \in Txs : verdict[t] = "valid"}

\* The tokens on the ledger that no committed transaction has consumed.
Unspent == (UNION {outs[t] : t \in Valid}) \ (UNION {inputs[t] : t \in Valid})

\* The unspent tokens of account a in the token database of node n.
Wallet(n, a) ==
  LET known == {t \in Txs : status[t][n] = "Confirmed"}
  IN  {k \in (UNION {outs[t] : t \in known}) \ (UNION {inputs[t] : t \in known}) :
         k.owner = a}

\* Tokens that calls still running on the node of call t have selected.
Held(t) == UNION {inputs[u] : u \in {v \in Txs \ {t} :
                     /\ ini[v] \in Running
                     /\ req[v].at = req[t].at}}

HasRecipient(t) == req[t].kind # "redeem"
\* The recipient's node runs AcceptCashView, unless the wallet is local.
Remote(t) == peer[t] # None /\ HasRecipient(t)
\* The nodes that keep a record of the transaction and hear of its commit.
Parties(t) == {req[t].at} \cup (IF Remote(t) THEN {peer[t]} ELSE {})

-----------------------------------------------------------------------------
(* Opening a call: the view up to the request for the recipient identity.  *)

\* The binding store keeps the first binding of a name: PutBindings is an
\* INSERT ... ON CONFLICT DO NOTHING, and Bind reports no error.
BindFirst(n, a, m) == IF bind[n][a] = None THEN m ELSE bind[n][a]

\* Bind the account name to the node and ask whatever node the name leads to.
Contact(t, r) ==
  LET m == BindFirst(r.at, r.to, r.node)
  IN  /\ bind' = [bind EXCEPT ![r.at][r.to] = m]
      /\ peer' = [peer EXCEPT ![t] = m]
      /\ ini'  = [ini EXCEPT ![t] = "identity"]
      /\ UNCHANGED reply

\* The view returns without having contacted anyone.
Refuse(t, answer) ==
  /\ ini' = [ini EXCEPT ![t] = answer]
  /\ UNCHANGED <<peer, bind, reply>>

\* IssueCashView: the call goes to the issuer's node, which has the issuer wallet.
OpenIssue(t, r) ==
  /\ r.kind = "issue" /\ r.at = Issuer
  /\ Contact(t, r)

\* TransferView: wallet check, then a local wallet or a remote identity.
OpenTransfer(t, r) ==
  /\ r.kind = "transfer"
  /\ \/ Home[r.from] # r.at /\ Refuse(t, "error")
     \/ Home[r.from] = r.at /\ r.node # None /\ Contact(t, r)
     \/ /\ Home[r.from] = r.at /\ r.node = None /\ Home[r.to] = r.at
        /\ ini' = [ini EXCEPT ![t] = "build"]
        /\ reply' = [reply EXCEPT ![t] = r.to]
        /\ UNCHANGED <<peer, bind>>
     \/ /\ Home[r.from] = r.at /\ r.node = None /\ Home[r.to] # r.at
        /\ Refuse(t, "notfound")

\* RedeemView: wallet check; the issuer is named by the resolver, not bound.
OpenRedeem(t, r) ==
  /\ r.kind = "redeem"
  /\ \/ Home[r.from] # r.at /\ Refuse(t, "error")
     \/ /\ Home[r.from] = r.at
        /\ ini' = [ini EXCEPT ![t] = "build"]
        /\ peer' = [peer EXCEPT ![t] = Issuer]
        /\ UNCHANGED <<bind, reply>>

Open(t) ==
  /\ ini[t] = "idle"
  /\ \E r \in Requests :
       /\ req' = [req EXCEPT ![t] = r]
       /\ OpenIssue(t, r) \/ OpenTransfer(t, r) \/ OpenRedeem(t, r)
  /\ UNCHANGED <<rsp, acked, inputs, outs, endorsed, ledger, status, restarts>>

-----------------------------------------------------------------------------
(* The recipient identity.                                                 *)

\* AcceptCashView answers the request from the wallet the caller names, and
\* an unknown wallet is the "] not found" error.  It may come to run after
\* the caller has given up.
HostsWallet(m, a) == Home[a] = m

RespondIdentity(t) ==
  /\ rsp[t] = "none" /\ ini[t] \notin {"idle", "connection"}
  /\ Remote(t)
  /\ IF HostsWallet(peer[t], req[t].to)
     THEN /\ rsp' = [rsp EXCEPT ![t] = "receive"]
          /\ reply' = [reply EXCEPT ![t] = req[t].to]
     ELSE /\ rsp' = [rsp EXCEPT ![t] = "failed"]
          /\ reply' = [reply EXCEPT ![t] = "notfound"]
  /\ UNCHANGED <<call, ini, acked, inputs, outs, endorsed, ledger, status, restarts>>

\* The views map the error of the identity request; the issuer's does not.
IdentityError(t, answer) == IF req[t].kind = "transfer" THEN answer ELSE "error"

ReceiveIdentity(t) ==
  /\ ini[t] = "identity" /\ reply[t] # None
  /\ ini' = [ini EXCEPT ![t] = IF reply[t] = "notfound"
                               THEN IdentityError(t, "notfound") ELSE "build"]
  /\ UNCHANGED <<call, content, rsp, acked, endorsed, ledger, status, restarts>>

\* The peer cannot be dialled, or the answer does not come in time.
IdentityFails(t) ==
  /\ ini[t] = "identity"
  /\ \/ /\ rsp[t] = "none"
        /\ ini' = [ini EXCEPT ![t] = IdentityError(t, "connection")]
     \/ ini' = [ini EXCEPT ![t] = "error"]
  /\ UNCHANGED <<call, content, rsp, acked, endorsed, ledger, status, restarts>>

-----------------------------------------------------------------------------
(* Building the transaction.                                               *)

Payment(t) == IF HasRecipient(t)
              THEN {[id |-> <<t, "out">>, owner |-> reply[t], val |-> req[t].qty]}
              ELSE {}

Outputs_NoChange(t, change) == Payment(t)
\* The tokens that pay qty to the recipient of t and the change to its sender.
Outputs(t, change) ==
  Payment(t) \cup
  (IF change > 0
   THEN {[id |-> <<t, "change">>, owner |-> req[t].from, val |-> change]} ELSE {})

\* tx.Issue: a token out of nothing.
BuildIssue(t) ==
  /\ req[t].kind = "issue"
  /\ outs' = [outs EXCEPT ![t] = Outputs(t, 0)]
  /\ ini' = [ini EXCEPT ![t] = "collect"]
  /\ UNCHANGED inputs

\* tx.Transfer, tx.Redeem: the selector picks tokens of the wallet that cover
\* the quantity; it may or may not skip the ones another call has selected.
BuildSpend(t) ==
  /\ req[t].kind # "issue"
  /\ \E S \in SUBSET Wallet(req[t].at, req[t].from) :
       \E change \in 0 .. Value(S) :
         /\ Value(S) = req[t].qty + change
         /\ inputs' = [inputs EXCEPT ![t] = S]
         /\ outs' = [outs EXCEPT ![t] = Outputs(t, change)]
  /\ ini' = [ini EXCEPT ![t] = "collect"]

\* ErrInsufficientFunds: what is left beside the tokens of other calls is too little.
BuildInsufficient(t) ==
  /\ req[t].kind # "issue"
  /\ Value(Wallet(req[t].at, req[t].from) \ Held(t)) < req[t].qty
  /\ ini' = [ini EXCEPT ![t] = "insufficient"]
  /\ UNCHANGED <<inputs, outs>>

Build(t) ==
  /\ ini[t] = "build"
  /\ BuildIssue(t) \/ BuildSpend(t) \/ BuildInsufficient(t)
  /\ UNCHANGED <<call, rsp, reply, acked, endorsed, ledger, status, restarts>>

-----------------------------------------------------------------------------
(* CollectEndorsements: the issuer's signature on a redeem, the endorsers, *)
(* and then the recipient, who gets the approved transaction.              *)

\* IssuerRedeemAcceptView: receive the transaction and endorse it.
IssuerEndorse(t) ==
  /\ ini[t] = "collect" /\ rsp[t] = "none" /\ ~HasRecipient(t)
  /\ rsp' = [rsp EXCEPT ![t] = "done"]
  /\ UNCHANGED <<call, content, ini, acked, endorsed, ledger, status, restarts>>

IssuerApproved(t) == HasRecipient(t) \/ rsp[t] = "done"

\* An endorser validates the transaction against the ledger and signs it.
Endorse(t, e) ==
  /\ ini[t] = "collect" /\ e \notin endorsed[t]
  /\ IssuerApproved(t)
  /\ inputs[t] \subseteq Unspent
  /\ endorsed' = [endorsed EXCEPT ![t] = @ \cup {e}]
  /\ UNCHANGED <<call, content, ini, rsp, acked, ledger, status, restarts>>

\* AcceptCashView: receive the transaction, check that it has an output for
\* this recipient, run AcceptView (record it as pending, acknowledge).
Accept(t) ==
  /\ rsp[t] = "receive"
  /\ ini[t] = "collect" /\ endorsed[t] = Endorsers
  /\ \E k \in outs[t] : k.owner = reply[t]
  /\ rsp' = [rsp EXCEPT ![t] = "accepted"]
  /\ acked' = acked \cup {t}
  /\ status' = [status EXCEPT ![t][peer[t]] = "Pending"]
  /\ UNCHANGED <<call, content, ini, endorsed, ledger, restarts>>

AllSigned_NoAck(t) == IssuerApproved(t) /\ endorsed[t] = Endorsers
\* Everyone CollectEndorsements waits for has answered.
AllSigned(t) ==
  /\ IssuerApproved(t)
  /\ endorsed[t] = Endorsers
  /\ Remote(t) => t \in acked

Collected(t) ==
  /\ ini[t] = "collect" /\ AllSigned(t)
  /\ ini' = [ini EXCEPT ![t] = "ready"]
  /\ status' = [status EXCEPT ![t][req[t].at] = "Pending"]
  /\ UNCHANGED <<call, content, rsp, acked, endorsed, ledger, restarts>>

CollectFails_Unsigned(t) ==
  /\ ini[t] = "collect" /\ endorsed[t] # Endorsers
  /\ ini' = [ini EXCEPT ![t] = "error"]
  /\ UNCHANGED <<call, content, rsp, acked, endorsed, ledger, status, restarts>>

\* A party refuses, cannot be reached or does not answer in time.
CollectFails(t) ==
  /\ ini[t] = "collect"
  /\ ini' = [ini EXCEPT ![t] = "error"]
  /\ UNCHANGED <<call, content, rsp, acked, endorsed, ledger, status, restarts>>

-----------------------------------------------------------------------------
(* OrderingAndFinality, and the commit it waits for.                       *)

Order(t) ==
  /\ ini[t] = "ready"
  /\ ini' = [ini EXCEPT ![t] = "ordered"]
  /\ submitted' = submitted \cup {t}
  /\ UNCHANGED <<call, content, rsp, acked, endorsed, verdict, status, restarts>>

\* The broadcast reports an error: the orderer may have the transaction anyway.
OrderFails(t) ==
  /\ ini[t] = "ready"
  /\ ini' = [ini EXCEPT ![t] = "error"]
  /\ submitted' \in {submitted, submitted \cup {t}}
  /\ UNCHANGED <<call, content, rsp, acked, endorsed, verdict, status, restarts>>

Committable_Stale(t) == endorsed[t] = Endorsers
\* The committer's validation: the endorsement policy and unspent inputs.
Committable(t) == endorsed[t] = Endorsers /\ inputs[t] \subseteq Unspent

Commit(t) ==
  /\ t \in submitted /\ verdict[t] = "none"
  /\ verdict' = [verdict EXCEPT ![t] = IF Committable(t) THEN "valid" ELSE "invalid"]
  /\ UNCHANGED <<call, content, ini, rsp, acked, endorsed, submitted, status, restarts>>

CommitEvent_Waiter(n, t) ==
  /\ verdict[t] # "none" /\ n \in Parties(t)
  /\ ini[t] = "ordered"
  /\ status[t][n] \in {"Unknown", "Pending"}
  /\ status' = [status EXCEPT ![t][n] =
                   IF verdict[t] = "valid" THEN "Confirmed" ELSE "Deleted"]
  /\ UNCHANGED <<call, content, ini, rsp, acked, endorsed, ledger, restarts>>

\* The commit event reaches a party: its record and its token database.
CommitEvent(n, t) ==
  /\ verdict[t] # "none" /\ n \in Parties(t)
  /\ status[t][n] \in {"Unknown", "Pending"}
  /\ status' = [status EXCEPT ![t][n] =
                   IF verdict[t] = "valid" THEN "Confirmed" ELSE "Deleted"]
  /\ UNCHANGED <<call, content, ini, rsp, acked, endorsed, ledger, restarts>>

FinalAnswer_Status(s) == s
FinalAnswer_Ok(s) == "ok"
\* The answer once finality is known on the node.
FinalAnswer(s) == IF s = "Confirmed" THEN "ok" ELSE "error"

Finality_Early(t) ==
  /\ ini[t] = "ordered"
  /\ ini' = [ini EXCEPT ![t] = "ok"]
  /\ UNCHANGED <<call, content, rsp, acked, endorsed, ledger, status, restarts>>

\* FinalityView returns once the status on the initiator's node is final.
Finality(t) ==
  /\ ini[t] = "ordered"
  /\ status[t][req[t].at] \in {"Confirmed", "Deleted"}
  /\ ini' = [ini EXCEPT ![t] = FinalAnswer(status[t][req[t].at])]
  /\ UNCHANGED <<call, content, rsp, acked, endorsed, ledger, status, restarts>>

FinalityTimeout_Deletes(t) ==
  /\ ini[t] = "ordered"
  /\ ini' = [ini EXCEPT ![t] = "error"]
  /\ status' = [status EXCEPT ![t][req[t].at] = "Deleted"]
  /\ UNCHANGED <<call, content, rsp, acked, endorsed, ledger, restarts>>

\* Finality is not known in time: "failed asking ordering".
FinalityTimeout(t) ==
  /\ ini[t] = "ordered"
  /\ ini' = [ini EXCEPT ![t] = "error"]
  /\ UNCHANGED <<call, content, rsp, acked, endorsed, ledger, status, restarts>>

-----------------------------------------------------------------------------
(* The rest of AcceptCashView, after its AcceptView.                       *)

CheckPending_Rewrites(t) ==
  /\ rsp[t] = "accepted"
  /\ rsp' = [rsp EXCEPT ![t] = "finality"]
  /\ status' = [status EXCEPT ![t][peer[t]] = "Pending"]
  /\ UNCHANGED <<call, content, ini, acked, endorsed, ledger, restarts>>

\* assert.Equal(ttx.Pending, ...)
CheckPending(t) ==
  /\ rsp[t] = "accepted"
  /\ rsp' = [rsp EXCEPT ![t] =
                IF status[t][peer[t]] = "Pending" THEN "finality" ELSE "failed"]
  /\ UNCHANGED <<call, content, ini, acked, endorsed, ledger, status, restarts>>

\* FinalityView returns, and the status is compared with Confirmed.
ResponderFinality(t) ==
  /\ rsp[t] = "finality"
  /\ status[t][peer[t]] \in {"Confirmed", "Deleted"}
  /\ rsp' = [rsp EXCEPT ![t] =
                IF status[t][peer[t]] = "Confirmed" THEN "check" ELSE "failed"]
  /\ UNCHANGED <<call, content, ini, acked, endorsed, ledger, status, restarts>>

\* AssertTokens: the new token is in the database; one spent since then may
\* no longer be found.
AssertTokens(t) ==
  /\ rsp[t] = "check"
  /\ \/ rsp' = [rsp EXCEPT ![t] = "done"]
     \/ /\ \E k \in outs[t] : k.owner = reply[t] /\ k \notin Wallet(peer[t], k.owner)
        /\ rsp' = [rsp EXCEPT ![t] = "failed"]
  /\ UNCHANGED <<call, content, ini, acked, endorsed, ledger, status, restarts>>

ResponderTimeout_Finality(t) ==
  /\ rsp[t] = "finality"
  /\ rsp' = [rsp EXCEPT ![t] = "failed"]
  /\ UNCHANGED <<call, content, ini, acked, endorsed, ledger, status, restarts>>

\* ReceiveTransaction or FinalityView gives up.
ResponderTimeout(t) ==
  /\ rsp[t] \in {"receive", "finality"}
  /\ rsp' = [rsp EXCEPT ![t] = "failed"]
  /\ UNCHANGED <<call, content, ini, acked, endorsed, ledger, status, restarts>>

-----------------------------------------------------------------------------
\* Stop and start of a node: the views it runs are gone, its records stay.
Restart(n) ==
  /\ restarts < MaxRestarts
  /\ restarts' = restarts + 1
  /\ ini' = [t \in Txs |-> IF ini[t] \in Running /\ req[t].at = n
                           THEN "lost" ELSE ini[t]]
  /\ rsp' = [t \in Txs |-> IF rsp[t] \in Waiting /\ peer[t] = n
                           THEN "failed" ELSE rsp[t]]
  /\ UNCHANGED <<call, content, acked, endorsed, ledger, status>>

\* Every call has been made and answered and nothing is left to happen.
Quiet ==
  /\ \A t \in Txs : /\ ini[t] \in Answers
                    /\ rsp[t] \notin Waiting
                    /\ rsp[t] = "none" => ~Remote(t) \/ ini[t] = "connection"
                    /\ t \in submitted => verdict[t] # "none"
                    /\ verdict[t] # "none" =>
                         \A n \in Parties(t) : status[t][n] \in {"Confirmed", "Deleted"}
  /\ UNCHANGED vars

InitiatorStep(t) ==
  \/ ReceiveIdentity(t) \/ IdentityFails(t) \/ Build(t)
  \/ Collected(t) \/ CollectFails(t)
  \/ Order(t) \/ OrderFails(t) \/ Finality(t) \/ FinalityTimeout(t)

ResponderStep(t) ==
  \/ RespondIdentity(t) \/ IssuerEndorse(t) \/ Accept(t) \/ CheckPending(t)
  \/ ResponderFinality(t) \/ AssertTokens(t) \/ ResponderTimeout(t)

Next ==
  \/ \E t \in Txs : \/ Open(t)
                    \/ InitiatorStep(t)
                    \/ ResponderStep(t)
                    \/ \E e \in Endorsers : Endorse(t, e)
                    \/ Commit(t)
                    \/ \E n \in Nodes : CommitEvent(n, t)
  \/ \E n \in Nodes : Restart(n)
  \/ Quiet

Spec == Init /\ [][Next]_vars

\* A running view always gets somewhere (every wait of it is bounded by a
\* timeout), the orderer and committer work, and commit events arrive.
Fairness ==
  \A t \in Txs : /\ WF_vars(InitiatorStep(t))
                 /\ WF_vars(ResponderStep(t))
                 /\ WF_vars(Commit(t))
                 /\ \A n \in Nodes : WF_vars(CommitEvent(n, t))

FairSpec == Spec /\ Fairness
=============================================================================
