-------------------------- MODULE TokenTxProperties --------------------------
(***************************************************************************)
(* What TokenTx must guarantee.                                            *)
(***************************************************************************)
EXTENDS Queries

\* No token is spent twice: two transactions the committer found valid never
\* consume the same token, however many calls selected it (concurrent or
\* repeated calls of one wallet, a wallet that has not heard of a commit).
NoDoubleSpend ==
  \A t, u \in Valid : t # u => inputs[t] \cap inputs[u] = {}

\* The tokens in circulation are what committed issues created less what
\* committed redeems burned.
Conservation ==
  LET Total(kind) == SumFunction([t \in {u \in Valid : req[u].kind = kind} |-> req[t].qty])
  IN  Value(Unspent) + Total("redeem") = Total("issue")

\* Nothing is committed behind the back of its counterparty: the node the
\* view contacted for the recipient hosts the payee's wallet and has accepted
\* the transaction, and a redeem carries the issuer's endorsement.
CounterpartyAgreed ==
  \A t \in Valid : /\ Remote(t) => t \in acked /\ Home[req[t].to] = peer[t]
                   /\ req[t].kind = "redeem" => rsp[t] = "done"

\* Only the answers "ok" of an initiator and the end of a responder without
\* an error say that the tokens moved, and then they did; a call that ended
\* before its transaction was ordered moves nothing, now or later.
AnswersAreTrue ==
  \A t \in Txs : /\ ini[t] = "ok" => verdict[t] = "valid"
                 /\ rsp[t] \in {"check", "done"} /\ HasRecipient(t)
                      => verdict[t] = "valid"
                 /\ ini[t] \in {"notfound", "connection", "insufficient"}
                      => t \notin submitted

\* The records of two nodes never contradict each other or the ledger, and a
\* transaction on the ledger has a record on every node that is a party to it.
RecordsAgree ==
  \A t \in Txs : \A n \in Nodes :
    /\ status[t][n] = "Confirmed" => verdict[t] = "valid"
    /\ status[t][n] = "Deleted" => verdict[t] = "invalid"
    /\ t \in submitted /\ n \in Parties(t) => status[t][n] # "Unknown"

\* A record only moves from unknown to pending to a final status; above all a
\* responder that runs late never sets a final record back to pending.
Forward ==
  \A t \in Txs : \A n \in Nodes :
    status'[t][n] # status[t][n] =>
      \/ status[t][n] = "Unknown" /\ status'[t][n] = "Pending"
      \/ status[t][n] = "Pending" /\ status'[t][n] \in {"Confirmed", "Deleted"}

RecordsMoveForward == [][Forward]_vars

\* Every HTTP call is answered, whatever its peers do.
EveryCallAnswered == \A t \in Txs : ini[t] # "idle" ~> ini[t] \in Answers

\* No responder waits forever for an initiator that failed or stopped.
EveryResponderEnds == \A t \in Txs : rsp[t] \in Waiting ~> rsp[t] \in {"done", "failed"}

\* Once the orderer has a transaction its record gets final on both nodes,
\* although the calls that made it timed out, failed or were cut off.
EverySubmittedSettles ==
  \A t \in Txs : \A n \in Nodes :
    t \in submitted /\ n \in Parties(t) ~> status[t][n] \in {"Confirmed", "Deleted"}

-----------------------------------------------------------------------------
(* What the queries show.                                                  *)

\* The balance a node shows is what the history it shows adds up to, whatever
\* commit events it has yet to hear of and in which order they arrive.
HistoryExplainsBalance ==
  \A a \in Accounts :
    LET Shown == OwnerTransactions(Home[a], a)
        Total(E) == SumFunction([x \in {y \in E : y.status = "Confirmed"} |-> x.amount])
    IN  Wrap(OwnerAccount(Home[a], a) + Total({x \in Shown : x.sender = a}))
          = Wrap(Total({x \in Shown : x.recipient = a}))

\* A client that was told "ok" and then asks the same node finds its payment
\* confirmed and what it spent gone from the wallet.
ReadYourWrites ==
  \A t \in Txs :
    LET n == req[t].at
        a == req[t].from
    IN  ini[t] = "ok" /\ a # None =>
          /\ ~ToSelf(t) => \E x \in OwnerTransactions(n, a) : x.id = t /\ x.status = "Confirmed"
          /\ inputs[t] \cap Wallet(n, a) = {}

\* What one node shows as confirmed the nodes of both parties list: neither has
\* missed it or shows it as failed.
HistoriesAgree ==
  \A n \in Nodes, a \in Accounts : \A x \in OwnerTransactions(n, a) :
    x.status = "Confirmed" =>
      /\ x.sender # None => x.id \in History(Home[x.sender], x.sender)
      /\ x.recipient # None => x.id \in History(Home[x.recipient], x.recipient)

\* What a client has seen in a history stays there, above all after its call
\* was reported as failed, unless the ledger has refused the transaction.
EntriesKept ==
  \A n \in Nodes, a \in Accounts : \A t \in History(n, a) :
    t \in History(n, a)' \/ verdict'[t] = "invalid"

EntriesStay == [][EntriesKept]_vars

-----------------------------------------------------------------------------
\* TokenTx implements Cash: balances are the sums of the unspent tokens.
Balances == [a \in Accounts |-> Value({k \in Unspent : k.owner = a})]
Effect == [t \in Txs |-> CASE verdict[t] = "none" -> "none"
                           [] verdict[t] = "valid" -> "moved"
                           [] verdict[t] = "invalid" -> "refused"]
Answer == [t \in Txs |-> CASE ini[t] = "ok" -> "ok"
                           [] ini[t] \in Errors -> "failed"
                           [] OTHER -> "none"]

C == INSTANCE Cash WITH bal <- Balances, effect <- Effect, answer <- Answer

\* Every step of the views, the nodes and the ledger is an atomic step of Cash
\* or none.
ImplementsCash == C!Spec

-----------------------------------------------------------------------------
\* "the transaction is in pending state" (AcceptCashView, after AcceptView).
AcceptSanity == \A t \in Txs : rsp[t] = "accepted" => status[t][peer[t]] = "Pending"

\* "Bind identity names to tell FSC to contact the right node"
\* (getRemoteIdentity): the node contacted is the one the request names.
ContactsNamedNode == \A t \in Txs : Remote(t) => peer[t] = req[t].node
=============================================================================
