---------------------------- MODULE TokenTxProofs ----------------------------
(***************************************************************************)
(* Proofs about TokenTx and Queries for every value of their constants.    *)
(***************************************************************************)
EXTENDS TokenTxProperties, TLAPS

Early   == {"identity", "build", "collect"}
Ordered == {"ordered", "ok", "error", "lost"}

\* The call of t: nothing happens for it before it is opened.
CallInv(t) ==
  /\ ini[t] = "idle" => peer[t] = None /\ rsp[t] = "none" /\ reply[t] = None
  /\ ini[t] # "idle" => req[t] \in Requests
  /\ Remote(t) /\ rsp[t] = "none" => reply[t] = None
  /\ ini[t] \in {"build", "collect"} /\ HasRecipient(t) => reply[t] \in Accounts

\* What the responder has done so far, and for whom.
ResponderInv(t) ==
  /\ rsp[t] \in Waiting => ini[t] # "idle" /\ Remote(t) /\ Home[req[t].to] = peer[t]
  /\ rsp[t] \in {"none", "receive"} => t \notin acked
  /\ rsp[t] \in {"check", "done"} /\ HasRecipient(t) => verdict[t] = "valid"
  /\ t \in acked => /\ ini[t] # "idle" /\ Remote(t) /\ Home[req[t].to] = peer[t]
                    /\ status[t][peer[t]] # "Unknown"

\* Where a transaction is on its way to the ledger.
LedgerInv(t) ==
  /\ verdict[t] # "none" => t \in submitted
  /\ t \in submitted => ini[t] \in Ordered
  /\ ini[t] \in {"ready", "ordered"} \/ t \in submitted =>
       /\ Remote(t) => t \in acked
       /\ req[t].kind = "redeem" => rsp[t] = "done"
       /\ status[t][req[t].at] # "Unknown"

\* What the records of the nodes say.
RecordInv(t) ==
  /\ ini[t] = "ok" => verdict[t] = "valid"
  /\ \A n \in Nodes :
       /\ status[t][n] = "Confirmed" => verdict[t] = "valid"
       /\ status[t][n] = "Deleted" => verdict[t] = "invalid"
       /\ ini[t] \in {"idle"} \cup Early =>
            status[t][n] = "Unknown" \/ (n = peer[t] /\ t \in acked /\ status[t][n] = "Pending")

TxInv == \A t \in Txs : CallInv(t) /\ ResponderInv(t) /\ LedgerInv(t) /\ RecordInv(t)
IInv == TypeOK /\ TxInv /\ NoDoubleSpend

-----------------------------------------------------------------------------
\* The variables have their types at the start.
LEMMA InitType == Init => TypeOK
  BY ConstantsAssumption DEF Init, TypeOK, Statuses

\* The outputs of a transaction with a known sender and recipient are tokens.
LEMMA OutputsType ==
  ASSUME NEW t \in Txs, NEW change \in Nat, req[t] \in Request,
         HasRecipient(t) => reply[t] \in Accounts,
         change > 0 => req[t].from \in Accounts
  PROVE  Outputs(t, change) \in SUBSET Token
  BY DEF Outputs, Payment, Token, Request

OpenedTypes ==
  /\ ini \in [Txs -> {"idle"} \cup Running \cup Answers]
  /\ peer \in [Txs -> Nodes \cup {None}]
  /\ reply \in [Txs -> Accounts \cup {None, "notfound"}]
  /\ bind \in [Nodes -> [Accounts -> Nodes \cup {None}]]

\* A view that contacts a node binds the name to a node and asks a node.
LEMMA ContactType ==
  ASSUME TypeOK, NEW t \in Txs, NEW r, r.at \in Nodes, r.to \in Accounts,
         r.node \in Nodes, Contact(t, r)
  PROVE  OpenedTypes' /\ peer'[t] \in Nodes
<1>1. BindFirst(r.at, r.to, r.node) \in Nodes
  BY DEF BindFirst, TypeOK
<1> QED BY <1>1 DEF Contact, OpenedTypes, TypeOK, Running

\* A view that is refused at once ends with an answer.
LEMMA RefuseType ==
  ASSUME TypeOK, NEW t \in Txs, NEW a \in Answers, Refuse(t, a)
  PROVE  OpenedTypes'
  BY DEF Refuse, OpenedTypes, TypeOK

\* Opening a call keeps the types.
LEMMA OpenType ==
  ASSUME TypeOK, NEW t \in Txs, Open(t)
  PROVE  TypeOK'
<1>1. PICK r \in Requests : /\ req' = [req EXCEPT ![t] = r]
                            /\ OpenIssue(t, r) \/ OpenTransfer(t, r) \/ OpenRedeem(t, r)
  BY DEF Open
<1>2. /\ r.at \in Nodes
      /\ r.kind # "redeem" => r.to \in Accounts
      /\ r.kind = "issue" => r.node \in Nodes
      /\ r.node # None => r.node \in Nodes
  BY RequestsAssumption DEF Request, Kinds
<1>3. "error" \in Answers /\ "notfound" \in Answers
  BY DEF Answers, Errors
<1>4. OpenedTypes'
  <2>1. CASE OpenIssue(t, r)
    BY <2>1, <1>2, ContactType DEF OpenIssue
  <2>2. CASE OpenTransfer(t, r)
    <3>1. r.to \in Accounts
      BY <1>2, <2>2 DEF OpenTransfer
    <3>2. CASE r.node # None /\ Contact(t, r)
      BY <3>1, <3>2, <1>2, ContactType
    <3>3. CASE Refuse(t, "error") \/ Refuse(t, "notfound")
      BY <3>3, <1>3, RefuseType
    <3>4. CASE /\ ini' = [ini EXCEPT ![t] = "build"]
               /\ reply' = [reply EXCEPT ![t] = r.to]
               /\ UNCHANGED <<peer, bind>>
      BY <3>1, <3>4 DEF OpenedTypes, TypeOK, Running
    <3> QED BY <2>2, <3>2, <3>3, <3>4 DEF OpenTransfer
  <2>3. CASE OpenRedeem(t, r)
    <3>1. CASE Refuse(t, "error")
      BY <3>1, <1>3, RefuseType
    <3>2. CASE /\ ini' = [ini EXCEPT ![t] = "build"]
               /\ peer' = [peer EXCEPT ![t] = Issuer]
               /\ UNCHANGED <<bind, reply>>
      BY <3>2, ConstantsAssumption DEF OpenedTypes, TypeOK, Running
    <3> QED BY <2>3, <3>1, <3>2 DEF OpenRedeem
  <2> QED BY <1>1, <2>1, <2>2, <2>3
<1> QED BY <1>1, <1>4 DEF Open, OpenedTypes, TypeOK, ledger

\* Building a transaction consumes and creates tokens.
LEMMA BuildType ==
  ASSUME TypeOK, TxInv, NEW t \in Txs, Build(t)
  PROVE  TypeOK'
<1>1. /\ ini[t] = "build"
      /\ UNCHANGED <<call, rsp, reply, acked, endorsed, ledger, status, restarts>>
      /\ BuildIssue(t) \/ BuildSpend(t) \/ BuildInsufficient(t)
  BY DEF Build
<1>2. req[t] \in Request /\ (HasRecipient(t) => reply[t] \in Accounts)
  BY <1>1, RequestsAssumption DEF TxInv, CallInv
<1>3. req[t].kind # "issue" => req[t].from \in Accounts
  BY <1>1, RequestsAssumption DEF TxInv, CallInv, Request, Kinds
<1>4. /\ ini' \in [Txs -> {"idle"} \cup Running \cup Answers]
      /\ inputs' \in [Txs -> SUBSET Token]
      /\ outs' \in [Txs -> SUBSET Token]
  <2>1. CASE BuildIssue(t)
    <3>1. Outputs(t, 0) \in SUBSET Token
      BY <1>2, OutputsType
    <3> QED BY <2>1, <3>1 DEF BuildIssue, TypeOK, Running
  <2>2. CASE BuildSpend(t)
    <3>1. PICK S \in SUBSET Wallet(req[t].at, req[t].from) :
            \E change \in 0 .. Value(S) :
              /\ inputs' = [inputs EXCEPT ![t] = S]
              /\ outs' = [outs EXCEPT ![t] = Outputs(t, change)]
      BY <2>2 DEF BuildSpend
    <3>2. PICK change \in 0 .. Value(S) :
              /\ inputs' = [inputs EXCEPT ![t] = S]
              /\ outs' = [outs EXCEPT ![t] = Outputs(t, change)]
      BY <3>1
    <3>3. S \in SUBSET Token
      BY DEF Wallet, TypeOK
    <3>4. change \in Nat
      OBVIOUS
    <3>5. Outputs(t, change) \in SUBSET Token
      BY <1>2, <1>3, <2>2, <3>4, OutputsType DEF BuildSpend
    <3> QED BY <2>2, <3>2, <3>3, <3>5 DEF BuildSpend, TypeOK, Running
  <2>3. CASE BuildInsufficient(t)
    BY <2>3 DEF BuildInsufficient, TypeOK, Answers, Errors
  <2> QED BY <1>1, <2>1, <2>2, <2>3
<1> QED BY <1>1, <1>4 DEF TypeOK, call, ledger

\* So do the other steps of an initiator view keep the types,
LEMMA InitiatorType ==
  ASSUME TypeOK, TxInv, NEW t \in Txs, InitiatorStep(t)
  PROVE  TypeOK'
<1> USE DEF call, content, ledger
<1>1. CASE ReceiveIdentity(t)
  BY <1>1 DEF ReceiveIdentity, IdentityError, TypeOK, Running, Answers, Errors
<1>2. CASE IdentityFails(t)
  BY <1>2 DEF IdentityFails, IdentityError, TypeOK, Answers, Errors
<1>3. CASE Build(t)
  BY <1>3, BuildType
<1>4. CASE Collected(t)
  <2>1. req[t] \in Request
    BY <1>4, RequestsAssumption DEF TxInv, CallInv, Collected
  <2>2. status' \in [Txs -> [Nodes -> Statuses]]
    BY <1>4, <2>1 DEF Collected, TypeOK, Request, Statuses
  <2> QED BY <1>4, <2>2 DEF Collected, TypeOK, Running
<1>5. CASE CollectFails(t)
  BY <1>5 DEF CollectFails, TypeOK, Answers, Errors
<1>6. CASE Order(t)
  BY <1>6 DEF Order, TypeOK, Running
<1>7. CASE OrderFails(t)
  BY <1>7 DEF OrderFails, TypeOK, Answers, Errors
<1>8. CASE Finality(t)
  BY <1>8 DEF Finality, FinalAnswer, TypeOK, Answers, Errors
<1>9. CASE FinalityTimeout(t)
  BY <1>9 DEF FinalityTimeout, TypeOK, Answers, Errors
<1> QED BY <1>1, <1>2, <1>3, <1>4, <1>5, <1>6, <1>7, <1>8, <1>9 DEF InitiatorStep

\* the steps of a responder view,
LEMMA ResponderType ==
  ASSUME TypeOK, TxInv, NEW t \in Txs, ResponderStep(t)
  PROVE  TypeOK'
<1> USE DEF call, content, ledger
<1>1. CASE RespondIdentity(t)
  <2>1. req[t] \in Request /\ req[t].kind # "redeem"
    BY <1>1, RequestsAssumption DEF TxInv, CallInv, RespondIdentity, Remote, HasRecipient
  <2>2. req[t].to \in Accounts
    BY <1>1, <2>1, RequestsAssumption DEF TxInv, CallInv, RespondIdentity, Request, Kinds
  <2> QED BY <1>1, <2>2 DEF RespondIdentity, TypeOK, Waiting
<1>2. CASE IssuerEndorse(t)
  BY <1>2 DEF IssuerEndorse, TypeOK
<1>3. CASE Accept(t)
  <2>1. Remote(t)
    BY <1>3 DEF Accept, TxInv, ResponderInv, Waiting
  <2>2. status' \in [Txs -> [Nodes -> Statuses]]
    BY <1>3, <2>1 DEF Accept, TypeOK, Statuses, Remote
  <2> QED BY <1>3, <2>2 DEF Accept, TypeOK, Waiting
<1>4. CASE CheckPending(t)
  BY <1>4 DEF CheckPending, TypeOK, Waiting
<1>5. CASE ResponderFinality(t)
  BY <1>5 DEF ResponderFinality, TypeOK, Waiting
<1>6. CASE AssertTokens(t)
  BY <1>6 DEF AssertTokens, TypeOK
<1>7. CASE ResponderTimeout(t)
  BY <1>7 DEF ResponderTimeout, TypeOK
<1> QED BY <1>1, <1>2, <1>3, <1>4, <1>5, <1>6, <1>7 DEF ResponderStep

\* and the endorsers, committer, events and node stops.
LEMMA EnvironmentType ==
  ASSUME TypeOK, NEW t \in Txs,
         \/ \E e \in Endorsers : Endorse(t, e)
         \/ Commit(t)
         \/ \E n \in Nodes : CommitEvent(n, t)
  PROVE  TypeOK'
<1> USE DEF call, content, ledger
<1>1. CASE \E e \in Endorsers : Endorse(t, e)
  BY <1>1 DEF Endorse, TypeOK
<1>2. CASE Commit(t)
  BY <1>2 DEF Commit, TypeOK
<1>3. CASE \E n \in Nodes : CommitEvent(n, t)
  BY <1>3 DEF CommitEvent, TypeOK, Statuses
<1> QED BY <1>1, <1>2, <1>3

\* Every step keeps the variables in their types.
LEMMA NextType == TypeOK /\ TxInv /\ [Next]_vars => TypeOK'
<1> SUFFICES ASSUME TypeOK, TxInv, [Next]_vars PROVE TypeOK'
  OBVIOUS
<1>1. CASE UNCHANGED vars
  BY <1>1 DEF vars, TypeOK
<1>2. ASSUME NEW t \in Txs, Open(t) PROVE TypeOK'
  BY <1>2, OpenType
<1>3. ASSUME NEW t \in Txs, InitiatorStep(t) PROVE TypeOK'
  BY <1>3, InitiatorType
<1>4. ASSUME NEW t \in Txs, ResponderStep(t) PROVE TypeOK'
  BY <1>4, ResponderType
<1>5. ASSUME NEW t \in Txs, NEW e \in Endorsers, Endorse(t, e) PROVE TypeOK'
  BY <1>5, EnvironmentType
<1>6. ASSUME NEW t \in Txs, Commit(t) PROVE TypeOK'
  BY <1>6, EnvironmentType
<1>7. ASSUME NEW t \in Txs, NEW n \in Nodes, CommitEvent(n, t) PROVE TypeOK'
  BY <1>7, EnvironmentType
<1>8. ASSUME NEW n \in Nodes, Restart(n) PROVE TypeOK'
  BY <1>8, ConstantsAssumption DEF Restart, TypeOK, Answers, Errors, call, content, ledger
<1> QED BY <1>1, <1>2, <1>3, <1>4, <1>5, <1>6, <1>7, <1>8 DEF Next, Quiet

-----------------------------------------------------------------------------
(* The inductive invariant.  A step changes the state of one call (Restart  *)
(* of several, but little of it); the others keep their part.               *)

UInv(u) == CallInv(u) /\ ResponderInv(u) /\ LedgerInv(u) /\ RecordInv(u)

\* The part of the state that UInv(u) speaks of does not change.
Same(u) ==
  /\ req'[u] = req[u] /\ ini'[u] = ini[u] /\ rsp'[u] = rsp[u]
  /\ peer'[u] = peer[u] /\ reply'[u] = reply[u]
  /\ (u \in acked') <=> (u \in acked)
  /\ (u \in submitted') <=> (u \in submitted)
  /\ verdict'[u] = verdict[u] /\ status'[u] = status[u]

\* What a step leaves alone stays in order.
LEMMA Frame == ASSUME NEW u \in Txs, UInv(u), Same(u) PROVE UInv(u)'
  BY DEF UInv, Same, CallInv, ResponderInv, LedgerInv, RecordInv, Remote, HasRecipient

\* No call has been made at the start.
LEMMA InitTx == Init => TxInv
  BY DEF Init, TxInv, CallInv, ResponderInv, LedgerInv, RecordInv, Remote, Waiting

\* A call starts in order: its responder and records are untouched.
LEMMA OpenTx ==
  ASSUME TypeOK, TxInv, NEW t \in Txs, Open(t), NEW u \in Txs
  PROVE  UInv(u)'
<1> USE DEF call, content, ledger
<1>1. PICK r \in Requests : /\ req' = [req EXCEPT ![t] = r]
                            /\ OpenIssue(t, r) \/ OpenTransfer(t, r) \/ OpenRedeem(t, r)
  BY DEF Open
<1>2. UInv(t) /\ UInv(u)
  BY DEF TxInv, UInv
<1>3. CASE u # t
  <2>1. Same(u)
    BY <1>1, <1>3 DEF Open, Same, TypeOK, OpenIssue, OpenTransfer, OpenRedeem, Contact, Refuse
  <2> QED BY <1>2, <2>1, Frame
<1>4. CASE u = t
  <2>1. /\ ini[t] = "idle" /\ rsp[t] = "none" /\ reply[t] = None /\ t \notin acked
        /\ t \notin submitted /\ verdict[t] = "none"
        /\ \A n \in Nodes : status[t][n] = "Unknown"
    BY <1>2 DEF Open, UInv, CallInv, ResponderInv, LedgerInv, RecordInv, Ordered
  <2>2. /\ req'[t] = r /\ rsp'[t] = "none" /\ t \notin acked' /\ t \notin submitted'
        /\ verdict'[t] = "none" /\ \A n \in Nodes : status'[t][n] = "Unknown"
    BY <1>1, <2>1 DEF Open, TypeOK
  <2>3. /\ ini'[t] \in {"identity", "build", "error", "notfound"}
        /\ reply'[t] # None => r.kind = "transfer" /\ peer'[t] = None
        /\ ini'[t] = "build" /\ r.kind # "redeem" => reply'[t] \in Accounts
    <3>1. CASE OpenIssue(t, r)
      BY <3>1, <2>1 DEF OpenIssue, Contact, TypeOK
    <3>2. CASE OpenTransfer(t, r)
      <4>1. r.to \in Accounts
        BY <3>2, RequestsAssumption DEF OpenTransfer, Request
      <4>2. peer[t] = None
        BY <1>2, <2>1 DEF UInv, CallInv
      <4> QED BY <3>2, <2>1, <4>1, <4>2 DEF OpenTransfer, Contact, Refuse, TypeOK
    <3>3. CASE OpenRedeem(t, r)
      BY <3>3, <2>1 DEF OpenRedeem, Refuse, TypeOK
    <3> QED BY <1>1, <3>1, <3>2, <3>3
  <2> QED BY <1>4, <2>2, <2>3, ConstantsAssumption
      DEF UInv, CallInv, ResponderInv, LedgerInv, RecordInv, Remote, HasRecipient, Waiting, Ordered, Early
<1> QED BY <1>3, <1>4

\* An initiator orders only what everyone has signed and recorded.
LEMMA InitiatorTx ==
  ASSUME TypeOK, TxInv, NEW t \in Txs, InitiatorStep(t), NEW u \in Txs
  PROVE  UInv(u)'
<1> USE DEF call, content, ledger
<1>1. UInv(t) /\ UInv(u)
  BY DEF TxInv, UInv
<1>2. CASE u # t
  <2>1. Same(u)
    BY <1>2 DEF InitiatorStep, ReceiveIdentity, IdentityFails, Build, BuildIssue, BuildSpend,
       BuildInsufficient, Collected, CollectFails, Order, OrderFails, Finality,
       FinalityTimeout, Same, TypeOK
  <2> QED BY <1>1, <2>1, Frame
<1>3. CASE u = t
  <2> USE DEF UInv, CallInv, ResponderInv, LedgerInv, RecordInv, Remote, HasRecipient,
              Ordered, Early, TypeOK
  <2>1. CASE ReceiveIdentity(t)
    BY <1>1, <1>3, <2>1, ConstantsAssumption DEF ReceiveIdentity, IdentityError
  <2>2. CASE IdentityFails(t)
    BY <1>1, <1>3, <2>2 DEF IdentityFails, IdentityError
  <2>3. CASE Build(t)
    <3>1. /\ ini[t] = "build" /\ ini'[t] \in {"collect", "insufficient"}
          /\ UNCHANGED <<call, rsp, reply, acked, endorsed, ledger, status, restarts>>
      BY <2>3 DEF Build, BuildIssue, BuildSpend, BuildInsufficient
    <3> QED BY <1>1, <1>3, <3>1
  <2>4. CASE Collected(t)
    <3>1. /\ ini[t] = "collect" /\ ini'[t] = "ready"
          /\ Remote(t) => t \in acked
          /\ req[t].kind = "redeem" => rsp[t] = "done"
          /\ UNCHANGED <<call, content, rsp, acked, endorsed, ledger, restarts>>
      BY <2>4 DEF Collected, AllSigned, IssuerApproved
    <3>2. /\ req[t].at \in Nodes
          /\ status'[t][req[t].at] = "Pending"
          /\ \A n \in Nodes : n # req[t].at => status'[t][n] = status[t][n]
      BY <1>1, <2>4, RequestsAssumption DEF Collected, Request
    <3> QED BY <1>1, <1>3, <3>1, <3>2
  <2>5. CASE CollectFails(t)
    BY <1>1, <1>3, <2>5 DEF CollectFails
  <2>6. CASE Order(t)
    BY <1>1, <1>3, <2>6 DEF Order
  <2>7. CASE OrderFails(t)
    BY <1>1, <1>3, <2>7 DEF OrderFails
  <2>8. CASE Finality(t)
    <3>1. req[t].at \in Nodes
      BY <1>1, <2>8, RequestsAssumption DEF Finality, Request
    <3> QED BY <1>1, <1>3, <2>8, <3>1 DEF Finality, FinalAnswer
  <2>9. CASE FinalityTimeout(t)
    BY <1>1, <1>3, <2>9 DEF FinalityTimeout
  <2> QED BY <2>1, <2>2, <2>3, <2>4, <2>5, <2>6, <2>7, <2>8, <2>9 DEF InitiatorStep
<1> QED BY <1>2, <1>3

\* A responder accepts for a running call of its own wallet only.
LEMMA ResponderTx ==
  ASSUME TypeOK, TxInv, NEW t \in Txs, ResponderStep(t), NEW u \in Txs
  PROVE  UInv(u)'
<1> USE DEF call, content, ledger
<1>1. UInv(t) /\ UInv(u)
  BY DEF TxInv, UInv
<1>2. CASE u # t
  <2>1. Same(u)
    BY <1>2 DEF ResponderStep, RespondIdentity, IssuerEndorse, Accept, CheckPending,
       ResponderFinality, AssertTokens, ResponderTimeout, Same, TypeOK
  <2> QED BY <1>1, <2>1, Frame
<1>3. CASE u = t
  <2> USE DEF UInv, CallInv, ResponderInv, LedgerInv, RecordInv, Remote, HasRecipient,
              Ordered, Early, TypeOK, Waiting
  <2>1. CASE RespondIdentity(t)
    <3>1. req[t] \in Request
      BY <1>1, <2>1, RequestsAssumption DEF RespondIdentity
    <3>2. req[t].to \in Accounts
      BY <1>1, <2>1, <3>1, RequestsAssumption DEF RespondIdentity, Request, Kinds
    <3>3. /\ ini[t] # "idle" /\ t \notin acked /\ rsp'[t] \in {"receive", "failed"}
          /\ rsp'[t] = "receive" => Home[req[t].to] = peer[t] /\ reply'[t] = req[t].to
          /\ UNCHANGED <<call, ini, acked, inputs, outs, endorsed, ledger, status, restarts>>
      BY <1>1, <2>1, <3>2, ConstantsAssumption DEF RespondIdentity, HostsWallet
    <3>4. ini[t] \notin {"build", "collect"}
      BY <1>1, <2>1, ConstantsAssumption DEF RespondIdentity
    <3> QED BY <1>1, <1>3, <2>1, <3>2, <3>3, <3>4 DEF RespondIdentity
  <2>2. CASE IssuerEndorse(t)
    BY <1>1, <1>3, <2>2 DEF IssuerEndorse
  <2>3. CASE Accept(t)
    <3>1. peer[t] \in Nodes
      BY <1>1, <2>3 DEF Accept
    <3>2. verdict[t] = "none"
      BY <1>1, <2>3 DEF Accept
    <3> QED BY <1>1, <1>3, <2>3, <3>1, <3>2 DEF Accept
  <2>4. CASE CheckPending(t)
    BY <1>1, <1>3, <2>4 DEF CheckPending
  <2>5. CASE ResponderFinality(t)
    <3>1. peer[t] \in Nodes
      BY <1>1, <2>5 DEF ResponderFinality
    <3> QED BY <1>1, <1>3, <2>5, <3>1 DEF ResponderFinality
  <2>6. CASE AssertTokens(t)
    BY <1>1, <1>3, <2>6 DEF AssertTokens
  <2>7. CASE ResponderTimeout(t)
    BY <1>1, <1>3, <2>7 DEF ResponderTimeout
  <2> QED BY <2>1, <2>2, <2>3, <2>4, <2>5, <2>6, <2>7 DEF ResponderStep
<1> QED BY <1>2, <1>3

\* An endorsement changes nothing that the parts of TxInv speak of.
LEMMA EndorseTx ==
  ASSUME TypeOK, TxInv, NEW t \in Txs, NEW e \in Endorsers, Endorse(t, e), NEW u \in Txs
  PROVE  UInv(u)'
<1>1. Same(u)
  BY DEF Endorse, Same, call, content, ledger
<1> QED BY <1>1, Frame DEF TxInv, UInv

\* Only an ordered transaction gets a verdict, and only one.
LEMMA CommitTx ==
  ASSUME TypeOK, TxInv, NEW t \in Txs, Commit(t), NEW u \in Txs
  PROVE  UInv(u)'
<1> USE DEF call, content, ledger
<1>1. UInv(t) /\ UInv(u)
  BY DEF TxInv, UInv
<1>2. CASE u # t
  <2>1. Same(u)
    BY <1>2 DEF Commit, Same, TypeOK
  <2> QED BY <1>1, <2>1, Frame
<1>3. CASE u = t
  BY <1>1, <1>3 DEF Commit, UInv, CallInv, ResponderInv, LedgerInv, RecordInv, Remote,
     HasRecipient, Ordered, Early, TypeOK
<1> QED BY <1>2, <1>3

\* A commit event writes what the committer has decided.
LEMMA CommitEventTx ==
  ASSUME TypeOK, TxInv, NEW t \in Txs, NEW n \in Nodes, CommitEvent(n, t), NEW u \in Txs
  PROVE  UInv(u)'
<1> USE DEF call, content, ledger
<1>1. UInv(t) /\ UInv(u)
  BY DEF TxInv, UInv
<1>2. CASE u # t
  <2>1. Same(u)
    BY <1>2 DEF CommitEvent, Same, TypeOK
  <2> QED BY <1>1, <2>1, Frame
<1>3. CASE u = t
  <2>1. status'[t] = [status[t] EXCEPT ![n] = IF verdict[t] = "valid" THEN "Confirmed" ELSE "Deleted"]
    BY DEF CommitEvent, TypeOK
  <2>2. ini[t] \in Ordered /\ verdict[t] \in {"valid", "invalid"}
    BY <1>1 DEF CommitEvent, UInv, LedgerInv, TypeOK
  <2>3. \A m \in Nodes : status[t][m] # "Unknown" => status'[t][m] # "Unknown"
    BY <2>1 DEF TypeOK
  <2>4. \A m \in Nodes : /\ status'[t][m] = "Confirmed" => verdict[t] = "valid"
                         /\ status'[t][m] = "Deleted" => verdict[t] = "invalid"
    BY <1>1, <2>1, <2>2 DEF UInv, RecordInv, TypeOK
  <2>5. Remote(t) => peer[t] \in Nodes
    BY DEF Remote, TypeOK
  <2>6. req[t].at \in Nodes
    BY <1>1, <2>2, RequestsAssumption DEF UInv, CallInv, Ordered, Request
  <2> QED BY <1>1, <1>3, <2>2, <2>3, <2>4, <2>5, <2>6
      DEF CommitEvent, UInv, CallInv, ResponderInv, LedgerInv, RecordInv, Remote,
          HasRecipient, Ordered, Early
<1> QED BY <1>2, <1>3

\* A stop ends views; acknowledgements and records survive it.
LEMMA RestartTx ==
  ASSUME TypeOK, TxInv, NEW n \in Nodes, Restart(n), NEW u \in Txs
  PROVE  UInv(u)'
<1>1. UInv(u)
  BY DEF TxInv, UInv
<1>2. /\ ini'[u] = IF ini[u] \in Running /\ req[u].at = n THEN "lost" ELSE ini[u]
      /\ rsp'[u] = IF rsp[u] \in Waiting /\ peer[u] = n THEN "failed" ELSE rsp[u]
      /\ UNCHANGED <<call, content, acked, endorsed, ledger, status>>
  BY DEF Restart
<1> QED BY <1>1, <1>2
    DEF call, content, ledger, UInv, CallInv, ResponderInv, LedgerInv, RecordInv, Remote,
        HasRecipient, Ordered, Early, Running, Waiting

\* Every step keeps calls, responders, ledger and records in order.
LEMMA NextTx == TypeOK /\ TxInv /\ [Next]_vars => TxInv'
<1> SUFFICES ASSUME TypeOK, TxInv, [Next]_vars, NEW u \in Txs PROVE UInv(u)'
  BY DEF TxInv, UInv
<1>1. CASE UNCHANGED vars
  <2>1. Same(u)
    BY <1>1 DEF vars, Same
  <2> QED BY <2>1, Frame DEF TxInv, UInv
<1> QED BY <1>1, OpenTx, InitiatorTx, ResponderTx, EndorseTx, CommitTx, CommitEventTx, RestartTx
    DEF Next, Quiet

-----------------------------------------------------------------------------
(* No double spend: only the committer makes a transaction valid, and only  *)
(* with inputs that are unspent; the inputs of a valid one are fixed.       *)

\* A step that changes neither verdicts nor the inputs of what is committed spends nothing twice.
LEMMA KeepNoDoubleSpend ==
  ASSUME NoDoubleSpend,
         \A t \in Txs : verdict'[t] = "valid" => verdict[t] = "valid" /\ inputs'[t] = inputs[t]
  PROVE  NoDoubleSpend'
  BY DEF NoDoubleSpend, Valid

\* A commit consumes unspent tokens only, and Build changes the inputs of no committed transaction.
LEMMA NextNoDoubleSpend == TypeOK /\ TxInv /\ NoDoubleSpend /\ [Next]_vars => NoDoubleSpend'
<1> SUFFICES ASSUME TypeOK, TxInv, NoDoubleSpend, [Next]_vars PROVE NoDoubleSpend'
  OBVIOUS
<1> USE DEF call, content, ledger
<1>1. ASSUME NEW t \in Txs, Commit(t) PROVE NoDoubleSpend'
  <2>1. \A u \in Txs \ {t} : verdict'[u] = verdict[u]
    BY <1>1 DEF Commit, TypeOK
  <2>2. verdict'[t] = "valid" => inputs[t] \subseteq Unspent
    BY <1>1 DEF Commit, Committable, TypeOK
  <2>3. ASSUME NEW u \in Txs \ {t}, verdict'[u] = "valid", verdict'[t] = "valid"
        PROVE  inputs[u] \cap inputs[t] = {}
    <3>1. u \in Valid
      BY <2>1, <2>3 DEF Valid
    <3> QED BY <2>2, <2>3, <3>1 DEF Unspent
  <2>4. inputs' = inputs
    BY <1>1 DEF Commit
  <2> QED BY <2>1, <2>3, <2>4 DEF NoDoubleSpend, Valid
<1>2. ASSUME NEW t \in Txs, Build(t) PROVE NoDoubleSpend'
  <2>1. verdict[t] # "valid"
    BY <1>2 DEF Build, TxInv, LedgerInv, Ordered
  <2>2. \A u \in Txs \ {t} : inputs'[u] = inputs[u]
    BY <1>2 DEF Build, BuildIssue, BuildSpend, BuildInsufficient, TypeOK
  <2> QED BY <1>2, <2>1, <2>2, KeepNoDoubleSpend DEF Build
<1>3. CASE UNCHANGED <<verdict, inputs>>
  BY <1>3, KeepNoDoubleSpend
<1>4. (\E t \in Txs : Commit(t) \/ Build(t)) \/ UNCHANGED <<verdict, inputs>>
  BY DEF Next, Open, InitiatorStep, ReceiveIdentity, IdentityFails, Collected, CollectFails,
     Order, OrderFails, Finality, FinalityTimeout, ResponderStep, RespondIdentity,
     IssuerEndorse, Accept, CheckPending, ResponderFinality, AssertTokens, ResponderTimeout,
     Endorse, CommitEvent, Restart, Quiet, vars
<1> QED BY <1>1, <1>2, <1>3, <1>4

-----------------------------------------------------------------------------
\* The inductive invariant holds in every reachable state.
THEOREM Inductive == Spec => []IInv
<1>1. Init => IInv
  BY InitType, InitTx DEF IInv, Init, NoDoubleSpend, Valid
<1>2. IInv /\ [Next]_vars => IInv'
  BY NextType, NextTx, NextNoDoubleSpend DEF IInv
<1> QED BY <1>1, <1>2, PTL DEF Spec

\* The variables keep their types.
THEOREM TypeCorrect == Spec => []TypeOK
<1>1. IInv => TypeOK
  BY DEF IInv
<1> QED BY <1>1, Inductive, PTL

\* No two committed transactions consume the same token, whatever calls
\* clients make and repeat and however the nodes' views of the ledger lag.
THEOREM DoubleSpendFree == Spec => []NoDoubleSpend
<1>1. IInv => NoDoubleSpend
  BY DEF IInv
<1> QED BY <1>1, Inductive, PTL

\* A committed transaction was accepted by the payee's node, or endorsed by
\* the issuer where it burns tokens.
THEOREM CounterpartiesAgree == Spec => []CounterpartyAgreed
<1>1. IInv => CounterpartyAgreed
  BY DEF IInv, TxInv, LedgerInv, ResponderInv, CounterpartyAgreed, Valid
<1> QED BY <1>1, Inductive, PTL

\* Answers that say the tokens moved are true, early errors move nothing.
THEOREM TrueAnswers == Spec => []AnswersAreTrue
<1>1. IInv => AnswersAreTrue
  BY DEF IInv, TxInv, RecordInv, LedgerInv, ResponderInv, Ordered, AnswersAreTrue
<1> QED BY <1>1, Inductive, PTL

\* The records of all nodes agree with the ledger.
THEOREM AgreeingRecords == Spec => []RecordsAgree
<1>1. IInv => RecordsAgree
  BY DEF IInv, TxInv, RecordInv, LedgerInv, ResponderInv, RecordsAgree, Parties
<1> QED BY <1>1, Inductive, PTL

-----------------------------------------------------------------------------
(* Three actions write a record: AcceptView and CollectEndorsements, while  *)
(* the transaction is not on the ledger, and the commit event, which finds  *)
(* the records those two have made.                                         *)

\* AcceptView records a transaction its node did not know.
LEMMA AcceptForward ==
  ASSUME TypeOK, TxInv, NEW t \in Txs, Accept(t)
  PROVE  Forward
<1>1. /\ ini[t] = "collect" /\ t \notin acked /\ peer[t] \in Nodes
      /\ status' = [status EXCEPT ![t][peer[t]] = "Pending"]
  BY DEF Accept, TxInv, ResponderInv, Remote, TypeOK, Waiting
<1>2. status[t][peer[t]] = "Unknown"
  BY <1>1 DEF TxInv, RecordInv, Early
<1> QED BY <1>1, <1>2 DEF Forward, TypeOK

\* The initiator records a transaction its node did not know.
LEMMA CollectedForward ==
  ASSUME TypeOK, TxInv, NEW t \in Txs, Collected(t)
  PROVE  Forward
<1>1. /\ ini[t] = "collect"
      /\ status' = [status EXCEPT ![t][req[t].at] = "Pending"]
  BY DEF Collected
<1>2. req[t].at \in Nodes
  BY <1>1, RequestsAssumption DEF TxInv, CallInv, Request
<1>3. status[t][req[t].at] \in {"Unknown", "Pending"}
  BY <1>1, <1>2 DEF TxInv, RecordInv, Early
<1> QED BY <1>1, <1>2, <1>3 DEF Forward, TypeOK

\* A commit event ends an open record.
LEMMA CommitEventForward ==
  ASSUME TypeOK, TxInv, NEW t \in Txs, NEW n \in Nodes, CommitEvent(n, t)
  PROVE  Forward
<1>1. /\ verdict[t] # "none" /\ n \in Parties(t)
      /\ status[t][n] \in {"Unknown", "Pending"}
      /\ status' = [status EXCEPT ![t][n] = IF verdict[t] = "valid" THEN "Confirmed" ELSE "Deleted"]
  BY DEF CommitEvent
<1>2. status[t][n] # "Unknown"
  BY <1>1 DEF TxInv, LedgerInv, ResponderInv, Parties
<1> QED BY <1>1, <1>2 DEF Forward, TypeOK

\* Every step moves the records forward or leaves them.
LEMMA NextForward == IInv /\ Next => Forward \/ UNCHANGED status
<1> SUFFICES ASSUME IInv, Next PROVE Forward \/ UNCHANGED status
  OBVIOUS
<1>1. TypeOK /\ TxInv
  BY DEF IInv
<1>2. \/ \E t \in Txs : Accept(t) \/ Collected(t) \/ (\E n \in Nodes : CommitEvent(n, t))
      \/ UNCHANGED status
  BY DEF Next, Open, InitiatorStep, ReceiveIdentity, IdentityFails, Build, CollectFails,
     Order, OrderFails, Finality, FinalityTimeout, ResponderStep, RespondIdentity,
     IssuerEndorse, CheckPending, ResponderFinality, AssertTokens, ResponderTimeout,
     Endorse, Commit, Restart, Quiet, vars
<1> QED BY <1>1, <1>2, AcceptForward, CollectedForward, CommitEventForward

\* Records only move forward.
THEOREM ForwardRecords == Spec => RecordsMoveForward
<1>1. IInv /\ [Next]_vars => [Forward]_vars
  BY NextForward DEF Forward, vars
<1> QED BY <1>1, Inductive, PTL DEF Spec, RecordsMoveForward

-----------------------------------------------------------------------------
(* What the queries of Queries show.                                       *)

\* The node that runs the call has the payer's wallet, and the payee's too if
\* it contacted nobody for it.
AtHome(t) ==
  /\ req[t].from # None => Home[req[t].from] = req[t].at
  /\ HasRecipient(t) /\ peer[t] = None => Home[req[t].to] = req[t].at

\* What IInv does not say: where calls run that get somewhere, and what the
\* node of an answered call has recorded.
QInv(t) ==
  /\ ini[t] \in Running \/ t \in submitted => AtHome(t)
  /\ ini[t] = "ok" => status[t][req[t].at] = "Confirmed"

QueryInv == \A t \in Txs : QInv(t)

-----------------------------------------------------------------------------
\* A call that starts runs at home or is refused.
LEMMA OpenHome ==
  ASSUME IInv, NEW t \in Txs, Open(t), ini'[t] \in Running
  PROVE  AtHome(t)'
<1>1. PICK r \in Requests : /\ req' = [req EXCEPT ![t] = r]
                            /\ OpenIssue(t, r) \/ OpenTransfer(t, r) \/ OpenRedeem(t, r)
  BY DEF Open
<1>2. TypeOK /\ req'[t] = r /\ peer[t] = None
  BY <1>1 DEF IInv, TypeOK, TxInv, CallInv, Open
<1>3. /\ r \in Request
      /\ r.kind = "issue" => r.from = None /\ r.node # None
      /\ r.node # None => r.node \in Nodes
      /\ r.at \in Nodes
      /\ r.kind # "redeem" => r.to \in Accounts
  BY RequestsAssumption DEF Request, Kinds
<1>4. ASSUME Contact(t, r), r.node # None, r.to \in Accounts
      PROVE  peer'[t] # None
  <2>1. BindFirst(r.at, r.to, r.node) \in Nodes
    BY <1>2, <1>3, <1>4 DEF BindFirst, TypeOK
  <2> QED BY <1>2, <1>4, <2>1, ConstantsAssumption DEF Contact, TypeOK
<1>5. CASE OpenIssue(t, r)
  BY <1>2, <1>3, <1>4, <1>5 DEF OpenIssue, AtHome
<1>6. ASSUME NEW a, a \in {"error", "notfound"}, Refuse(t, a) PROVE FALSE
  BY <1>2, <1>6 DEF Refuse, TypeOK, Running
<1>7. CASE OpenTransfer(t, r)
  BY <1>2, <1>3, <1>4, <1>6, <1>7 DEF OpenTransfer, AtHome
<1>8. CASE OpenRedeem(t, r)
  BY <1>2, <1>6, <1>8 DEF OpenRedeem, AtHome, HasRecipient
<1> QED BY <1>1, <1>5, <1>7, <1>8

\* The steps of a call that is open already leave its request and its peer
\* alone, and only a running view orders its transaction.
Going(t) ==
  /\ req'[t] = req[t] /\ peer'[t] = peer[t]
  /\ ini'[t] \in Running => ini[t] \in Running
  /\ t \in submitted' => t \in submitted \/ ini[t] \in Running
  /\ ini'[t] = "ok" => ini[t] = "ok" \/ (Finality(t) /\ status' = status)

\* A new request leaves the other initiators alone.
LEMMA OpenGoing ==
  ASSUME IInv, NEW u \in Txs, Open(u), NEW t \in Txs \ {u}
  PROVE  Going(t)
<1>1. TypeOK
  BY DEF IInv
<1> QED BY <1>1 DEF Open, OpenIssue, OpenTransfer, OpenRedeem, Contact, Refuse, TypeOK,
           Going, ledger

\* How an initiator's own step moves it.
LEMMA InitiatorGoing ==
  ASSUME IInv, NEW u \in Txs, InitiatorStep(u), NEW t \in Txs
  PROVE  Going(t)
<1>1. TypeOK
  BY DEF IInv
<1> USE DEF call, content, ledger, TypeOK, Running, Going
<1>2. CASE ReceiveIdentity(u)
  BY <1>1, <1>2 DEF ReceiveIdentity, IdentityError
<1>3. CASE IdentityFails(u)
  BY <1>1, <1>3 DEF IdentityFails, IdentityError
<1>4. CASE Build(u)
  BY <1>1, <1>4 DEF Build, BuildIssue, BuildSpend, BuildInsufficient
<1>5. CASE Collected(u) \/ CollectFails(u)
  BY <1>1, <1>5 DEF Collected, CollectFails
<1>6. CASE Order(u) \/ OrderFails(u)
  BY <1>1, <1>6 DEF Order, OrderFails
<1>7. CASE Finality(u)
  BY <1>1, <1>7 DEF Finality
<1>8. CASE FinalityTimeout(u)
  BY <1>1, <1>8 DEF FinalityTimeout
<1> QED BY <1>2, <1>3, <1>4, <1>5, <1>6, <1>7, <1>8 DEF InitiatorStep

\* No other step moves an initiator on, but a node that stops loses it.
LEMMA OtherGoing ==
  ASSUME IInv, Next, NEW t \in Txs, ~(\E u \in Txs : Open(u) \/ InitiatorStep(u))
  PROVE  Going(t)
<1>1. TypeOK
  BY DEF IInv
<1>2. /\ UNCHANGED <<req, peer, submitted>>
      /\ ini'[t] = ini[t] \/ ini'[t] = "lost"
  BY <1>1 DEF Next, ResponderStep, RespondIdentity, IssuerEndorse, Accept, CheckPending,
     ResponderFinality, AssertTokens, ResponderTimeout, Endorse, Commit, CommitEvent,
     Restart, Quiet, vars, call, content, ledger, TypeOK
<1> QED BY <1>2 DEF Going, Running

\* What QInv says of a call stays true while it goes on.
LEMMA GoingKeeps ==
  ASSUME IInv, Next, NEW t \in Txs, QInv(t), Going(t)
  PROVE  QInv(t)'
<1>1. TypeOK /\ (Forward \/ UNCHANGED status)
  BY NextForward DEF IInv
<1>2. ini'[t] \in Running \/ t \in submitted' => AtHome(t)'
  BY DEF QInv, Going, AtHome, HasRecipient
<1>3. ASSUME ini'[t] = "ok" PROVE status'[t][req'[t].at] = "Confirmed"
  <2>1. req[t].at \in Nodes
    <3>1. ini[t] # "idle"
      BY <1>3 DEF Going, Finality
    <3> QED BY <3>1, RequestsAssumption DEF IInv, TxInv, CallInv, Request
  <2>2. CASE ini[t] = "ok"
    BY <1>1, <2>1, <2>2 DEF QInv, Going, Forward
  <2>3. CASE Finality(t) /\ status' = status
    <3>1. status[t][req[t].at] # "Deleted"
      BY <1>1, <1>3, <2>3 DEF Finality, FinalAnswer, TypeOK
    <3> QED BY <2>3, <3>1 DEF Finality, Going
  <2> QED BY <1>3, <2>2, <2>3 DEF Going
<1> QED BY <1>2, <1>3 DEF QInv

\* Every step keeps answers and records together.
LEMMA NextQuery == IInv /\ QueryInv /\ [Next]_vars => QueryInv'
<1> SUFFICES ASSUME IInv, QueryInv, [Next]_vars, NEW t \in Txs PROVE QInv(t)'
  BY DEF QueryInv
<1>1. QInv(t)
  BY DEF QueryInv
<1>2. CASE UNCHANGED vars
  BY <1>1, <1>2 DEF vars, QInv, AtHome, HasRecipient
<1>3. CASE Next /\ ~Open(t)
  <2>1. Going(t)
    BY <1>3, OpenGoing, InitiatorGoing, OtherGoing
  <2> QED BY <1>1, <1>3, <2>1, GoingKeeps
<1>4. CASE Open(t)
  <2>1. t \notin submitted'
    BY <1>4 DEF Open, ledger, IInv, TxInv, LedgerInv, Ordered
  <2>2. ini'[t] # "ok"
    BY <1>4 DEF Open, OpenIssue, OpenTransfer, OpenRedeem, Contact, Refuse, IInv, TypeOK
  <2> QED BY <1>4, <2>1, <2>2, OpenHome DEF QInv
<1> QED BY <1>2, <1>3, <1>4

-----------------------------------------------------------------------------
\* Calls that get somewhere run where their payer is, and "ok" is recorded.
THEOREM QueryInvariant == Spec => [](IInv /\ QueryInv)
<1>1. Init => QueryInv
  BY DEF Init, QueryInv, QInv, Running
<1>2. IInv /\ QueryInv /\ [Next]_vars => QueryInv'
  BY NextQuery
<1> QED BY <1>1, <1>2, Inductive, PTL DEF Spec

\* The answer of a call and the queries at its node agree: after "ok" the
\* history shows the payment and the wallet has lost what it spent.
THEOREM ReadsSeeWrites == Spec => []ReadYourWrites
<1>1. IInv /\ QueryInv => ReadYourWrites
  <2> SUFFICES ASSUME IInv, QueryInv, NEW t \in Txs, ini[t] = "ok", req[t].from # None
      PROVE  /\ ~ToSelf(t) => \E x \in OwnerTransactions(req[t].at, req[t].from) :
                                 x.id = t /\ x.status = "Confirmed"
             /\ inputs[t] \cap Wallet(req[t].at, req[t].from) = {}
    BY DEF ReadYourWrites
  <2>1. status[t][req[t].at] = "Confirmed"
    BY DEF QueryInv, QInv
  <2>2. ~ToSelf(t) => t \in History(req[t].at, req[t].from)
    BY <2>1 DEF History, Listed, Names
  <2>3. ~ToSelf(t) => \E x \in OwnerTransactions(req[t].at, req[t].from) :
                        x.id = t /\ x.status = "Confirmed"
    <3> DEFINE x == [id |-> t, sender |-> req[t].from, recipient |-> req[t].to,
                     amount |-> Wrap(req[t].qty), status |-> status[t][req[t].at]]
    <3>1. x.id = t /\ x.status = "Confirmed"
      BY <2>1
    <3>2. ~ToSelf(t) => x \in OwnerTransactions(req[t].at, req[t].from)
      BY <2>2, Zenon DEF OwnerTransactions
    <3> HIDE DEF x
    <3> QED BY <3>1, <3>2
  <2>4. inputs[t] \cap Wallet(req[t].at, req[t].from) = {}
    BY <2>1 DEF Wallet
  <2> QED BY <2>3, <2>4
<1> QED BY <1>1, QueryInvariant, PTL

\* A payment one node shows as confirmed is in the histories of its payer and
\* of its payee on their own nodes.
THEOREM AgreeingHistories == Spec => []HistoriesAgree
<1>1. ASSUME IInv, QueryInv, NEW n \in Nodes, NEW t \in Txs, status[t][n] = "Confirmed",
             ~ToSelf(t)
      PROVE  /\ req[t].from # None => t \in History(Home[req[t].from], req[t].from)
             /\ req[t].to # None => t \in History(Home[req[t].to], req[t].to)
  <2>1. verdict[t] = "valid" /\ t \in submitted
    BY <1>1 DEF IInv, TxInv, RecordInv, LedgerInv
  <2>2. ini[t] # "idle" /\ req[t] \in Requests
    BY <1>1, <2>1 DEF IInv, TxInv, LedgerInv, CallInv, Ordered
  <2>3. AtHome(t)
    BY <1>1, <2>1 DEF QueryInv, QInv
  <2>4. \A m \in Nodes : status[t][m] # "Unknown" => Listed(m, t)
    BY <1>1, <2>1 DEF IInv, TypeOK, TxInv, RecordInv, Listed, Statuses
  <2>5. req[t].at \in Nodes /\ status[t][req[t].at] # "Unknown"
    BY <1>1, <2>1, <2>2, RequestsAssumption DEF IInv, TxInv, LedgerInv, Request
  <2>6. req[t].from # None => t \in History(Home[req[t].from], req[t].from)
    BY <1>1, <2>3, <2>4, <2>5 DEF AtHome, History, Names
  <2>7. ASSUME req[t].to # None PROVE t \in History(Home[req[t].to], req[t].to)
    <3>1. HasRecipient(t)
      BY <2>2, <2>7, RequestsAssumption DEF HasRecipient
    <3>2. CASE Remote(t)
      <4>1. t \in acked /\ Home[req[t].to] = peer[t] /\ status[t][peer[t]] # "Unknown"
        BY <1>1, <2>1, <3>2 DEF IInv, TxInv, LedgerInv, ResponderInv
      <4>2. peer[t] \in Nodes
        BY <1>1, <3>2 DEF IInv, TypeOK, Remote
      <4> QED BY <1>1, <2>4, <2>7, <4>1, <4>2 DEF History, Names
    <3>3. CASE ~Remote(t)
      BY <1>1, <2>3, <2>4, <2>5, <2>7, <3>1, <3>3 DEF Remote, AtHome, History, Names
    <3> QED BY <3>2, <3>3
  <2> QED BY <2>6, <2>7
<1>2. IInv /\ QueryInv => HistoriesAgree
  BY <1>1 DEF HistoriesAgree, OwnerTransactions, History
<1> QED BY <1>2, QueryInvariant, PTL

\* An entry of a history vanishes only when the ledger has refused it.
THEOREM StayingEntries == Spec => EntriesStay
<1>1. ASSUME IInv, IInv', Next, NEW n \in Nodes, NEW a \in Accounts, NEW t \in History(n, a)
      PROVE  t \in History(n, a)' \/ verdict'[t] = "invalid"
  <2>1. TypeOK /\ (Forward \/ UNCHANGED status) /\ t \in Txs /\ Listed(n, t)
    BY <1>1, NextForward DEF IInv, History
  <2>2. ini[t] # "idle"
    BY <1>1, <2>1 DEF IInv, TxInv, RecordInv, ResponderInv, Listed
  <2>3. req'[t] = req[t]
    <3>1. ~Open(t)
      BY <2>2 DEF Open
    <3> QED BY <1>1, <2>1, <3>1, OpenGoing, InitiatorGoing, OtherGoing DEF Going
  <2>4. status'[t][n] \in {"Pending", "Confirmed"} \/ status'[t][n] = "Deleted"
    BY <1>1, <2>1 DEF Forward, Listed
  <2>5. status'[t][n] = "Deleted" => verdict'[t] = "invalid"
    BY <1>1, <2>1 DEF IInv, TxInv, RecordInv
  <2> QED BY <1>1, <2>3, <2>4, <2>5 DEF History, Listed, Names, ToSelf
<1>2. ASSUME IInv, IInv', [Next]_vars PROVE [EntriesKept]_vars
  BY <1>1, <1>2 DEF EntriesKept
<1> QED BY <1>2, Inductive, PTL DEF Spec, EntriesStay
=============================================================================
