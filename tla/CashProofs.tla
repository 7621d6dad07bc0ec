----------------------------- MODULE CashProofs -----------------------------
(***************************************************************************)
(* Proofs about the money in TokenTx: the tokens in circulation add up to  *)
(* what was issued and not burned, the balance of an account to what its   *)
(* history says, and the whole system to the accounts of Cash.             *)
(***************************************************************************)
EXTENDS TokenTxProofs, Sums

-----------------------------------------------------------------------------
(* The inductive invariant: a transaction that may reach the ledger pays    *)
(* the account the request names, and the tokens it consumes belong to its  *)
(* payer, were created by transactions its node knows to be committed, and  *)
(* cover the quantity and the change.                                       *)

Built(t) == ini[t] \in {"collect", "ready", "ordered"} \/ t \in submitted

Balanced(t, change) ==
  /\ outs[t] = Outputs(t, change)
  /\ IF req[t].kind = "issue" THEN change = 0 /\ inputs[t] = {}
                              ELSE Value(inputs[t]) = req[t].qty + change

Funded(t) ==
  /\ HasRecipient(t) => reply[t] = req[t].to
  /\ \A k \in inputs[t] :
       /\ k.owner = req[t].from
       /\ \E u \in Txs : status[u][req[t].at] = "Confirmed" /\ k \in outs[u]
  /\ \E change \in Nat : Balanced(t, change)

Fresh == {"idle", "identity", "build"}

MoneyInv(t) ==
  /\ ini[t] = "idle" => req[t] = None
  /\ ini[t] \in Fresh => inputs[t] = {}
  /\ ini[t] # "idle" /\ HasRecipient(t) => reply[t] \in {None, "notfound", req[t].to}
  /\ ini[t] = "build" /\ HasRecipient(t) => reply[t] = req[t].to
  /\ Built(t) => Funded(t)

CashInv == IInv /\ QueryInv /\ IsFiniteSet(Valid) /\ \A t \in Txs : MoneyInv(t)

\* What a node knows and who created what it knows only grows.
Grows ==
  \A n \in Nodes : \A u \in Txs :
    status[u][n] = "Confirmed" => status'[u][n] = "Confirmed" /\ outs'[u] = outs[u]

\* What a node has recorded as confirmed stays, with its outputs.
LEMMA NextGrows == IInv /\ [Next]_vars => Grows
<1> SUFFICES ASSUME IInv, [Next]_vars PROVE Grows
  OBVIOUS
<1>1. TypeOK /\ TxInv
  BY DEF IInv
<1>2. \A n \in Nodes : \A u \in Txs : status[u][n] = "Confirmed" => status'[u][n] = "Confirmed"
  <2>1. (Forward \/ UNCHANGED status) \/ UNCHANGED vars
    BY NextForward
  <2> QED BY <1>1, <2>1 DEF Forward, vars
<1>3. ASSUME NEW t \in Txs, Build(t), NEW n \in Nodes, NEW u \in Txs, status[u][n] = "Confirmed"
      PROVE  outs'[u] = outs[u]
  <2>1. verdict[t] = "none" /\ verdict[u] = "valid"
    BY <1>1, <1>3 DEF Build, TxInv, LedgerInv, RecordInv, Ordered
  <2>2. outs \in [Txs -> SUBSET Token] /\ u \in Txs /\ u # t
    BY <1>1, <2>1 DEF TypeOK
  <2> QED BY <1>3, <2>2 DEF Build, BuildIssue, BuildSpend, BuildInsufficient
<1>4. (\E t \in Txs : Build(t)) \/ UNCHANGED outs
  BY DEF Next, Open, InitiatorStep, ReceiveIdentity, IdentityFails, Collected, CollectFails,
     Order, OrderFails, Finality, FinalityTimeout, ResponderStep, RespondIdentity,
     IssuerEndorse, Accept, CheckPending, ResponderFinality, AssertTokens, ResponderTimeout,
     Endorse, Commit, CommitEvent, Restart, Quiet, vars, content
<1> QED BY <1>2, <1>3, <1>4 DEF Grows

\* What a step leaves alone stays in order.
Kept(t) ==
  /\ req'[t] = req[t] /\ reply'[t] = reply[t]
  /\ inputs'[t] = inputs[t] /\ outs'[t] = outs[t]
  /\ ini'[t] \in Fresh => ini'[t] = ini[t]
  /\ ini[t] = "idle" => ini'[t] = "idle"
  /\ Built(t)' => Built(t)

\* A transaction that a step leaves alone keeps the values of its tokens.
LEMMA KeptMoney ==
  ASSUME IInv, Grows, NEW t \in Txs, MoneyInv(t), Kept(t)
  PROVE  MoneyInv(t)'
<1>1. ASSUME Built(t) PROVE Funded(t)'
  <2>1. Funded(t) /\ req[t].at \in Nodes
    <3>1. ini[t] # "idle"
      BY <1>1 DEF Built, IInv, TxInv, LedgerInv, Ordered
    <3> QED BY <1>1, <3>1, RequestsAssumption DEF MoneyInv, IInv, TxInv, CallInv, Request
  <2>2. \A k \in inputs'[t] : k.owner = req'[t].from /\ \E u \in Txs : status'[u][req'[t].at] = "Confirmed" /\ k \in outs'[u]
    BY <2>1 DEF Funded, Kept, Grows
  <2>3. \A change \in Nat : Balanced(t, change) => Balanced(t, change)'
    BY DEF Balanced, Outputs, Payment, HasRecipient, Kept
  <2> QED BY <2>1, <2>2, <2>3 DEF Funded, Kept, HasRecipient
<1> QED BY <1>1 DEF MoneyInv, Kept, HasRecipient, Fresh

\* A call starts without a transaction.
LEMMA OpenMoney ==
  ASSUME IInv, Grows, NEW u \in Txs, Open(u), NEW t \in Txs, MoneyInv(t)
  PROVE  MoneyInv(t)'
<1>1. PICK r \in Requests : /\ req' = [req EXCEPT ![u] = r]
                            /\ OpenIssue(u, r) \/ OpenTransfer(u, r) \/ OpenRedeem(u, r)
  BY DEF Open
<1>2. TypeOK /\ ini[u] = "idle" /\ reply[u] = None /\ u \notin submitted
  BY DEF Open, IInv, TxInv, CallInv, LedgerInv, Ordered
<1>3. CASE t # u
  <2>1. Kept(t)
    BY <1>1, <1>2, <1>3 DEF Open, OpenIssue, OpenTransfer, OpenRedeem, Contact, Refuse,
       TypeOK, Kept, Built, Fresh, ledger
  <2> QED BY <2>1, KeptMoney
<1>4. CASE t = u
  <2>1. /\ req'[u] = r /\ u \notin submitted'
        /\ ini'[u] \in {"identity", "build", "error", "notfound"}
        /\ ini'[u] = "build" /\ r.kind # "redeem" => reply'[u] = r.to
        /\ reply'[u] \in {None, r.to} /\ inputs' = inputs
    BY <1>1, <1>2 DEF Open, OpenIssue, OpenTransfer, OpenRedeem, Contact, Refuse, TypeOK, ledger
  <2> QED BY <1>2, <1>4, <2>1 DEF MoneyInv, Built, HasRecipient, Fresh
<1> QED BY <1>3, <1>4

\* The recipient's node gives the identity of the account that was asked for,
\* and no call that has gone on takes another.
LEMMA RespondMoney ==
  ASSUME IInv, Grows, NEW u \in Txs, RespondIdentity(u), NEW t \in Txs, MoneyInv(t)
  PROVE  MoneyInv(t)'
<1>1. TypeOK /\ UInv(u)
  BY DEF IInv, TxInv, UInv
<1> USE DEF call, ledger
<1>2. CASE t # u
  <2>1. Kept(t)
    BY <1>1, <1>2 DEF RespondIdentity, Kept, Built, Fresh, TypeOK
  <2> QED BY <2>1, KeptMoney
<1>3. CASE t = u
  <2>1. ini[t] # "build" /\ ~Built(t) /\ ini[t] # "idle"
    BY <1>1, <1>3, ConstantsAssumption
       DEF RespondIdentity, UInv, CallInv, ResponderInv, LedgerInv, Built, Remote
  <2>2. reply'[t] \in {"notfound", req[t].to}
    BY <1>1, <1>3 DEF RespondIdentity, TypeOK
  <2>3. UNCHANGED <<req, ini, submitted, inputs>>
    BY DEF RespondIdentity
  <2> QED BY <2>1, <2>2, <2>3 DEF MoneyInv, Built, HasRecipient, Fresh
<1> QED BY <1>2, <1>3

\* The view goes on with the identity it was given.
LEMMA ReceiveMoney ==
  ASSUME IInv, Grows, NEW u \in Txs, ReceiveIdentity(u), NEW t \in Txs, MoneyInv(t)
  PROVE  MoneyInv(t)'
<1>1. TypeOK /\ UInv(u)
  BY DEF IInv, TxInv, UInv
<1> USE DEF call, content, ledger
<1>2. CASE t # u
  <2>1. Kept(t)
    BY <1>1, <1>2 DEF ReceiveIdentity, Kept, Built, Fresh, TypeOK
  <2> QED BY <2>1, KeptMoney
<1>3. CASE t = u
  <2>1. /\ ini[t] = "identity" /\ reply[t] # None /\ t \notin submitted
        /\ ini'[t] = "build" => reply[t] # "notfound"
        /\ ini'[t] \in {"build", "notfound", "error"}
        /\ UNCHANGED <<req, reply, submitted, inputs>>
    BY <1>1, <1>3 DEF ReceiveIdentity, IdentityError, UInv, LedgerInv, Ordered, TypeOK
  <2> QED BY <2>1 DEF MoneyInv, Built, HasRecipient, Fresh
<1> QED BY <1>2, <1>3

\* The tokens a view selects are in the wallet of its payer, and with the
\* change they are worth what it spends.
LEMMA BuildMoney ==
  ASSUME IInv, Grows, NEW u \in Txs, Build(u), NEW t \in Txs, MoneyInv(t)
  PROVE  MoneyInv(t)'
<1>1. TypeOK /\ UInv(u)
  BY DEF IInv, TxInv, UInv
<1>2. /\ ini[u] = "build"
      /\ UNCHANGED <<req, reply, submitted, status>>
  BY DEF Build, call, ledger
<1>3. CASE t # u
  <2>1. Kept(t)
    BY <1>1, <1>2, <1>3 DEF Build, BuildIssue, BuildSpend, BuildInsufficient, Kept, Built, Fresh, TypeOK
  <2> QED BY <2>1, KeptMoney
<1>4. CASE t = u
  <2>1. HasRecipient(t) => reply[t] = req[t].to
    BY <1>2, <1>4 DEF MoneyInv
  <2>2. ini'[t] \in {"collect", "insufficient"} /\ t \notin submitted
    BY <1>1, <1>2, <1>4 DEF Build, BuildIssue, BuildSpend, BuildInsufficient, TypeOK, UInv, LedgerInv, Ordered
  <2>3. \A c \in Nat : Outputs(t, c)' = Outputs(t, c)
    BY <1>2 DEF Outputs, Payment, HasRecipient
  <2>4. CASE BuildIssue(t)
    <3>1. outs'[t] = Outputs(t, 0) /\ req[t].kind = "issue"
      BY <1>1, <2>4 DEF BuildIssue, TypeOK
    <3>2. inputs'[t] = {}
      BY <1>2, <1>4, <2>4 DEF BuildIssue, MoneyInv, Fresh
    <3>3. Balanced(t, 0)' /\ 0 \in Nat
      BY <1>2, <2>3, <3>1, <3>2 DEF Balanced
    <3> QED BY <1>2, <2>1, <3>2, <3>3, <2>2 DEF Funded, MoneyInv, HasRecipient, Fresh
  <2>5. CASE BuildSpend(t)
    <3>1. PICK S \in SUBSET Wallet(req[t].at, req[t].from) :
            \E change \in 0 .. Value(S) :
              /\ Value(S) = req[t].qty + change
              /\ inputs' = [inputs EXCEPT ![t] = S]
              /\ outs' = [outs EXCEPT ![t] = Outputs(t, change)]
      BY <2>5 DEF BuildSpend
    <3>2. PICK change \in 0 .. Value(S) :
              /\ Value(S) = req[t].qty + change
              /\ inputs' = [inputs EXCEPT ![t] = S]
              /\ outs' = [outs EXCEPT ![t] = Outputs(t, change)]
      BY <3>1
    <3>3. inputs'[t] = S /\ outs'[t] = Outputs(t, change) /\ change \in Nat
      BY <1>1, <3>2 DEF TypeOK
    <3>4. Balanced(t, change)'
      BY <1>2, <2>3, <2>5, <3>2, <3>3 DEF Balanced, BuildSpend, Value
    <3>5. \A k \in S : k.owner = req[t].from /\ \E v \in Txs : status[v][req[t].at] = "Confirmed" /\ k \in outs[v]
      BY DEF Wallet
    <3>6. req[t].at \in Nodes
      BY <1>1, <1>2, <1>4, RequestsAssumption DEF UInv, CallInv, Request
    <3>7. \A k \in S : k.owner = req'[t].from /\ \E v \in Txs : status'[v][req'[t].at] = "Confirmed" /\ k \in outs'[v]
      BY <1>2, <3>5, <3>6 DEF Grows
    <3>8. Funded(t)'
      BY <1>2, <2>1, <3>3, <3>4, <3>7 DEF Funded, HasRecipient
    <3> QED BY <1>2, <2>1, <2>2, <3>8 DEF MoneyInv, HasRecipient, Fresh
  <2>6. CASE BuildInsufficient(t)
    <3>1. ini'[t] = "insufficient"
      BY <1>1, <2>6 DEF BuildInsufficient, TypeOK
    <3> QED BY <1>2, <2>1, <2>2, <3>1 DEF MoneyInv, Built, HasRecipient, Fresh
  <2> QED BY <1>4, <2>4, <2>5, <2>6 DEF Build
<1> QED BY <1>3, <1>4

\* The other steps leave requests and transactions alone.
LEMMA OtherKept ==
  ASSUME IInv, Next, NEW t \in Txs,
         ~ \E u \in Txs : Open(u) \/ RespondIdentity(u) \/ ReceiveIdentity(u) \/ Build(u)
  PROVE  Kept(t)
<1>1. TypeOK
  BY DEF IInv
<1> USE DEF call, content, ledger, Kept, Built, Fresh
<1>2. ASSUME NEW u \in Txs, InitiatorStep(u) PROVE Kept(t)
  <2>1. CASE IdentityFails(u)
    BY <1>1, <2>1 DEF IdentityFails, IdentityError, TypeOK
  <2>2. CASE Collected(u) \/ CollectFails(u) \/ Order(u) \/ OrderFails(u)
    BY <1>1, <2>2 DEF Collected, CollectFails, Order, OrderFails, TypeOK
  <2>3. CASE Finality(u) \/ FinalityTimeout(u)
    BY <1>1, <2>3 DEF Finality, FinalityTimeout, FinalAnswer, TypeOK
  <2> QED BY <1>2, <2>1, <2>2, <2>3 DEF InitiatorStep
<1>3. ASSUME NEW u \in Txs, ResponderStep(u) PROVE Kept(t)
  BY <1>3 DEF ResponderStep, IssuerEndorse, Accept, CheckPending, ResponderFinality,
     AssertTokens, ResponderTimeout
<1>4. ASSUME NEW u \in Txs, \/ \E e \in Endorsers : Endorse(u, e)
                            \/ Commit(u) \/ \E n \in Nodes : CommitEvent(n, u)
      PROVE  Kept(t)
  BY <1>4 DEF Endorse, Commit, CommitEvent
<1>5. ASSUME NEW n \in Nodes, Restart(n) PROVE Kept(t)
  BY <1>5 DEF Restart, Running
<1> QED BY <1>2, <1>3, <1>4, <1>5 DEF Next, Quiet, vars

\* Every step keeps what a transaction takes in equal to what it gives out.
LEMMA NextMoney ==
  ASSUME IInv, [Next]_vars, NEW t \in Txs, MoneyInv(t)
  PROVE  MoneyInv(t)'
<1>1. Grows
  BY NextGrows
<1>2. CASE UNCHANGED vars
  <2>1. Kept(t)
    BY <1>2 DEF vars, Kept, Built
  <2> QED BY <1>1, <2>1, KeptMoney
<1>3. CASE Next /\ ~ \E u \in Txs : Open(u) \/ RespondIdentity(u) \/ ReceiveIdentity(u) \/ Build(u)
  BY <1>1, <1>3, OtherKept, KeptMoney
<1> QED BY <1>1, <1>2, <1>3, OpenMoney, RespondMoney, ReceiveMoney, BuildMoney

\* A commit makes one more transaction valid.
LEMMA NextFinite ==
  ASSUME IInv, [Next]_vars, IsFiniteSet(Valid)
  PROVE  IsFiniteSet(Valid')
<1>1. ASSUME NEW t \in Txs, Commit(t) PROVE Valid' \subseteq Valid \cup {t}
  BY <1>1 DEF Commit, Valid, IInv, TypeOK
<1>2. (\E t \in Txs : Commit(t)) \/ UNCHANGED verdict
  BY DEF Next, Open, InitiatorStep, ReceiveIdentity, IdentityFails, Build, Collected, CollectFails,
     Order, OrderFails, Finality, FinalityTimeout, ResponderStep, RespondIdentity,
     IssuerEndorse, Accept, CheckPending, ResponderFinality, AssertTokens, ResponderTimeout,
     Endorse, CommitEvent, Restart, Quiet, vars, ledger
<1>3. CASE \E t \in Txs : Commit(t)
  BY <1>1, <1>3, FS_AddElement, FS_Subset
<1> QED BY <1>2, <1>3 DEF Valid

\* The invariant of the proofs about money.
THEOREM MoneyInvariant == Spec => []CashInv
<1>1. Init => IsFiniteSet(Valid) /\ \A t \in Txs : MoneyInv(t)
  <2>1. Init => Valid = {}
    BY DEF Init, Valid
  <2> QED BY <2>1, FS_EmptySet DEF Init, MoneyInv, Built
<1>2. IInv /\ [Next]_vars /\ (IsFiniteSet(Valid) /\ \A t \in Txs : MoneyInv(t))
        => (IsFiniteSet(Valid) /\ \A t \in Txs : MoneyInv(t))'
  BY NextMoney, NextFinite
<1>3. CashInv <=> (IInv /\ QueryInv) /\ (IsFiniteSet(Valid) /\ \A t \in Txs : MoneyInv(t))
  BY DEF CashInv
<1> QED BY <1>1, <1>2, <1>3, QueryInvariant, PTL DEF Spec

-----------------------------------------------------------------------------
(* What sets of tokens amount to.                                           *)

Val == [k \in Token |-> k.val]
\* The tokens of T that belong to accounts in A.
Of(T, A) == {k \in T : k.owner \in A}

\* The value of a finite set of tokens is a sum of natural numbers.
LEMMA ValueIs ==
  ASSUME NEW T, IsFiniteSet(T), T \subseteq Token
  PROVE  Value(T) = SumFunctionOnSet(Val, T) /\ Value(T) \in Nat
<1> DEFINE f == [k \in T |-> k.val]
<1>1. \A k \in T : f[k] = Val[k] /\ Val[k] \in Nat
  BY DEF Val, Token
<1>2. Value(T) = SumFunctionOnSet(f, T)
  BY DEF Value, SumFunction
<1> HIDE DEF f
<1> QED BY <1>1, <1>2, SumSame, SumNat

\* What a transaction adds to the accounts in A and takes from them.
Gets(t, A)  == IF HasRecipient(t) /\ req[t].to \in A THEN req[t].qty ELSE 0
Gives(t, A) == IF req[t].from \in A THEN req[t].qty ELSE 0

\* Only what was submitted is committed.
LEMMA ValidSubmitted == ASSUME CashInv PROVE Valid \subseteq submitted
  BY DEF CashInv, IInv, TxInv, LedgerInv, Valid

\* What is known of a submitted transaction.
LEMMA OrderedFunded ==
  ASSUME CashInv, NEW t \in submitted
  PROVE  /\ t \in Txs /\ ini[t] # "idle"
         /\ Funded(t) /\ AtHome(t)
         /\ req[t] \in Requests /\ req[t] \in Request /\ req[t].at \in Nodes
         /\ req[t].qty \in Nat \ {0}
         /\ req[t].kind \in Kinds
         /\ req[t].kind = "issue" <=> req[t].from = None
         /\ req[t].from # None => req[t].from \in Accounts
         /\ HasRecipient(t) => req[t].to \in Accounts
         /\ req[t].kind = "redeem" => req[t].to = None
         /\ inputs[t] \subseteq Token
<1>1. TypeOK /\ UInv(t) /\ MoneyInv(t) /\ QInv(t) /\ t \in Txs
  BY DEF CashInv, IInv, TypeOK, TxInv, UInv, QueryInv
<1>2. ini[t] # "idle"
  BY <1>1 DEF UInv, LedgerInv, Ordered
<1>3. Funded(t) /\ AtHome(t)
  BY <1>1, <1>2 DEF MoneyInv, Built, QInv
<1>4. req[t] \in Requests
  BY <1>1, <1>2 DEF UInv, CallInv
<1>5. req[t] \in Request
  BY <1>4, RequestsAssumption
<1>6. inputs[t] \subseteq Token
  BY <1>1 DEF TypeOK
<1> QED BY <1>1, <1>2, <1>3, <1>4, <1>5, <1>6, RequestsAssumption DEF Request, Kinds, HasRecipient

\* The outputs of a submitted transaction are its own and are worth what the
\* payee gets and the change.
LEMMA OutputsWorth ==
  ASSUME CashInv, NEW t \in submitted, NEW change \in Nat, Balanced(t, change),
         NEW A \in SUBSET Accounts
  PROVE  /\ outs[t] \subseteq Token /\ IsFiniteSet(outs[t])
         /\ \A k \in outs[t] : k.id[1] = t
         /\ SumFunctionOnSet(Val, Of(outs[t], A))
              = Gets(t, A) + (IF req[t].from \in A THEN change ELSE 0)
<1> DEFINE p == [id |-> <<t, "out">>, owner |-> req[t].to, val |-> req[t].qty]
           c == [id |-> <<t, "change">>, owner |-> req[t].from, val |-> change]
           P == IF HasRecipient(t) THEN {p} ELSE {}
           R == IF change > 0 THEN {c} ELSE {}
<1>1. /\ t \in Txs /\ req[t].qty \in Nat /\ Funded(t)
      /\ req[t].kind # "issue" => req[t].from \in Accounts
      /\ HasRecipient(t) => req[t].to \in Accounts
  BY OrderedFunded
<1>2. outs[t] = P \cup R
  <2>1. Payment(t) = P
    BY <1>1 DEF Payment, Funded
  <2> QED BY <2>1 DEF Balanced, Outputs
<1>3. change > 0 => req[t].from \in Accounts
  BY <1>1 DEF Balanced
<1>4. /\ HasRecipient(t) => p \in Token /\ Val[p] = req[t].qty /\ p.owner = req[t].to
      /\ change > 0 => c \in Token /\ Val[c] = change /\ c.owner = req[t].from
      /\ p # c
  BY <1>1, <1>3 DEF Token, Val
<1>5. p.id[1] = t /\ c.id[1] = t
  OBVIOUS
<1> HIDE DEF p, c
<1>6. /\ outs[t] \subseteq Token
      /\ \A k \in outs[t] : k.id[1] = t
  BY <1>2, <1>4, <1>5
<1>7. IsFiniteSet(P) /\ IsFiniteSet(R) /\ IsFiniteSet(P \cup R)
  BY FS_EmptySet, FS_Singleton, FS_Union
<1>8. /\ Of(P, A) = IF HasRecipient(t) /\ req[t].to \in A THEN {p} ELSE {}
      /\ Of(R, A) = IF change > 0 /\ req[t].from \in A THEN {c} ELSE {}
  BY <1>4 DEF Of
<1>9. SumFunctionOnSet(Val, Of(P, A)) = Gets(t, A)
  BY <1>1, <1>4, <1>8, SumOne, SumEmpty DEF Gets
<1>10. SumFunctionOnSet(Val, Of(R, A)) = IF req[t].from \in A THEN change ELSE 0
  BY <1>4, <1>8, SumOne, SumEmpty
<1>11. /\ Of(P \cup R, A) = Of(P, A) \cup Of(R, A)
       /\ Of(P, A) \cap Of(R, A) = {}
       /\ Of(P, A) \subseteq P /\ Of(R, A) \subseteq R
  BY <1>4 DEF Of
<1>12. \A k \in Of(P, A) \cup Of(R, A) : Val[k] \in Int
  BY <1>1, <1>4, <1>8
<1>13. IsFiniteSet(Of(P, A)) /\ IsFiniteSet(Of(R, A))
  BY <1>7, <1>11, FS_Subset
<1>14. SumFunctionOnSet(Val, Of(P, A) \cup Of(R, A))
         = SumFunctionOnSet(Val, Of(P, A)) + SumFunctionOnSet(Val, Of(R, A))
  BY <1>11, <1>12, <1>13, SumUnion
<1> QED BY <1>2, <1>6, <1>7, <1>9, <1>10, <1>11, <1>14

\* What a submitted transaction creates is finite, and so is what it consumes.
LEMMA OrderedFinite ==
  ASSUME CashInv, NEW t \in submitted
  PROVE  IsFiniteSet(outs[t]) /\ outs[t] \subseteq Token /\ IsFiniteSet(inputs[t])
<1>1. ASSUME NEW u \in submitted PROVE IsFiniteSet(outs[u]) /\ outs[u] \subseteq Token
  <2>1. PICK change \in Nat : Balanced(u, change)
    BY OrderedFunded DEF Funded
  <2> QED BY <2>1, OutputsWorth
<1>2. IsFiniteSet(UNION {outs[u] : u \in Valid})
  BY <1>1, ValidSubmitted, FiniteFamily DEF CashInv
<1>3. inputs[t] \subseteq UNION {outs[u] : u \in Valid}
  BY OrderedFunded DEF Funded, CashInv, IInv, TxInv, RecordInv, Valid
<1> QED BY <1>1, <1>2, <1>3, FS_Subset

\* A transaction creates what it consumes, more or less what is issued,
\* redeemed or paid between the accounts in A and others.
LEMMA TransactionBalances ==
  ASSUME CashInv, NEW t \in submitted, NEW A \in SUBSET Accounts
  PROVE  /\ SumFunctionOnSet(Val, Of(outs[t], A)) + Gives(t, A)
              = SumFunctionOnSet(Val, Of(inputs[t], A)) + Gets(t, A)
         /\ SumFunctionOnSet(Val, Of(outs[t], A)) \in Nat
         /\ SumFunctionOnSet(Val, Of(inputs[t], A)) \in Nat
         /\ Gives(t, A) \in Nat /\ Gets(t, A) \in Nat
<1>1. PICK change \in Nat : Balanced(t, change)
  BY OrderedFunded DEF Funded
<1>2. SumFunctionOnSet(Val, Of(outs[t], A))
        = Gets(t, A) + (IF req[t].from \in A THEN change ELSE 0)
  BY <1>1, OutputsWorth
<1>3. SumFunctionOnSet(Val, Of(inputs[t], A))
        = Gives(t, A) + (IF req[t].from \in A THEN change ELSE 0)
  <2>1. CASE req[t].from \in A
    <3>1. req[t].kind # "issue"
      BY <2>1, OrderedFunded, ConstantsAssumption
    <3>2. Of(inputs[t], A) = inputs[t]
      BY <2>1, OrderedFunded DEF Of, Funded
    <3>3. Value(inputs[t]) = SumFunctionOnSet(Val, inputs[t])
      BY OrderedFinite, OrderedFunded, ValueIs
    <3> QED BY <1>1, <2>1, <3>1, <3>2, <3>3 DEF Balanced, Gives
  <2>2. CASE req[t].from \notin A
    <3>1. Of(inputs[t], A) = {}
      BY <2>2, OrderedFunded DEF Of, Funded
    <3> QED BY <2>2, <3>1, SumEmpty DEF Gives
  <2> QED BY <2>1, <2>2
<1>4. Gives(t, A) \in Nat /\ Gets(t, A) \in Nat
  BY OrderedFunded DEF Gives, Gets
<1> QED BY <1>2, <1>3, <1>4

\* The tokens that transactions D have created and not consumed.
Left(D) == (UNION {outs[t] : t \in D}) \ (UNION {inputs[t] : t \in D})

\* What is left in the accounts A of what the transactions D moved, if they
\* spend nothing twice and what D takes from these accounts D has put there.
LEMMA LeftWorth ==
  ASSUME CashInv, NEW D \in SUBSET submitted, IsFiniteSet(D), NEW A \in SUBSET Accounts,
         \A t, u \in D : t # u => inputs[t] \cap inputs[u] = {},
         \A t \in D : req[t].from \in A =>
            \A k \in inputs[t] : \E u \in D : k \in outs[u],
         NEW gives, \A t \in D : gives[t] = Gives(t, A),
         NEW gets, \A t \in D : gets[t] = Gets(t, A)
  PROVE  /\ IsFiniteSet(Of(Left(D), A)) /\ Of(Left(D), A) \subseteq Token
         /\ Value(Of(Left(D), A)) \in Nat
         /\ Value(Of(Left(D), A)) + SumFunctionOnSet(gives, D) = SumFunctionOnSet(gets, D)
<1> DEFINE O == Of(UNION {outs[t] : t \in D}, A)
           I == Of(UNION {inputs[t] : t \in D}, A)
           out == [t \in D |-> Of(outs[t], A)]
           in == [t \in D |-> Of(inputs[t], A)]
           created == [t \in D |-> SumFunctionOnSet(Val, out[t])]
           consumed == [t \in D |-> SumFunctionOnSet(Val, in[t])]
           both == [t \in D |-> created[t] + gives[t]]
<1>1. \A t \in D : /\ outs[t] \subseteq Token /\ inputs[t] \subseteq Token
                   /\ IsFiniteSet(out[t]) /\ IsFiniteSet(in[t])
  <2> SUFFICES ASSUME NEW t \in D
      PROVE  /\ outs[t] \subseteq Token /\ inputs[t] \subseteq Token
             /\ IsFiniteSet(out[t]) /\ IsFiniteSet(in[t])
    OBVIOUS
  <2>1. /\ outs[t] \subseteq Token /\ IsFiniteSet(outs[t])
        /\ inputs[t] \subseteq Token /\ IsFiniteSet(inputs[t])
    BY OrderedFinite, OrderedFunded
  <2>2. out[t] \subseteq outs[t] /\ in[t] \subseteq inputs[t]
    BY DEF Of
  <2> QED BY <2>1, <2>2, FS_Subset
<1>2. /\ \A k \in O : k \in Token /\ Val[k] \in Int
      /\ \A k \in I : k \in Token /\ Val[k] \in Int
  <2>1. \A k \in Token : Val[k] \in Int
    BY DEF Val, Token
  <2>2. O \subseteq Token /\ I \subseteq Token
    BY <1>1 DEF Of
  <2> QED BY <2>1, <2>2
<1>3. Splits(O, D, out)
  <2>1. \A t \in D : \A k \in outs[t] : k.id[1] = t
    <3> SUFFICES ASSUME NEW t \in D PROVE \A k \in outs[t] : k.id[1] = t
      OBVIOUS
    <3>1. PICK change \in Nat : Balanced(t, change)
      BY OrderedFunded DEF Funded
    <3> QED BY <3>1, OutputsWorth
  <2>2. \A t, u \in D : t # u => out[t] \cap out[u] = {}
    BY <2>1 DEF Of
  <2>3. \A k : k \in O <=> \E t \in D : k \in out[t]
    BY DEF Of
  <2> QED BY <1>1, <2>2, <2>3 DEF Splits
<1>4. Splits(I, D, in)
  <2>1. \A t, u \in D : t # u => in[t] \cap in[u] = {}
    BY DEF Of
  <2>2. \A k : k \in I <=> \E t \in D : k \in in[t]
    BY DEF Of
  <2> QED BY <1>1, <2>1, <2>2 DEF Splits
<1>5. IsFiniteSet(O) /\ SumFunctionOnSet(Val, O) = SumFunctionOnSet(created, D)
  <2>1. \A t \in D : created[t] = SumFunctionOnSet(Val, out[t])
    OBVIOUS
  <2> HIDE DEF O, created, out
  <2> QED BY <1>2, <1>3, <2>1, SumFamily
<1>6. IsFiniteSet(I) /\ SumFunctionOnSet(Val, I) = SumFunctionOnSet(consumed, D)
  <2>1. \A t \in D : consumed[t] = SumFunctionOnSet(Val, in[t])
    OBVIOUS
  <2> HIDE DEF I, consumed, in
  <2> QED BY <1>2, <1>4, <2>1, SumFamily
<1>7. I \subseteq O
  BY OrderedFunded DEF Of, Funded
<1>8. Of(Left(D), A) = O \ I
  BY DEF Of, Left
<1>9. SumFunctionOnSet(Val, O \ I) = SumFunctionOnSet(Val, O) - SumFunctionOnSet(Val, I)
  <2> HIDE DEF O, I
  <2> QED BY <1>2, <1>5, <1>7, SumRemove
<1>10. IsFiniteSet(O \ I) /\ O \ I \subseteq Token
  <2> HIDE DEF O, I
  <2> QED BY <1>2, <1>5, FS_Subset
<1>11. Value(O \ I) = SumFunctionOnSet(Val, O \ I) /\ Value(O \ I) \in Nat
  <2> HIDE DEF O, I
  <2> QED BY <1>10, ValueIs
<1>12. \A t \in D : /\ created[t] \in Int /\ gives[t] \in Int /\ consumed[t] \in Int /\ gets[t] \in Int
                    /\ both[t] = created[t] + gives[t] /\ both[t] = consumed[t] + gets[t]
  BY TransactionBalances
<1> HIDE DEF O, I, created, consumed, both
<1>13. SumFunctionOnSet(both, D) = SumFunctionOnSet(created, D) + SumFunctionOnSet(gives, D)
  BY <1>12, SumPlus
<1>14. SumFunctionOnSet(both, D) = SumFunctionOnSet(consumed, D) + SumFunctionOnSet(gets, D)
  BY <1>12, SumPlus
<1>15. /\ SumFunctionOnSet(created, D) \in Int /\ SumFunctionOnSet(consumed, D) \in Int
       /\ SumFunctionOnSet(gives, D) \in Int /\ SumFunctionOnSet(gets, D) \in Int
  BY <1>12, SumElement
<1> QED BY <1>5, <1>6, <1>8, <1>9, <1>10, <1>11, <1>13, <1>14, <1>15

-----------------------------------------------------------------------------
(* Conservation.                                                            *)

\* The quantities of committed requests of a kind, and what they add up to.
Amount(kind) == [t \in Valid |-> IF req[t].kind = kind THEN req[t].qty ELSE 0]
OfKind(kind) == [t \in {u \in Valid : req[u].kind = kind} |-> req[t].qty]

\* What the requests of a kind add up to, over them or over all transactions.
LEMMA AmountOfKind ==
  ASSUME CashInv, NEW kind
  PROVE  /\ SumFunctionOnSet(Amount(kind), Valid) = SumFunction(OfKind(kind))
         /\ \A t \in Valid : Amount(kind)[t] \in Nat
         /\ SumFunctionOnSet(Amount(kind), Valid) \in Nat
<1> DEFINE P == {u \in Valid : req[u].kind = kind}
<1>1. IsFiniteSet(Valid)
  BY DEF CashInv
<1>2. \A t \in Valid : req[t].qty \in Nat
  BY ValidSubmitted, OrderedFunded
<1>3. /\ \A t \in P : OfKind(kind)[t] \in Int /\ Amount(kind)[t] = OfKind(kind)[t]
      /\ \A t \in Valid \ P : Amount(kind)[t] = 0
      /\ \A t \in Valid : Amount(kind)[t] \in Nat
  BY <1>2 DEF Amount, OfKind
<1>4. SumFunction(OfKind(kind)) = SumFunctionOnSet(OfKind(kind), P)
  BY DEF SumFunction, OfKind
<1> HIDE DEF P
<1>5. P \in SUBSET Valid
  BY DEF P
<1>6. SumFunctionOnSet(Amount(kind), Valid) = SumFunctionOnSet(OfKind(kind), P)
  BY <1>1, <1>3, <1>5, SumWhere
<1> QED BY <1>1, <1>3, <1>4, <1>6, SumNat

\* The tokens in circulation are worth what was issued less what was redeemed.
THEOREM MoneyIsConserved == Spec => []Conservation
<1>1. ASSUME CashInv PROVE Conservation
  <2> DEFINE gives == [t \in Valid |-> Gives(t, Accounts)]
             gets == [t \in Valid |-> Gets(t, Accounts)]
             I == SumFunctionOnSet(Amount("issue"), Valid)
             T == SumFunctionOnSet(Amount("transfer"), Valid)
             R == SumFunctionOnSet(Amount("redeem"), Valid)
  <2>1. \A t \in Valid : \A k \in inputs[t] : \E u \in Valid : k \in outs[u]
    BY <1>1, ValidSubmitted, OrderedFunded DEF Funded, CashInv, IInv, TxInv, RecordInv, Valid
  <2>2. Of(Left(Valid), Accounts) = Unspent
    <3>1. \A t \in Valid : outs[t] \subseteq Token
      BY <1>1, ValidSubmitted, OrderedFinite
    <3> QED BY <3>1 DEF Of, Left, Unspent, Token
  <2>3. /\ Value(Unspent) \in Nat
        /\ Value(Unspent) + SumFunctionOnSet(gives, Valid) = SumFunctionOnSet(gets, Valid)
    <3>1. \A t \in Valid : gives[t] = Gives(t, Accounts) /\ gets[t] = Gets(t, Accounts)
      OBVIOUS
    <3> HIDE DEF gives, gets
    <3>2. /\ IsFiniteSet(Valid) /\ Valid \subseteq submitted
          /\ \A t, u \in Valid : t # u => inputs[t] \cap inputs[u] = {}
      BY <1>1, ValidSubmitted DEF CashInv, IInv, NoDoubleSpend
    <3> QED BY <1>1, <2>1, <2>2, <3>1, <3>2, LeftWorth
  <2>4. IsFiniteSet(Valid)
    BY <1>1 DEF CashInv
  <2>5. \A t \in Valid : /\ Amount("issue")[t] \in Int
                         /\ Amount("transfer")[t] \in Int
                         /\ Amount("redeem")[t] \in Int
    BY <1>1, AmountOfKind
  <2>6. \A t \in Valid : /\ gives[t] = Amount("transfer")[t] + Amount("redeem")[t]
                         /\ gets[t] = Amount("issue")[t] + Amount("transfer")[t]
    <3> SUFFICES ASSUME NEW t \in Valid
        PROVE  /\ Gives(t, Accounts) = Amount("transfer")[t] + Amount("redeem")[t]
               /\ Gets(t, Accounts) = Amount("issue")[t] + Amount("transfer")[t]
      OBVIOUS
    <3> QED BY <1>1, ValidSubmitted, OrderedFunded, ConstantsAssumption DEF Gives, Gets, Amount, Kinds, HasRecipient
  <2>7. SumFunctionOnSet(gives, Valid) = T + R
    <3> HIDE DEF gives
    <3> QED BY <2>4, <2>5, <2>6, SumPlus
  <2>8. SumFunctionOnSet(gets, Valid) = I + T
    <3> HIDE DEF gets
    <3> QED BY <2>4, <2>5, <2>6, SumPlus
  <2>9. I \in Nat /\ T \in Nat /\ R \in Nat
    BY <1>1, AmountOfKind
  <2>10. Value(Unspent) + R = I
    <3> HIDE DEF gives, gets, I, T, R
    <3> QED BY <2>3, <2>7, <2>8, <2>9
  <2>11. Value(Unspent) + SumFunction(OfKind("redeem")) = SumFunction(OfKind("issue"))
    BY <1>1, <2>10, AmountOfKind
  <2> QED BY <2>11 DEF Conservation, OfKind
<1> QED BY <1>1, MoneyInvariant, PTL

-----------------------------------------------------------------------------
(* History and balance.                                                     *)

Known(n) == {t \in Txs : status[t][n] = "Confirmed"}

\* An entry of a history.
Entry(n, t) == [id |-> t, sender |-> req[t].from, recipient |-> req[t].to,
                amount |-> Wrap(req[t].qty), status |-> status[t][n]]

\* What a set of confirmed entries adds up to, modulo Word.
LEMMA EntriesWorth ==
  ASSUME CashInv, NEW n \in Nodes, NEW D \in SUBSET Known(n), NEW E,
         \A x : x \in E <=> \E t \in D : x = Entry(n, t),
         NEW q, \A t \in D : q[t] = req[t].qty
  PROVE  /\ Wrap(SumFunction([x \in E |-> x.amount])) = Wrap(SumFunctionOnSet(q, D))
         /\ SumFunction([x \in E |-> x.amount]) \in Nat
<1> DEFINE f == [x \in E |-> x.amount]
           g == [t \in D |-> Wrap(req[t].qty)]
           name == [t \in D |-> Entry(n, t)]
<1>1. D \subseteq Valid
  BY DEF Known, CashInv, IInv, TxInv, RecordInv, Valid
<1>2. IsFiniteSet(D)
  BY <1>1, FS_Subset DEF CashInv
<1>3. \A t \in D : req[t].qty \in Nat /\ Wrap(req[t].qty) \in Nat
  <2>1. \A t \in D : req[t].qty \in Nat
    BY <1>1, ValidSubmitted, OrderedFunded
  <2>2. \A t \in D : (req[t].qty) % Word \in 0 .. Word - 1
    BY <2>1, QueriesAssumption
  <2> QED BY <2>1, <2>2, QueriesAssumption DEF Wrap
<1>4. Lists(name, D, E)
  BY DEF Lists, Entry
<1>5. \A t \in D : g[t] = f[name[t]] /\ g[t] \in Nat
  BY <1>3 DEF Entry
<1>6. SumFunction(f) = SumFunctionOnSet(f, E)
  BY DEF SumFunction
<1>7. \A t \in D : q[t] \in Int /\ g[t] = q[t] % Word
  BY <1>3 DEF Wrap
<1> HIDE DEF f, g, name
<1>8. SumFunctionOnSet(f, E) = SumFunctionOnSet(g, D)
  BY <1>2, <1>4, <1>5, SumImage
<1>9. SumFunctionOnSet(g, D) % Word = SumFunctionOnSet(q, D) % Word
  BY <1>2, <1>7, QueriesAssumption, SumModulo
<1>10. SumFunctionOnSet(g, D) \in Nat
  BY <1>2, <1>5, SumNat
<1> QED BY <1>6, <1>8, <1>9, <1>10 DEF f, Wrap

\* What an account has been paid and has paid to others, by what node n knows.
Received(n, a) == {t \in Known(n) : req[t].to = a /\ req[t].from # a}
Sent(n, a)     == {t \in Known(n) : req[t].from = a /\ req[t].to # a}

\* The wallet holds the difference.
LEMMA WalletWorth ==
  ASSUME CashInv, NEW a \in Accounts,
         NEW q, \A t \in Known(Home[a]) : q[t] = req[t].qty
  PROVE  LET n == Home[a]
         IN  /\ Value(Wallet(n, a)) \in Nat
             /\ SumFunctionOnSet(q, Sent(n, a)) \in Nat
             /\ SumFunctionOnSet(q, Received(n, a)) \in Nat
             /\ Value(Wallet(n, a)) + SumFunctionOnSet(q, Sent(n, a))
                  = SumFunctionOnSet(q, Received(n, a))
<1> DEFINE n == Home[a]
           D == Known(n)
           gives == [t \in D |-> Gives(t, {a})]
           gets == [t \in D |-> Gets(t, {a})]
           sent == [t \in D |-> IF t \in Sent(n, a) THEN req[t].qty ELSE 0]
           received == [t \in D |-> IF t \in Received(n, a) THEN req[t].qty ELSE 0]
           self == [t \in D |-> IF req[t].from = a /\ req[t].to = a THEN req[t].qty ELSE 0]
<1>1. n \in Nodes /\ D \subseteq Valid
  BY ConstantsAssumption DEF Known, CashInv, IInv, TxInv, RecordInv, Valid
<1>2. IsFiniteSet(D)
  BY <1>1, FS_Subset DEF CashInv
<1>3. Wallet(n, a) = Of(Left(D), {a})
  BY DEF Wallet, Of, Left, Known
<1>4. ASSUME NEW t \in D, req[t].from \in {a}, NEW k \in inputs[t]
      PROVE  \E u \in D : k \in outs[u]
  <2>1. Funded(t) /\ AtHome(t) /\ req[t].from # None
    BY <1>1, <1>4, ValidSubmitted, OrderedFunded, ConstantsAssumption
  <2>2. req[t].at = n
    BY <1>4, <2>1 DEF AtHome
  <2> QED BY <1>4, <2>1, <2>2 DEF Funded, Known
<1>5. /\ Value(Of(Left(D), {a})) \in Nat
      /\ Value(Of(Left(D), {a})) + SumFunctionOnSet(gives, D) = SumFunctionOnSet(gets, D)
  <2>1. \A t \in D : gives[t] = Gives(t, {a}) /\ gets[t] = Gets(t, {a})
    OBVIOUS
  <2> HIDE DEF gives, gets, D
  <2>2. D \subseteq submitted /\ \A t, u \in D : t # u => inputs[t] \cap inputs[u] = {}
    BY <1>1, ValidSubmitted DEF CashInv, IInv, NoDoubleSpend
  <2> QED BY <1>2, <1>4, <2>1, <2>2, LeftWorth
<1>6. \A t \in D : req[t].qty \in Nat
  BY <1>1, ValidSubmitted, OrderedFunded
<1>7. /\ \A t \in D : sent[t] \in Int /\ received[t] \in Int /\ self[t] \in Int
      /\ \A t \in D : gives[t] = sent[t] + self[t] /\ gets[t] = received[t] + self[t]
  <2> SUFFICES ASSUME NEW t \in D
      PROVE  /\ sent[t] \in Int /\ received[t] \in Int /\ self[t] \in Int
             /\ gives[t] = sent[t] + self[t] /\ gets[t] = received[t] + self[t]
    OBVIOUS
  <2>1. HasRecipient(t) \/ req[t].to # a
    BY <1>1, ValidSubmitted, OrderedFunded, ConstantsAssumption DEF HasRecipient
  <2> QED BY <1>6, <2>1 DEF Gives, Gets, Sent, Received
<1>8. /\ Sent(n, a) \subseteq D /\ Received(n, a) \subseteq D
      /\ \A t \in D : q[t] = req[t].qty
      /\ \A t \in Sent(n, a) : sent[t] = q[t] /\ q[t] \in Int
      /\ \A t \in Received(n, a) : received[t] = q[t] /\ q[t] \in Int
      /\ \A t \in D \ Sent(n, a) : sent[t] = 0
      /\ \A t \in D \ Received(n, a) : received[t] = 0
  BY <1>6 DEF Sent, Received
<1>9. \A t \in D : sent[t] \in Nat /\ received[t] \in Nat
  BY <1>6
<1> HIDE DEF D, gives, gets, sent, received, self
<1>10. SumFunctionOnSet(gives, D) = SumFunctionOnSet(sent, D) + SumFunctionOnSet(self, D)
  BY <1>2, <1>7, SumPlus
<1>11. SumFunctionOnSet(gets, D) = SumFunctionOnSet(received, D) + SumFunctionOnSet(self, D)
  BY <1>2, <1>7, SumPlus
<1>12. SumFunctionOnSet(sent, D) = SumFunctionOnSet(q, Sent(n, a))
  BY <1>2, <1>8, SumWhere
<1>13. SumFunctionOnSet(received, D) = SumFunctionOnSet(q, Received(n, a))
  BY <1>2, <1>8, SumWhere
<1>14. /\ SumFunctionOnSet(self, D) \in Int
       /\ SumFunctionOnSet(sent, D) \in Nat /\ SumFunctionOnSet(received, D) \in Nat
  BY <1>2, <1>7, <1>9, SumElement, SumNat
<1> QED BY <1>3, <1>5, <1>10, <1>11, <1>12, <1>13, <1>14

\* The balance that a node shows for an account is what its history, in the
\* arithmetic of the API, adds up to.
THEOREM HistoryAddsUp == Spec => []HistoryExplainsBalance
<1>1. ASSUME CashInv, NEW a \in Accounts
      PROVE  LET Shown == OwnerTransactions(Home[a], a)
                 Total(E) == SumFunction([x \in {y \in E : y.status = "Confirmed"} |-> x.amount])
             IN  Wrap(OwnerAccount(Home[a], a) + Total({x \in Shown : x.sender = a}))
                   = Wrap(Total({x \in Shown : x.recipient = a}))
  <2> DEFINE n == Home[a]
             Shown == OwnerTransactions(n, a)
             S == {y \in {x \in Shown : x.sender = a} : y.status = "Confirmed"}
             R == {y \in {x \in Shown : x.recipient = a} : y.status = "Confirmed"}
             q == [t \in Known(n) |-> req[t].qty]
             s == SumFunction([x \in S |-> x.amount])
             r == SumFunction([x \in R |-> x.amount])
             v == Value(Wallet(n, a))
             qs == SumFunctionOnSet(q, Sent(n, a))
             qr == SumFunctionOnSet(q, Received(n, a))
  <2>1. n \in Nodes /\ a # None
    BY ConstantsAssumption
  <2>2. \A x : x \in Shown <=> \E t \in History(n, a) : x = Entry(n, t)
    BY DEF OwnerTransactions, Entry
  <2>3. \A t : t \in Sent(n, a) <=>
               t \in History(n, a) /\ req[t].from = a /\ status[t][n] = "Confirmed"
    BY <2>1 DEF Sent, Known, History, Names, ToSelf, Listed
  <2>4. \A t : t \in Received(n, a) <=>
               t \in History(n, a) /\ req[t].to = a /\ status[t][n] = "Confirmed"
    BY <2>1 DEF Received, Known, History, Names, ToSelf, Listed
  <2>5. \A t : /\ Entry(n, t).sender = req[t].from /\ Entry(n, t).recipient = req[t].to
               /\ Entry(n, t).status = status[t][n]
    BY DEF Entry
  <2>6. \A x : x \in S <=> \E t \in Sent(n, a) : x = Entry(n, t)
    <3> HIDE DEF Shown
    <3> QED BY <2>2, <2>3, <2>5
  <2>7. \A x : x \in R <=> \E t \in Received(n, a) : x = Entry(n, t)
    <3> HIDE DEF Shown
    <3> QED BY <2>2, <2>4, <2>5
  <2>8. Sent(n, a) \subseteq Known(n) /\ Received(n, a) \subseteq Known(n)
    BY DEF Sent, Received
  <2>9. /\ \A t \in Known(n) : q[t] = req[t].qty
        /\ \A t \in Sent(n, a) : q[t] = req[t].qty
        /\ \A t \in Received(n, a) : q[t] = req[t].qty
    BY <2>8
  <2> HIDE DEF S, R, q
  <2>10. Wrap(s) = Wrap(qs) /\ s \in Nat
    BY <1>1, <2>1, <2>6, <2>8, <2>9, EntriesWorth
  <2>11. Wrap(r) = Wrap(qr) /\ r \in Nat
    BY <1>1, <2>1, <2>7, <2>8, <2>9, EntriesWorth
  <2>12. v \in Nat /\ qs \in Nat /\ qr \in Nat /\ v + qs = qr
    BY <1>1, <2>9, WalletWorth
  <2> HIDE DEF s, r, v, qs, qr
  <2>13. Wrap(Wrap(v) + s) = Wrap(r)
    <3> v \in Int /\ s \in Int /\ qs \in Int
      BY <2>10, <2>12
    <3>1. ((v % Word) + s) % Word = (v + s) % Word
      BY QueriesAssumption, ModPlus
    <3>2. (v + (s % Word)) % Word = (v + s) % Word
      BY QueriesAssumption, ModPlus
    <3>3. (v + (qs % Word)) % Word = (v + qs) % Word
      BY QueriesAssumption, ModPlus
    <3> QED BY <2>10, <2>11, <2>12, <3>1, <3>2, <3>3 DEF Wrap
  <2>14. OwnerAccount(n, a) = Wrap(v)
    BY DEF OwnerAccount, HostsWallet, v
  <2> QED BY <2>13, <2>14 DEF s, r, S, R
<1>2. CashInv => HistoryExplainsBalance
  BY <1>1 DEF HistoryExplainsBalance
<1> QED BY <1>2, MoneyInvariant, PTL

-----------------------------------------------------------------------------
(* The refinement.  A commit is the abstract step that moves a quantity;    *)
(* every other step only opens or answers calls.                            *)

\* The tokens of an account are what it was paid less what it has paid.
LEMMA BalanceIs ==
  ASSUME CashInv, NEW a \in Accounts,
         NEW gives, \A t \in Valid : gives[t] = Gives(t, {a}),
         NEW gets, \A t \in Valid : gets[t] = Gets(t, {a})
  PROVE  /\ Balances[a] = Value(Of(Left(Valid), {a}))
         /\ Balances[a] \in Nat
         /\ Balances[a] + SumFunctionOnSet(gives, Valid) = SumFunctionOnSet(gets, Valid)
<1>1. Of(Left(Valid), {a}) = {k \in Unspent : k.owner = a}
  BY DEF Of, Left, Unspent
<1>2. Balances[a] = Value(Of(Left(Valid), {a}))
  BY <1>1 DEF Balances
<1>3. /\ Valid \subseteq submitted /\ IsFiniteSet(Valid)
      /\ \A t, u \in Valid : t # u => inputs[t] \cap inputs[u] = {}
      /\ \A t \in Valid : \A k \in inputs[t] : \E u \in Valid : k \in outs[u]
  BY ValidSubmitted, OrderedFunded DEF CashInv, IInv, TxInv, RecordInv, NoDoubleSpend, Funded, Valid
<1>4. \A t \in Valid : req[t].from \in {a} => \A k \in inputs[t] : \E u \in Valid : k \in outs[u]
  BY <1>3
<1>5. /\ Value(Of(Left(Valid), {a})) \in Nat
      /\ Value(Of(Left(Valid), {a})) + SumFunctionOnSet(gives, Valid)
           = SumFunctionOnSet(gets, Valid)
  BY <1>3, <1>4, LeftWorth
<1> QED BY <1>2, <1>5

\* The payer of a transaction with unspent inputs can pay.
LEMMA PayerHasIt ==
  ASSUME CashInv, NEW t \in submitted, req[t].from # None, inputs[t] \subseteq Unspent
  PROVE  Balances[req[t].from] >= req[t].qty
<1> DEFINE a == req[t].from
           B == {k \in Unspent : k.owner = a}
<1>1. PICK change \in Nat : Balanced(t, change)
  BY OrderedFunded DEF Funded
<1>2. a \in Accounts /\ req[t].qty \in Nat /\ Value(inputs[t]) = req[t].qty + change
  BY <1>1, OrderedFunded DEF Balanced
<1>3. inputs[t] \subseteq B
  BY OrderedFunded DEF Funded
<1>4. IsFiniteSet(B) /\ B \subseteq Token
  <2>1. \A u \in Valid : outs[u] \subseteq Token /\ IsFiniteSet(outs[u])
    BY OrderedFinite, ValidSubmitted
  <2>2. IsFiniteSet(UNION {outs[u] : u \in Valid})
    BY <2>1, FiniteFamily DEF CashInv
  <2>3. B \subseteq UNION {outs[u] : u \in Valid}
    BY DEF Unspent
  <2> QED BY <2>1, <2>2, <2>3, FS_Subset
<1>5. \A k \in B : Val[k] \in Nat
  BY <1>4 DEF Val, Token
<1>6. IsFiniteSet(inputs[t]) /\ inputs[t] \subseteq Token
  BY <1>3, <1>4, FS_Subset
<1>7. Balances[a] = Value(B)
  BY <1>2 DEF Balances
<1> HIDE DEF a, B
<1>8. SumFunctionOnSet(Val, inputs[t]) <= SumFunctionOnSet(Val, B)
  BY <1>3, <1>4, <1>5, SumPart
<1>9. /\ Value(B) = SumFunctionOnSet(Val, B) /\ Value(B) \in Nat
      /\ Value(inputs[t]) = SumFunctionOnSet(Val, inputs[t])
  BY <1>4, <1>6, ValueIs
<1> QED BY <1>1, <1>2, <1>7, <1>8, <1>9 DEF a

\* A step that commits nothing changes no balance and no effect.
LEMMA NothingMoves ==
  ASSUME UNCHANGED verdict,
         \A t \in Valid : outs'[t] = outs[t] /\ inputs'[t] = inputs[t]
  PROVE  Balances' = Balances /\ Effect' = Effect
<1>1. Valid' = Valid
  BY DEF Valid
<1>2. Unspent' = Unspent
  BY <1>1 DEF Unspent
<1> QED BY <1>2 DEF Balances, Effect

\* The commit of a valid transaction moves its quantity.
LEMMA CommitMoves ==
  ASSUME CashInv, NEW t \in Txs, Commit(t), Committable(t)
  PROVE  C!Move(t)
<1>1. TypeOK
  BY DEF CashInv, IInv
<1>2. /\ t \in submitted /\ verdict[t] = "none" /\ inputs[t] \subseteq Unspent
      /\ verdict' = [verdict EXCEPT ![t] = "valid"]
      /\ UNCHANGED <<req, ini, inputs, outs>>
  BY DEF Commit, Committable, call, content
<1>3. Valid' = Valid \cup {t} /\ t \notin Valid
  BY <1>1, <1>2 DEF Valid, TypeOK
<1>4. req[t] # None
  BY <1>2, OrderedFunded, ConstantsAssumption
<1>5. req[t].from # None => Balances[req[t].from] >= req[t].qty
  BY <1>2, PayerHasIt
<1>6. ASSUME NEW a \in Accounts
      PROVE  Balances'[a] = (Balances[a] + (IF a = req[t].to THEN req[t].qty ELSE 0))
                                         - (IF a = req[t].from THEN req[t].qty ELSE 0)
  <2> DEFINE D == Valid \cup {t}
             gives == [u \in D |-> Gives(u, {a})]
             gets == [u \in D |-> Gets(u, {a})]
  <2>1. /\ D \subseteq submitted /\ IsFiniteSet(D) /\ IsFiniteSet(Valid)
        /\ \A u, v \in D : u # v => inputs[u] \cap inputs[v] = {}
    <3>1. \A u \in Valid : inputs[u] \cap inputs[t] = {}
      BY <1>2 DEF Unspent
    <3> QED BY <1>2, <3>1, ValidSubmitted, FS_AddElement DEF CashInv, IInv, NoDoubleSpend
  <2>2. \A u \in D : \A k \in inputs[u] : \E v \in D : k \in outs[v]
    BY <1>2, <2>1, OrderedFunded DEF CashInv, IInv, TxInv, RecordInv, Funded, Valid
  <2>3. \A u \in D : /\ gives[u] = Gives(u, {a}) /\ gives[u] \in Nat
                     /\ gets[u] = Gets(u, {a}) /\ gets[u] \in Nat
    BY <2>1, TransactionBalances
  <2>4. Balances'[a] = Value(Of(Left(D), {a}))
    <3>1. Unspent' = Left(D)
      BY <1>2, <1>3 DEF Unspent, Left
    <3> QED BY <3>1 DEF Balances, Of
  <2>5. gives[t] = IF a = req[t].from THEN req[t].qty ELSE 0
    BY DEF Gives
  <2>6. gets[t] = IF a = req[t].to THEN req[t].qty ELSE 0
    <3>1. HasRecipient(t) \/ req[t].to # a
      BY <1>2, OrderedFunded, ConstantsAssumption DEF HasRecipient
    <3> QED BY <3>1 DEF Gets
  <2>7. \A u \in Valid : /\ gives[u] = Gives(u, {a}) /\ gives[u] \in Nat
                         /\ gets[u] = Gets(u, {a}) /\ gets[u] \in Nat
    BY <2>3
  <2>8. gives[t] \in Nat /\ gets[t] \in Nat
    BY <2>3
  <2> HIDE DEF gives, gets
  <2>9. /\ Value(Of(Left(D), {a})) \in Nat
        /\ Value(Of(Left(D), {a})) + SumFunctionOnSet(gives, D) = SumFunctionOnSet(gets, D)
    <3> HIDE DEF D
    <3> QED BY <2>1, <2>2, <2>3, LeftWorth
  <2>10. /\ Balances[a] \in Nat
         /\ Balances[a] + SumFunctionOnSet(gives, Valid) = SumFunctionOnSet(gets, Valid)
    BY <2>7, BalanceIs
  <2>11. SumFunctionOnSet(gives, D) = SumFunctionOnSet(gives, Valid) + gives[t]
    BY <1>3, <2>1, <2>3, SumAdd
  <2>12. SumFunctionOnSet(gets, D) = SumFunctionOnSet(gets, Valid) + gets[t]
    BY <1>3, <2>1, <2>3, SumAdd
  <2>13. SumFunctionOnSet(gives, Valid) \in Nat /\ SumFunctionOnSet(gets, Valid) \in Nat
    BY <2>1, <2>7, SumNat
  <2> HIDE DEF D
  <2>14. Balances'[a] = (Balances[a] + gets[t]) - gives[t]
    <3>1. /\ Balances'[a] \in Nat
          /\ Balances'[a] + (SumFunctionOnSet(gives, Valid) + gives[t])
               = SumFunctionOnSet(gets, Valid) + gets[t]
      BY <2>4, <2>9, <2>11, <2>12
    <3> DEFINE after == Balances'[a]
               before == Balances[a]
               x == SumFunctionOnSet(gives, Valid)
               y == SumFunctionOnSet(gets, Valid)
               out == gives[t]
               in == gets[t]
    <3>2. /\ after \in Int /\ before \in Int /\ x \in Int /\ y \in Int /\ out \in Int /\ in \in Int
          /\ after + (x + out) = y + in /\ before + x = y
      BY <2>8, <2>10, <2>13, <3>1
    <3>3. after = (before + in) - out
      <4> HIDE DEF after, before, x, y, out, in
      <4> QED BY <3>2
    <3> QED BY <3>3
  <2> QED BY <2>5, <2>6, <2>14
<1>7. Balances' = [a \in Accounts |->
                     (Balances[a] + (IF a = req[t].to THEN req[t].qty ELSE 0))
                                  - (IF a = req[t].from THEN req[t].qty ELSE 0)]
  BY <1>6 DEF Balances
<1>8. Effect[t] = "none" /\ Effect' = [Effect EXCEPT ![t] = "moved"]
  BY <1>1, <1>2 DEF Effect, TypeOK
<1>9. UNCHANGED <<req, Answer>>
  BY <1>2 DEF Answer
<1> QED BY <1>4, <1>5, <1>7, <1>8, <1>9 DEF C!Move

\* The committer refuses a transaction that cannot be committed.
LEMMA CommitRefuses ==
  ASSUME CashInv, NEW t \in Txs, Commit(t), ~Committable(t)
  PROVE  C!RefuseMove(t)
<1>1. TypeOK
  BY DEF CashInv, IInv
<1>2. /\ t \in submitted /\ verdict[t] = "none"
      /\ verdict' = [verdict EXCEPT ![t] = "invalid"]
      /\ UNCHANGED <<req, ini, inputs, outs>>
  BY DEF Commit, call, content
<1>3. req[t] # None
  BY <1>2, OrderedFunded, ConstantsAssumption
<1>4. Valid' = Valid
  BY <1>1, <1>2 DEF Valid, TypeOK
<1>5. Balances' = Balances
  <2>1. Unspent' = Unspent
    BY <1>2, <1>4 DEF Unspent
  <2> QED BY <2>1 DEF Balances
<1>6. Effect[t] = "none" /\ Effect' = [Effect EXCEPT ![t] = "refused"]
  BY <1>1, <1>2 DEF Effect, TypeOK
<1> QED BY <1>2, <1>3, <1>5, <1>6 DEF C!RefuseMove, Answer

\* A call is opened once, and may be refused on the spot.
LEMMA OpenOpens ==
  ASSUME CashInv, NEW t \in Txs, Open(t)
  PROVE  C!Open(t)
<1>1. PICK r \in Requests : /\ req' = [req EXCEPT ![t] = r]
                            /\ OpenIssue(t, r) \/ OpenTransfer(t, r) \/ OpenRedeem(t, r)
  BY DEF Open
<1>2. TypeOK /\ ini[t] = "idle" /\ req[t] = None
  BY DEF Open, CashInv, IInv, MoneyInv
<1>3. UNCHANGED <<verdict, inputs, outs>>
  BY DEF Open, ledger
<1>4. \E i \in {"identity", "build", "error", "notfound"} : ini' = [ini EXCEPT ![t] = i]
  BY <1>1 DEF OpenIssue, OpenTransfer, OpenRedeem, Contact, Refuse
<1>5. \E b \in {"none", "failed"} : Answer' = [Answer EXCEPT ![t] = b]
  <2>1. CASE \E i \in {"identity", "build"} : ini' = [ini EXCEPT ![t] = i]
    <3>1. Answer' = [Answer EXCEPT ![t] = "none"]
      BY <1>2, <2>1 DEF Answer, Errors, TypeOK
    <3> QED BY <3>1
  <2>2. CASE \E i \in {"error", "notfound"} : ini' = [ini EXCEPT ![t] = i]
    <3>1. Answer' = [Answer EXCEPT ![t] = "failed"]
      BY <1>2, <2>2 DEF Answer, Errors, TypeOK
    <3> QED BY <3>1
  <2> QED BY <1>4, <2>1, <2>2
<1> QED BY <1>1, <1>2, <1>3, <1>5, NothingMoves DEF C!Open

\* The answers that a step gives: a call that had one keeps it, and a call that
\* had not been made gets none.
AnswerStep(t) ==
  /\ req'[t] = req[t]
  /\ ini[t] \in Answers => ini'[t] = ini[t]
  /\ ini[t] = "idle" => ini'[t] = "idle"
  /\ ini'[t] = "ok" => ini[t] = "ok"

\* Steps that only let calls fail.
LEMMA FailuresAreAnswers ==
  ASSUME CashInv, UNCHANGED <<req, verdict>>,
         \A t \in Valid : outs'[t] = outs[t] /\ inputs'[t] = inputs[t],
         \A t \in Txs : AnswerStep(t)
  PROVE  \E T \in SUBSET Txs : C!AnswerFailed(T)
<1> DEFINE T == {t \in Txs : Answer[t] = "none" /\ Answer'[t] = "failed"}
<1>1. TypeOK
  BY DEF CashInv, IInv
<1>2. \A t \in T : req[t] # None /\ Answer[t] = "none"
  <2> SUFFICES ASSUME NEW t \in T PROVE req[t] # None
    OBVIOUS
  <2>1. ini[t] # "idle"
    BY DEF AnswerStep, Answer, Errors
  <2> QED BY <1>1, <2>1, ConstantsAssumption DEF CashInv, IInv, TxInv, CallInv
<1>3. \A t \in Txs : Answer'[t] = IF t \in T THEN "failed" ELSE Answer[t]
  <2> SUFFICES ASSUME NEW t \in Txs PROVE Answer'[t] = IF t \in T THEN "failed" ELSE Answer[t]
    OBVIOUS
  <2>1. Answer[t] # "none" => Answer'[t] = Answer[t]
    BY DEF AnswerStep, Answer, Errors, Answers
  <2>2. Answer[t] = "none" => Answer'[t] \in {"none", "failed"}
    BY DEF AnswerStep, Answer, Errors, Answers
  <2> QED BY <2>1, <2>2
<1>4. Answer' = [t \in Txs |-> IF t \in T THEN "failed" ELSE Answer[t]]
  BY <1>3 DEF Answer
<1> HIDE DEF T
<1>5. T \in SUBSET Txs
  BY DEF T
<1> QED BY <1>2, <1>4, <1>5, NothingMoves DEF C!AnswerFailed

\* Every step is a step of Cash or none.
LEMMA StepMoves ==
  ASSUME CashInv, [Next]_vars
  PROVE  [C!Next]_(C!vars)
<1>1. TypeOK /\ TxInv /\ Grows
  BY NextGrows DEF CashInv, IInv
<1>2. CASE \E t \in Txs : Commit(t)
  BY <1>2, CommitMoves, CommitRefuses DEF C!Next
<1>3. CASE \E t \in Txs : Open(t)
  BY <1>3, OpenOpens DEF C!Next
<1>4. ASSUME NEW t \in Txs, Finality(t), ini'[t] = "ok"
      PROVE  C!AnswerOk(t)
  <2>1. /\ ini[t] = "ordered" /\ ini' = [ini EXCEPT ![t] = "ok"]
        /\ status[t][req[t].at] = "Confirmed"
        /\ UNCHANGED <<req, verdict, inputs, outs>>
    <3>1. /\ ini[t] = "ordered"
          /\ ini' = [ini EXCEPT ![t] = FinalAnswer(status[t][req[t].at])]
          /\ status[t][req[t].at] \in {"Confirmed", "Deleted"}
          /\ UNCHANGED <<req, verdict, inputs, outs>>
      BY <1>4 DEF Finality, call, content, ledger
    <3>2. FinalAnswer(status[t][req[t].at]) = "ok"
      BY <1>1, <1>4, <3>1 DEF TypeOK
    <3>3. status[t][req[t].at] = "Confirmed"
      BY <3>1, <3>2 DEF FinalAnswer
    <3> QED BY <3>1, <3>2, <3>3
  <2>2. verdict[t] = "valid"
    <3>1. req[t].at \in Nodes
      BY <1>1, <2>1, RequestsAssumption DEF TxInv, CallInv, Request
    <3> QED BY <1>1, <2>1, <3>1 DEF TxInv, RecordInv
  <2>3. Answer[t] = "none" /\ Effect[t] = "moved"
    BY <2>1, <2>2 DEF Answer, Effect, Errors
  <2>4. Answer' = [Answer EXCEPT ![t] = "ok"]
    <3>1. \A u \in Txs : ini'[u] = IF u = t THEN "ok" ELSE ini[u]
      BY <1>1, <2>1 DEF TypeOK
    <3>2. \A u \in Txs : Answer'[u] = IF u = t THEN "ok" ELSE Answer[u]
      BY <3>1 DEF Answer, Errors
    <3> QED BY <3>2 DEF Answer
  <2> QED BY <2>1, <2>3, <2>4, NothingMoves DEF C!AnswerOk
<1>5. CASE UNCHANGED vars
  <2>1. UNCHANGED <<req, ini, verdict, inputs, outs>>
    BY <1>5 DEF vars
  <2> QED BY <2>1, NothingMoves DEF C!vars, Answer
<1>6. CASE /\ Next /\ ~ \E t \in Txs : Commit(t) \/ Open(t) \/ (Finality(t) /\ ini'[t] = "ok")
  <2>1. UNCHANGED <<req, verdict>>
    BY <1>6 DEF Next, InitiatorStep, ReceiveIdentity, IdentityFails, Build, Collected, CollectFails,
       Order, OrderFails, Finality, FinalityTimeout, ResponderStep, RespondIdentity,
       IssuerEndorse, Accept, CheckPending, ResponderFinality, AssertTokens, ResponderTimeout,
       Endorse, CommitEvent, Restart, Quiet, vars, call, ledger
  <2>2. \A t \in Valid : outs'[t] = outs[t] /\ inputs'[t] = inputs[t]
    <3>1. ASSUME NEW u \in Txs, Build(u), NEW t \in Valid
          PROVE  outs'[t] = outs[t] /\ inputs'[t] = inputs[t]
      <4>1. t # u /\ t \in Txs
        BY <1>1, <3>1 DEF Build, TxInv, LedgerInv, Ordered, Valid
      <4> QED BY <1>1, <3>1, <4>1 DEF Build, BuildIssue, BuildSpend, BuildInsufficient, TypeOK
    <3>2. (\E u \in Txs : Build(u)) \/ UNCHANGED <<outs, inputs>>
      BY <1>6 DEF Next, InitiatorStep, ReceiveIdentity, IdentityFails, Collected, CollectFails,
         Order, OrderFails, Finality, FinalityTimeout, ResponderStep, RespondIdentity,
         IssuerEndorse, Accept, CheckPending, ResponderFinality, AssertTokens, ResponderTimeout,
         Endorse, CommitEvent, Restart, Quiet, vars, content
    <3> QED BY <3>1, <3>2
  <2>3. ASSUME NEW t \in Txs PROVE AnswerStep(t)
    <3> USE DEF call, content, ledger, AnswerStep, Answers, Errors, TypeOK
    <3>1. ASSUME NEW u \in Txs, InitiatorStep(u) PROVE AnswerStep(t)
      <4>1. CASE ReceiveIdentity(u) \/ IdentityFails(u)
        BY <1>1, <4>1 DEF ReceiveIdentity, IdentityFails, IdentityError
      <4>2. CASE Build(u)
        BY <1>1, <4>2 DEF Build, BuildIssue, BuildSpend, BuildInsufficient
      <4>3. CASE Collected(u) \/ CollectFails(u) \/ Order(u) \/ OrderFails(u)
        BY <1>1, <4>3 DEF Collected, CollectFails, Order, OrderFails
      <4>4. CASE Finality(u) \/ FinalityTimeout(u)
        BY <1>1, <1>6, <4>4 DEF Finality, FinalityTimeout
      <4> QED BY <3>1, <4>1, <4>2, <4>3, <4>4 DEF InitiatorStep
    <3>2. ASSUME NEW u \in Txs, ResponderStep(u) PROVE AnswerStep(t)
      BY <3>2 DEF ResponderStep, RespondIdentity, IssuerEndorse, Accept, CheckPending,
         ResponderFinality, AssertTokens, ResponderTimeout
    <3>3. ASSUME NEW u \in Txs, (\E e \in Endorsers : Endorse(u, e)) \/ \E n \in Nodes : CommitEvent(n, u)
          PROVE  AnswerStep(t)
      BY <3>3 DEF Endorse, CommitEvent
    <3>4. ASSUME NEW n \in Nodes, Restart(n) PROVE AnswerStep(t)
      BY <3>4 DEF Restart, Running
    <3> QED BY <1>6, <3>1, <3>2, <3>3, <3>4 DEF Next, Quiet, vars
  <2> QED BY <2>1, <2>2, <2>3, FailuresAreAnswers DEF C!Next
<1> QED BY <1>2, <1>3, <1>4, <1>5, <1>6 DEF C!Next

\* TokenTx implements Cash: nodes, views and databases together move money
\* between accounts, atomically and only if the payer has it, and say "ok" only
\* after they have.
THEOREM CashRefined == Spec => ImplementsCash
<1>1. Init => C!Init
  <2> SUFFICES ASSUME Init PROVE C!Init
    OBVIOUS
  <2>1. Valid = {} /\ Unspent = {}
    BY DEF Init, Valid, Unspent
  <2>2. Value({}) = 0
    <3>1. SumFunctionOnSet(Val, {}) = 0
      BY SumEmpty
    <3> QED BY <3>1, FS_EmptySet, ValueIs
  <2>3. Balances = [a \in Accounts |-> 0]
    <3>1. \A a \in Accounts : {k \in Unspent : k.owner = a} = {}
      BY <2>1
    <3> QED BY <2>2, <3>1 DEF Balances
  <2> QED BY <2>3 DEF Init, C!Init, Effect, Answer, Errors
<1>2. CashInv /\ [Next]_vars => [C!Next]_(C!vars)
  BY StepMoves
<1> QED BY <1>1, <1>2, MoneyInvariant, PTL DEF Spec, ImplementsCash, C!Spec
=============================================================================
