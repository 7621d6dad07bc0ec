--------------------------- MODULE EndorserProofs ---------------------------
(***************************************************************************)
(* Proofs about Endorser for every value of its constants: its invariants  *)
(* and that it implements KVStore.                                         *)
(***************************************************************************)
EXTENDS Endorser, FiniteSetTheorems, WellFoundedInduction, TLAPS

\* A committed transaction is a call whose result the first endorser has signed.
LedgerInv ==
  \A i \in 1 .. Len(ledger) :
    ledger[i].valid => /\ ledger[i].call \in Calls
                       /\ pc[ledger[i].call] # "idle"
                       /\ reply[ledger[i].call][First] # None

\* The answer of endorser e to call c is the execution on c's own store.
Good(c, e) == reply[c][e] \notin {None, Refused}
AnswerInv(c, e) ==
  /\ store[c][e] # None => store[c][e] <= Len(ledger)
  /\ Good(c, e) => /\ store[c][e] # None
                   /\ req[c].fn # "none"
                   /\ reply[c][e] = Execute(req[c], store[c][e])

\* How far a call has come.
CallInv(c) ==
  /\ pc[c] = "idle" => /\ before[c] = {} /\ c \notin sent
                       /\ \A e \in Endorsers : store[c][e] = None /\ reply[c][e] = None
  /\ pc[c] # "idle" => req[c] \in Requests
  /\ pc[c] \in {"submit", "ok"} \/ c \in sent => \A e \in Endorsers : Good(c, e)
  /\ pc[c] = "submit" => Ok(c, First)

\* A serving endorser is never behind a store it has opened, in this or in an
\* earlier life; a call that follows another has a store that is no older.
HeightInv ==
  /\ \A e \in Endorsers :
       /\ height[e] <= Len(ledger)
       /\ phase[e] = "serving" =>
            \A c \in Calls : store[c][e] # None => store[c][e] <= height[e]
  /\ \A c, d \in Calls : c \in before[d] =>
       /\ pc[c] \in {"ok", "error"}
       /\ \A e \in Endorsers : store[c][e] # None /\ store[d][e] # None =>
            store[c][e] <= store[d][e]

IInv ==
  /\ TypeOK /\ LedgerInv /\ HeightInv /\ Serializable
  /\ \A c \in Calls : CallInv(c) /\ \A e \in Endorsers : AnswerInv(c, e)

-----------------------------------------------------------------------------
\* A bounded set of numbers that is not empty has its maximum.
LEMMA MaxNat ==
  ASSUME NEW S \in SUBSET Nat, NEW h \in Nat, S # {}, \A i \in S : i <= h
  PROVE  Max(S) \in S /\ \A i \in S : i <= Max(S)
<1> DEFINE T == {t \in Nat : h - t \in S}
<1>1. \A i \in S : i \in Nat /\ h - i \in T
  <2>1. ASSUME NEW i \in S PROVE i \in Nat /\ h - i \in Nat /\ h - (h - i) = i
    OBVIOUS
  <2> QED BY <2>1
<1>2. T # {} /\ T \subseteq Nat
  BY <1>1
<1>3. PICK x \in T : \A y \in T : ~(<<y, x>> \in OpToRel(<, Nat))
  <2> HIDE DEF T
  <2> QED BY <1>2, NatLessThanWellFounded, WFMin
<1>4. \A y \in T : x <= y
  <2>1. ASSUME NEW y \in T PROVE x <= y
    <3>1. y \in Nat /\ x \in Nat
      BY <1>2
    <3>2. ~(y < x)
      BY <1>3, <3>1, Zenon DEF OpToRel
    <3> QED BY <3>1, <3>2
  <2> QED BY <2>1
<1>5. h - x \in S /\ \A i \in S : i <= h - x
  <2>1. ASSUME NEW i \in S PROVE i <= h - x
    <3>1. i \in Nat /\ x <= h - i /\ x \in Nat
      BY <1>1, <1>2, <1>3, <1>4
    <3> QED BY <3>1
  <2> QED BY <2>1
<1> QED BY <1>1, <1>5 DEF Max

\* The writes of a prefix of the ledger, and the last of them.
LEMMA WritesFacts ==
  ASSUME NEW k, NEW h \in Nat
  PROVE  /\ Writes(k, h) \subseteq 1 .. h /\ IsFiniteSet(Writes(k, h))
         /\ LastWrite(k, h) \in Writes(k, h) \cup {0}
         /\ \A i \in Writes(k, h) : i <= LastWrite(k, h)
         /\ Version(k, h) \in Nat
<1>1. Writes(k, h) \subseteq 1 .. h
  BY DEF Writes
<1>2. IsFiniteSet(Writes(k, h))
  BY <1>1, FS_Interval, FS_Subset
<1>3. /\ LastWrite(k, h) \in Writes(k, h) \cup {0}
      /\ \A i \in Writes(k, h) \cup {0} : i <= LastWrite(k, h)
  <2>1. Writes(k, h) \cup {0} \subseteq Nat /\ \A i \in Writes(k, h) \cup {0} : i <= h
    BY <1>1
  <2> QED BY <2>1, MaxNat DEF LastWrite
<1>4. Cardinality(Writes(k, h)) \in Nat
  BY <1>2, FS_CardinalityType
<1> QED BY <1>1, <1>2, <1>3, <1>4 DEF Version

\* Two prefixes in which a key has the same version hold the same writes to it:
\* this is what makes the committer's version check sufficient.
LEMMA SameVersion ==
  ASSUME NEW k, NEW g \in Nat, NEW h \in Nat, g <= h, Version(k, g) = Version(k, h)
  PROVE  Writes(k, g) = Writes(k, h)
<1>1. Writes(k, g) \subseteq Writes(k, h)
  BY DEF Writes
<1>2. \A i \in Writes(k, h) : i <= g => i \in Writes(k, g)
  BY DEF Writes
<1>3. CASE Monotonic
  BY <1>1, <1>3, WritesFacts, FS_Subset DEF Version
<1>4. CASE ~Monotonic
  <2>1. LastWrite(k, h) <= g
    BY <1>4, WritesFacts DEF Version
  <2>2. \A i \in Writes(k, h) : i <= g
    BY <2>1, WritesFacts
  <2> QED BY <1>1, <1>2, <2>2
<1> QED BY <1>3, <1>4

-----------------------------------------------------------------------------
\* No call has been made at the start.
LEMMA InitInv == Init => IInv
<1> SUFFICES ASSUME Init PROVE IInv
  OBVIOUS
<1>1. ledger \in Seq([call : Calls \cup {None}, valid : BOOLEAN])
      /\ Len(ledger) = Genesis /\ \A i \in 1 .. Genesis : ~ledger[i].valid
  BY EndorserAssumption DEF Init
<1>2. TypeOK
  BY <1>1, EndorserAssumption DEF Init, TypeOK
<1>3. LedgerInv /\ Serializable
  BY <1>1 DEF LedgerInv, Serializable
<1>4. HeightInv
  BY <1>1, EndorserAssumption DEF Init, HeightInv
<1>5. \A c \in Calls : CallInv(c) /\ \A e \in Endorsers : AnswerInv(c, e)
  BY EndorserAssumption DEF Init, CallInv, AnswerInv, Good
<1> QED BY <1>2, <1>3, <1>4, <1>5 DEF IInv

\* The values and versions of the world state.
LEMMA ValueType ==
  ASSUME IInv, NEW k, NEW h \in 0 .. Len(ledger)
  PROVE  Value(k, h) \in Values \cup {None}
<1>1. CASE Writes(k, h) # {}
  <2>1. LastWrite(k, h) \in Writes(k, h)
    <3>1. PICK i \in Writes(k, h) : TRUE
      BY <1>1
    <3>2. i \in 1 .. h /\ i <= LastWrite(k, h)
      BY WritesFacts
    <3> QED BY <3>2, WritesFacts
  <2>2. LastWrite(k, h) \in 1 .. Len(ledger) /\ ledger[LastWrite(k, h)].valid
    BY <2>1, WritesFacts DEF Writes, IInv, TypeOK
  <2>3. req[ledger[LastWrite(k, h)].call] \in Request
    BY <2>2, EndorserAssumption DEF IInv, LedgerInv, CallInv
  <2> QED BY <1>1, <2>3 DEF Value, Request
<1> QED BY <1>1 DEF Value

\* An execution gives a response.
LEMMA ExecuteType ==
  ASSUME IInv, NEW r \in Requests, r.fn # "none", NEW h \in 0 .. Len(ledger)
  PROVE  Execute(r, h) \in Response /\ Execute(r, h).status # 500
<1>1. r \in Request /\ r.fn \in {"get", "set", "usage"} /\ r.val \in Values
  BY EndorserAssumption DEF Request
<1>2. h \in Nat /\ Version(r.key, h) \in Nat /\ Value(r.key, h) \in Values \cup {None}
  BY WritesFacts, ValueType DEF IInv, TypeOK
<1> QED BY <1>1, <1>2 DEF Execute, Answer, Response

\* A refusal is a response without success.
LEMMA RefusedType == Refused \in Response /\ Refused.status = 500
  BY DEF Refused, Answer, Response

\* A commit appends a block.
LEMMA CommitType ==
  ASSUME IInv, NEW c \in Calls, Commit(c)
  PROVE  TypeOK'
<1>1. Committable(c) \in BOOLEAN
  BY DEF Committable
<1>2. [call |-> c, valid |-> Committable(c)] \in [call : Calls \cup {None}, valid : BOOLEAN]
  BY <1>1
<1>3. ledger' \in Seq([call : Calls \cup {None}, valid : BOOLEAN])
  BY <1>2 DEF Commit, IInv, TypeOK
<1> QED BY <1>3 DEF Commit, IInv, TypeOK, service, client

\* A processed proposal has a response.
LEMMA ProcessType ==
  ASSUME IInv, NEW e \in Endorsers, NEW c \in Calls, ProcessProposal(e, c)
  PROVE  TypeOK'
<1>1. req[c] \in Requests /\ req[c].fn # "none" /\ store[c][e] \in 0 .. Len(ledger)
  BY DEF ProcessProposal, Executing, IInv, CallInv, AnswerInv, TypeOK
<1>2. Execute(req[c], store[c][e]) \in Response
  BY <1>1, ExecuteType
<1> QED BY <1>2 DEF ProcessProposal, Respond, IInv, TypeOK, service, client

\* Every step keeps the types.
LEMMA NextType == IInv /\ [Next]_vars => TypeOK'
<1> SUFFICES ASSUME IInv, [Next]_vars PROVE TypeOK'
  OBVIOUS
<1> USE DEF IInv, TypeOK, service, client
<1>1. ASSUME NEW e \in Endorsers, Start(e) \/ Sync(e) \/ WaitForReady(e) \/ Close(e)
      PROVE  TypeOK'
  <2>1. CASE Start(e)
    BY <2>1 DEF Start
  <2>2. CASE Sync(e)
    BY <2>2 DEF Sync
  <2>3. CASE WaitForReady(e) \/ Close(e)
    BY <2>3 DEF WaitForReady, Close
  <2> QED BY <1>1, <2>1, <2>2, <2>3
<1>2. ASSUME NEW e \in Endorsers, Exit(e) \/ \E c \in Calls : LogNoArgs(e, c)
      PROVE  TypeOK'
  <2>1. Die(e) /\ UNCHANGED <<ledger, sent, height, starts, client, store>>
    BY <1>2 DEF Exit, LogNoArgs
  <2>2. reply' \in [Calls -> [Endorsers -> Response \cup {None}]]
    BY <2>1, RefusedType DEF Die
  <2> QED BY <2>1, <2>2 DEF Die
<1>3. ASSUME NEW e \in Endorsers, NEW c \in Calls, Refuse(e, c) PROVE TypeOK'
  BY <1>3, RefusedType DEF Refuse, Respond
<1>4. ASSUME NEW e \in Endorsers, NEW c \in Calls, OpenStore(e, c) PROVE TypeOK'
  BY <1>4 DEF OpenStore
<1>5. ASSUME NEW c \in Calls, NEW r \in Requests, Open(c, r) PROVE TypeOK'
  BY <1>5 DEF Open
<1>6. ASSUME NEW c \in Calls, Endorsed(c) \/ Submit(c) \/ ClientFails(c) PROVE TypeOK'
  BY <1>6 DEF Endorsed, Submit, ClientFails
<1>7. CASE Quiet \/ UNCHANGED vars
  BY <1>7 DEF Quiet, vars
<1> QED
  BY <1>1, <1>2, <1>3, <1>4, <1>5, <1>6, <1>7, ProcessType, CommitType DEF Next

-----------------------------------------------------------------------------
\* What no step undoes.
Grows ==
  /\ Len(ledger') >= Len(ledger)
  /\ \A i \in 1 .. Len(ledger) : ledger'[i] = ledger[i]
  /\ \A c \in Calls :
       /\ pc[c] # "idle" => /\ pc'[c] # "idle" /\ req'[c] = req[c]
                            /\ before'[c] = before[c]
       /\ pc[c] \in {"ok", "error"} => pc'[c] = pc[c]
       /\ \A e \in Endorsers :
            /\ reply[c][e] # None => reply'[c][e] = reply[c][e]
            /\ store[c][e] # None => store'[c][e] = store[c][e]

\* Every step only adds: blocks, responses and stores stay.
LEMMA NextGrows == IInv /\ [Next]_vars => Grows
<1> SUFFICES ASSUME IInv, [Next]_vars PROVE Grows
  OBVIOUS
<1> USE DEF IInv, TypeOK, service, client
<1>1. ASSUME NEW e \in Endorsers, Start(e) \/ Sync(e) \/ WaitForReady(e) \/ Close(e)
      PROVE  Grows
  BY <1>1 DEF Start, Sync, WaitForReady, Close, Grows
<1>2. ASSUME NEW e \in Endorsers, Exit(e) \/ \E c \in Calls : LogNoArgs(e, c)
      PROVE  Grows
  <2>1. Die(e) /\ UNCHANGED <<ledger, sent, height, starts, client, store>>
    BY <1>2 DEF Exit, LogNoArgs
  <2>2. \A c \in Calls, f \in Endorsers : reply[c][f] # None => reply'[c][f] = reply[c][f]
    BY <2>1 DEF Die, Executing
  <2> QED BY <2>1, <2>2 DEF Grows
<1>3. ASSUME NEW e \in Endorsers, NEW c \in Calls, Refuse(e, c) \/ ProcessProposal(e, c)
      PROVE  Grows
  <2>1. /\ reply[c][e] = None /\ UNCHANGED <<ledger, client, store>>
        /\ \E a : reply' = [reply EXCEPT ![c][e] = a]
    BY <1>3 DEF Refuse, ProcessProposal, Executing, Respond
  <2> QED BY <2>1 DEF Grows
<1>4. ASSUME NEW e \in Endorsers, NEW c \in Calls, OpenStore(e, c) PROVE Grows
  BY <1>4 DEF OpenStore, Grows
<1>5. ASSUME NEW c \in Calls, NEW r \in Requests, Open(c, r) PROVE Grows
  BY <1>5 DEF Open, Grows
<1>6. ASSUME NEW c \in Calls, Endorsed(c) \/ Submit(c) \/ ClientFails(c) PROVE Grows
  BY <1>6 DEF Endorsed, Submit, ClientFails, Grows
<1>7. ASSUME NEW c \in Calls, Commit(c) PROVE Grows
  BY <1>7 DEF Commit, Grows
<1>8. CASE Quiet \/ UNCHANGED vars
  BY <1>8 DEF Quiet, vars, Grows
<1> QED
  BY <1>1, <1>2, <1>3, <1>4, <1>5, <1>6, <1>7, <1>8 DEF Next

\* The state after a prefix of the ledger, and what is executed on it, stays.
LEMMA PrefixKept ==
  ASSUME IInv, Grows, NEW k, NEW h \in 0 .. Len(ledger)
  PROVE  /\ Writes(k, h)' = Writes(k, h) /\ LastWrite(k, h)' = LastWrite(k, h)
         /\ Value(k, h)' = Value(k, h) /\ Version(k, h)' = Version(k, h)
<1>1. h \in Nat /\ h <= Len(ledger) /\ Len(ledger) \in Nat
  BY DEF IInv, TypeOK
<1>2. ASSUME NEW i \in 1 .. h, ledger[i].valid
      PROVE  ledger'[i] = ledger[i] /\ req'[ledger[i].call] = req[ledger[i].call]
  BY <1>1, <1>2 DEF Grows, IInv, LedgerInv
<1>3. Writes(k, h)' = Writes(k, h)
  <2>1. \A i \in 1 .. h : ledger'[i] = ledger[i]
    BY <1>1 DEF Grows
  <2> QED BY <1>2, <2>1 DEF Writes
<1>4. LastWrite(k, h)' = LastWrite(k, h) /\ Version(k, h)' = Version(k, h)
  BY <1>3 DEF LastWrite, Version
<1>5. Value(k, h)' = Value(k, h)
  <2>1. CASE Writes(k, h) = {}
    BY <1>3, <2>1 DEF Value
  <2>2. CASE Writes(k, h) # {}
    <3>1. LastWrite(k, h) \in Writes(k, h)
      <4>1. PICK i \in Writes(k, h) : TRUE
        BY <2>2
      <4>2. i \in 1 .. h /\ i <= LastWrite(k, h)
        BY <1>1, WritesFacts
      <4> QED BY <1>1, <4>2, WritesFacts
    <3>2. LastWrite(k, h) \in 1 .. h /\ ledger[LastWrite(k, h)].valid
      BY <1>1, <3>1, WritesFacts DEF Writes
    <3> QED BY <1>2, <1>3, <1>4, <2>2, <3>2 DEF Value
  <2> QED BY <2>1, <2>2
<1> QED BY <1>3, <1>4, <1>5

\* An execution on a prefix of the ledger gives the same afterwards.
LEMMA ExecuteKept ==
  ASSUME IInv, Grows, NEW r, NEW h \in 0 .. Len(ledger)
  PROVE  Execute(r, h)' = Execute(r, h)
BY PrefixKept DEF Execute, Answer

-----------------------------------------------------------------------------
\* Only the two steps of ProcessProposal open stores and give good answers.
LEMMA NewStore ==
  ASSUME IInv, [Next]_vars, NEW c \in Calls, NEW e \in Endorsers,
         store'[c][e] # store[c][e]
  PROVE  OpenStore(e, c)
<1>1. ASSUME NEW f \in Endorsers, NEW d \in Calls, OpenStore(f, d)
      PROVE  f = e /\ d = c
  BY <1>1 DEF OpenStore, IInv, TypeOK
<1>2. \/ \E f \in Endorsers, d \in Calls : OpenStore(f, d)
      \/ UNCHANGED store
  BY DEF Next, vars, Start, Sync, WaitForReady, Close, Exit, Refuse, ProcessProposal,
         LogNoArgs, Open, Endorsed, Submit, ClientFails, Commit, Quiet
<1> QED BY <1>1, <1>2

\* Where a new response comes from.
LEMMA NewReply ==
  ASSUME IInv, [Next]_vars, NEW c \in Calls, NEW e \in Endorsers,
         reply'[c][e] # reply[c][e]
  PROVE  ProcessProposal(e, c) \/ (reply'[c][e] = Refused /\ pc[c] # "idle")
<1> USE DEF IInv, TypeOK
<1>1. ASSUME NEW f \in Endorsers, Exit(f) \/ \E d \in Calls : LogNoArgs(f, d)
      PROVE  reply'[c][e] = Refused /\ pc[c] # "idle"
  <2>1. Die(f)
    BY <1>1 DEF Exit, LogNoArgs
  <2>2. c \in Executing(f) /\ reply'[c][e] = Refused
    BY <2>1 DEF Die
  <2> QED BY <2>2 DEF Executing, CallInv
<1>2. ASSUME NEW f \in Endorsers, NEW d \in Calls, Refuse(f, d)
      PROVE  reply'[c][e] = Refused /\ pc[c] # "idle"
  BY <1>2 DEF Refuse, Respond
<1>3. ASSUME NEW f \in Endorsers, NEW d \in Calls, ProcessProposal(f, d)
      PROVE  f = e /\ d = c
  BY <1>3 DEF ProcessProposal, Respond
<1> QED BY <1>1, <1>2, <1>3
    DEF Next, vars, Start, Sync, WaitForReady, Close, OpenStore,
        Open, Endorsed, Submit, ClientFails, Commit, Quiet

\* Every step keeps the responses in order.
LEMMA NextAnswer ==
  ASSUME IInv, TypeOK', Grows, [Next]_vars, NEW c \in Calls, NEW e \in Endorsers
  PROVE  AnswerInv(c, e)'
<1>1. store'[c][e] # None => store'[c][e] <= Len(ledger')
  <2>1. CASE store'[c][e] = store[c][e]
    BY <2>1 DEF IInv, AnswerInv, Grows, TypeOK
  <2>2. CASE store'[c][e] # store[c][e]
    <3>1. OpenStore(e, c)
      BY <2>2, NewStore
    <3> QED BY <3>1 DEF OpenStore, IInv, TypeOK, HeightInv
  <2> QED BY <2>1, <2>2
<1>2. ASSUME Good(c, e)'
      PROVE  /\ store'[c][e] # None /\ req'[c].fn # "none"
             /\ reply'[c][e] = Execute(req[c], store[c][e])'
  <2>1. /\ store[c][e] # None /\ req[c].fn # "none"
        /\ reply'[c][e] = Execute(req[c], store[c][e])
    <3>1. CASE reply'[c][e] = reply[c][e]
      BY <1>2, <3>1 DEF Good, IInv, AnswerInv
    <3>2. CASE reply'[c][e] # reply[c][e]
      <4>1. ProcessProposal(e, c)
        BY <1>2, <3>2, NewReply DEF Good
      <4> QED BY <4>1 DEF ProcessProposal, Executing, Respond, IInv, TypeOK
    <3> QED BY <3>1, <3>2
  <2>2. pc[c] # "idle"
    BY <2>1 DEF IInv, CallInv
  <2>3. store'[c][e] = store[c][e] /\ req'[c] = req[c]
    BY <2>1, <2>2 DEF Grows
  <2>4. PICK r, h : r = req[c] /\ h = store[c][e]
    OBVIOUS
  <2>5. h \in 0 .. Len(ledger)
    BY <2>1, <2>4 DEF IInv, AnswerInv, TypeOK
  <2>6. Execute(r, h)' = Execute(r, h)
    BY <2>5, ExecuteKept
  <2>7. r = req'[c] /\ h = store'[c][e]
    BY <2>3, <2>4
  <2> QED BY <2>1, <2>3, <2>4, <2>6, <2>7
<1> QED BY <1>1, <1>2 DEF AnswerInv

\* The steps that concern clients and their transactions.
LEMMA ClientStep ==
  ASSUME [Next]_vars
  PROVE  \/ UNCHANGED <<client, sent>>
         \/ \E d \in Calls, r \in Requests : Open(d, r)
         \/ /\ \E d \in Calls : Endorsed(d) \/ Submit(d) \/ ClientFails(d) \/ Commit(d)
            /\ UNCHANGED before
<1>1. ASSUME NEW e \in Endorsers,
             \/ Start(e) \/ Sync(e) \/ WaitForReady(e) \/ Close(e) \/ Exit(e)
             \/ \E c \in Calls : \/ Refuse(e, c) \/ OpenStore(e, c)
                                 \/ ProcessProposal(e, c) \/ LogNoArgs(e, c)
      PROVE  UNCHANGED <<client, sent>>
  BY <1>1 DEF Start, Sync, WaitForReady, Close, Exit, Refuse, OpenStore, ProcessProposal,
              LogNoArgs
<1>2. ASSUME NEW d \in Calls, Endorsed(d) \/ Submit(d) \/ ClientFails(d) \/ Commit(d)
      PROVE  UNCHANGED before
  BY <1>2 DEF Endorsed, Submit, ClientFails, Commit, client
<1>3. CASE Quiet \/ UNCHANGED vars
  BY <1>3 DEF Quiet, vars
<1> QED BY <1>1, <1>2, <1>3 DEF Next

\* Good answers stay.
LEMMA GoodKept ==
  ASSUME IInv, Grows, NEW c \in Calls, NEW e \in Endorsers, Good(c, e)
  PROVE  Good(c, e)' /\ reply'[c][e] = reply[c][e]
BY DEF Good, Grows

\* Every step keeps the calls in order.
LEMMA NextCall ==
  ASSUME IInv, TypeOK', Grows, [Next]_vars, NEW c \in Calls
  PROVE  CallInv(c)'
<1> USE DEF IInv, TypeOK
<1>1. ASSUME NEW r \in Requests, Open(c, r) PROVE CallInv(c)'
  BY <1>1 DEF Open, CallInv, service
<1>2. CASE Endorsed(c)
  <2>1. \A e \in Endorsers : Good(c, e)' /\ reply'[c][e] = reply[c][e]
    BY <1>2 DEF Endorsed, Good
  <2>2. pc'[c] = "submit" => Ok(c, First)'
    BY <1>2, <2>1, EndorserAssumption DEF Endorsed, Ok
  <2>3. pc[c] # "idle" /\ pc'[c] # "idle" /\ req'[c] = req[c]
    BY <1>2 DEF Endorsed
  <2> QED BY <2>1, <2>2, <2>3 DEF CallInv
<1>3. CASE Submit(c) \/ ClientFails(c)
  <2>1. pc[c] # "idle" /\ pc'[c] \in {"ok", "error"} /\ req'[c] = req[c]
    BY <1>3 DEF Submit, ClientFails
  <2>2. pc'[c] = "ok" \/ c \in sent' => pc[c] = "submit" \/ c \in sent
    BY <1>3 DEF Submit, ClientFails
  <2> QED BY <2>1, <2>2, GoodKept DEF CallInv
<1>4. CASE pc'[c] = pc[c] /\ (c \in sent' => c \in sent)
  <2>1. CASE pc[c] = "idle"
    <3>1. \A e \in Endorsers : store'[c][e] = store[c][e] /\ reply'[c][e] = reply[c][e]
      BY <2>1, NewStore, NewReply DEF OpenStore, ProcessProposal, Executing, CallInv
    <3>2. before'[c] = before[c]
      <4>1. CASE UNCHANGED before
        BY <4>1
      <4>2. ASSUME NEW d \in Calls, NEW r \in Requests, Open(d, r) PROVE before'[c] = before[c]
        BY <1>4, <2>1, <4>2 DEF Open
      <4>3. CASE UNCHANGED <<client, sent>>
        BY <4>3 DEF client
      <4> QED BY <4>1, <4>2, <4>3, ClientStep
    <3> QED BY <1>4, <2>1, <3>1, <3>2 DEF CallInv
  <2>2. CASE pc[c] # "idle"
    <3>1. req'[c] = req[c]
      BY <2>2 DEF Grows
    <3>2. ASSUME pc[c] = "submit" PROVE Ok(c, First)'
      <4>1. Good(c, First) /\ Ok(c, First)
        BY <3>2, EndorserAssumption DEF CallInv
      <4>2. reply'[c][First] = reply[c][First]
        BY <4>1, EndorserAssumption DEF Good, Grows
      <4> QED BY <4>1, <4>2 DEF Ok
    <3>3. \A e \in Endorsers : Good(c, e) => Good(c, e)'
      BY GoodKept
    <3> QED BY <1>4, <2>2, <3>1, <3>2, <3>3 DEF CallInv
  <2> QED BY <2>1, <2>2
<1>5. \/ \E r \in Requests : Open(c, r)
      \/ Endorsed(c) \/ Submit(c) \/ ClientFails(c)
      \/ pc'[c] = pc[c] /\ (c \in sent' => c \in sent)
  <2>1. ASSUME NEW d \in Calls, NEW r \in Requests, Open(d, r), d # c
        PROVE  pc'[c] = pc[c] /\ sent' = sent
    BY <2>1 DEF Open
  <2>2. ASSUME NEW d \in Calls, Endorsed(d) \/ Submit(d) \/ ClientFails(d), d # c
        PROVE  pc'[c] = pc[c] /\ (c \in sent' => c \in sent)
    BY <2>2 DEF Endorsed, Submit, ClientFails
  <2>3. ASSUME NEW d \in Calls, Commit(d)
        PROVE  pc'[c] = pc[c] /\ (c \in sent' => c \in sent)
    BY <2>3 DEF Commit, client
  <2> QED BY <2>1, <2>2, <2>3, ClientStep DEF client
<1> QED BY <1>1, <1>2, <1>3, <1>4, <1>5

-----------------------------------------------------------------------------
\* An endorser has no block too many, and serves none too few.
LEMMA NextServing ==
  ASSUME IInv, TypeOK', Grows, [Next]_vars, NEW e \in Endorsers
  PROVE  /\ height'[e] <= Len(ledger')
         /\ phase'[e] = "serving" =>
              \A c \in Calls : store'[c][e] # None => store'[c][e] <= height'[e]
<1> USE DEF IInv, TypeOK, service
<1>1. \/ UNCHANGED <<phase, height>>
      \/ \E f \in Endorsers : /\ Start(f) \/ Sync(f) \/ WaitForReady(f) \/ Close(f) \/ Exit(f)
                                  \/ \E c \in Calls : LogNoArgs(f, c)
  BY DEF Next, vars, Refuse, OpenStore, ProcessProposal, Open, Endorsed, Submit, ClientFails,
         Commit, Quiet
<1>2. CASE UNCHANGED <<phase, height>>
  <2>1. height[e] <= Len(ledger')
    <3>1. height[e] \in Nat /\ Len(ledger) \in Nat /\ Len(ledger') \in Nat
      OBVIOUS
    <3>2. height[e] <= Len(ledger) /\ Len(ledger) <= Len(ledger')
      BY <3>1 DEF HeightInv, Grows
    <3> QED BY <3>1, <3>2
  <2>2. ASSUME phase[e] = "serving", NEW c \in Calls, store'[c][e] # None
        PROVE  store'[c][e] <= height[e]
    <3>1. CASE store'[c][e] = store[c][e]
      BY <2>2, <3>1 DEF HeightInv
    <3>2. CASE store'[c][e] # store[c][e]
      BY <3>2, NewStore DEF OpenStore
    <3> QED BY <3>1, <3>2
  <2> QED BY <1>2, <2>1, <2>2
<1>3. ASSUME NEW f \in Endorsers, \/ Start(f) \/ Sync(f) \/ WaitForReady(f) \/ Close(f) \/ Exit(f)
                                 \/ \E c \in Calls : LogNoArgs(f, c)
      PROVE  /\ UNCHANGED <<ledger, store>> /\ height'[e] <= Len(ledger)
             /\ phase'[e] = "serving" =>
                  height'[e] = Len(ledger) \/ (phase[e] = "serving" /\ height'[e] >= height[e])
  <2>1. CASE Start(f)
    BY <2>1 DEF Start, HeightInv
  <2>2. CASE Sync(f)
    BY <2>2 DEF Sync, HeightInv
  <2>3. CASE WaitForReady(f)
    BY <2>3 DEF WaitForReady, HeightInv
  <2>4. CASE Close(f)
    BY <2>4 DEF Close, HeightInv
  <2>5. CASE Exit(f) \/ \E c \in Calls : LogNoArgs(f, c)
    BY <2>5 DEF Exit, LogNoArgs, Die, HeightInv
  <2> QED BY <1>3, <2>1, <2>2, <2>3, <2>4, <2>5
<1>4. \A c \in Calls : store[c][e] # None => store[c][e] \in Nat /\ store[c][e] <= Len(ledger)
  BY DEF AnswerInv
<1>5. phase[e] = "serving" => \A c \in Calls : store[c][e] # None => store[c][e] <= height[e]
  BY DEF HeightInv
<1>6. CASE /\ UNCHANGED <<ledger, store>> /\ height'[e] <= Len(ledger)
           /\ phase'[e] = "serving" =>
                height'[e] = Len(ledger) \/ (phase[e] = "serving" /\ height'[e] >= height[e])
  <2>1. height[e] \in Nat /\ height'[e] \in Nat /\ Len(ledger) \in Nat
    OBVIOUS
  <2>2. ASSUME phase'[e] = "serving", NEW c \in Calls, store[c][e] # None
        PROVE  store[c][e] <= height'[e]
    BY <1>4, <1>5, <1>6, <2>1, <2>2
  <2> QED BY <1>6, <2>2
<1> QED BY <1>1, <1>2, <1>3, <1>6

\* A call that follows another one opens no older store.
LEMMA NextFollows ==
  ASSUME IInv, TypeOK', Grows, [Next]_vars, NEW c \in Calls, NEW d \in Calls, c \in before'[d]
  PROVE  /\ pc'[c] \in {"ok", "error"}
         /\ \A e \in Endorsers : store'[c][e] # None /\ store'[d][e] # None =>
              store'[c][e] <= store'[d][e]
<1> USE DEF IInv, TypeOK
<1>1. \/ c \in before[d]
      \/ pc[d] = "idle" /\ pc[c] \in {"ok", "error"}
  <2>1. ASSUME NEW b \in Calls, NEW r \in Requests, Open(b, r)
        PROVE  c \in before[d] \/ (pc[d] = "idle" /\ pc[c] \in {"ok", "error"})
    BY <2>1 DEF Open
  <2>2. CASE UNCHANGED <<client, sent>>
    BY <2>2 DEF client
  <2> QED BY <2>1, <2>2, ClientStep
<1>2. pc[c] \in {"ok", "error"}
  BY <1>1 DEF HeightInv
<1>3. pc'[c] \in {"ok", "error"}
  BY <1>2 DEF Grows
<1>4. ASSUME NEW e \in Endorsers, store'[c][e] # None, store'[d][e] # None
      PROVE  store'[c][e] <= store'[d][e]
  <2>1. store'[c][e] = store[c][e]
    BY <1>2, NewStore DEF OpenStore
  <2>2. CASE store'[d][e] = store[d][e]
    <3>1. pc[d] # "idle"
      BY <1>4, <2>2 DEF CallInv
    <3> QED BY <1>1, <1>4, <2>1, <2>2, <3>1 DEF HeightInv
  <2>3. CASE store'[d][e] # store[d][e]
    <3>1. phase[e] = "serving" /\ store'[d][e] = height[e]
      BY <2>3, NewStore DEF OpenStore
    <3> QED BY <1>4, <2>1, <3>1 DEF HeightInv
  <2> QED BY <2>2, <2>3
<1> QED BY <1>3, <1>4

\* Every step keeps heights and stores in order.
LEMMA NextHeight ==
  ASSUME IInv, TypeOK', Grows, [Next]_vars
  PROVE  HeightInv'
BY NextServing, NextFollows DEF HeightInv

-----------------------------------------------------------------------------
\* What a committed invocation has read is the state at its own place.
LEMMA CommitSerial ==
  ASSUME IInv, NEW c \in Calls, Commit(c), Committable(c), req[c].fn = "get"
  PROVE  reply[c][First].payload = Value(req[c].key, Len(ledger))
<1>1. /\ store[c][First] \in 0 .. Len(ledger)
      /\ reply[c][First] = Execute(req[c], store[c][First])
  BY EndorserAssumption DEF Commit, IInv, CallInv, AnswerInv, TypeOK
<1>2. PICK g, k : g = store[c][First] /\ k = req[c].key
  OBVIOUS
<1>3. reply[c][First].payload = Value(k, g) /\ reply[c][First].reads = Version(k, g)
  BY <1>1, <1>2 DEF Execute, Answer
<1>4. g \in Nat /\ Len(ledger) \in Nat /\ g <= Len(ledger) /\ Version(k, g) # None
  BY <1>1, <1>2, WritesFacts, EndorserAssumption DEF IInv, TypeOK
<1>5. Version(k, g) = Version(k, Len(ledger))
  BY <1>2, <1>3, <1>4 DEF Committable
<1>6. Writes(k, g) = Writes(k, Len(ledger))
  BY <1>4, <1>5, SameVersion
<1>7. Value(k, g) = Value(k, Len(ledger))
  BY <1>6 DEF Value, LastWrite
<1> QED BY <1>2, <1>3, <1>7

\* A commit extends the serial ledger by a serial transaction.
LEMMA NextSerial ==
  ASSUME IInv, TypeOK', Grows, [Next]_vars
  PROVE  LedgerInv' /\ Serializable'
<1> SUFFICES ASSUME NEW i \in 1 .. Len(ledger'), ledger'[i].valid
             PROVE  /\ ledger'[i].call \in Calls /\ pc'[ledger'[i].call] # "idle"
                    /\ reply'[ledger'[i].call][First] # None
                    /\ req'[ledger'[i].call].fn = "get" =>
                         reply'[ledger'[i].call][First].payload
                           = Value(req[ledger[i].call].key, i - 1)'
  BY DEF LedgerInv, Serializable
<1>1. First \in Endorsers /\ Len(ledger) \in Nat /\ Len(ledger') \in Nat
  BY EndorserAssumption DEF IInv, TypeOK
<1>2. PICK c, k, h : c = ledger'[i].call /\ k = req'[c].key /\ h = i - 1
  OBVIOUS
<1>3. c \in Calls /\ pc[c] # "idle" /\ reply[c][First] # None /\ h \in 0 .. Len(ledger)
      /\ (req[c].fn = "get" => reply[c][First].payload = Value(req[c].key, h))
  <2>1. CASE i <= Len(ledger)
    <3>1. i \in 1 .. Len(ledger) /\ ledger'[i] = ledger[i]
      BY <1>1, <2>1 DEF Grows
    <3>2. c \in Calls /\ pc[c] # "idle" /\ reply[c][First] # None
      BY <1>2, <3>1 DEF IInv, LedgerInv
    <3>3. req[c].fn = "get" => reply[c][First].payload = Value(req[c].key, i - 1)
      BY <1>2, <3>1 DEF IInv, Serializable
    <3> QED BY <1>1, <1>2, <3>1, <3>2, <3>3
  <2>2. CASE i > Len(ledger)
    <3>1. PICK b \in Calls : Commit(b)
      <4>1. UNCHANGED ledger \/ \E b \in Calls : Commit(b)
        BY DEF Next, vars, Start, Sync, WaitForReady, Close, Exit, Refuse, OpenStore,
               ProcessProposal, LogNoArgs, Open, Endorsed, Submit, ClientFails, Quiet
      <4> QED BY <1>1, <2>2, <4>1
    <3>2. Len(ledger') = Len(ledger) + 1 /\ i = Len(ledger) + 1
      BY <1>1, <2>2, <3>1 DEF Commit, IInv, TypeOK
    <3>3. ledger'[i] = [call |-> b, valid |-> Committable(b)]
      BY <1>1, <3>1, <3>2 DEF Commit, IInv, TypeOK
    <3>4. c = b /\ Committable(b) /\ h = Len(ledger)
      BY <1>1, <1>2, <3>2, <3>3
    <3>5. pc[c] # "idle" /\ reply[c][First] # None
      BY <1>1, <3>1, <3>4 DEF Commit, IInv, CallInv, Good
    <3> QED BY <1>1, <3>1, <3>4, <3>5, CommitSerial
  <2> QED BY <1>1, <2>1, <2>2
<1>4. /\ pc'[c] # "idle" /\ req'[c] = req[c] /\ reply'[c][First] = reply[c][First]
  BY <1>1, <1>3 DEF Grows
<1>5. Value(k, h)' = Value(k, h)
  BY <1>3, PrefixKept
<1> QED BY <1>2, <1>3, <1>4, <1>5

-----------------------------------------------------------------------------
\* The endorsers, the client and the committer keep to their protocol.
THEOREM Invariance == Spec => []IInv
<1>1. IInv /\ [Next]_vars => IInv'
  <2> SUFFICES ASSUME IInv, [Next]_vars PROVE IInv'
    OBVIOUS
  <2>1. TypeOK' /\ Grows
    BY NextType, NextGrows
  <2> QED BY <2>1, NextAnswer, NextCall, NextHeight, NextSerial DEF IInv
<1> QED BY <1>1, InitInv, PTL DEF Spec

\* Every variable keeps its type.
THEOREM EndorserTypeCorrect == Spec => []TypeOK
<1>1. IInv => TypeOK
  BY DEF IInv
<1> QED BY <1>1, Invariance, PTL

\* The valid transactions are serial, with counted versions as with versions
\* that name the block of the last write.
THEOREM SerializableHolds == Spec => []Serializable
<1>1. IInv => Serializable
  BY DEF IInv
<1> QED BY <1>1, Invariance, PTL

\* The client's look at the first response is enough.
THEOREM FirstSpeaksForAllHolds == Spec => []FirstSpeaksForAll
<1>1. IInv => FirstSpeaksForAll
  <2> SUFFICES ASSUME IInv, NEW c \in Calls, pc[c] = "submit", NEW e \in Endorsers
               PROVE  Ok(c, e)
    BY DEF FirstSpeaksForAll
  <2>1. /\ req[c] \in Requests /\ Ok(c, First)
        /\ \A f \in Endorsers : /\ reply[c][f] = Execute(req[c], store[c][f])
                                /\ req[c].fn # "none"
    BY DEF IInv, CallInv, AnswerInv
  <2>2. req[c].fn \in {"get", "set", "usage"}
    BY <2>1, EndorserAssumption DEF Request
  <2>3. PICK r, g, h : r = req[c] /\ g = store[c][First] /\ h = store[c][e]
    OBVIOUS
  <2>4. reply[c][First] = Execute(r, g) /\ reply[c][e] = Execute(r, h)
    BY <2>1, <2>3, EndorserAssumption
  <2>5. r.fn # "usage"
    <3> SUFFICES ASSUME r.fn = "usage" PROVE FALSE
      OBVIOUS
    <3>1. reply[c][First].status = 400
      BY <2>4 DEF Execute, Answer
    <3> QED BY <2>1, <3>1 DEF Ok
  <2>6. reply[c][e].status = 200
    BY <2>2, <2>3, <2>4, <2>5 DEF Execute, Answer
  <2> QED BY <2>6 DEF Ok
<1> QED BY <1>1, Invariance, PTL

\* No user sees an older state in a later call, whatever restarts in between.
THEOREM AnswersMoveForwardHolds == Spec => []AnswersMoveForward
<1>1. IInv => AnswersMoveForward
  <2> SUFFICES ASSUME IInv, NEW c \in Calls, NEW d \in Calls,
                      pc[c] = "ok", pc[d] = "ok", c \in before[d]
               PROVE  reply[c][First].at <= reply[d][First].at
    BY DEF AnswersMoveForward
  <2>1. ASSUME NEW b \in Calls, pc[b] = "ok"
        PROVE  store[b][First] # None /\ reply[b][First].at = store[b][First]
    <3>1. /\ req[b] \in Requests /\ req[b].fn # "none" /\ store[b][First] # None
          /\ reply[b][First] = Execute(req[b], store[b][First])
      BY <2>1, EndorserAssumption DEF IInv, CallInv, AnswerInv
    <3>2. req[b].fn \in {"get", "set", "usage"}
      BY <3>1, EndorserAssumption DEF Request
    <3> QED BY <3>1, <3>2 DEF Execute, Answer
  <2> QED BY <2>1, EndorserAssumption DEF IInv, HeightInv
<1> QED BY <1>1, Invariance, PTL

-----------------------------------------------------------------------------
(* The key-value store.                                                    *)

\* A call has one block at most, and only after it was answered and sent.
OnceInv ==
  /\ \A c \in Calls :
       /\ pc[c] = "idle" => req[c] = None
       /\ pc[c] \in {"idle", "propose", "submit"} => c \notin sent
       /\ pc[c] = "submit" \/ c \in sent => Ok(c, First) /\ req[c].cmd = "invoke"
       /\ pc[c] \in {"idle", "propose", "submit"} \/ c \in sent =>
            \A i \in 1 .. Len(ledger) : ledger[i].call # c
  /\ \A i \in 1 .. Len(ledger) : ledger[i].call \in Calls =>
       /\ Good(ledger[i].call, First)
       /\ \A j \in 1 .. Len(ledger) : ledger[j].call = ledger[i].call => j = i

\* At the start the ledger has no block of a call.
LEMMA InitOnce == Init => OnceInv
<1> SUFFICES ASSUME Init PROVE OnceInv
  OBVIOUS
<1>1. Len(ledger) = Genesis /\ \A i \in 1 .. Len(ledger) : ledger[i].call = None
  BY EndorserAssumption DEF Init
<1> QED BY <1>1, EndorserAssumption DEF Init, OnceInv

\* A successful answer stays.
LEMMA OkKept ==
  ASSUME IInv, Grows, NEW c \in Calls, Good(c, First), Ok(c, First)
  PROVE  Ok(c, First)'
BY GoodKept, EndorserAssumption DEF Ok

\* The steps of one client that do not commit.
LEMMA ClientOnce ==
  ASSUME IInv, Grows, OnceInv, NEW d \in Calls,
         (\E r \in Requests : Open(d, r)) \/ Endorsed(d) \/ Submit(d) \/ ClientFails(d)
  PROVE  OnceInv'
<1> USE DEF IInv, TypeOK
<1>1. UNCHANGED <<ledger, reply>> /\ \A c \in Calls \ {d} : pc'[c] = pc[c] /\ req'[c] = req[c]
  BY DEF Open, Endorsed, Submit, ClientFails
<1>2. \A c \in Calls \ {d} : c \in sent' <=> c \in sent
  BY DEF Open, Endorsed, Submit, ClientFails
<1>3. \A c \in Calls : /\ Ok(c, First)' = Ok(c, First)
                       /\ Good(c, First)' = Good(c, First)
  BY <1>1 DEF Ok, Good
<1>4. /\ pc'[d] # "idle"
      /\ pc'[d] \in {"propose", "submit"} => d \notin sent'
      /\ pc'[d] = "submit" \/ d \in sent' => Ok(d, First) /\ req'[d].cmd = "invoke"
      /\ pc'[d] \in {"idle", "propose", "submit"} \/ d \in sent' =>
           \A i \in 1 .. Len(ledger) : ledger[i].call # d
  <2>1. CASE \E r \in Requests : Open(d, r)
    BY <2>1 DEF Open, OnceInv
  <2>2. CASE Endorsed(d)
    <3>1. req[d] \in Request
      BY <2>2, EndorserAssumption DEF Endorsed, CallInv
    <3> QED BY <2>2, <3>1 DEF Endorsed, OnceInv, Request
  <2>3. CASE Submit(d) \/ ClientFails(d)
    BY <2>3 DEF Submit, ClientFails, OnceInv
  <2> QED BY <2>1, <2>2, <2>3
<1> QED BY <1>1, <1>2, <1>3, <1>4 DEF OnceInv

\* A commit adds the one block of its call.
LEMMA CommitOnce ==
  ASSUME IInv, OnceInv, NEW d \in Calls, Commit(d)
  PROVE  OnceInv'
<1> USE DEF IInv, TypeOK
<1>1. /\ d \in sent /\ sent' = sent \ {d} /\ UNCHANGED <<req, pc, reply>>
      /\ Len(ledger') = Len(ledger) + 1
      /\ \A i \in 1 .. Len(ledger) : ledger'[i] = ledger[i]
      /\ ledger'[Len(ledger) + 1].call = d
  BY DEF Commit, client
<1>2. \A c \in Calls : /\ Ok(c, First)' = Ok(c, First)
                       /\ Good(c, First)' = Good(c, First)
  BY <1>1 DEF Ok, Good
<1>3. Good(d, First) /\ \A i \in 1 .. Len(ledger) : ledger[i].call # d
  BY <1>1, EndorserAssumption DEF OnceInv, CallInv
<1>4. \A i \in 1 .. Len(ledger') : i \in 1 .. Len(ledger) \/ i = Len(ledger) + 1
  BY <1>1
<1>5. ASSUME NEW c \in Calls, pc[c] \in {"idle", "propose", "submit"} \/ c \in sent'
      PROVE  \A i \in 1 .. Len(ledger') : ledger'[i].call # c
  <2>1. c # d /\ \A i \in 1 .. Len(ledger) : ledger[i].call # c
    BY <1>1, <1>5 DEF OnceInv
  <2> QED BY <1>1, <1>4, <2>1
<1>6. ASSUME NEW i \in 1 .. Len(ledger'), ledger'[i].call \in Calls
      PROVE  /\ Good(ledger'[i].call, First)
             /\ \A j \in 1 .. Len(ledger') : ledger'[j].call = ledger'[i].call => j = i
  <2>1. CASE i = Len(ledger) + 1
    BY <1>1, <1>3, <1>4, <2>1
  <2>2. CASE i \in 1 .. Len(ledger)
    <3>1. ledger'[i] = ledger[i] /\ ledger[i].call # d
      BY <1>1, <1>3, <2>2
    <3> QED BY <1>1, <1>4, <1>6, <2>2, <3>1 DEF OnceInv
  <2> QED BY <1>4, <2>1, <2>2
<1> QED BY <1>1, <1>2, <1>5, <1>6 DEF OnceInv

\* Every step keeps it so.
LEMMA NextOnce == IInv /\ OnceInv /\ [Next]_vars => OnceInv'
<1> SUFFICES ASSUME IInv, OnceInv, [Next]_vars PROVE OnceInv'
  OBVIOUS
<1>1. Grows
  BY NextGrows
<1>2. CASE UNCHANGED <<client, sent, ledger>>
  <2>1. \A c \in Calls : Good(c, First) => Good(c, First)' /\ (Ok(c, First) => Ok(c, First)')
    BY <1>1, GoodKept, OkKept, EndorserAssumption
  <2>2. \A c \in Calls : pc[c] = "submit" \/ c \in sent => Good(c, First)
    BY EndorserAssumption DEF IInv, CallInv
  <2> QED BY <1>2, <2>1, <2>2 DEF OnceInv, client
<1>3. \/ UNCHANGED <<client, sent, ledger>>
      \/ \E d \in Calls, r \in Requests : Open(d, r)
      \/ \E d \in Calls : Endorsed(d) \/ Submit(d) \/ ClientFails(d) \/ Commit(d)
  BY DEF Next, vars, Quiet, Start, Sync, WaitForReady, Close, Exit, Refuse, OpenStore,
         ProcessProposal, LogNoArgs
<1> QED BY <1>1, <1>2, <1>3, ClientOnce, CommitOnce

-----------------------------------------------------------------------------
\* The world state after a commit.
LEMMA CommitValue ==
  ASSUME IInv, NEW d \in Calls, Commit(d), NEW k
  PROVE  Value(k, Len(ledger))' = IF /\ Committable(d)
                                     /\ req[d].fn = "set" /\ req[d].key = k
                                  THEN req[d].val ELSE Value(k, Len(ledger))
<1> DEFINE n == Len(ledger)
<1> USE DEF IInv, TypeOK
<1>1. /\ n \in Nat /\ Len(ledger') = n + 1 /\ req' = req
      /\ \A i \in 1 .. n : ledger'[i] = ledger[i]
      /\ ledger'[n + 1] = [call |-> d, valid |-> Committable(d)]
  BY DEF Commit, client
<1>2. \A i \in 1 .. n + 1 : i \in 1 .. n \/ i = n + 1
  BY <1>1
<1>3. CASE Committable(d) /\ req[d].fn = "set" /\ req[d].key = k
  <2>1. n + 1 \in Writes(k, Len(ledger))'
    BY <1>1, <1>3 DEF Writes
  <2>2. LastWrite(k, Len(ledger))' = n + 1
    <3>1. /\ Writes(k, Len(ledger))' \subseteq 1 .. n + 1
          /\ Writes(k, Len(ledger))' \cup {0} \in SUBSET Nat
          /\ \A i \in Writes(k, Len(ledger))' \cup {0} : i <= n + 1
      BY <1>1 DEF Writes
    <3>2. PICK S : S = Writes(k, Len(ledger))' \cup {0}
      OBVIOUS
    <3>3. Max(S) \in S /\ \A i \in S : i <= Max(S)
      BY <1>1, <2>1, <3>1, <3>2, MaxNat
    <3>4. n + 1 \in S /\ Max(S) \in Nat /\ Max(S) <= n + 1
      BY <2>1, <3>1, <3>2, <3>3
    <3>5. Max(S) = n + 1
      BY <1>1, <3>3, <3>4
    <3> QED BY <3>2, <3>5 DEF LastWrite
  <2> QED BY <1>1, <1>3, <2>1, <2>2 DEF Value
<1>4. CASE ~(Committable(d) /\ req[d].fn = "set" /\ req[d].key = k)
  <2>1. Writes(k, Len(ledger))' = Writes(k, Len(ledger))
    BY <1>1, <1>2, <1>4 DEF Writes
  <2>2. LastWrite(k, Len(ledger))' = LastWrite(k, Len(ledger))
    BY <2>1 DEF LastWrite
  <2>3. Writes(k, n) # {} => LastWrite(k, n) \in 1 .. n
    <3> SUFFICES ASSUME NEW i \in Writes(k, n) PROVE LastWrite(k, n) \in 1 .. n
      OBVIOUS
    <3> QED BY <1>1, WritesFacts
  <2> QED BY <1>1, <1>4, <2>1, <2>2, <2>3 DEF Value
<1> QED BY <1>3, <1>4

\* The world states a key has been through after a commit.
LEMMA CommitPast ==
  ASSUME IInv, NEW d \in Calls, Commit(d), NEW k \in Keys
  PROVE  Past'[k] = Past[k] \cup {Value(k, Len(ledger))'}
<1>1. Len(ledger) \in Nat /\ Len(ledger') = Len(ledger) + 1 /\ Grows
  BY NextGrows DEF Commit, IInv, TypeOK, Next
<1>2. PICK n \in Nat : n = Len(ledger)
  BY <1>1
<1>3. \A h \in 0 .. n : Value(k, h)' = Value(k, h)
  BY <1>1, <1>2, PrefixKept
<1>4. 0 .. n + 1 = (0 .. n) \cup {n + 1}
  OBVIOUS
<1>5. Past'[k] = {Value(k, h)' : h \in 0 .. n + 1}
  BY <1>1, <1>2 DEF Past
<1>6. Past[k] = {Value(k, h) : h \in 0 .. n}
  BY <1>2 DEF Past
<1>7. Value(k, Len(ledger))' = Value(k, n + 1)'
  BY <1>1, <1>2
<1> QED BY <1>3, <1>4, <1>5, <1>6, <1>7

\* Before any call the store is empty.
LEMMA KVInit == Init => KV!Init
<1> SUFFICES ASSUME Init PROVE KV!Init
  OBVIOUS
<1>1. Len(ledger) = Genesis /\ \A i \in 1 .. Genesis : ~ledger[i].valid /\ ledger[i].call = None
  BY EndorserAssumption DEF Init
<1>2. \A k : \A h \in 0 .. Genesis : Value(k, h) = None
  BY <1>1, EndorserAssumption DEF Value, Writes
<1>3. Db = [k \in Keys |-> None] /\ Past = [k \in Keys |-> {None}]
  BY <1>1, <1>2, EndorserAssumption DEF Db, Past
<1>4. Got = [c \in Calls |-> {}]
  BY EndorserAssumption DEF Init, Got
<1>5. Effect = [c \in Calls |-> "none"]
  BY <1>1, EndorserAssumption DEF Effect, Applied, Rejected
<1> QED BY <1>3, <1>4, <1>5 DEF KV!Init, Init

\* Without a new block the store stays and no call takes effect.
LEMMA SameLedger ==
  ASSUME IInv, [Next]_vars, UNCHANGED ledger
  PROVE  UNCHANGED <<Db, Past, Effect>>
<1>1. Len(ledger) \in Nat /\ Len(ledger') = Len(ledger) /\ Grows
  BY NextGrows DEF IInv, TypeOK
<1>2. \A k : \A h \in 0 .. Len(ledger) : Value(k, h)' = Value(k, h)
  BY <1>1, PrefixKept
<1>3. Db' = Db
  BY <1>1, <1>2 DEF Db
<1>4. Past' = Past
  <2>1. ASSUME NEW k \in Keys
        PROVE  {Value(k, h)' : h \in 0 .. Len(ledger)} = {Value(k, h) : h \in 0 .. Len(ledger)}
    BY <1>2
  <2> QED BY <1>1, <2>1 DEF Past
<1>5. Effect' = Effect
  BY DEF Effect, Applied, Rejected
<1> QED BY <1>3, <1>4, <1>5

\* A response that is no success answers nothing, and one that is stays.
LEMMA SameGot ==
  ASSUME IInv, [Next]_vars,
         \A c \in Calls : reply'[c][First] = reply[c][First] \/ ~Ok(c, First)'
  PROVE  Got' = Got
<1>1. \A c \in Calls : (reply[c][First] # None /\ Ok(c, First)) =>
                         reply'[c][First] = reply[c][First]
  BY NextGrows, EndorserAssumption DEF Grows
<1>2. ASSUME NEW c \in Calls
      PROVE  (IF reply'[c][First] # None /\ Ok(c, First)'
              THEN {reply'[c][First].payload} ELSE {})
           = (IF reply[c][First] # None /\ Ok(c, First)
              THEN {reply[c][First].payload} ELSE {})
  BY <1>1 DEF Ok
<1> QED BY <1>2 DEF Got

-----------------------------------------------------------------------------
\* A call that is made is a call of the store.
LEMMA KVOpen ==
  ASSUME IInv, OnceInv, NEW c \in Calls, NEW r \in Requests, Open(c, r)
  PROVE  KV!Open(c)
<1>1. UNCHANGED <<Db, Past, Effect>>
  BY SameLedger DEF Open, Next
<1>2. Got' = Got
  BY DEF Open, Got, Ok
<1>3. req[c] = None /\ req' = [req EXCEPT ![c] = r]
  BY DEF Open, OnceInv
<1> QED BY <1>1, <1>2, <1>3 DEF KV!Open

\* The first endorser's answer is the store's.
LEMMA KVAnswer ==
  ASSUME IInv, OnceInv, NEW c \in Calls, ProcessProposal(First, c)
  PROVE  KV!Answer(c) \/ UNCHANGED <<req, Db, Past, Got, Effect>>
<1> USE DEF IInv, TypeOK
<1>1. [Next]_vars /\ UNCHANGED <<ledger, req>>
  BY EndorserAssumption DEF ProcessProposal, Next, client
<1>2. UNCHANGED <<Db, Past, Effect>>
  BY <1>1, SameLedger
<1>3. PICK r \in Requests, h \in 0 .. Len(ledger) :
        /\ r = req[c] /\ h = store[c][First] /\ r \in Request
        /\ r.fn \in {"get", "set", "usage"}
        /\ reply' = [reply EXCEPT ![c][First] = Execute(r, h)]
        /\ reply[c][First] = None
  <2>1. req[c] \in Requests /\ req[c] \in Request /\ req[c].fn # "none"
    BY EndorserAssumption DEF ProcessProposal, Executing, CallInv
  <2>2. store[c][First] \in 0 .. Len(ledger)
    BY EndorserAssumption DEF ProcessProposal, Executing, AnswerInv
  <2> QED BY <2>1, <2>2 DEF ProcessProposal, Executing, Respond, Request
<1>4. Got[c] = {} /\ Effect[c] = "none" /\ req[c] # None
  <2>1. \A i \in 1 .. Len(ledger) : ledger[i].call # c
    BY <1>3 DEF OnceInv, Good
  <2> QED BY <1>3, <2>1, EndorserAssumption DEF Got, Effect, Applied, Rejected
<1>5. \A b \in Calls : reply'[b][First] = IF b = c THEN Execute(r, h) ELSE reply[b][First]
  BY <1>3, EndorserAssumption
<1>6. CASE r.fn = "usage" \/ Execute(r, h) = None
  <2>1. Execute(r, h) # None => Execute(r, h).status = 400
    BY <1>6 DEF Execute, Answer
  <2>2. reply'[c][First] = reply[c][First] \/ ~Ok(c, First)'
    <3>1. reply'[c][First] = Execute(r, h)
      BY <1>5
    <3>2. CASE Execute(r, h) = None
      BY <1>3, <3>1, <3>2
    <3>3. CASE Execute(r, h) # None
      <4>1. reply'[c][First].status = 400
        BY <2>1, <3>1, <3>3
      <4>2. 400 \notin 200 .. 399
        OBVIOUS
      <4> QED BY <4>1, <4>2 DEF Ok
    <3> QED BY <3>2, <3>3
  <2>3. Got' = Got
    BY <1>1, <1>5, <2>2, SameGot
  <2> QED BY <1>1, <1>2, <2>3
<1>7. CASE r.fn \in {"get", "set"} /\ Execute(r, h) # None
  <2>1. Execute(r, h).status = 200
    BY <1>7 DEF Execute, Answer
  <2>2. Ok(c, First)'
    BY <1>5, <2>1 DEF Ok
  <2>3. Got' = [Got EXCEPT ![c] = {Execute(r, h).payload}]
    BY <1>5, <1>7, <2>2 DEF Got, Ok
  <2>4. CASE r.fn = "set"
    <3>1. Execute(r, h).payload = r.val
      BY <2>4 DEF Execute, Answer
    <3> QED BY <1>1, <1>2, <1>3, <1>4, <2>3, <2>4, <3>1 DEF KV!Answer
  <2>5. CASE r.fn = "get"
    <3>1. Execute(r, h).payload = Value(r.key, h)
      BY <2>5 DEF Execute, Answer
    <3>2. Value(r.key, h) \in Past[r.key]
      BY <1>3 DEF Past, Request
    <3> QED BY <1>1, <1>2, <1>3, <1>4, <2>3, <2>5, <3>1, <3>2 DEF KV!Answer
  <2> QED BY <1>7, <2>4, <2>5
<1> QED BY <1>3, <1>6, <1>7

\* The effect of a commit.
LEMMA CommitEffect ==
  ASSUME IInv, OnceInv, NEW c \in Calls, Commit(c)
  PROVE  /\ Effect[c] = "none"
         /\ Effect' = [Effect EXCEPT ![c] = IF Committable(c) THEN "applied" ELSE "rejected"]
<1> USE DEF IInv, TypeOK
<1> DEFINE n == Len(ledger)
<1>1. /\ n \in Nat /\ Len(ledger') = n + 1
      /\ \A i \in 1 .. n : ledger'[i] = ledger[i] /\ ledger[i].call # c
      /\ ledger'[n + 1] = [call |-> c, valid |-> Committable(c)]
  BY DEF Commit, OnceInv
<1>2. \A i \in 1 .. n + 1 : i \in 1 .. n \/ i = n + 1
  BY <1>1
<1>3. n + 1 \in 1 .. n + 1 /\ \A i \in 1 .. n : i \in 1 .. n + 1
  BY <1>1
<1>4. Committable(c) \in BOOLEAN /\ ledger'[n + 1].valid = Committable(c)
      /\ ledger'[n + 1].call = c
  BY <1>1 DEF Committable
<1>5. Effect[c] = "none"
  BY <1>1 DEF Effect, Applied, Rejected
<1>6. Applied(c)' <=> Committable(c)
  BY <1>1, <1>2, <1>3, <1>4 DEF Applied
<1>7. Rejected(c)' <=> ~Committable(c)
  BY <1>1, <1>2, <1>3, <1>4 DEF Rejected
<1>8. ASSUME NEW b \in Calls \ {c}
      PROVE  (Applied(b)' <=> Applied(b)) /\ (Rejected(b)' <=> Rejected(b))
  BY <1>1, <1>2, <1>3, <1>4 DEF Applied, Rejected
<1> QED BY <1>5, <1>6, <1>7, <1>8 DEF Effect

\* The present state is one of those a key has been through.
LEMMA PresentIsPast ==
  ASSUME IInv, NEW k \in Keys
  PROVE  Value(k, Len(ledger)) \in Past[k]
<1>1. PICK n \in Nat : n = Len(ledger)
  BY DEF IInv, TypeOK
<1>2. Value(k, n) \in {Value(k, h) : h \in 0 .. n}
  OBVIOUS
<1> QED BY <1>1, <1>2 DEF Past

\* A commit is the effect of its call on the store.
LEMMA KVCommit ==
  ASSUME IInv, OnceInv, NEW c \in Calls, Commit(c)
  PROVE  KV!ApplySet(c) \/ KV!ApplyGet(c) \/ KV!Reject(c)
<1> USE DEF IInv, TypeOK
<1>1. /\ c \in sent /\ UNCHANGED <<req, reply>> /\ Ok(c, First) /\ Good(c, First)
      /\ req[c].cmd = "invoke" /\ req[c] \in Request /\ Len(ledger) \in Nat
  <2>1. c \in sent /\ UNCHANGED <<req, reply>> /\ pc[c] # "idle"
    BY DEF Commit, client, OnceInv
  <2> QED BY <2>1, EndorserAssumption DEF OnceInv, CallInv
<1>2. PICK r \in Request, h \in 0 .. Len(ledger) :
        /\ r = req[c] /\ h = store[c][First] /\ reply[c][First] = Execute(r, h)
        /\ r.fn # "none"
  <2>1. store[c][First] # None /\ req[c].fn # "none"
        /\ reply[c][First] = Execute(req[c], store[c][First])
    BY <1>1, EndorserAssumption DEF AnswerInv
  <2>2. store[c][First] \in 0 .. Len(ledger)
    BY <2>1, EndorserAssumption DEF AnswerInv
  <2> QED BY <1>1, <2>1, <2>2
<1>3. r.fn \in {"get", "set"}
  BY <1>1, <1>2 DEF Request, Execute, Answer, Ok
<1>4. Got' = Got /\ Got[c] = {reply[c][First].payload}
  BY <1>1 DEF Got, Ok, Good
<1>5. KV!MayApply(c)
  BY <1>1, <1>4, CommitEffect, EndorserAssumption DEF KV!MayApply
<1>6. CASE Committable(c) /\ r.fn = "set"
  <2>1. Db' = [Db EXCEPT ![req[c].key] = req[c].val]
    BY <1>2, <1>6, CommitValue DEF Db
  <2>2. Past' = [Past EXCEPT ![req[c].key] = @ \cup {req[c].val}]
    <3>1. ASSUME NEW k \in Keys
          PROVE  Past'[k] = IF k = req[c].key THEN Past[k] \cup {req[c].val} ELSE Past[k]
      <4>1. Past'[k] = Past[k] \cup {Value(k, Len(ledger))'}
        BY CommitPast
      <4>2. Value(k, Len(ledger))' = IF k = req[c].key THEN req[c].val
                                     ELSE Value(k, Len(ledger))
        BY <1>2, <1>6, CommitValue
      <4> QED BY <4>1, <4>2, PresentIsPast
    <3> QED BY <3>1 DEF Past
  <2> QED BY <1>1, <1>2, <1>4, <1>5, <1>6, <2>1, <2>2, CommitEffect DEF KV!ApplySet
<1>7. CASE ~(Committable(c) /\ r.fn = "set")
  <2>1. \A k \in Keys : Value(k, Len(ledger))' = Value(k, Len(ledger))
    BY <1>2, <1>7, CommitValue
  <2>2. Db' = Db
    BY <2>1 DEF Db
  <2>3. Past' = Past
    <3>1. ASSUME NEW k \in Keys PROVE Past'[k] = Past[k]
      <4>1. Past'[k] = Past[k] \cup {Value(k, Len(ledger))'}
        BY CommitPast
      <4> QED BY <2>1, <4>1, PresentIsPast
    <3> QED BY <3>1 DEF Past
  <2>4. CASE ~Committable(c)
    BY <1>1, <1>4, <1>5, <2>2, <2>3, <2>4, CommitEffect DEF KV!Reject
  <2>5. CASE Committable(c)
    <3>1. r.fn = "get"
      BY <1>3, <1>7, <2>5
    <3>2. reply[c][First].payload = Value(r.key, h) /\ reply[c][First].reads = Version(r.key, h)
      BY <1>2, <3>1 DEF Execute, Answer
    <3>3. Version(r.key, h) # None
      BY <1>2, WritesFacts, EndorserAssumption
    <3>4. Version(r.key, h) = Version(r.key, Len(ledger))
      BY <1>2, <2>5, <3>2, <3>3 DEF Committable
    <3>5. Value(r.key, h) = Value(r.key, Len(ledger))
      <4>1. Writes(r.key, h) = Writes(r.key, Len(ledger))
        BY <1>1, <1>2, <3>4, SameVersion
      <4> QED BY <4>1 DEF Value, LastWrite
    <3>6. Got[c] = {Db[req[c].key]}
      BY <1>2, <1>4, <3>2, <3>5 DEF Db, Request
    <3> QED BY <1>1, <1>2, <1>4, <1>5, <2>2, <2>3, <2>5, <3>1, <3>6, CommitEffect DEF KV!ApplyGet
  <2> QED BY <2>4, <2>5
<1> QED BY <1>6, <1>7

\* Every step is a step of the store, or none.
LEMMA KVStep == IInv /\ OnceInv /\ [Next]_vars => [KV!Next]_(KV!vars)
<1> SUFFICES ASSUME IInv, OnceInv, [Next]_vars PROVE [KV!Next]_(KV!vars)
  OBVIOUS
<1>1. ASSUME NEW c \in Calls, NEW r \in Requests, Open(c, r) PROVE KV!Next
  BY <1>1, KVOpen DEF KV!Next
<1>2. ASSUME NEW c \in Calls, Commit(c) PROVE KV!Next
  BY <1>2, KVCommit DEF KV!Next
<1>3. ASSUME NEW c \in Calls, ProcessProposal(First, c) PROVE [KV!Next]_(KV!vars)
  BY <1>3, KVAnswer DEF KV!Next, KV!vars
<1>4. CASE /\ UNCHANGED <<ledger, req>>
           /\ \A c \in Calls : ~ProcessProposal(First, c)
  <2>1. \A c \in Calls : reply'[c][First] = reply[c][First] \/ ~Ok(c, First)'
    BY <1>4, NewReply, RefusedType, EndorserAssumption DEF Ok
  <2> QED BY <1>4, <2>1, SameLedger, SameGot DEF KV!vars
<1>5. \/ UNCHANGED <<ledger, req>>
      \/ \E c \in Calls : Commit(c) \/ \E r \in Requests : Open(c, r)
  BY DEF Next, vars, client, Quiet, Start, Sync, WaitForReady, Close, Exit, Refuse,
         OpenStore, ProcessProposal, LogNoArgs, Endorsed, Submit, ClientFails
<1> QED BY <1>1, <1>2, <1>3, <1>4, <1>5

\* The endorsers, the clients and the committer implement one key-value store.
THEOREM ImplementsKVStoreHolds == Spec => ImplementsKVStore
<1>1. Spec => [](IInv /\ OnceInv)
  <2>1. IInv /\ OnceInv /\ [Next]_vars /\ IInv' => OnceInv'
    BY NextOnce
  <2> QED BY <2>1, InitOnce, Invariance, PTL DEF Spec
<1> QED BY <1>1, KVInit, KVStep, PTL DEF Spec, ImplementsKVStore, KV!Spec
=============================================================================
