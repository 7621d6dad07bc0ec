------------------------------ MODULE HtlcProofs ------------------------------
(***************************************************************************)
(* Proofs about Htlc for every value of its constants.                     *)
(***************************************************************************)
EXTENDS HtlcProperties, Sums

IsSpend(c) == IsOp(c, "claim") \/ IsOp(c, "reclaim")

\* What a view has set up by the time it has left "build".
Built(c) == /\ IsOp(c, "lock") => deadline[c] # None
            /\ ~IsOp(c, "lock") => target[c] # None
\* What it has collected by the time its transaction may be ordered.
Sealed(c) == /\ Built(c) /\ signed[c] = Endorsers
             /\ IsOp(c, "lock") /\ req[c].remote => c \in acked

\* How far the view of c has come.
ViewInv(c) ==
  /\ pc[c] = "idle" => /\ req[c] = None /\ target[c] = None
                       /\ signed[c] = {} /\ chain[c] = "none"
  /\ pc[c] # "idle" => req[c] \in Requests
  /\ pc[c] \in {"exchange", "build"} => IsOp(c, "lock") /\ chain[c] = "none"
  /\ pc[c] = "collect" => Built(c) /\ chain[c] = "none"
  /\ pc[c] \in {"ready", "ordered"} => Sealed(c)
  /\ chain[c] # "none" => Sealed(c) /\ pc[c] \in {"ordered", "ok", "error"}

\* A claim or reclaim has found a committed lock of its own party, and who has
\* signed a reclaim has seen the deadline pass.
TargetInv(c) ==
  target[c] # None =>
    /\ IsSpend(c) /\ target[c] \in Valid("lock")
    /\ IsOp(c, "claim") => /\ req[target[c]].to = req[c].acct
                           /\ Knows(req[c].acct, Hash(target[c]))
    /\ IsOp(c, "reclaim") => /\ req[target[c]].acct = req[c].acct
                             /\ \A e \in signed[c] : Clock(e) >= deadline[target[c]]

SpentOnce ==
  \A l \in Calls : \A c, d \in Spends(l) : c = d

IInv == /\ TypeOK /\ SpentOnce /\ LockAnswersAreTrue
        /\ \A c \in Calls : ViewInv(c) /\ TargetInv(c)

-----------------------------------------------------------------------------
\* The fields a request has.
LEMMA RequestType ==
  ASSUME NEW c \in Calls, req[c] \in Requests
  PROVE  /\ req[c] # None /\ req[c].at \in Nodes
         /\ req[c].acct \in Accounts /\ req[c].net \in Nets
         /\ \/ /\ IsOp(c, "lock") /\ ~IsSpend(c)
               /\ req[c].to \in Accounts /\ req[c].dur \in Nat /\ req[c].remote \in BOOLEAN
               /\ req[c].qty \in Nat
            \/ ~IsOp(c, "lock") /\ IsSpend(c)
  BY HtlcAssumption DEF Request, IsOp, IsSpend

\* No call has been made at the start.
LEMMA InitInv == Init => IInv
  BY HtlcAssumption
  DEF Init, IInv, TypeOK, Running, SpentOnce, Spends, Valid, LockAnswersAreTrue,
      ViewInv, TargetInv, IsOp

-----------------------------------------------------------------------------
\* The one lock that a claim has matched is a call of the model.
LEMMA MatchedInCalls ==
  ASSUME NEW r, Cardinality(Claimable(r)) = 1
  PROVE  (CHOOSE l \in Claimable(r) : TRUE) \in Claimable(r) \cap Calls
<1>1. Claimable(r) # {}
  BY FS_EmptySet
<1>2. Claimable(r) \subseteq Calls
  BY DEF Claimable, Known, Valid
<1> QED BY <1>1, <1>2

\* Opening a call keeps the types.
LEMMA OpenType ==
  ASSUME IInv, NEW c \in Calls, NEW r \in Requests, Open(c, r)
  PROVE  TypeOK'
<1>1. pc' \in [Calls -> {"idle", "ok", "error"} \cup Running]
  BY DEF Open, OpenLock, OpenClaim, OpenReclaim, IInv, TypeOK, Running
<1>2. target' \in [Calls -> Calls \cup {None}]
  <2>1. CASE OpenLock(c, r)
    BY <2>1 DEF OpenLock, IInv, TypeOK
  <2>2. CASE OpenClaim(c, r)
    <3>1. Cardinality(Claimable(r)) = 1 =>
            (CHOOSE l \in Claimable(r) : TRUE) \in Calls
      BY MatchedInCalls
    <3> QED BY <2>2, <3>1 DEF OpenClaim, IInv, TypeOK
  <2>3. CASE OpenReclaim(c, r)
    BY <2>3 DEF OpenReclaim, Expired, Known, Valid, IInv, TypeOK
  <2> QED BY <2>1, <2>2, <2>3 DEF Open
<1> QED BY <1>1, <1>2 DEF Open, IInv, TypeOK

\* The deadline of a lock is a time.
LEMMA BuildType ==
  ASSUME IInv, NEW c \in Calls, Build(c)
  PROVE  TypeOK' /\ deadline'[c] \in Nat
<1>1. req[c] \in Requests /\ IsOp(c, "lock")
  BY DEF Build, IInv, ViewInv
<1>2. req[c].at \in Nodes /\ req[c].dur \in Nat
  BY <1>1, RequestType DEF IsSpend, IsOp
<1>3. Clock(req[c].at) + req[c].dur \in Nat
  BY <1>2, HtlcAssumption DEF Clock, IInv, TypeOK
<1> QED BY <1>3 DEF Build, script, IInv, TypeOK, Running

\* Every step keeps the types.
LEMMA NextType == IInv /\ [Next]_vars => TypeOK'
<1> SUFFICES ASSUME IInv, [Next]_vars PROVE TypeOK'
  OBVIOUS
<1> USE DEF IInv, TypeOK
<1>1. ASSUME NEW c \in Calls, NEW r \in Requests, Open(c, r) PROVE TypeOK'
  BY <1>1, OpenType
<1>2. ASSUME NEW c \in Calls, RespondExchange(c) \/ ReceiveIdentities(c) PROVE TypeOK'
  BY <1>2 DEF RespondExchange, ReceiveIdentities, script, Running
<1>3. ASSUME NEW c \in Calls, Build(c) PROVE TypeOK'
  BY <1>3, BuildType
<1>4. ASSUME NEW c \in Calls, Accept(c) PROVE TypeOK'
  BY <1>4 DEF Accept, script
<1>5. ASSUME NEW c \in Calls, NEW e \in Endorsers, Endorse(c, e) PROVE TypeOK'
  BY <1>5 DEF Endorse, script
<1>6. ASSUME NEW c \in Calls, Collected(c) \/ Order(c) PROVE TypeOK'
  BY <1>6 DEF Collected, Order, script, Running
<1>7. ASSUME NEW c \in Calls, Commit(c) PROVE TypeOK'
  BY <1>7 DEF Commit, script
<1>8. ASSUME NEW c \in Calls, NEW n \in Nodes, CommitEvent(n, c) PROVE TypeOK'
  BY <1>8 DEF CommitEvent, script
<1>9. ASSUME NEW c \in Calls, Finality(c) \/ Fails(c) PROVE TypeOK'
  BY <1>9 DEF Finality, Fails, script
<1>10. ASSUME NEW c \in Calls, ResponderFinality(c) \/ ResponderFails(c) PROVE TypeOK'
  BY <1>10 DEF ResponderFinality, ResponderFails, script
<1>11. CASE Tick
  BY <1>11, HtlcAssumption DEF Tick, script
<1>12. CASE Quiet \/ UNCHANGED vars
  BY <1>12 DEF Quiet, vars, script
<1> QED
  BY <1>1, <1>2, <1>3, <1>4, <1>5, <1>6, <1>7, <1>8, <1>9, <1>10, <1>11, <1>12
  DEF Next, ViewStep

-----------------------------------------------------------------------------
\* What no step undoes.
Grows ==
  /\ now' >= now
  /\ \A c \in Calls :
       /\ pc[c] # "idle" => req'[c] = req[c] /\ target'[c] = target[c]
       /\ pc[c] = "ok" => pc'[c] = "ok"
       /\ chain[c] \in {"valid", "invalid"} => chain'[c] = chain[c]
       /\ chain[c] # "none" => deadline'[c] = deadline[c] /\ chain'[c] # "none"
       /\ c \in acked => c \in acked'

\* Every step only adds: what is known, sealed or committed stays.
LEMMA NextGrows == IInv /\ [Next]_vars => Grows
<1> SUFFICES ASSUME IInv, [Next]_vars PROVE Grows
  OBVIOUS
<1> USE DEF IInv, TypeOK, Grows
<1>1. ASSUME NEW c \in Calls, NEW r \in Requests, Open(c, r) PROVE Grows
  BY <1>1 DEF Open, OpenLock, OpenClaim, OpenReclaim
<1>2. ASSUME NEW c \in Calls, RespondExchange(c) \/ ReceiveIdentities(c) PROVE Grows
  BY <1>2 DEF RespondExchange, ReceiveIdentities, script
<1>3. ASSUME NEW c \in Calls, Build(c) PROVE Grows
  BY <1>3 DEF Build, ViewInv
<1>4. ASSUME NEW c \in Calls, Accept(c) PROVE Grows
  BY <1>4 DEF Accept, script
<1>5. ASSUME NEW c \in Calls, NEW e \in Endorsers, Endorse(c, e) PROVE Grows
  BY <1>5 DEF Endorse, script
<1>6. ASSUME NEW c \in Calls, Collected(c) \/ Order(c) PROVE Grows
  BY <1>6 DEF Collected, Order, script, ViewInv, Sealed
<1>7. ASSUME NEW c \in Calls, Commit(c) PROVE Grows
  BY <1>7 DEF Commit, script
<1>8. ASSUME NEW c \in Calls, NEW n \in Nodes, CommitEvent(n, c) PROVE Grows
  BY <1>8 DEF CommitEvent, script
<1>9. ASSUME NEW c \in Calls, Finality(c) \/ Fails(c) PROVE Grows
  BY <1>9 DEF Finality, Fails, script, ViewInv, Running
<1>10. ASSUME NEW c \in Calls, ResponderFinality(c) \/ ResponderFails(c) PROVE Grows
  BY <1>10 DEF ResponderFinality, ResponderFails, script
<1>11. CASE Tick
  BY <1>11 DEF Tick, script
<1>12. CASE Quiet \/ UNCHANGED vars
  BY <1>12 DEF Quiet, vars, script
<1> QED
  BY <1>1, <1>2, <1>3, <1>4, <1>5, <1>6, <1>7, <1>8, <1>9, <1>10, <1>11, <1>12
  DEF Next, ViewStep

-----------------------------------------------------------------------------
\* What a claim or reclaim finds is a committed lock of its party.
LEMMA MatchedTarget ==
  ASSUME IInv, NEW c \in Calls, NEW r \in Requests, OpenClaim(c, r), pc'[c] = "collect"
  PROVE  r.op # "lock" /\ target'[c] # None
<1>1. pc'[c] # "error" /\ r.op = "claim"
  BY DEF OpenClaim
<1>2. Cardinality(Claimable(r)) = 1 /\ target' = [target EXCEPT ![c] = CHOOSE l \in Claimable(r) : TRUE]
  BY <1>1 DEF OpenClaim, IInv, TypeOK
<1>3. (CHOOSE l \in Claimable(r) : TRUE) \in Calls
  BY <1>2, MatchedInCalls
<1> QED BY <1>1, <1>2, <1>3, HtlcAssumption DEF IInv, TypeOK

\* Every step keeps views and transactions in order.
LEMMA NextView ==
  ASSUME IInv, [Next]_vars, NEW d \in Calls
  PROVE  ViewInv(d)'
<1> USE DEF IInv, TypeOK, ViewInv, Sealed, Built, IsOp
<1>1. ASSUME NEW c \in Calls, NEW r \in Requests, Open(c, r) PROVE ViewInv(d)'
  <2>1. CASE d # c
    BY <1>1, <2>1 DEF Open, OpenLock, OpenClaim, OpenReclaim
  <2>2. CASE d = c
    <3>1. /\ req'[c] = r /\ pc'[c] \in {"exchange", "collect", "error"}
          /\ chain'[c] = "none"
      BY <1>1, <2>2 DEF Open, OpenLock, OpenClaim, OpenReclaim
    <3>2. pc'[c] = "exchange" => r.op = "lock"
      BY <1>1, <2>2 DEF Open, OpenLock, OpenClaim, OpenReclaim
    <3>3. pc'[c] = "collect" => r.op # "lock" /\ target'[c] # None
      <4>1. CASE OpenLock(c, r)
        BY <4>1 DEF OpenLock
      <4>2. CASE OpenClaim(c, r)
        BY <4>2, MatchedTarget
      <4>3. CASE OpenReclaim(c, r)
        BY <4>3, HtlcAssumption DEF OpenReclaim, Expired, Known, Valid
      <4> QED BY <1>1, <4>1, <4>2, <4>3 DEF Open
    <3>4. req'[c] \in Requests /\ req'[c] # None
      BY <3>1, HtlcAssumption
    <3> QED BY <2>2, <3>1, <3>2, <3>3, <3>4
  <2> QED BY <2>1, <2>2
<1>2. ASSUME NEW c \in Calls, RespondExchange(c) \/ ReceiveIdentities(c) PROVE ViewInv(d)'
  BY <1>2 DEF RespondExchange, ReceiveIdentities, script
<1>3. ASSUME NEW c \in Calls, Build(c) PROVE ViewInv(d)'
  <2>1. deadline'[c] # None
    BY <1>3, BuildType, HtlcAssumption
  <2>2. CASE d = c
    BY <1>3, <2>1, <2>2 DEF Build
  <2>3. CASE d # c
    BY <1>3, <2>3 DEF Build
  <2> QED BY <2>2, <2>3
<1>4. ASSUME NEW c \in Calls, Accept(c) PROVE ViewInv(d)'
  BY <1>4 DEF Accept, script
<1>5. ASSUME NEW c \in Calls, NEW e \in Endorsers, Endorse(c, e) PROVE ViewInv(d)'
  BY <1>5 DEF Endorse, script
<1>6. ASSUME NEW c \in Calls, Collected(c) \/ Order(c) PROVE ViewInv(d)'
  BY <1>6 DEF Collected, Order, script
<1>7. ASSUME NEW c \in Calls, Commit(c) PROVE ViewInv(d)'
  BY <1>7 DEF Commit, script
<1>8. ASSUME NEW c \in Calls, NEW n \in Nodes, CommitEvent(n, c) PROVE ViewInv(d)'
  BY <1>8 DEF CommitEvent, script
<1>9. ASSUME NEW c \in Calls, Finality(c) \/ Fails(c) PROVE ViewInv(d)'
  BY <1>9 DEF Finality, Fails, script, Running
<1>10. ASSUME NEW c \in Calls, ResponderFinality(c) \/ ResponderFails(c) PROVE ViewInv(d)'
  BY <1>10 DEF ResponderFinality, ResponderFails, script
<1>11. CASE Tick \/ Quiet \/ UNCHANGED vars
  BY <1>11 DEF Tick, Quiet, vars, script
<1> QED
  BY <1>1, <1>2, <1>3, <1>4, <1>5, <1>6, <1>7, <1>8, <1>9, <1>10, <1>11
  DEF Next, ViewStep

-----------------------------------------------------------------------------
\* A committed lock stays as it is.
LEMMA LockKept ==
  ASSUME IInv, Grows, NEW l \in Valid("lock")
  PROVE  /\ l \in Calls /\ l \in Valid("lock")' /\ req'[l] = req[l] /\ Hash(l)' = Hash(l)
         /\ deadline'[l] = deadline[l] /\ deadline[l] \in Nat
<1>1. l \in Calls /\ chain[l] = "valid" /\ IsOp(l, "lock")
  BY DEF Valid
<1>2. pc[l] # "idle" /\ deadline[l] # None
  BY <1>1 DEF IInv, ViewInv, Sealed, Built
<1>3. req'[l] = req[l] /\ chain'[l] = "valid" /\ deadline'[l] = deadline[l]
  BY <1>1, <1>2 DEF Grows
<1> QED BY <1>1, <1>2, <1>3 DEF Valid, IsOp, Hash, IInv, TypeOK

\* Who knows a pre-image never forgets it.
LEMMA KnowsKept ==
  ASSUME IInv, Grows, NEW a, NEW s, Knows(a, s)
  PROVE  Knows(a, s)'
<1>1. \A c \in Calls : IsOp(c, "claim") /\ chain[c] \in {"valid", "invalid"} =>
        req'[c] = req[c] /\ chain'[c] = chain[c]
  BY DEF Grows, IInv, ViewInv
<1>2. Public \subseteq Public'
  BY <1>1 DEF Public, IsOp
<1>3. Answered(s) => Answered(s)' /\ req'[s] = req[s]
  BY DEF Answered, Grows, IsOp
<1> QED BY <1>2, <1>3 DEF Knows

\* What a claim or reclaim has found stays as it was found.
LEMMA TargetKept ==
  ASSUME IInv, TypeOK', Grows, NEW d \in Calls, target[d] # None, signed'[d] = signed[d]
  PROVE  TargetInv(d)'
<1>1. pc[d] # "idle" /\ TargetInv(d)
  BY DEF IInv, ViewInv
<1>2. req'[d] = req[d] /\ target'[d] = target[d]
  BY <1>1 DEF Grows
<1>3. target[d] \in Valid("lock") /\ IsSpend(d)
  BY <1>1 DEF TargetInv
<1>4. /\ target[d] \in Valid("lock")' /\ req'[target[d]] = req[target[d]]
      /\ Hash(target[d])' = Hash(target[d])
      /\ deadline'[target[d]] = deadline[target[d]] /\ deadline[target[d]] \in Nat
  <2>1. PICK l \in Valid("lock") : l = target[d]
    BY <1>3
  <2>2. /\ l \in Valid("lock")' /\ req'[l] = req[l] /\ Hash(l)' = Hash(l)
        /\ deadline'[l] = deadline[l] /\ deadline[l] \in Nat
    BY LockKept
  <2>3. l = target'[d]
    BY <1>2, <2>1
  <2> QED BY <2>1, <2>2, <2>3
<1>5. ASSUME IsOp(d, "claim") PROVE Knows(req[d].acct, Hash(target[d]))'
  <2>1. PICK a, s : a = req[d].acct /\ s = Hash(target[d])
    OBVIOUS
  <2>2. Knows(a, s)
    BY <1>1, <1>3, <1>5, <2>1 DEF TargetInv
  <2>3. Knows(a, s)'
    BY <2>2, KnowsKept
  <2>4. a = req'[d].acct /\ s = Hash(target[d])'
    BY <1>2, <1>4, <2>1
  <2> QED BY <2>3, <2>4
<1>6. ASSUME NEW e \in Endorsers, Clock(e) >= deadline[target[d]]
      PROVE  Clock(e)' >= deadline[target[d]]
  <2>1. Skew[e] \in Nat /\ now \in Nat /\ now' \in Nat /\ now' >= now
    BY HtlcAssumption DEF Grows, IInv, TypeOK
  <2> QED BY <1>4, <1>6, <2>1 DEF Clock
<1>7. signed[d] \subseteq Endorsers
  BY DEF IInv, TypeOK
<1>8. /\ IsSpend(d)' /\ IsOp(d, "claim")' = IsOp(d, "claim")
      /\ IsOp(d, "reclaim")' = IsOp(d, "reclaim")
  BY <1>2, <1>3 DEF IsSpend, IsOp
<1> QED BY <1>1, <1>2, <1>3, <1>4, <1>5, <1>6, <1>7, <1>8 DEF TargetInv

\* The lock that a claim or reclaim finds in the wallet.
LEMMA OpenTarget ==
  ASSUME IInv, TypeOK', Grows, NEW c \in Calls, NEW r \in Requests, Open(c, r)
  PROVE  TargetInv(c)'
<1>1. /\ target[c] = None /\ signed'[c] = {} /\ req'[c] = r /\ r # None
      /\ target' \in [Calls -> Calls \cup {None}]
  BY HtlcAssumption DEF Open, IInv, ViewInv, TypeOK
<1>2. CASE OpenLock(c, r)
  BY <1>1, <1>2 DEF OpenLock, TargetInv
<1>3. ASSUME NEW l \in Known(r.at, r.net, r.secret), target'[c] = l
      PROVE  l \in Valid("lock")' /\ req'[l] = req[l] /\ Hash(l)' = r.secret
  <2>1. l \in Valid("lock") /\ Hash(l) = r.secret
    BY <1>3 DEF Known
  <2> QED BY <2>1, LockKept
<1>4. CASE OpenClaim(c, r)
  <2>1. CASE target'[c] = None
    BY <2>1 DEF TargetInv
  <2>2. CASE target'[c] # None
    <3>1. Cardinality(Claimable(r)) = 1 /\ target'[c] = (CHOOSE l \in Claimable(r) : TRUE)
      BY <1>1, <1>4, <2>2 DEF OpenClaim, IInv, TypeOK
    <3>2. target'[c] \in Claimable(r)
      BY <3>1, MatchedInCalls
    <3>3. target'[c] \in Known(r.at, r.net, r.secret) /\ req[target'[c]].to = r.acct
      BY <3>2 DEF Claimable
    <3>4. Knows(r.acct, r.secret)'
      BY <1>4, KnowsKept DEF OpenClaim
    <3>5. IsSpend(c)' /\ ~IsOp(c, "reclaim")'
      BY <1>1, <1>4 DEF OpenClaim, IsSpend, IsOp
    <3> QED BY <1>1, <1>3, <3>3, <3>4, <3>5 DEF TargetInv
  <2> QED BY <2>1, <2>2
<1>5. CASE OpenReclaim(c, r)
  <2>1. CASE target'[c] = None
    BY <2>1 DEF TargetInv
  <2>2. CASE target'[c] # None
    <3>1. target'[c] \in Expired(r)
      BY <1>1, <1>5, <2>2 DEF OpenReclaim, IInv, TypeOK
    <3>2. target'[c] \in Known(r.at, r.net, r.secret) /\ req[target'[c]].acct = r.acct
      BY <3>1 DEF Expired
    <3>3. IsSpend(c)' /\ ~IsOp(c, "claim")'
      BY <1>1, <1>5 DEF OpenReclaim, IsSpend, IsOp
    <3> QED BY <1>1, <1>3, <3>2, <3>3 DEF TargetInv
  <2> QED BY <2>1, <2>2
<1> QED BY <1>2, <1>4, <1>5 DEF Open

\* Who endorses a reclaim sees the deadline of its lock passed.
LEMMA EndorseTarget ==
  ASSUME IInv, TypeOK', Grows, NEW c \in Calls, NEW e \in Endorsers, Endorse(c, e)
  PROVE  TargetInv(c)'
<1>1. CASE target[c] = None
  BY <1>1 DEF Endorse, script, TargetInv
<1>2. CASE target[c] # None
  <2>1. /\ UNCHANGED <<now, req, pc, target, deadline, chain>>
        /\ signed'[c] = signed[c] \cup {e} /\ MayEndorse(c, e)
    BY DEF Endorse, script, IInv, TypeOK
  <2>2. TargetInv(c)
    BY DEF IInv
  <2>3. IsOp(c, "reclaim") => Clock(e) >= deadline[target[c]]
    BY <2>1 DEF MayEndorse, IsOp
  <2>4. Knows(req[c].acct, Hash(target[c])) => Knows(req[c].acct, Hash(target[c]))'
    BY <2>1 DEF Knows, Public, Answered, Hash, IsOp
  <2> QED BY <1>2, <2>1, <2>2, <2>3, <2>4 DEF TargetInv, IsSpend, IsOp, Valid, Clock
<1> QED BY <1>1, <1>2

\* Every step keeps targets and the clocks of reclaims in order.
LEMMA NextTarget ==
  ASSUME IInv, TypeOK', Grows, [Next]_vars, NEW d \in Calls
  PROVE  TargetInv(d)'
<1>1. CASE target[d] # None /\ signed'[d] = signed[d]
  BY <1>1, TargetKept
<1>2. CASE target'[d] = None
  BY <1>2 DEF TargetInv
<1>3. ASSUME target'[d] # None, target[d] = None \/ signed'[d] # signed[d]
      PROVE  \/ \E r \in Requests : Open(d, r)
             \/ \E e \in Endorsers : Endorse(d, e)
  BY <1>3
  DEF Next, ViewStep, vars, script, Open, RespondExchange, ReceiveIdentities, Build, Accept,
      Endorse, Collected, Order, Commit, CommitEvent, Finality, Fails, ResponderFinality,
      ResponderFails, Tick, Quiet, OpenLock, OpenClaim, OpenReclaim, IInv, TypeOK
<1> QED BY <1>1, <1>2, <1>3, OpenTarget, EndorseTarget

-----------------------------------------------------------------------------
\* A commit spends a lock that nothing has spent.
LEMMA NextSpentOnce ==
  ASSUME IInv, TypeOK', Grows, [Next]_vars
  PROVE  SpentOnce'
<1>1. \A c \in Calls : chain[c] # "none" => pc[c] # "idle" /\ req'[c] = req[c] /\ target'[c] = target[c]
  BY DEF IInv, ViewInv, Grows
<1>2. ASSUME NEW c \in Calls, Commit(c), NEW l \in Calls, NEW a \in Spends(l)', NEW b \in Spends(l)'
      PROVE  a = b
  <2>1. /\ UNCHANGED <<req, target>> /\ chain[c] = "sent"
        /\ \A d \in Calls \ {c} : chain'[d] = chain[d]
        /\ chain'[c] = "valid" => Committable(c)
    BY <1>2 DEF Commit, script, IInv, TypeOK
  <2>2. \A d \in Calls \ {c} : d \in Spends(l)' => d \in Spends(l)
    BY <2>1 DEF Spends, Valid, IsOp
  <2>3. c \in Spends(l)' => Spends(l) = {}
    BY <2>1 DEF Spends, Valid, IsOp, Committable, Locked
  <2>4. a \in Calls /\ b \in Calls
    BY DEF Spends, Valid
  <2> QED BY <2>2, <2>3, <2>4 DEF IInv, SpentOnce
<1>3. ASSUME \A c \in Calls : chain'[c] = "valid" => chain[c] = "valid", NEW l \in Calls
      PROVE  Spends(l)' \subseteq Spends(l)
  BY <1>1, <1>3 DEF Spends, Valid, IsOp
<1>4. (\E c \in Calls : Commit(c)) \/ (\A c \in Calls : chain'[c] = "valid" => chain[c] = "valid")
  BY DEF Next, ViewStep, vars, script, Open, RespondExchange, ReceiveIdentities, Build, Accept,
      Endorse, Collected, Order, CommitEvent, Finality, Fails, ResponderFinality,
      ResponderFails, Tick, Quiet, IInv, TypeOK
<1> QED BY <1>2, <1>3, <1>4 DEF IInv, SpentOnce

\* Answers follow the verdicts the nodes have heard.
LEMMA NextAnswers ==
  ASSUME IInv, TypeOK', Grows, [Next]_vars
  PROVE  LockAnswersAreTrue'
<1> SUFFICES ASSUME NEW d \in Calls, pc'[d] = "ok" \/ rsp'[d] = "done"
             PROVE  chain'[d] = "valid"
  BY DEF LockAnswersAreTrue
<1>1. CASE pc[d] = "ok" \/ rsp[d] = "done"
  BY <1>1 DEF IInv, LockAnswersAreTrue, Grows
<1>2. ASSUME pc[d] # "ok", rsp[d] # "done"
      PROVE  (Finality(d) /\ pc'[d] = "ok") \/ ResponderFinality(d)
  BY <1>2
  DEF Next, ViewStep, vars, script, Open, RespondExchange, ReceiveIdentities, Build, Accept,
      Endorse, Collected, Order, Commit, CommitEvent, Finality, Fails, ResponderFinality,
      ResponderFails, Tick, Quiet, OpenLock, OpenClaim, OpenReclaim, IInv, TypeOK
<1>3. CASE Finality(d) /\ pc'[d] = "ok"
  BY <1>3 DEF Finality, IInv, TypeOK
<1>4. CASE ResponderFinality(d) /\ pc[d] # "ok" /\ rsp[d] # "done"
  BY <1>4 DEF ResponderFinality, IInv, TypeOK
<1> QED BY <1>1, <1>2, <1>3, <1>4

-----------------------------------------------------------------------------
\* Every call keeps to the order of its view, in every reachable state.
THEOREM Invariance == Spec => []IInv
<1>1. IInv /\ [Next]_vars => IInv'
  <2> SUFFICES ASSUME IInv, [Next]_vars PROVE IInv'
    OBVIOUS
  <2>1. TypeOK' /\ Grows
    BY NextType, NextGrows
  <2> QED BY <2>1, NextView, NextTarget, NextSpentOnce, NextAnswers DEF IInv
<1> QED BY <1>1, InitInv, PTL DEF Spec

\* Every variable keeps its type.
THEOREM HtlcTypeCorrect == Spec => []TypeOK
<1>1. IInv => TypeOK
  BY DEF IInv
<1> QED BY <1>1, Invariance, PTL

\* Of the claims and reclaims of a lock, however many and however interleaved,
\* at most one commits.
THEOREM LocksEndOnceHolds == Spec => []LocksEndOnce
<1>1. IInv => LocksEndOnce
  <2> SUFFICES ASSUME IInv, NEW l \in Calls PROVE Cardinality(Spends(l)) <= 1
    BY DEF LocksEndOnce
  <2>1. CASE Spends(l) = {}
    BY <2>1, FS_EmptySet
  <2>2. CASE Spends(l) # {}
    <3>1. PICK c \in Spends(l) : TRUE
      BY <2>2
    <3>2. Spends(l) = {c}
      BY <3>1 DEF IInv, SpentOnce
    <3> QED BY <3>2, FS_Singleton
  <2> QED BY <2>1, <2>2
<1> QED BY <1>1, Invariance, PTL

\* No reclaim commits while some endorser's clock is before the deadline,
\* however fast the locker's clock runs.
THEOREM ReclaimWaitsHolds == Spec => []ReclaimWaits
<1>1. IInv => ReclaimWaits
  BY DEF IInv, ReclaimWaits, Valid, IsOp, ViewInv, Sealed, Built, TargetInv
<1> QED BY <1>1, Invariance, PTL

\* Only parties of a lock spend it, and a recipient on another node has
\* accepted it.
THEOREM LocksAreAcceptedHolds == Spec => []LocksAreAccepted
<1>1. IInv => LocksAreAccepted
  BY DEF IInv, LocksAreAccepted, Valid, IsOp, ViewInv, Sealed, Built, TargetInv
<1> QED BY <1>1, Invariance, PTL

\* What the lock, claim and reclaim endpoints and the responder report as done
\* is on the ledger.
THEOREM LockAnswersAreTrueHolds == Spec => []LockAnswersAreTrue
<1>1. IInv => LockAnswersAreTrue
  BY DEF IInv
<1> QED BY <1>1, Invariance, PTL

-----------------------------------------------------------------------------
(* The escrow.                                                             *)

\* A lock has its terms from "build" on, and there are finitely many.
DealInv ==
  /\ IsFiniteSet(Valid("lock"))
  /\ \A c \in Calls : /\ pc[c] \in {"idle", "exchange", "build"} => deadline[c] = None
                      /\ deadline[c] # None => IsOp(c, "lock")

\* No lock has terms at the start.
LEMMA InitDeal == Init => DealInv
<1> SUFFICES ASSUME Init PROVE DealInv
  OBVIOUS
<1>1. Valid("lock") = {}
  BY DEF Init, Valid, IsOp
<1> QED BY <1>1, FS_EmptySet DEF Init, DealInv

\* The steps by what they do to the terms and to the ledgers.
LEMMA StepKinds ==
  ASSUME IInv, [Next]_vars
  PROVE  \/ \E c \in Calls : Build(c) \/ Commit(c)
         \/ Tick
         \/ /\ UNCHANGED <<now, deadline>>
            /\ \A c \in Calls :
                 /\ chain'[c] \in {"valid", "invalid"} <=> chain[c] \in {"valid", "invalid"}
                 /\ chain'[c] = "valid" <=> chain[c] = "valid"
                 /\ pc'[c] \in {"idle", "exchange", "build"} =>
                      pc[c] \in {"idle", "exchange", "build"}
<1> USE DEF IInv, TypeOK
<1>1. ASSUME NEW c \in Calls, NEW r \in Requests, Open(c, r)
      PROVE  /\ UNCHANGED <<now, deadline, chain>> /\ pc[c] = "idle"
             /\ \A d \in Calls : d # c => pc'[d] = pc[d]
  BY <1>1 DEF Open, OpenLock, OpenClaim, OpenReclaim
<1>2. ASSUME NEW c \in Calls, RespondExchange(c) \/ ReceiveIdentities(c) \/ Accept(c)
      PROVE  /\ UNCHANGED <<now, deadline, chain>>
             /\ pc' = pc \/ (pc[c] = "exchange" /\ \A d \in Calls : d # c => pc'[d] = pc[d])
  BY <1>2 DEF RespondExchange, ReceiveIdentities, Accept, script
<1>3. ASSUME NEW c \in Calls, NEW e \in Endorsers, Endorse(c, e)
      PROVE  UNCHANGED <<now, deadline, chain, pc>>
  BY <1>3 DEF Endorse, script
<1>4. ASSUME NEW c \in Calls, Collected(c) \/ Order(c) \/ Finality(c) \/ Fails(c)
      PROVE  /\ UNCHANGED <<now, deadline>>
             /\ \A d \in Calls : /\ chain'[d] = chain[d] \/ (chain[d] = "none" /\ chain'[d] = "sent")
                                 /\ pc'[d] = pc[d] \/ pc'[d] \in {"ready", "ordered", "ok", "error"}
  <2>1. CASE Collected(c) \/ Finality(c)
    BY <2>1 DEF Collected, Finality, script
  <2>2. CASE Order(c)
    BY <2>2 DEF Order, script, ViewInv
  <2>3. CASE Fails(c)
    BY <2>3 DEF Fails, script, ViewInv
  <2> QED BY <1>4, <2>1, <2>2, <2>3
<1>5. ASSUME NEW c \in Calls, \/ \E n \in Nodes : CommitEvent(n, c)
                              \/ ResponderFinality(c) \/ ResponderFails(c)
      PROVE  UNCHANGED <<now, deadline, chain, pc>>
  BY <1>5 DEF CommitEvent, ResponderFinality, ResponderFails, script
<1>6. CASE Quiet \/ UNCHANGED vars
  BY <1>6 DEF Quiet, vars, script
<1> QED BY <1>1, <1>2, <1>3, <1>4, <1>5, <1>6 DEF Next, ViewStep

\* What a commit changes.
LEMMA CommitFacts ==
  ASSUME IInv, NEW c \in Calls, Commit(c)
  PROVE  /\ UNCHANGED <<now, req, deadline, target, pc>> /\ chain[c] = "sent"
         /\ \A d \in Calls : d # c => chain'[d] = chain[d]
         /\ chain'[c] = IF Committable(c) THEN "valid" ELSE "invalid"
         /\ pc[c] # "idle" /\ req[c] \in Requests /\ Sealed(c)
BY DEF Commit, script, IInv, TypeOK, ViewInv

\* Every step keeps the terms in order.
LEMMA NextDeal ==
  ASSUME IInv, DealInv, TypeOK', Grows, [Next]_vars
  PROVE  DealInv'
<1> DEFINE early == {"idle", "exchange", "build"}
<1>1. \A c \in Calls : deadline[c] # None => req'[c] = req[c]
  BY DEF DealInv, Grows
<1>2. \A c \in Calls : chain[c] # "none" => pc[c] # "idle" /\ req'[c] = req[c]
  BY DEF IInv, ViewInv, Grows
<1>3. CASE /\ UNCHANGED deadline
           /\ \A c \in Calls : chain'[c] = "valid" <=> chain[c] = "valid"
           /\ \A c \in Calls : pc'[c] \in early => pc[c] \in early
  <2>1. Valid("lock")' = Valid("lock")
    BY <1>2, <1>3 DEF Valid, IsOp
  <2> QED BY <1>1, <1>3, <2>1 DEF DealInv, IsOp
<1>4. ASSUME NEW c \in Calls, Build(c) PROVE DealInv'
  <2>1. /\ UNCHANGED <<req, chain>> /\ IsOp(c, "lock") /\ pc'[c] = "collect"
        /\ \A d \in Calls : d # c => deadline'[d] = deadline[d] /\ pc'[d] = pc[d]
    BY <1>4 DEF Build, IInv, TypeOK, ViewInv
  <2>2. Valid("lock")' = Valid("lock")
    BY <2>1 DEF Valid, IsOp
  <2> QED BY <2>1, <2>2 DEF DealInv, IsOp
<1>5. ASSUME NEW c \in Calls, Commit(c) PROVE DealInv'
  <2>1. UNCHANGED <<req, deadline, pc>>
    BY <1>5, CommitFacts
  <2>2. Valid("lock")' \subseteq Valid("lock") \cup {c}
    BY <1>5, <2>1, CommitFacts DEF Valid, IsOp
  <2>3. IsFiniteSet(Valid("lock") \cup {c})
    BY FS_AddElement DEF DealInv
  <2>4. IsFiniteSet(Valid("lock")')
    BY <2>2, <2>3, FS_Subset
  <2> QED BY <2>1, <2>4 DEF DealInv, IsOp
<1>6. CASE Tick
  BY <1>3, <1>6 DEF Tick, script
<1> QED BY <1>3, <1>4, <1>5, <1>6, StepKinds

-----------------------------------------------------------------------------
Qty(L) == SumFunction([l \in L |-> req[l].qty])
Locks(n) == {l \in Valid("lock") : req[l].net = n}
OutOf(n, a) == {l \in Locks(n) : req[l].acct = a}
Into(n, a) == {l \in Locks(n) \ Locked : Paid(l) = a}

\* A balance is what was there, less what locks took and with what they gave.
LEMMA BalanceIs ==
  ASSUME NEW n, NEW a
  PROVE  /\ Balance(n, a) = Supply[n][a] - Qty(OutOf(n, a)) + Qty(Into(n, a))
         /\ Balance(n, a)' = Supply[n][a] - Qty(OutOf(n, a))' + Qty(Into(n, a))'
BY Zenon DEF Balance, Qty, Locks, OutOf, Into

\* The quantity of a set of locks.
LEMMA QtyIs ==
  ASSUME NEW L, IsFiniteSet(L), NEW q, \A l \in L : q[l] = req[l].qty
  PROVE  Qty(L) = SumFunctionOnSet(q, L)
<1>1. Qty(L) = SumFunctionOnSet([l \in L |-> req[l].qty], L)
  BY Zenon DEF Qty, SumFunction
<1> QED BY <1>1, SumSame

\* Committed locks have a quantity each, and their sets are finite.
LEMMA LockFacts ==
  ASSUME IInv, DealInv
  PROVE  /\ \A l \in Valid("lock") : /\ l \in Calls /\ req[l] \in Requests /\ deadline[l] # None
                                     /\ req[l].qty \in Nat /\ req[l].net \in Nets
                                     /\ req[l].acct \in Accounts /\ req[l].to \in Accounts
                                     /\ Paid(l) \in Accounts
         /\ \A n, a : /\ OutOf(n, a) \subseteq Valid("lock") /\ IsFiniteSet(OutOf(n, a))
                      /\ Into(n, a) \subseteq Valid("lock") /\ IsFiniteSet(Into(n, a))
<1>1. ASSUME NEW l \in Valid("lock")
      PROVE  /\ l \in Calls /\ req[l] \in Requests /\ deadline[l] # None
             /\ req[l].qty \in Nat /\ req[l].net \in Nets
             /\ req[l].acct \in Accounts /\ req[l].to \in Accounts
  <2>1. l \in Calls /\ IsOp(l, "lock") /\ pc[l] # "idle" /\ req[l] \in Requests /\ deadline[l] # None
    BY DEF Valid, IInv, ViewInv, Sealed, Built
  <2>2. ~IsSpend(l)
    BY <2>1 DEF IsSpend, IsOp
  <2> QED BY <2>1, <2>2, RequestType
<1>2. \A n, a : OutOf(n, a) \subseteq Valid("lock") /\ Into(n, a) \subseteq Valid("lock")
  BY DEF OutOf, Into, Locks
<1>3. \A L : L \subseteq Valid("lock") => IsFiniteSet(L)
  BY FS_Subset DEF DealInv
<1> QED BY <1>1, <1>2, <1>3 DEF Paid

\* So a balance is a number.
LEMMA BalanceType ==
  ASSUME IInv, DealInv, NEW n \in Nets, NEW a \in Accounts
  PROVE  /\ Balance(n, a) \in Int /\ Supply[n][a] \in Int
         /\ Qty(OutOf(n, a)) \in Int /\ Qty(Into(n, a)) \in Int
<1>1. ASSUME NEW L, L \subseteq Valid("lock"), IsFiniteSet(L) PROVE Qty(L) \in Int
  <2> DEFINE q == [l \in L |-> req[l].qty]
  <2>1. \A l \in L : q[l] = req[l].qty /\ q[l] \in Int
    BY <1>1, LockFacts
  <2> HIDE DEF q
  <2> QED BY <1>1, <2>1, QtyIs, SumElement
<1>2. Qty(OutOf(n, a)) \in Int /\ Qty(Into(n, a)) \in Int
  BY <1>1, LockFacts
<1>3. Supply[n][a] \in Int
  BY HtlcAssumption
<1> QED BY <1>2, <1>3, BalanceIs

\* Without a verdict nothing moves.
LEMMA SameLocks ==
  ASSUME IInv, DealInv, TypeOK', Grows,
         \A c \in Calls : chain'[c] = "valid" <=> chain[c] = "valid"
  PROVE  /\ State' = State
         /\ \A n \in Nets, a \in Accounts : Balance(n, a)' = Balance(n, a)
<1>1. \A c \in Calls : chain[c] # "none" =>
        pc[c] # "idle" /\ req'[c] = req[c] /\ target'[c] = target[c]
  BY DEF IInv, ViewInv, Grows
<1>2. \A op : Valid(op)' = Valid(op)
  BY <1>1 DEF Valid, IsOp
<1>3. \A l : Spends(l)' = Spends(l)
  BY <1>1, <1>2 DEF Spends, Valid
<1>4. Locked' = Locked
  BY <1>2, <1>3 DEF Locked
<1>5. State' = State
  BY <1>2, <1>3, <1>4 DEF State
<1>6. \A l \in Valid("lock") : req'[l] = req[l] /\ Paid(l)' = Paid(l)
  BY <1>1, <1>2, <1>3 DEF Paid, Valid
<1>7. ASSUME NEW n \in Nets, NEW a \in Accounts PROVE Balance(n, a)' = Balance(n, a)
  <2>1. OutOf(n, a)' = OutOf(n, a) /\ Into(n, a)' = Into(n, a)
    BY <1>2, <1>4, <1>6 DEF OutOf, Into, Locks
  <2>2. ASSUME NEW L, L \subseteq Valid("lock")
        PROVE  Qty(L)' = Qty(L)
    BY <1>6, <2>2 DEF Qty
  <2>3. PICK I, O : O = OutOf(n, a) /\ I = Into(n, a)
    OBVIOUS
  <2>4. Qty(I)' = Qty(I) /\ Qty(O)' = Qty(O)
    BY <2>2, <2>3, LockFacts
  <2>5. Qty(OutOf(n, a))' = Qty(OutOf(n, a)) /\ Qty(Into(n, a))' = Qty(Into(n, a))
    BY <2>1, <2>3, <2>4 DEF Qty
  <2> QED BY <2>5, BalanceIs
<1> QED BY <1>5, <1>7

-----------------------------------------------------------------------------
\* The quantity of one more lock.
LEMMA QtyAdd ==
  ASSUME IInv, DealInv, NEW L, IsFiniteSet(L), NEW l, l \notin L,
         \A k \in L \cup {l} : req[k].qty \in Nat, UNCHANGED req
  PROVE  Qty(L \cup {l})' = Qty(L) + req[l].qty
<1> DEFINE q == [k \in L \cup {l} |-> req[k].qty]
<1>1. \A k \in L \cup {l} : q[k] = req[k].qty /\ q[k] \in Int
  OBVIOUS
<1>2. q[l] = req[l].qty
  BY <1>1
<1>3. Qty(L \cup {l})' = Qty(L \cup {l})
  BY DEF Qty
<1>4. IsFiniteSet(L \cup {l})
  BY FS_AddElement
<1> HIDE DEF q
<1>5. Qty(L \cup {l}) = SumFunctionOnSet(q, L \cup {l}) /\ Qty(L) = SumFunctionOnSet(q, L)
  BY <1>1, <1>4, QtyIs
<1> QED BY <1>1, <1>2, <1>3, <1>5, SumAdd

\* A balance in which only the terms of one lock change.
LEMMA BalanceStep ==
  ASSUME IInv, DealInv, UNCHANGED req, NEW n \in Nets, NEW a \in Accounts, NEW l,
         req[l].qty \in Nat, NEW out \in BOOLEAN, NEW into \in BOOLEAN,
         OutOf(n, a)' = IF out THEN OutOf(n, a) \cup {l} ELSE OutOf(n, a),
         Into(n, a)' = IF into THEN Into(n, a) \cup {l} ELSE Into(n, a),
         l \notin OutOf(n, a) \/ ~out, l \notin Into(n, a) \/ ~into
  PROVE  Balance(n, a)' = Balance(n, a) - (IF out THEN req[l].qty ELSE 0)
                                        + (IF into THEN req[l].qty ELSE 0)
<1>1. ASSUME NEW L, NEW add \in BOOLEAN, IsFiniteSet(L), l \notin L \/ ~add,
             L \subseteq Valid("lock"), NEW M, M = IF add THEN L \cup {l} ELSE L
      PROVE  Qty(M)' = Qty(L) + IF add THEN req[l].qty ELSE 0
  <2>1. CASE add
    <3>1. \A k \in L \cup {l} : req[k].qty \in Nat
      BY <1>1, LockFacts
    <3> QED BY <1>1, <2>1, <3>1, QtyAdd
  <2>2. CASE ~add
    <3>1. Qty(L)' = Qty(L)
      BY DEF Qty
    <3> DEFINE q == [k \in L |-> req[k].qty]
    <3>2. \A k \in L : q[k] = req[k].qty /\ q[k] \in Int
      BY <1>1, LockFacts
    <3> HIDE DEF q
    <3>3. Qty(L) \in Int
      BY <1>1, <3>2, QtyIs, SumElement
    <3> QED BY <1>1, <2>2, <3>1, <3>3
  <2> QED BY <2>1, <2>2
<1>2. PICK O, I, P, J : O = OutOf(n, a) /\ I = Into(n, a) /\ P = OutOf(n, a)' /\ J = Into(n, a)'
  OBVIOUS
<1>3. Qty(P)' = Qty(O) + IF out THEN req[l].qty ELSE 0
  BY <1>1, <1>2, LockFacts
<1>4. Qty(J)' = Qty(I) + IF into THEN req[l].qty ELSE 0
  BY <1>1, <1>2, LockFacts
<1>5. Qty(OutOf(n, a))' = Qty(P)' /\ Qty(Into(n, a))' = Qty(J)'
  BY <1>2 DEF Qty
<1>6. Qty(O) \in Int /\ Qty(I) \in Int /\ Supply[n][a] \in Int
  BY <1>2, BalanceType
<1>7. Balance(n, a) = Supply[n][a] - Qty(O) + Qty(I)
  BY <1>2, BalanceIs
<1>8. Balance(n, a)' = Supply[n][a] - Qty(P)' + Qty(J)'
  BY <1>5, BalanceIs
<1> QED BY <1>3, <1>4, <1>6, <1>7, <1>8

\* One entry of a table of balances.
LEMMA OneEntry ==
  ASSUME NEW f \in [Nets -> [Accounts -> Int]], NEW g \in [Nets -> [Accounts -> Int]],
         NEW m \in Nets, NEW b \in Accounts, NEW v,
         \A n \in Nets, a \in Accounts : g[n][a] = IF n = m /\ a = b THEN v ELSE f[n][a]
  PROVE  g = [f EXCEPT ![m][b] = v]
<1>1. ASSUME NEW n \in Nets PROVE g[n] = [f EXCEPT ![m][b] = v][n]
  <2>1. \A a \in Accounts : g[n][a] = [f EXCEPT ![m][b] = v][n][a]
    OBVIOUS
  <2> QED BY <2>1
<1> QED BY <1>1

\* What becomes of a lock is a table.
LEMMA StateTable ==
  /\ State = [d \in Calls |-> State[d]]
  /\ State' = [d \in Calls |-> State'[d]]
BY DEF State

\* A step that changes one balance.
LEMMA BalanceTable ==
  ASSUME IInv, DealInv, NEW m \in Nets, NEW b \in Accounts, NEW v \in Int,
         \A n \in Nets, a \in Accounts :
           Balance(n, a)' = IF n = m /\ a = b THEN v ELSE Balance(n, a),
         NEW f, f = [n \in Nets |-> [a \in Accounts |-> Balance(n, a)]],
         NEW g, g = [n \in Nets |-> [a \in Accounts |-> Balance(n, a)']]
  PROVE  g = [f EXCEPT ![m][b] = v]
<1>1. f \in [Nets -> [Accounts -> Int]] /\ g \in [Nets -> [Accounts -> Int]]
  BY BalanceType
<1>2. \A n \in Nets, a \in Accounts : g[n][a] = IF n = m /\ a = b THEN v ELSE f[n][a]
  OBVIOUS
<1> QED BY <1>1, <1>2, OneEntry

\* The slowest of the clocks, now and later.
LEMMA SlowestIs ==
  /\ now \in Nat => /\ Slowest \in Nat
                    /\ \E e \in Endorsers : Slowest = Clock(e)
  /\ now \in Nat /\ now' \in Nat /\ now' > now => Slowest' > Slowest
<1>1. ASSUME NEW t \in Nat, NEW S, S = {t + Skew[e] : e \in Endorsers}
      PROVE  Min(S) \in Nat /\ (\E e \in Endorsers : Min(S) = t + Skew[e])
             /\ \A e \in Endorsers : Min(S) <= t + Skew[e]
  <2>1. S # {} /\ S \subseteq Nat
    BY <1>1, HtlcAssumption
  <2>2. PICK x \in S : \A y \in S : <<y, x>> \notin OpToRel(<, Nat)
    BY <2>1, NatLessThanWellFounded, WFMin
  <2>3. ASSUME NEW y \in S PROVE x <= y
    <3>1. x \in Nat /\ y \in Nat
      BY <2>1
    <3>2. ~(y < x)
      BY <2>2, <3>1, Zenon DEF OpToRel
    <3> QED BY <3>1, <3>2
  <2>4. Min(S) \in S /\ \A y \in S : Min(S) <= y
    BY <2>3 DEF Min
  <2> QED BY <1>1, <2>1, <2>4
<1>2. /\ Slowest = Min({now + Skew[e] : e \in Endorsers})
      /\ Slowest' = Min({now' + Skew[e] : e \in Endorsers})
  BY DEF Slowest, Clock
<1>3. ASSUME now \in Nat
      PROVE  /\ Slowest \in Nat /\ (\E e \in Endorsers : Slowest = now + Skew[e])
             /\ \A e \in Endorsers : Slowest <= now + Skew[e]
  BY <1>1, <1>2, <1>3
<1>4. ASSUME now \in Nat, now' \in Nat, now' > now PROVE Slowest' > Slowest
  <2>1. PICK e \in Endorsers : Slowest' = now' + Skew[e]
    BY <1>1, <1>2, <1>4
  <2>2. Slowest <= now + Skew[e] /\ Slowest \in Nat /\ Skew[e] \in Nat
    BY <1>3, <1>4, HtlcAssumption
  <2> QED BY <1>4, <2>1, <2>2
<1> QED BY <1>3, <1>4 DEF Clock

\* A lock that commits takes its quantity into escrow.
LEMMA HoldStep ==
  ASSUME IInv, DealInv, TypeOK', Grows, NEW c \in Calls, Commit(c), Committable(c),
         IsOp(c, "lock")
  PROVE  E!Hold(c)
<1>1. /\ UNCHANGED <<now, req, deadline, target>> /\ chain'[c] = "valid" /\ chain[c] = "sent"
      /\ \A d \in Calls : d # c => chain'[d] = chain[d]
      /\ req[c] \in Requests /\ deadline[c] # None
  BY CommitFacts DEF Sealed, Built
<1>2. /\ req[c].net \in Nets /\ req[c].acct \in Accounts /\ req[c].qty \in Nat
      /\ Balance(req[c].net, req[c].acct) >= req[c].qty
  BY <1>1, RequestType DEF IsSpend, IsOp, Committable
<1>3. /\ Valid("lock")' = Valid("lock") \cup {c} /\ c \notin Valid("lock")
      /\ Valid("claim")' = Valid("claim") /\ Valid("reclaim")' = Valid("reclaim")
  BY <1>1 DEF Valid, IsOp
<1>4. \A l : Spends(l)' = Spends(l)
  BY <1>1, <1>3 DEF Spends
<1>5. Spends(c) = {}
  BY <1>3, HtlcAssumption DEF Spends, Valid, IInv, TargetInv
<1>6. Locked' = Locked \cup {c}
  BY <1>3, <1>4, <1>5 DEF Locked
<1>7. State[c] = "none" /\ State' = [State EXCEPT ![c] = "held"]
  <2>1. \A d \in Calls : State'[d] = IF d = c THEN "held" ELSE State[d]
    BY <1>3, <1>4, <1>6 DEF State, Locked
  <2>2. State[c] = "none"
    BY <1>3 DEF State, Locked
  <2> QED BY <2>1, <2>2, StateTable
<1>8. Deal[c] = [net |-> req[c].net, from |-> req[c].acct, to |-> req[c].to,
                 qty |-> req[c].qty, deadline |-> deadline[c]]
  BY <1>1 DEF Deal
<1>9. Deal[c] # None
  BY <1>1, <1>2, <1>8, RequestType, EscrowAssumption DEF E!Terms, IsSpend, IsOp, IInv, TypeOK
<1>10. Deal' = Deal /\ Slowest' = Slowest
  BY <1>1 DEF Deal, Slowest, Clock
<1>11. ASSUME NEW n \in Nets, NEW a \in Accounts
       PROVE  Balance(n, a)' = IF n = req[c].net /\ a = req[c].acct
                               THEN Balance(n, a) - req[c].qty ELSE Balance(n, a)
  <2>1. PICK out \in BOOLEAN : out <=> n = req[c].net /\ a = req[c].acct
    OBVIOUS
  <2>2. OutOf(n, a)' = IF out THEN OutOf(n, a) \cup {c} ELSE OutOf(n, a)
    BY <1>1, <1>3, <2>1 DEF OutOf, Locks
  <2>3. Into(n, a)' = Into(n, a)
    BY <1>1, <1>3, <1>4, <1>6 DEF Into, Locks, Paid
  <2>4. c \notin OutOf(n, a)
    BY <1>3, LockFacts
  <2>5. PICK into \in BOOLEAN : ~into
    OBVIOUS
  <2>6. Balance(n, a)' = Balance(n, a) - (IF out THEN req[c].qty ELSE 0)
                                       + (IF into THEN req[c].qty ELSE 0)
    BY <1>1, <1>2, <2>2, <2>3, <2>4, <2>5, BalanceStep
  <2>7. Balance(n, a) \in Int
    BY BalanceType
  <2> QED BY <1>2, <2>1, <2>5, <2>6, <2>7
<1>12. PICK B : B = [n \in Nets |-> [a \in Accounts |-> Balance(n, a)]]
  OBVIOUS
<1>13. B[req[c].net][req[c].acct] = Balance(req[c].net, req[c].acct)
  BY <1>2, <1>12
<1>14. Balance(req[c].net, req[c].acct) - req[c].qty \in Int
  BY <1>2, BalanceType
<1>15. [n \in Nets |-> [a \in Accounts |-> Balance(n, a)]]'
         = [B EXCEPT ![req[c].net][req[c].acct] = B[req[c].net][req[c].acct] - req[c].qty]
  <2>1. PICK m \in Nets, b \in Accounts, v \in Int :
          /\ m = req[c].net /\ b = req[c].acct
          /\ v = Balance(req[c].net, req[c].acct) - req[c].qty
    BY <1>2, <1>14
  <2>2. \A n \in Nets, a \in Accounts :
          Balance(n, a)' = IF n = m /\ a = b THEN v ELSE Balance(n, a)
    BY <1>11, <2>1
  <2>3. PICK D : D = [n \in Nets |-> [a \in Accounts |-> Balance(n, a)']]
    OBVIOUS
  <2>4. D = [B EXCEPT ![m][b] = v]
    BY <1>12, <2>2, <2>3, BalanceTable
  <2>5. [n \in Nets |-> [a \in Accounts |-> Balance(n, a)]]' = D
    BY <2>3
  <2> QED BY <1>13, <2>1, <2>4, <2>5
<1>16. Deal[c].net = req[c].net /\ Deal[c].from = req[c].acct /\ Deal[c].qty = req[c].qty
  BY <1>8
<1>17. B[Deal[c].net][Deal[c].from] >= Deal[c].qty
  BY <1>2, <1>13, <1>16
<1> QED BY <1>7, <1>10, <1>12, <1>15, <1>9, <1>16, <1>17 DEF E!Hold

\* A claim or reclaim that commits ends the lock it has found.
LEMMA EndStep ==
  ASSUME IInv, DealInv, TypeOK', Grows, NEW c \in Calls, Commit(c), Committable(c),
         ~IsOp(c, "lock"), NEW l, l = target[c], NEW p, p = Paid(l)'
  PROVE  /\ l \in Valid("lock") /\ State[l] = "held"
         /\ State' = [State EXCEPT ![l] = IF IsOp(c, "claim") THEN "paid" ELSE "returned"]
         /\ p = IF IsOp(c, "claim") THEN req[l].to ELSE req[l].acct
         /\ \A n \in Nets, a \in Accounts :
              Balance(n, a)' = IF n = req[l].net /\ a = p THEN Balance(n, a) + req[l].qty
                               ELSE Balance(n, a)
<1>1. /\ UNCHANGED <<req, target>> /\ chain'[c] = "valid" /\ chain[c] = "sent"
      /\ \A d \in Calls : d # c => chain'[d] = chain[d]
      /\ req[c] \in Requests /\ target[c] # None
  BY CommitFacts DEF Sealed, Built
<1>2. IsSpend(c) /\ l \in Locked /\ l \in Valid("lock") /\ l \in Calls /\ Spends(l) = {}
  BY <1>1, RequestType DEF Committable, Locked, Valid
<1>3. /\ Valid("lock")' = Valid("lock")
      /\ Valid("claim")' = IF IsOp(c, "claim") THEN Valid("claim") \cup {c} ELSE Valid("claim")
      /\ Valid("reclaim")' = IF IsOp(c, "claim") THEN Valid("reclaim")
                             ELSE Valid("reclaim") \cup {c}
  BY <1>1, <1>2 DEF Valid, IsOp, IsSpend
<1>4. Spends(l)' = {c} /\ \A k : k # l => Spends(k)' = Spends(k)
  <2>1. ASSUME NEW k PROVE Spends(k)' = IF k = l THEN Spends(k) \cup {c} ELSE Spends(k)
    <3>1. Valid("claim")' \cup Valid("reclaim")' = Valid("claim") \cup Valid("reclaim") \cup {c}
      BY <1>3
    <3> QED BY <1>1, <3>1 DEF Spends
  <2> QED BY <1>2, <2>1
<1>5. Locked' = Locked \ {l}
  BY <1>2, <1>3, <1>4 DEF Locked
<1>6. \A k : k # l => (Valid("claim")' \cap Spends(k)' = {} <=> Valid("claim") \cap Spends(k) = {})
  <2>1. \A k : k # l => c \notin Spends(k)
    BY <1>1 DEF Spends
  <2> QED BY <1>3, <1>4, <2>1
<1>7. Valid("claim")' \cap Spends(l)' # {} <=> IsOp(c, "claim")
  <2>1. c \notin Valid("claim")
    BY <1>1 DEF Valid
  <2> QED BY <1>3, <1>4, <2>1
<1>8. State[l] = "held"
        /\ State' = [State EXCEPT ![l] = IF IsOp(c, "claim") THEN "paid" ELSE "returned"]
  <2>1. State[l] = "held"
    BY <1>2 DEF State, Locked
  <2>2. State'[l] = IF IsOp(c, "claim") THEN "paid" ELSE "returned"
    BY <1>2, <1>3, <1>5, <1>7 DEF State
  <2>3. ASSUME NEW k \in Calls, k # l PROVE State'[k] = State[k]
    BY <1>3, <1>4, <1>5, <1>6, <2>3 DEF State
  <2> QED BY <1>2, <2>1, <2>2, <2>3, StateTable
<1>9. /\ p = IF IsOp(c, "claim") THEN req[l].to ELSE req[l].acct
      /\ \A k : k # l => Paid(k)' = Paid(k)
  BY <1>1, <1>6, <1>7 DEF Paid
<1>10. ASSUME NEW n \in Nets, NEW a \in Accounts
       PROVE  Balance(n, a)' = IF n = req[l].net /\ a = p THEN Balance(n, a) + req[l].qty
                               ELSE Balance(n, a)
  <2>1. PICK into \in BOOLEAN : into <=> n = req[l].net /\ a = p
    OBVIOUS
  <2>2. PICK out \in BOOLEAN : ~out
    OBVIOUS
  <2>3. OutOf(n, a)' = OutOf(n, a)
    BY <1>1, <1>3 DEF OutOf, Locks
  <2>4. Into(n, a)' = IF into THEN Into(n, a) \cup {l} ELSE Into(n, a)
    <3>1. Locks(n)' = Locks(n) /\ (l \in Locks(n) <=> n = req[l].net)
      BY <1>1, <1>2, <1>3 DEF Locks
    <3>2. \A k : k \in Into(n, a)' <=> k \in Locks(n) /\ k \notin Locked' /\ Paid(k)' = a
      BY <3>1 DEF Into
    <3>3. \A k : k \in Into(n, a) <=> k \in Locks(n) /\ k \notin Locked /\ Paid(k) = a
      BY DEF Into
    <3>4. l \in Into(n, a)' <=> into
      BY <1>5, <2>1, <3>1, <3>2
    <3>5. \A k : k # l => (k \in Into(n, a)' <=> k \in Into(n, a))
      BY <1>5, <1>9, <3>2, <3>3
    <3>6. l \notin Into(n, a)
      BY <1>2, <3>3
    <3> QED BY <3>4, <3>5, <3>6
  <2>5. l \notin Into(n, a)
    BY <1>2 DEF Into
  <2>6. req[l].qty \in Nat /\ Balance(n, a) \in Int
    BY <1>2, LockFacts, BalanceType
  <2>7. Balance(n, a)' = Balance(n, a) - (IF out THEN req[l].qty ELSE 0)
                                       + (IF into THEN req[l].qty ELSE 0)
    BY <1>1, <2>2, <2>3, <2>4, <2>5, <2>6, BalanceStep
  <2> QED BY <2>1, <2>2, <2>6, <2>7
<1> QED BY <1>2, <1>8, <1>9, <1>10

\* To the escrow a claim is the payment, a reclaim the return.
LEMMA SpendStep ==
  ASSUME IInv, DealInv, TypeOK', Grows, NEW c \in Calls, Commit(c), Committable(c),
         ~IsOp(c, "lock")
  PROVE  E!Next
<1>1. /\ UNCHANGED <<now, req, deadline>> /\ Sealed(c) /\ req[c] \in Requests
  BY CommitFacts
<1>2. PICK l, p : l = target[c] /\ p = Paid(l)'
  OBVIOUS
<1>3. /\ l \in Valid("lock") /\ State[l] = "held"
      /\ State' = [State EXCEPT ![l] = IF IsOp(c, "claim") THEN "paid" ELSE "returned"]
      /\ p = IF IsOp(c, "claim") THEN req[l].to ELSE req[l].acct
      /\ \A n \in Nets, a \in Accounts :
           Balance(n, a)' = IF n = req[l].net /\ a = p THEN Balance(n, a) + req[l].qty
                            ELSE Balance(n, a)
  BY <1>2, EndStep
<1>4. /\ l \in Calls /\ deadline[l] # None /\ req[l].qty \in Nat /\ req[l].net \in Nets
      /\ p \in Accounts
  BY <1>3, LockFacts
<1>5. /\ Deal[l].net = req[l].net /\ Deal[l].from = req[l].acct /\ Deal[l].to = req[l].to
      /\ Deal[l].qty = req[l].qty /\ Deal[l].deadline = deadline[l]
  BY <1>4 DEF Deal
<1>6. Deal' = Deal /\ Slowest' = Slowest
  BY <1>1 DEF Deal, Slowest, Clock
<1>7. PICK B : B = [n \in Nets |-> [a \in Accounts |-> Balance(n, a)]]
  OBVIOUS
<1>8. B[req[l].net][p] = Balance(req[l].net, p) /\ Balance(req[l].net, p) + req[l].qty \in Int
  BY <1>4, <1>7, BalanceType
<1>9. [n \in Nets |-> [a \in Accounts |-> Balance(n, a)]]'
        = [B EXCEPT ![req[l].net][p] = B[req[l].net][p] + req[l].qty]
  <2>1. PICK m \in Nets, b \in Accounts, v \in Int :
          m = req[l].net /\ b = p /\ v = Balance(req[l].net, p) + req[l].qty
    BY <1>4, <1>8
  <2>2. \A n \in Nets, a \in Accounts :
          Balance(n, a)' = IF n = m /\ a = b THEN v ELSE Balance(n, a)
    BY <1>3, <2>1
  <2>3. PICK D : D = [n \in Nets |-> [a \in Accounts |-> Balance(n, a)']]
    OBVIOUS
  <2>4. D = [B EXCEPT ![m][b] = v]
    BY <1>7, <2>2, <2>3, BalanceTable
  <2>5. [n \in Nets |-> [a \in Accounts |-> Balance(n, a)]]' = D
    BY <2>3
  <2> QED BY <1>8, <2>1, <2>4, <2>5
<1>10. CASE IsOp(c, "claim")
  <2>1. E!Pay(l)
    BY <1>3, <1>5, <1>6, <1>7, <1>9, <1>10 DEF E!Pay
  <2> QED BY <1>4, <2>1 DEF E!Next
<1>11. CASE ~IsOp(c, "claim")
  <2>1. IsOp(c, "reclaim") /\ target[c] # None /\ signed[c] = Endorsers
    BY <1>1, <1>11, RequestType DEF IsSpend, Sealed, Built
  <2>2. \A e \in Endorsers : Clock(e) >= deadline[l]
    BY <1>2, <2>1 DEF IInv, TargetInv
  <2>3. Slowest >= Deal[l].deadline
    BY <1>5, <2>2, SlowestIs DEF IInv, TypeOK
  <2>4. E!Return(l)
    BY <1>3, <1>5, <1>6, <1>7, <1>9, <1>11, <2>3 DEF E!Return
  <2> QED BY <1>4, <2>4 DEF E!Next
<1> QED BY <1>10, <1>11

\* The deadline is one of the terms of a lock.
LEMMA OfferStep ==
  ASSUME IInv, DealInv, TypeOK', Grows, NEW c \in Calls, Build(c)
  PROVE  E!Offer(c) /\ UNCHANGED chain
<1>1. /\ UNCHANGED <<now, req, chain, target>> /\ req[c] \in Requests /\ IsOp(c, "lock")
      /\ deadline[c] = None /\ deadline'[c] \in Nat
      /\ \A d \in Calls : d # c => deadline'[d] = deadline[d]
  BY BuildType DEF Build, IInv, TypeOK, ViewInv, DealInv
<1>2. deadline'[c] # None
  BY <1>1, HtlcAssumption
<1>3. /\ Deal[c] = None
      /\ Deal'[c] = [net |-> req[c].net, from |-> req[c].acct, to |-> req[c].to,
                     qty |-> req[c].qty, deadline |-> deadline'[c]]
      /\ \A d \in Calls : d # c => Deal'[d] = Deal[d]
  BY <1>1, <1>2 DEF Deal
<1>4. Deal'[c] \in E!Terms
  BY <1>1, <1>3, RequestType DEF E!Terms, IsSpend, IsOp
<1>5. Deal' = [Deal EXCEPT ![c] = Deal'[c]]
  BY <1>3 DEF Deal
<1>6. Slowest' = Slowest
  BY <1>1 DEF Slowest, Clock
<1>7. State' = State /\ \A n \in Nets, a \in Accounts : Balance(n, a)' = Balance(n, a)
  BY <1>1, SameLocks
<1> QED BY <1>1, <1>3, <1>4, <1>5, <1>6, <1>7 DEF E!Offer

\* The terms of what has them stay.
LEMMA DealKept ==
  ASSUME IInv, DealInv, Grows, UNCHANGED deadline
  PROVE  Deal' = Deal
<1>1. \A c \in Calls : deadline[c] # None => req'[c] = req[c]
  BY HtlcAssumption DEF DealInv, Grows, IsOp, IInv, ViewInv
<1> QED BY <1>1 DEF Deal

\* Every step is a step of the escrow, or none.
LEMMA EscrowStep == IInv /\ DealInv /\ [Next]_vars => [E!Next]_(E!vars)
<1> SUFFICES ASSUME IInv, DealInv, [Next]_vars PROVE [E!Next]_(E!vars)
  OBVIOUS
<1>1. TypeOK' /\ Grows
  BY NextType, NextGrows
<1>2. ASSUME UNCHANGED <<now, deadline>>,
             \A c \in Calls : chain'[c] = "valid" <=> chain[c] = "valid"
      PROVE  UNCHANGED E!vars
  <2>1. State' = State /\ \A n \in Nets, a \in Accounts : Balance(n, a)' = Balance(n, a)
    BY <1>1, <1>2, SameLocks
  <2>2. Deal' = Deal /\ Slowest' = Slowest
    BY <1>1, <1>2, DealKept DEF Slowest, Clock
  <2> QED BY <2>1, <2>2 DEF E!vars
<1>3. ASSUME NEW c \in Calls, Build(c) PROVE E!Next
  BY <1>1, <1>3, OfferStep DEF E!Next
<1>4. ASSUME NEW c \in Calls, Commit(c), Committable(c) PROVE E!Next
  BY <1>1, <1>4, HoldStep, SpendStep DEF E!Next
<1>5. ASSUME NEW c \in Calls, Commit(c), ~Committable(c) PROVE UNCHANGED E!vars
  BY <1>2, <1>5, CommitFacts
<1>6. ASSUME Tick PROVE E!Next
  <2>1. now' = now + 1 /\ UNCHANGED <<deadline, chain>> /\ now \in Nat
    BY <1>6 DEF Tick, script, IInv, TypeOK
  <2>2. State' = State /\ \A n \in Nets, a \in Accounts : Balance(n, a)' = Balance(n, a)
    BY <1>1, <2>1, SameLocks
  <2>3. Deal' = Deal
    BY <1>1, <2>1, DealKept
  <2>4. Slowest' > Slowest
    BY <1>1, <2>1, SlowestIs
  <2> QED BY <2>2, <2>3, <2>4 DEF E!Next, E!Advance
<1> QED BY <1>2, <1>3, <1>4, <1>5, <1>6, StepKinds

\* Before any lock nothing is in escrow.
LEMMA EscrowInit == Init => E!Init
<1> SUFFICES ASSUME Init PROVE E!Init
  OBVIOUS
<1>1. \A op : Valid(op) = {}
  BY DEF Init, Valid, IsOp
<1>2. Deal = [c \in Calls |-> None] /\ State = [c \in Calls |-> "none"]
  <2>1. \A c \in Calls : State[c] = "none"
    BY <1>1 DEF State, Locked
  <2> QED BY <2>1, StateTable DEF Init, Deal
<1>3. ASSUME NEW n \in Nets, NEW a \in Accounts PROVE Balance(n, a) = Supply[n][a]
  <2>1. OutOf(n, a) = {} /\ Into(n, a) = {}
    BY <1>1 DEF OutOf, Into, Locks
  <2>2. Qty({}) = 0
    <3>1. Qty({}) = SumFunctionOnSet([l \in {} |-> req[l].qty], {})
      BY Zenon DEF Qty, SumFunction
    <3> QED BY <3>1, SumEmpty
  <2>3. Supply[n][a] \in Nat
    BY HtlcAssumption
  <2>4. Balance(n, a) = Supply[n][a] - Qty({}) + Qty({})
    BY <2>1, BalanceIs
  <2> QED BY <2>2, <2>3, <2>4
<1>4. [n \in Nets |-> [a \in Accounts |-> Balance(n, a)]] = Supply
  BY <1>3, HtlcAssumption
<1>5. Slowest \in Nat
  BY SlowestIs DEF Init
<1> QED BY <1>2, <1>4, <1>5 DEF E!Init

\* The views, the endorsers and the ledgers implement an escrow: what is locked
\* leaves the locker once and goes, whole and once, to the recipient or back,
\* and back not before the deadline on the slowest endorser's clock.
THEOREM ImplementsEscrowHolds == Spec => ImplementsEscrow
<1>1. IInv /\ IInv' /\ DealInv /\ [Next]_vars => DealInv'
  BY NextDeal, NextGrows DEF IInv
<1> QED BY <1>1, InitDeal, EscrowInit, EscrowStep, Invariance, PTL
        DEF Spec, ImplementsEscrow, E!Spec
=============================================================================
