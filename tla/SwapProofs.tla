----------------------------- MODULE SwapProofs -----------------------------
(***************************************************************************)
(* Nobody ends with both sides of the swap, for every length of deadlines, *)
(* delays and waits that leaves the margin of SwapAssumption, and for      *)
(* every number of endorsers and skew of clocks.                           *)
(***************************************************************************)
EXTENDS Swap, HtlcProofs

\* A call was made by its step of the script and is done in time; a deadline
\* counts from some moment between.
TimeInv(c) ==
  /\ pc[c] = "idle" => deadline[c] = None
  /\ pc[c] # "idle" => /\ req[c] = Step(c) /\ since[c] <= now
                       /\ Settled(c) \/ now <= since[c] + Delay
  /\ deadline[c] # None =>
       LET d == since[c] + Skew[req[c].at] + req[c].dur
       IN  d <= deadline[c] /\ deadline[c] <= d + Delay

\* Who has waited for whom.
OrderInv ==
  /\ pc[lockD] # "idle" => Sees(dan, lockA) /\ since[lockD] <= since[lockA] + Wait
  /\ target[claimA] # None => since[claimA] + Skew[Home[alice]] < deadline[lockD]
  /\ pc[claimD] # "idle" => chain[claimA] \in {"valid", "invalid"}
  /\ chain[claimA] = "invalid" =>
       \E e \in Endorsers : since[claimA] + Delay + Skew[e] >= deadline[lockD]

\* Dan has until then to claim.
Last == since[claimA] + Delay + React

\* When alice has claimed, dan claims in time and succeeds, and nobody signs
\* alice's reclaim.
ClaimInv ==
  chain[claimA] = "valid" =>
    /\ pc[claimD] = "idle" => now <= Last
    /\ pc[claimD] # "idle" =>
         /\ since[claimD] <= Last /\ target[claimD] # None
         /\ pc[claimD] \in {"collect", "ready"} \/ chain[claimD] \in {"sent", "valid"}
    /\ target[reclaimA] # None => signed[reclaimA] = {}

SwapInv ==
  /\ since \in [Calls -> Nat]
  /\ OrderInv /\ ClaimInv
  /\ \A c \in Calls : TimeInv(c)

-----------------------------------------------------------------------------
\* The steps are the six calls, each with its request.
LEMMA Steps ==
  /\ {lockA, lockD, claimA, claimD, reclaimA, reclaimD} = Calls
  /\ Step(lockA) = LockRequest(alice, dan, netA, DurA)
  /\ Step(lockD) = LockRequest(dan, alice, netD, DurD)
  /\ Step(claimA) = SpendRequest("claim", alice, netD)
  /\ Step(claimD) = SpendRequest("claim", dan, netA)
  /\ Step(reclaimA) = SpendRequest("reclaim", alice, netA)
  /\ Step(reclaimD) = SpendRequest("reclaim", dan, netD)
  /\ \A c \in Calls : Step(c) \in Requests
  BY SwapAssumption DEF Step

\* Numbers that the arithmetic needs.
LEMMA Numbers ==
  /\ DurA \in Nat /\ DurD \in Nat /\ Wait \in Nat /\ React \in Nat /\ Delay \in Nat
  /\ Home[alice] \in Nodes /\ Home[dan] \in Nodes
  /\ \A x \in Nodes \cup Endorsers : Skew[x] \in Nat
<1>1. Step(lockA) \in Request /\ Step(lockD) \in Request
  BY Steps, HtlcAssumption
<1>2. /\ Step(lockA).dur \in Nat /\ Step(lockA).at \in Nodes /\ Step(lockA).op = "lock"
      /\ Step(lockD).dur \in Nat /\ Step(lockD).at \in Nodes /\ Step(lockD).op = "lock"
  <2>1. ASSUME NEW r \in Request, r.op = "lock" PROVE r.dur \in Nat /\ r.at \in Nodes
    BY <2>1 DEF Request
  <2> QED BY <1>1, <2>1, Steps DEF LockRequest
<1> QED BY <1>2, Steps, SwapAssumption, HtlcAssumption DEF LockRequest

\* The swap is made of steps of Htlc.
LEMMA SwapIsNext == [SwapNext]_swapvars => [Next]_vars
  BY Steps DEF SwapNext, SwapOpen, SwapFails, SwapTick, swapvars, Next

\* No call of the script has been made at the start.
LEMMA InitSwap == SwapInit => SwapInv
<1>1. SwapInit => \A c \in Calls : TimeInv(c)
  BY DEF SwapInit, Init, TimeInv
<1> QED BY <1>1, Steps, HtlcAssumption
        DEF SwapInit, Init, SwapInv, OrderInv, ClaimInv

-----------------------------------------------------------------------------
\* What a claim or reclaim of the script can have found.
LEMMA Targets ==
  ASSUME IInv, SwapInv
  PROVE  /\ target[lockA] = None /\ target[lockD] = None
         /\ target[claimA] \in {None, lockD} /\ target[claimD] \in {None, lockA}
         /\ target[reclaimA] \in {None, lockA} /\ target[reclaimD] \in {None, lockD}
<1>1. ASSUME NEW c \in Calls, target[c] # None
      PROVE  /\ req[c] = Step(c) /\ IsSpend(c)
             /\ target[c] \in {lockA, lockD} /\ req[target[c]] = Step(target[c])
             /\ IsOp(c, "claim") => req[target[c]].to = req[c].acct
             /\ IsOp(c, "reclaim") => req[target[c]].acct = req[c].acct
  <2>1. TargetInv(c) /\ pc[c] # "idle" /\ req[c] = Step(c)
    BY <1>1 DEF IInv, ViewInv, SwapInv, TimeInv
  <2>2. target[c] \in Calls /\ IsOp(target[c], "lock") /\ chain[target[c]] # "none"
    BY <1>1, <2>1 DEF TargetInv, Valid
  <2>3. pc[target[c]] # "idle"
    BY <2>2 DEF IInv, ViewInv
  <2>4. req[target[c]] = Step(target[c])
    BY <2>2, <2>3 DEF SwapInv, TimeInv
  <2>5. target[c] \in {lockA, lockD}
    BY <2>2, <2>4, Steps DEF IsOp, SpendRequest
  <2> QED BY <1>1, <2>1, <2>4, <2>5 DEF TargetInv
<1> QED BY <1>1, Steps, SwapAssumption DEF IsSpend, IsOp, LockRequest, SpendRequest, IInv, TypeOK

\* Only dan's claim and alice's reclaim can spend alice's lock, and the other
\* way round.
LEMMA Spenders ==
  ASSUME IInv, SwapInv
  PROVE  /\ Spends(lockA) \subseteq {claimD, reclaimA}
         /\ Spends(lockD) \subseteq {claimA, reclaimD}
<1>1. lockA \in Calls /\ lockD \in Calls
  BY Steps
<1>2. lockA # None /\ lockD # None /\ lockA # lockD
  BY <1>1, HtlcAssumption, SwapAssumption
<1> QED BY <1>1, <1>2, Targets, Steps DEF Spends, Valid

\* The margin: what dan does by Last is done before alice's deadline on every
\* clock.
LEMMA Margin ==
  ASSUME IInv, SwapInv, target[claimA] # None
  PROVE  /\ deadline[lockA] \in Nat /\ lockA \in Valid("lock") /\ lockA \in seen[Home[dan]]
         /\ \A e \in Endorsers : Last + Delay + Skew[e] < deadline[lockA]
         /\ Last + Skew[Home[dan]] < deadline[lockA]
<1>1. lockA \in Calls /\ lockD \in Calls /\ claimA \in Calls
  BY Steps
<1>2. target[claimA] = lockD /\ lockD \in Valid("lock")
  BY <1>1, Targets DEF IInv, TargetInv
<1>3. /\ pc[lockD] # "idle" /\ deadline[lockD] # None
      /\ Sees(dan, lockA) /\ since[lockD] <= since[lockA] + Wait
  BY <1>1, <1>2 DEF Valid, IInv, ViewInv, Sealed, Built, SwapInv, OrderInv
<1>4. pc[lockA] # "idle" /\ req[lockA] = Step(lockA) /\ req[lockD] = Step(lockD)
  BY <1>1, <1>3 DEF Sees, IInv, ViewInv, SwapInv, TimeInv
<1>5. lockA \in Valid("lock") /\ deadline[lockA] # None /\ lockA \in seen[Home[dan]]
  <2>1. req[lockA] # None
    BY <1>1, <1>4, Steps, HtlcAssumption
  <2>2. IsOp(lockA, "lock") /\ chain[lockA] = "valid" /\ lockA \in seen[Home[dan]]
    BY <1>3, <1>4, <2>1, Steps DEF IsOp, LockRequest, Sees
  <2> QED BY <1>1, <2>2 DEF Valid, IInv, ViewInv, Sealed, Built
<1>6. /\ deadline[lockA] \in Nat /\ deadline[lockD] \in Nat
      /\ since[lockA] \in Nat /\ since[lockD] \in Nat /\ since[claimA] \in Nat
  BY <1>1, <1>3, <1>5 DEF IInv, TypeOK, SwapInv
<1>7. /\ since[lockA] + Skew[Home[alice]] + DurA <= deadline[lockA]
      /\ deadline[lockD] <= since[lockD] + Skew[Home[dan]] + DurD + Delay
      /\ since[claimA] + Skew[Home[alice]] < deadline[lockD]
  BY <1>1, <1>3, <1>4, <1>5, Steps DEF SwapInv, TimeInv, OrderInv, LockRequest
<1>8. ASSUME NEW m \in Nat,
             DurA + 2 * Skew[Home[alice]] >=
               DurD + Skew[Home[dan]] + Wait + 2 * Delay + React + m
      PROVE  Last + m < deadline[lockA]
  BY <1>3, <1>6, <1>7, <1>8, Numbers DEF Last
<1>9. ASSUME NEW e \in Endorsers PROVE Last + Delay + Skew[e] < deadline[lockA]
  <2>1. Delay + Skew[e] \in Nat
    BY Numbers
  <2>2. Last + (Delay + Skew[e]) < deadline[lockA]
    BY <1>8, <2>1, SwapAssumption
  <2> QED BY <1>6, <2>2, Numbers DEF Last
<1>10. Last + Skew[Home[dan]] < deadline[lockA]
  BY <1>8, Numbers, SwapAssumption
<1> QED BY <1>5, <1>6, <1>9, <1>10

-----------------------------------------------------------------------------
\* Which step changes what of a call.
ChangedBy(c) ==
  /\ pc[c] = "idle" /\ pc'[c] # "idle" => SwapOpen(c)
  /\ since'[c] # since[c] => SwapOpen(c)
  /\ target'[c] # target[c] => SwapOpen(c)
  /\ deadline'[c] # deadline[c] => Build(c)
  /\ signed'[c] # signed[c] => \E e \in Endorsers : Endorse(c, e)
  /\ chain'[c] # chain[c] => Order(c) \/ Commit(c) \/ SwapFails(c)
  /\ pc'[c] # pc[c] => \/ SwapOpen(c) \/ SwapFails(c) \/ ReceiveIdentities(c)
                       \/ Build(c) \/ Collected(c) \/ Order(c) \/ Finality(c)
  /\ now' # now => SwapTick
  /\ since' \in [Calls -> Nat]
  /\ \A n \in Nodes : seen[n] \subseteq seen'[n]

\* What one step of the swap may change of a call.
LEMMA Changes ==
  ASSUME IInv, SwapInv, [SwapNext]_swapvars, NEW c \in Calls
  PROVE  ChangedBy(c)
<1> USE DEF IInv, TypeOK, SwapInv, ChangedBy
<1>1. ASSUME NEW d \in Calls, SwapOpen(d) PROVE ChangedBy(c)
  <2>1. /\ \A x \in Calls \ {d} : pc'[x] = pc[x] /\ target'[x] = target[x]
        /\ since' = [since EXCEPT ![d] = now]
        /\ UNCHANGED <<now, deadline, signed, chain, seen>>
    BY <1>1 DEF SwapOpen, Open, OpenLock, OpenClaim, OpenReclaim
  <2>2. c = d => SwapOpen(c)
    BY <1>1
  <2> QED BY <2>1, <2>2
<1>2. ASSUME NEW d \in Calls, SwapFails(d) PROVE ChangedBy(c)
  BY <1>2 DEF SwapFails, Fails, script, Running
<1>3. ASSUME NEW d \in Calls, UNCHANGED since,
             RespondExchange(d) \/ ReceiveIdentities(d) \/ Accept(d) \/ Collected(d) \/ Finality(d)
      PROVE  ChangedBy(c)
  BY <1>3 DEF RespondExchange, ReceiveIdentities, Accept, Collected, Finality, script
<1>4. ASSUME NEW d \in Calls, UNCHANGED since, Build(d) PROVE ChangedBy(c)
  BY <1>4 DEF Build
<1>5. ASSUME NEW d \in Calls, UNCHANGED since, NEW e \in Endorsers, Endorse(d, e)
      PROVE  ChangedBy(c)
  BY <1>5 DEF Endorse, script
<1>6. ASSUME NEW d \in Calls, UNCHANGED since, Order(d) \/ Commit(d) PROVE ChangedBy(c)
  BY <1>6 DEF Order, Commit, script
<1>7. ASSUME NEW d \in Calls, UNCHANGED since, NEW n \in Nodes, CommitEvent(n, d)
      PROVE  ChangedBy(c)
  BY <1>7 DEF CommitEvent, script
<1>8. CASE SwapTick
  BY <1>8 DEF SwapTick, Tick, script
<1>9. CASE (Quiet /\ UNCHANGED since) \/ UNCHANGED swapvars
  BY <1>9 DEF Quiet, swapvars, vars, script
<1> QED
  BY <1>1, <1>2, <1>3, <1>4, <1>5, <1>6, <1>7, <1>8, <1>9 DEF SwapNext, ViewStep

\* Time only passes, and a call that was made stays the one it was.
LEMMA MadeStays ==
  ASSUME IInv, SwapInv, [SwapNext]_swapvars, NEW c \in Calls, pc[c] # "idle"
  PROVE  /\ since'[c] = since[c] /\ target'[c] = target[c] /\ req'[c] = req[c]
         /\ pc'[c] # "idle" /\ req[c] = Step(c)
         /\ chain[c] \in {"valid", "invalid"} => chain'[c] = chain[c]
         /\ chain[c] # "none" => deadline'[c] = deadline[c]
         /\ now' >= now
<1>1. Grows /\ ChangedBy(c)
  BY SwapIsNext, NextGrows, Changes
<1>2. ~SwapOpen(c)
  BY DEF SwapOpen, Open
<1>3. req[c] \in Requests /\ req[c] = Step(c)
  BY DEF IInv, ViewInv, SwapInv, TimeInv
<1>4. pc'[c] # "idle"
  BY <1>1, <1>3, SwapIsNext, NextView, HtlcAssumption DEF Grows, ViewInv
<1> QED BY <1>1, <1>2, <1>3, <1>4 DEF Grows, ChangedBy

\* A decided call that the nodes have heard of remains so.
LEMMA SettledStays ==
  ASSUME IInv, SwapInv, [SwapNext]_swapvars, NEW c \in Calls, pc[c] # "idle", Settled(c)
  PROVE  Settled(c)'
<1>1. pc[c] \in {"ok", "error"} /\ chain[c] # "sent"
  BY DEF Settled, Running, IInv, TypeOK
<1>2. pc'[c] = pc[c]
  BY <1>1, Changes
  DEF ChangedBy, SwapOpen, Open, SwapFails, Fails, ReceiveIdentities, Build, Collected,
      Order, Finality, Running
<1>3. chain'[c] = chain[c]
  BY <1>1, Changes DEF ChangedBy, Order, Commit, SwapFails, Fails, Running
<1>4. \A n \in Nodes : seen[n] \subseteq seen'[n]
  BY Changes DEF ChangedBy
<1>5. ASSUME chain[c] # "none" PROVE Parties(c)' = Parties(c) /\ Parties(c) \subseteq Nodes
  <2>1. Sealed(c) /\ req[c] \in Requests /\ req'[c] = req[c] /\ target'[c] = target[c]
    BY <1>5, MadeStays DEF IInv, ViewInv
  <2>2. CASE IsOp(c, "lock")
    BY <2>1, <2>2, RequestType, HtlcAssumption DEF Parties, IsOp, IsSpend
  <2>3. CASE ~IsOp(c, "lock")
    <3>1. target[c] # None /\ TargetInv(c)
      BY <2>1, <2>3 DEF Sealed, Built, IInv
    <3>2. PICK l \in Calls : l = target[c] /\ IsOp(l, "lock") /\ chain[l] = "valid"
      BY <3>1 DEF TargetInv, Valid
    <3>3. req[l] \in Requests /\ req'[l] = req[l]
      BY <3>2, MadeStays DEF IInv, ViewInv
    <3>4. req[l].acct \in Accounts /\ req[l].to \in Accounts
      BY <3>2, <3>3, RequestType DEF IsOp, IsSpend
    <3>5. target'[c] = l /\ ~IsOp(c, "lock")'
      BY <2>1, <2>3, <3>2 DEF IsOp
    <3> QED BY <2>3, <3>2, <3>3, <3>4, <3>5, HtlcAssumption DEF Parties
  <2> QED BY <2>2, <2>3
<1> QED BY <1>1, <1>2, <1>3, <1>4, <1>5 DEF Settled, Running

\* Every step keeps to the times.
LEMMA NextTime ==
  ASSUME IInv, SwapInv, [SwapNext]_swapvars, NEW c \in Calls
  PROVE  TimeInv(c)'
<1>1. TypeOK /\ TypeOK' /\ Grows /\ ChangedBy(c) /\ TimeInv(c) /\ since \in [Calls -> Nat] /\ since' \in [Calls -> Nat]
  BY SwapIsNext, NextType, NextGrows, Changes DEF IInv, SwapInv, ChangedBy
<1>2. CASE SwapOpen(c)
  BY <1>1, <1>2, Numbers DEF SwapOpen, Open, TimeInv, TypeOK
<1>3. CASE pc[c] = "idle" /\ ~SwapOpen(c)
  BY <1>1, <1>3 DEF ChangedBy, TimeInv, Build
<1>4. CASE pc[c] # "idle"
  <2>1. /\ since'[c] = since[c] /\ req'[c] = req[c] /\ pc'[c] # "idle"
        /\ now' >= now /\ req[c] = Step(c)
    BY <1>4, MadeStays
  <2>2. since'[c] <= now' /\ (Settled(c)' \/ now' <= since'[c] + Delay)
    <3>1. CASE Settled(c)
      BY <1>1, <1>4, <2>1, <3>1, SettledStays DEF TimeInv, TypeOK
    <3>2. CASE ~Settled(c)
      BY <1>1, <1>4, <2>1, <3>2, Numbers DEF TimeInv, TypeOK, ChangedBy, SwapTick, Tick
    <3> QED BY <3>1, <3>2
  <2>3. ASSUME deadline'[c] # None
        PROVE  LET d == since'[c] + Skew[req'[c].at] + req'[c].dur
               IN  d <= deadline'[c] /\ deadline'[c] <= d + Delay
    <3>1. CASE Build(c)
      <4>1. ~Settled(c) /\ now <= since[c] + Delay /\ since[c] <= now
        BY <1>1, <1>4, <3>1 DEF TimeInv, Build, Settled, Running
      <4>2. deadline'[c] = now + Skew[req[c].at] + req[c].dur
        BY <1>1, <3>1 DEF Build, Clock, TypeOK
      <4>3. IsOp(c, "lock") /\ req[c] \in Requests
        BY <3>1 DEF Build, IInv, ViewInv
      <4>4. Skew[req[c].at] \in Nat /\ req[c].dur \in Nat
        BY <4>3, RequestType, Numbers DEF IsSpend, IsOp
      <4> QED BY <1>1, <2>1, <4>1, <4>2, <4>4, Numbers DEF TypeOK
    <3>2. CASE ~Build(c)
      BY <1>1, <2>1, <2>3, <3>2 DEF ChangedBy, TimeInv
    <3> QED BY <3>1, <3>2
  <2> QED BY <2>1, <2>2, <2>3 DEF TimeInv
<1> QED BY <1>2, <1>3, <1>4

-----------------------------------------------------------------------------
\* A step of the swap keeps what every step of Htlc keeps.
LEMMA HtlcKept ==
  ASSUME IInv, [SwapNext]_swapvars
  PROVE  IInv' /\ TypeOK' /\ Grows
  BY SwapIsNext, NextType, NextGrows, NextView, NextTarget, NextSpentOnce, NextAnswers DEF IInv

\* The committed locks are the two of the script.
LEMMA LocksOfScript ==
  ASSUME IInv, SwapInv, NEW l \in Valid("lock")
  PROVE  /\ l \in Calls /\ req[l] = Step(l) /\ l \in {lockA, lockD}
         /\ pc[l] # "idle" /\ deadline[l] \in Nat
<1>1. l \in Calls /\ IsOp(l, "lock") /\ chain[l] = "valid"
  BY DEF Valid
<1>2. pc[l] # "idle" /\ deadline[l] # None
  BY <1>1 DEF IInv, ViewInv, Sealed, Built
<1>3. req[l] = Step(l)
  BY <1>1, <1>2 DEF SwapInv, TimeInv
<1>4. l \in {lockA, lockD}
  BY <1>1, <1>3, Steps DEF IsOp, SpendRequest
<1> QED BY <1>1, <1>2, <1>3, <1>4 DEF IInv, TypeOK

\* Alice's claim finds dan's lock before its deadline on the clock of her node.
LEMMA AliceClaims ==
  ASSUME IInv, SwapInv, SwapOpen(claimA), target'[claimA] # None
  PROVE  since'[claimA] + Skew[Home[alice]] < deadline'[lockD]
<1> DEFINE r == Step(claimA)
<1>1. claimA \in Calls /\ r = SpendRequest("claim", alice, netD)
  BY Steps
<1>2. OpenClaim(claimA, r) /\ UNCHANGED <<now, deadline>> /\ since'[claimA] = now
  BY <1>1 DEF SwapOpen, Open, OpenLock, OpenReclaim, SpendRequest, SwapInv
<1>3. target[claimA] = None
  BY <1>1 DEF SwapOpen, Open, IInv, ViewInv
<1>4. Cardinality(Claimable(r)) = 1 /\ target'[claimA] = (CHOOSE l \in Claimable(r) : TRUE)
  BY <1>1, <1>2, <1>3 DEF OpenClaim, IInv, TypeOK
<1>5. PICK l \in Claimable(r) : TRUE
  BY <1>4, MatchedInCalls
<1>6. l \in Valid("lock") /\ req[l].to = alice /\ Clock(Home[alice]) < deadline[l]
  BY <1>1, <1>5 DEF Claimable, Known, SpendRequest
<1>7. l = lockD
  BY <1>6, LocksOfScript, Steps, SwapAssumption DEF LockRequest
<1> QED BY <1>2, <1>6, <1>7 DEF Clock

\* A claim that commits as invalid came after the deadline for some endorser.
LEMMA AliceTooLate ==
  ASSUME IInv, SwapInv, Commit(claimA), chain'[claimA] = "invalid"
  PROVE  \E e \in Endorsers : since[claimA] + Delay + Skew[e] >= deadline[lockD]
<1>1. claimA \in Calls /\ reclaimD \in Calls /\ chain[claimA] = "sent"
  BY Steps DEF Commit
<1>2. pc[claimA] # "idle" /\ req[claimA] = Step(claimA) /\ Sealed(claimA)
  BY <1>1 DEF IInv, ViewInv, SwapInv, TimeInv
<1>3. ~IsOp(claimA, "lock")
  BY <1>2, Steps DEF IsOp, SpendRequest
<1>4. target[claimA] = lockD /\ lockD \in Valid("lock") /\ target[claimA] \notin Locked
  <2>1. target[claimA] = lockD
    BY <1>1, <1>2, <1>3, Targets DEF Sealed, Built
  <2>2. lockD \in Valid("lock")
    BY <1>1, <1>2, <1>3, <2>1 DEF Sealed, Built, IInv, TargetInv
  <2>3. chain'[claimA] = (IF Committable(claimA) THEN "valid" ELSE "invalid")
    BY <1>1 DEF Commit, IInv, TypeOK
  <2>4. target[claimA] \notin Locked
    BY <1>3, <2>3 DEF Committable
  <2> QED BY <2>1, <2>2, <2>4
<1>5. reclaimD \in Spends(lockD)
  <2>1. claimA \notin Spends(lockD)
    BY <1>1 DEF Spends, Valid
  <2> QED BY <1>4, <2>1, Spenders DEF Locked
<1>6. /\ chain[reclaimD] = "valid" /\ target[reclaimD] = lockD
      /\ pc[reclaimD] # "idle" /\ signed[reclaimD] = Endorsers
  BY <1>1, <1>5 DEF Spends, Valid, IInv, ViewInv, Sealed
<1>7. IsOp(reclaimD, "reclaim")
  <2>1. req[reclaimD] = Step(reclaimD) /\ req[reclaimD] # None
    BY <1>1, <1>6, HtlcAssumption DEF SwapInv, TimeInv, IInv, ViewInv
  <2> QED BY <2>1, Steps DEF IsOp, SpendRequest
<1>8. PICK e \in Endorsers : Clock(e) >= deadline[lockD]
  <2>1. target[reclaimD] # None
    BY <1>4, <1>6, LocksOfScript, HtlcAssumption
  <2> QED BY <1>1, <1>6, <1>7, <2>1, HtlcAssumption DEF IInv, TargetInv
<1>9. now <= since[claimA] + Delay
  BY <1>1, <1>2 DEF SwapInv, TimeInv, Settled
<1>10. deadline[lockD] \in Nat /\ now \in Nat /\ since[claimA] \in Nat
  BY <1>1, <1>4, LocksOfScript DEF IInv, TypeOK, SwapInv
<1> QED BY <1>8, <1>9, <1>10, Numbers DEF Clock

\* Every step keeps the order of the script.
LEMMA NextOrder ==
  ASSUME IInv, SwapInv, [SwapNext]_swapvars
  PROVE  OrderInv'
<1>1. /\ Calls = {lockA, lockD, claimA, claimD, reclaimA, reclaimD}
      /\ \A c \in Calls : ChangedBy(c) /\ ViewInv(c)
      /\ TypeOK /\ TypeOK' /\ OrderInv
  BY Steps, Changes, HtlcKept DEF IInv, SwapInv
<1>2. ASSUME pc'[lockD] # "idle"
      PROVE  Sees(dan, lockA)' /\ since'[lockD] <= since'[lockA] + Wait
  <2>1. ASSUME Sees(dan, lockA)
        PROVE  /\ pc[lockA] # "idle" /\ chain[lockA] = "valid" /\ since'[lockA] = since[lockA]
               /\ Sees(dan, lockA)'
    BY <1>1, <2>1, MadeStays, Numbers DEF Sees, ViewInv, ChangedBy
  <2>2. CASE pc[lockD] # "idle"
    BY <1>1, <2>1, <2>2, MadeStays DEF OrderInv
  <2>3. CASE SwapOpen(lockD)
    <3>1. Sees(dan, lockA) /\ now <= since[lockA] + Wait
      BY <2>3, SwapAssumption DEF SwapOpen, Ready
    <3>2. since'[lockD] = now
      BY <1>1, <2>3 DEF SwapOpen, SwapInv
    <3> QED BY <2>1, <3>1, <3>2
  <2> QED BY <1>1, <1>2, <2>2, <2>3 DEF ChangedBy
<1>3. ASSUME target'[claimA] # None
      PROVE  since'[claimA] + Skew[Home[alice]] < deadline'[lockD]
  <2>1. CASE SwapOpen(claimA)
    BY <1>3, <2>1, AliceClaims
  <2>2. CASE ~SwapOpen(claimA)
    <3>1. target[claimA] # None /\ pc[claimA] # "idle"
      BY <1>1, <1>3, <2>2 DEF ChangedBy, ViewInv
    <3>2. lockD \in Valid("lock")
      BY <1>1, <3>1, Targets DEF IInv, TargetInv
    <3>3. since'[claimA] = since[claimA] /\ deadline'[lockD] = deadline[lockD]
      BY <1>1, <3>1, <3>2, MadeStays, LocksOfScript DEF Valid
    <3> QED BY <1>1, <3>1, <3>3 DEF OrderInv
  <2> QED BY <2>1, <2>2
<1>4. ASSUME pc'[claimD] # "idle"
      PROVE  chain'[claimA] \in {"valid", "invalid"}
  <2>1. ASSUME chain[claimA] \in {"valid", "invalid"}
        PROVE  chain'[claimA] \in {"valid", "invalid"}
    BY <1>1, <2>1, MadeStays DEF ViewInv
  <2>2. CASE pc[claimD] # "idle"
    BY <1>1, <2>1, <2>2 DEF OrderInv
  <2>3. CASE SwapOpen(claimD)
    <3>1. secret \in Public /\ pc[claimD] = "idle"
      BY <2>3, SwapAssumption DEF SwapOpen, Open, Ready
    <3>2. PICK d \in Calls : IsOp(d, "claim") /\ chain[d] \in {"valid", "invalid"}
      BY <3>1 DEF Public
    <3>3. pc[d] # "idle" /\ req[d] = Step(d)
      BY <1>1, <3>2 DEF ViewInv, SwapInv, TimeInv
    <3>4. d = claimA
      BY <1>1, <3>1, <3>2, <3>3, Steps DEF IsOp, LockRequest, SpendRequest
    <3> QED BY <2>1, <3>2, <3>4
  <2> QED BY <1>1, <1>4, <2>2, <2>3 DEF ChangedBy
<1>5. ASSUME chain'[claimA] = "invalid"
      PROVE  \E e \in Endorsers : since'[claimA] + Delay + Skew[e] >= deadline'[lockD]
  <2>1. pc[claimA] # "idle" /\ since'[claimA] = since[claimA] /\ chain[claimA] # "none"
    <3>1. chain[claimA] # "none"
      BY <1>1, <1>5 DEF ChangedBy, Order, Commit, SwapFails, Fails, TypeOK
    <3> QED BY <1>1, <3>1, MadeStays DEF ViewInv
  <2>2. chain[claimA] = "invalid" \/ Commit(claimA)
    BY <1>1, <1>5, <2>1 DEF ChangedBy, Order, SwapFails, Fails, TypeOK
  <2>3. \E e \in Endorsers : since[claimA] + Delay + Skew[e] >= deadline[lockD]
    BY <1>1, <1>5, <2>2, AliceTooLate DEF OrderInv
  <2>4. deadline'[lockD] = deadline[lockD]
    <3>1. req[claimA] = Step(claimA) /\ req[claimA] # None /\ Sealed(claimA)
      BY <1>1, <2>1, MadeStays, HtlcAssumption DEF ViewInv
    <3>2. target[claimA] # None
      BY <3>1, Steps DEF Sealed, Built, IsOp, SpendRequest
    <3>3. lockD \in Valid("lock")
      BY <1>1, <3>2, Targets DEF IInv, TargetInv
    <3> QED BY <3>3, LocksOfScript, MadeStays DEF Valid
  <2> QED BY <2>1, <2>3, <2>4
<1> QED BY <1>2, <1>3, <1>4, <1>5 DEF OrderInv

-----------------------------------------------------------------------------
\* After alice's claim her own lock is there for dan until dan has claimed it,
\* and no endorser's clock has reached its deadline.
LEMMA DanHasTime ==
  ASSUME IInv, SwapInv, chain[claimA] = "valid", chain[claimD] # "valid"
  PROVE  /\ Spends(lockA) = {} /\ lockA \in Locked /\ target[claimA] # None
         /\ \A e \in Endorsers : Clock(e) < deadline[lockA]
<1>1. /\ Calls = {lockA, lockD, claimA, claimD, reclaimA, reclaimD}
      /\ \A c \in Calls : ViewInv(c) /\ TimeInv(c)
      /\ now \in Nat /\ since \in [Calls -> Nat]
  BY Steps DEF IInv, TypeOK, SwapInv
<1>2. target[claimA] # None
  <2>1. /\ Sealed(claimA) /\ req[claimA] = Step(claimA)
    BY <1>1 DEF ViewInv, TimeInv
  <2> QED BY <2>1, Steps DEF Sealed, Built, IsOp, SpendRequest
<1>3. reclaimA \notin Spends(lockA)
  <2> SUFFICES ASSUME reclaimA \in Spends(lockA) PROVE FALSE
    OBVIOUS
  <2>1. chain[reclaimA] = "valid" /\ target[reclaimA] = lockA
    BY DEF Spends, Valid
  <2>2. signed[reclaimA] = Endorsers /\ target[reclaimA] # None
    BY <1>1, <2>1, HtlcAssumption DEF ViewInv, Sealed
  <2> QED BY <2>2, HtlcAssumption DEF SwapInv, ClaimInv
<1>4. Spends(lockA) = {}
  <2>1. claimD \notin Spends(lockA)
    BY DEF Spends, Valid
  <2> QED BY <1>3, <2>1, Spenders
<1>5. lockA \in Locked
  BY <1>2, <1>4, Margin DEF Locked
<1>6. now <= Last + Delay
  <2>1. CASE pc[claimD] = "idle"
    BY <1>1, <2>1, Numbers DEF SwapInv, ClaimInv, Last
  <2>2. CASE pc[claimD] # "idle"
    <3>1. ~Settled(claimD) /\ since[claimD] <= Last
      BY <2>2 DEF SwapInv, ClaimInv, Settled, Running
    <3> QED BY <1>1, <2>2, <3>1, Numbers DEF TimeInv, Last
  <2> QED BY <2>1, <2>2
<1>7. ASSUME NEW e \in Endorsers PROVE Clock(e) < deadline[lockA]
  BY <1>1, <1>2, <1>6, Margin, Numbers DEF Clock, Last
<1> QED BY <1>2, <1>4, <1>5, <1>7

\* Dan's claim finds alice's lock and only that one.
LEMMA DanClaims ==
  ASSUME IInv, SwapInv, chain[claimA] = "valid", SwapOpen(claimD)
  PROVE  /\ since'[claimD] <= Last /\ target'[claimD] # None /\ pc'[claimD] = "collect"
<1> DEFINE r == Step(claimD)
<1>1. claimD \in Calls /\ r = SpendRequest("claim", dan, netA)
  BY Steps
<1>2. /\ pc[claimD] = "idle" /\ chain[claimD] = "none" /\ now <= Last
      /\ OpenClaim(claimD, r) /\ since'[claimD] = now
  BY <1>1 DEF SwapOpen, Open, OpenLock, OpenReclaim, SpendRequest, IInv, ViewInv, SwapInv, ClaimInv
<1>3. Spends(lockA) = {} /\ target[claimA] # None
  BY <1>2, DanHasTime
<1>4. /\ lockA \in Valid("lock") /\ lockA \in seen[Home[dan]]
      /\ Last + Skew[Home[dan]] < deadline[lockA] /\ deadline[lockA] \in Nat
      /\ req[lockA] = LockRequest(alice, dan, netA, DurA)
  BY <1>3, Margin, LocksOfScript, Steps
<1>5. Claimable(r) = {lockA}
  <2>1. lockA \in Known(Home[dan], netA, secret)
    <3>1. Hash(lockA) = secret
      <4>1. secret # None
        BY Steps, HtlcAssumption DEF SpendRequest, Request
      <4> QED BY <1>4, <4>1 DEF Hash, LockRequest
    <3> QED BY <1>3, <1>4, <3>1 DEF Known, LockRequest
  <2>2. Clock(Home[dan]) < deadline[lockA]
    <3>1. now \in Nat /\ since[claimA] \in Nat
      BY Steps DEF IInv, TypeOK, SwapInv
    <3> QED BY <1>2, <1>4, <3>1, Numbers DEF Clock, Last
  <2>3. lockA \in Claimable(r)
    BY <1>1, <1>4, <2>1, <2>2 DEF Claimable, SpendRequest, LockRequest
  <2>4. ASSUME NEW l \in Claimable(r) PROVE l = lockA
    <3>1. l \in Valid("lock") /\ req[l].to = dan
      BY <1>1 DEF Claimable, Known, SpendRequest
    <3> QED BY <3>1, LocksOfScript, Steps, SwapAssumption DEF LockRequest
  <2> QED BY <2>3, <2>4
<1>6. Cardinality(Claimable(r)) = 1 /\ (CHOOSE l \in Claimable(r) : TRUE) = lockA
  BY <1>5, FS_Singleton
<1>7. pc'[claimD] = "collect" /\ target'[claimD] = lockA
  <2>1. Home[r.acct] = r.at
    BY <1>1 DEF SpendRequest
  <2>2. /\ target' = [target EXCEPT ![claimD] = CHOOSE l \in Claimable(r) : TRUE]
        /\ pc' = [pc EXCEPT ![claimD] = "collect"]
    BY <1>2, <1>6, <2>1 DEF OpenClaim
  <2> QED BY <1>1, <1>6, <2>2 DEF IInv, TypeOK
<1>8. lockA # None
  BY Steps, HtlcAssumption
<1> QED BY <1>2, <1>7, <1>8

\* Once made, dan's claim goes on to commit.
LEMMA DanSucceeds ==
  ASSUME IInv, SwapInv, [SwapNext]_swapvars, chain[claimA] = "valid",
         pc[claimD] # "idle"
  PROVE  pc'[claimD] \in {"collect", "ready"} \/ chain'[claimD] \in {"sent", "valid"}
<1>1. /\ claimD \in Calls /\ TypeOK /\ ChangedBy(claimD) /\ ViewInv(claimD)
      /\ req[claimD] = Step(claimD) /\ req[claimD] # None
  BY Steps, Changes, HtlcAssumption DEF IInv, ViewInv, SwapInv, TimeInv
<1>2. target[claimD] = lockA
  BY Targets DEF SwapInv, ClaimInv
<1>3. ~IsOp(claimD, "lock") /\ IsOp(claimD, "claim")
  BY <1>1, Steps DEF IsOp, SpendRequest
<1>4. pc[claimD] \in {"collect", "ready"} \/ chain[claimD] \in {"sent", "valid"}
  BY DEF SwapInv, ClaimInv
<1>5. CASE chain[claimD] = "valid"
  BY <1>1, <1>5 DEF ChangedBy, Order, Commit, SwapFails, Fails, ViewInv, TypeOK
<1>6. CASE chain[claimD] = "sent"
  <2>1. chain[claimD] # "valid"
    BY <1>6
  <2>2. lockA \in Locked
    BY <2>1, DanHasTime
  <2>3. Committable(claimD)
    BY <1>2, <1>3, <2>2 DEF Committable
  <2> QED BY <1>1, <1>6, <2>3 DEF ChangedBy, Order, Commit, SwapFails, Fails, ViewInv, TypeOK
<1>7. CASE chain[claimD] \notin {"sent", "valid"}
  <2>1. pc[claimD] \in {"collect", "ready"}
    BY <1>4, <1>7
  <2>2. \A e \in Endorsers : MayEndorse(claimD, e)
    BY <1>2, <1>3, <1>7, DanHasTime DEF MayEndorse, IsOp
  <2>3. ~SwapFails(claimD)
    BY <2>2, Steps, SwapAssumption DEF SwapFails
  <2>4. pc'[claimD] = pc[claimD] \/ Collected(claimD) \/ Order(claimD)
    BY <1>1, <2>1, <2>3 DEF ChangedBy, SwapOpen, Open, ReceiveIdentities, Build, Finality
  <2> QED BY <1>1, <2>1, <2>4 DEF Collected, Order, TypeOK
<1> QED BY <1>4, <1>5, <1>6, <1>7


\* Every step keeps dan's chance to claim.
LEMMA NextClaim ==
  ASSUME IInv, SwapInv, [SwapNext]_swapvars
  PROVE  ClaimInv'
<1>1. /\ Calls = {lockA, lockD, claimA, claimD, reclaimA, reclaimD}
      /\ \A c \in Calls : ChangedBy(c) /\ ViewInv(c) /\ TimeInv(c)
      /\ TypeOK /\ TypeOK' /\ OrderInv /\ ClaimInv /\ since \in [Calls -> Nat]
  BY Steps, Changes, HtlcKept DEF IInv, SwapInv
<1>2. CASE chain[claimA] = "valid"
  <2>1. Last' = Last
    BY <1>1, <1>2, MadeStays DEF ViewInv, Last
  <2>2. ASSUME pc'[claimD] = "idle" PROVE now' <= Last
    <3>1. pc[claimD] = "idle" /\ chain[claimD] # "valid"
      BY <1>1, <2>2, MadeStays DEF ViewInv
    <3>2. now <= Last
      BY <1>1, <1>2, <3>1 DEF ClaimInv
    <3>3. Ready(claimD)
      <4>1. Spends(lockA) = {} /\ target[claimA] # None
        BY <1>2, <3>1, DanHasTime
      <4>2. lockA \in Valid("lock") /\ lockA \in seen[Home[dan]]
        BY <4>1, Margin
      <4>3. req[claimA] = Step(claimA) /\ req[claimA] # None
        BY <1>1, <1>2, HtlcAssumption DEF ViewInv, TimeInv
      <4>4. secret \in Public
        BY <1>1, <1>2, <4>3, Steps DEF Public, IsOp, SpendRequest
      <4> QED BY <4>1, <4>2, <4>4, SwapAssumption DEF Ready, Sees, Gone, Valid
    <3>4. now' # now => now' = now + 1 /\ now < Last
      BY <1>1, <3>1, <3>3 DEF ChangedBy, SwapTick, Tick, Last
    <3> QED BY <1>1, <3>2, <3>4, Numbers DEF Last, TypeOK
  <2>3. ASSUME pc'[claimD] # "idle"
        PROVE  /\ since'[claimD] <= Last /\ target'[claimD] # None
               /\ pc'[claimD] \in {"collect", "ready"} \/ chain'[claimD] \in {"sent", "valid"}
    <3>1. CASE pc[claimD] = "idle"
      BY <1>1, <1>2, <2>3, <3>1, DanClaims DEF ChangedBy
    <3>2. CASE pc[claimD] # "idle"
      BY <1>1, <1>2, <3>2, MadeStays, DanSucceeds DEF ClaimInv
    <3> QED BY <3>1, <3>2
  <2>4. ASSUME target'[reclaimA] # None PROVE signed'[reclaimA] = {}
    <3>1. CASE target'[reclaimA] # target[reclaimA]
      BY <1>1, <3>1 DEF ChangedBy, SwapOpen, Open, ViewInv
    <3>2. CASE target'[reclaimA] = target[reclaimA]
      <4>1. signed[reclaimA] = {} /\ target[reclaimA] = lockA
        BY <1>1, <1>2, <2>4, <3>2, Targets DEF ClaimInv
      <4>2. ASSUME NEW e \in Endorsers, Endorse(reclaimA, e) PROVE FALSE
        <5>1. pc[reclaimA] # "idle"
          BY <4>2 DEF Endorse
        <5>2. req[reclaimA] = Step(reclaimA) /\ req[reclaimA] # None
          BY <1>1, <5>1, HtlcAssumption DEF ViewInv, TimeInv
        <5>3. lockA \in Locked /\ Clock(e) >= deadline[lockA]
          BY <4>1, <4>2, <5>2, Steps DEF Endorse, MayEndorse, IsOp, SpendRequest
        <5>4. chain[claimD] # "valid"
          <6> SUFFICES ASSUME chain[claimD] = "valid" PROVE FALSE
            OBVIOUS
          <6>1. /\ pc[claimD] # "idle" /\ req[claimD] = Step(claimD) /\ req[claimD] # None
            BY <1>1, HtlcAssumption DEF ViewInv, TimeInv
          <6>2. IsOp(claimD, "claim")
            BY <6>1, Steps DEF IsOp, SpendRequest
          <6>3. target[claimD] = lockA
            BY <1>1, <1>2, <6>1, Targets DEF ClaimInv
          <6> QED BY <1>1, <5>3, <6>2, <6>3 DEF Locked, Spends, Valid
        <5>5. Clock(e) < deadline[lockA] /\ target[claimA] # None
          BY <1>2, <5>4, DanHasTime
        <5>6. deadline[lockA] \in Nat /\ Clock(e) \in Nat
          BY <1>1, <5>5, Margin, Numbers DEF Clock, TypeOK
        <5> QED BY <5>3, <5>5, <5>6
      <4> QED BY <1>1, <4>1, <4>2 DEF ChangedBy
    <3> QED BY <3>1, <3>2
  <2> QED BY <2>1, <2>2, <2>3, <2>4 DEF ClaimInv
<1>3. CASE chain'[claimA] = "valid" /\ chain[claimA] # "valid"
  <2>1. Commit(claimA) /\ chain[claimA] = "sent"
    BY <1>1, <1>3 DEF ChangedBy, Order, Commit, SwapFails, Fails, TypeOK
  <2>2. /\ UNCHANGED <<now, pc, target, signed>> /\ since'[claimA] = since[claimA]
        /\ pc[claimA] # "idle" /\ pc[claimD] = "idle"
    BY <1>1, <2>1, MadeStays DEF Commit, script, ViewInv, OrderInv
  <2>3. now <= since[claimA] + Delay
    BY <1>1, <2>1, <2>2 DEF TimeInv, Settled
  <2>4. target[claimA] # None
    <3>1. Sealed(claimA) /\ req[claimA] = Step(claimA)
      BY <1>1, <2>1, <2>2 DEF ViewInv, TimeInv
    <3> QED BY <3>1, Steps DEF Sealed, Built, IsOp, SpendRequest
  <2>5. ASSUME target[reclaimA] # None, NEW e \in signed[reclaimA] PROVE FALSE
    <3>1. target[reclaimA] = lockA /\ TargetInv(reclaimA) /\ pc[reclaimA] # "idle"
      BY <1>1, <2>5, Targets DEF IInv, ViewInv
    <3>2. req[reclaimA] = Step(reclaimA) /\ req[reclaimA] # None /\ e \in Endorsers
      BY <1>1, <3>1, HtlcAssumption DEF ViewInv, TimeInv, TypeOK
    <3>3. Clock(e) >= deadline[lockA]
      BY <2>5, <3>1, <3>2, Steps DEF TargetInv, IsOp, SpendRequest
    <3>4. Last + Delay + Skew[e] < deadline[lockA] /\ deadline[lockA] \in Nat
      BY <2>4, <3>2, Margin
    <3> QED BY <1>1, <2>3, <3>2, <3>3, <3>4, Numbers DEF Clock, Last, TypeOK
  <2>6. now' <= Last'
    BY <1>1, <2>2, <2>3, Numbers DEF Last, TypeOK
  <2> QED BY <2>2, <2>5, <2>6 DEF ClaimInv
<1> QED BY <1>2, <1>3 DEF ClaimInv

-----------------------------------------------------------------------------
\* The swap keeps to its times, in every reachable state.
THEOREM SwapInvariance == SwapSpec => [](IInv /\ SwapInv)
<1>1. SwapInit => IInv /\ SwapInv
  BY InitInv, InitSwap DEF SwapInit
<1>2. IInv /\ SwapInv /\ [SwapNext]_swapvars => IInv' /\ SwapInv'
  <2> SUFFICES ASSUME IInv, SwapInv, [SwapNext]_swapvars PROVE IInv' /\ SwapInv'
    OBVIOUS
  <2>1. since' \in [Calls -> Nat]
    BY Steps, Changes DEF ChangedBy
  <2> QED BY <2>1, HtlcKept, NextTime, NextOrder, NextClaim DEF SwapInv
<1> QED BY <1>1, <1>2, PTL DEF SwapSpec

\* Neither party ends with both sides of the swap: dan never, alice not if dan's
\* deadline was Delay ticks away when she claimed.
THEOREM SwapIsFairHolds == SwapSpec => []SwapIsFair
<1>1. IInv /\ SwapInv => SwapIsFair
  <2> SUFFICES ASSUME IInv, SwapInv PROVE SwapIsFair
    OBVIOUS
  <2>1. /\ Calls = {lockA, lockD, claimA, claimD, reclaimA, reclaimD}
        /\ \A c \in Calls : ViewInv(c) /\ TimeInv(c)
    BY Steps DEF IInv, SwapInv
  <2>2. ASSUME NEW c \in Calls, chain[c] = "valid"
        PROVE  pc[c] # "idle" /\ req[c] = Step(c) /\ Sealed(c)
    BY <2>1, <2>2 DEF ViewInv, TimeInv
  <2>3. Claimed(lockD) => chain[claimA] = "valid" /\ target[claimA] = lockD
    <3>1. reclaimD \notin Valid("claim")
      BY <2>2, Steps DEF Valid, IsOp, SpendRequest
    <3> QED BY <3>1, Spenders DEF Claimed, Spends, Valid
  <2>4. Claimed(lockA) => pc[claimD] # "idle"
    <3>1. reclaimA \notin Valid("claim")
      BY <2>2, Steps DEF Valid, IsOp, SpendRequest
    <3> QED BY <2>2, <3>1, Spenders DEF Claimed, Spends, Valid
  <2>5. Reclaimed(lockA) => chain[reclaimA] = "valid" /\ target[reclaimA] = lockA
    <3>1. claimD \notin Valid("reclaim")
      BY <2>2, Steps DEF Valid, IsOp, SpendRequest
    <3> QED BY <3>1, Spenders DEF Reclaimed, Spends, Valid
  <2>6. Reclaimed(lockD) => reclaimD \in Spends(lockD)
    <3>1. claimA \notin Valid("reclaim")
      BY <2>2, Steps DEF Valid, IsOp, SpendRequest
    <3> QED BY <3>1, Spenders DEF Reclaimed
  <2>7. ~(Claimed(lockD) /\ Reclaimed(lockA))
    <3> SUFFICES ASSUME Claimed(lockD), Reclaimed(lockA) PROVE FALSE
      OBVIOUS
    <3>1. signed[reclaimA] = Endorsers /\ target[reclaimA] # None
      BY <2>1, <2>2, <2>5, HtlcAssumption DEF Sealed
    <3> QED BY <2>3, <3>1, HtlcAssumption DEF SwapInv, ClaimInv
  <2>8. ASSUME Claimed(lockA), Reclaimed(lockD)
        PROVE  ~\A e \in Endorsers : since[claimA] + Delay + Skew[e] < deadline[lockD]
    <3>1. chain[claimA] \in {"valid", "invalid"}
      BY <2>4, <2>8 DEF SwapInv, OrderInv
    <3>2. chain[claimA] # "valid"
      <4> SUFFICES ASSUME chain[claimA] = "valid" PROVE FALSE
        OBVIOUS
      <4>1. IsOp(claimA, "claim") /\ target[claimA] # None
        <5>1. req[claimA] = Step(claimA) /\ req[claimA] # None /\ Sealed(claimA)
          BY <2>1, <2>2, HtlcAssumption DEF ViewInv
        <5> QED BY <5>1, Steps DEF Sealed, Built, IsOp, SpendRequest
      <4>2. claimA \in Spends(lockD)
        BY <2>1, <4>1, Targets DEF Spends, Valid
      <4>3. claimA = reclaimD
        BY <2>1, <2>6, <2>8, <4>2 DEF IInv, SpentOnce
      <4> QED BY <4>3, SwapAssumption
    <3>3. PICK e \in Endorsers : since[claimA] + Delay + Skew[e] >= deadline[lockD]
      BY <3>1, <3>2 DEF SwapInv, OrderInv
    <3>4. deadline[lockD] \in Nat /\ since[claimA] \in Nat
      <4>1. target[reclaimD] # None
        BY <2>1, <2>6, <2>8, HtlcAssumption DEF Spends
      <4>2. lockD \in Valid("lock")
        BY <2>1, <4>1, Targets DEF IInv, TargetInv
      <4> QED BY <2>1, <4>2, LocksOfScript DEF SwapInv
    <3> QED BY <3>3, <3>4, Numbers
  <2> QED BY <2>7, <2>8 DEF SwapIsFair
<1> QED BY <1>1, SwapInvariance, PTL
=============================================================================
