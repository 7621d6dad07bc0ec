--------------------------- MODULE StartupProofs ---------------------------
(***************************************************************************)
(* Proofs about Startup for every value of its constants: the programs     *)
(* come up and fail as stated, and what holds of Endorser holds of the     *)
(* programs too, among them the clients that end before they send.         *)
(***************************************************************************)
EXTENDS Startup, EndorserProofs

\* A service is opened by a launch that has passed every check before it.
BootInv(e) ==
  /\ runs[e] \in starts[e] .. MaxStarts[e]
  /\ boot[e] # "up" => phase[e] = "down"
  /\ boot[e] \in {"load", "create", "serve"} => conf[e] \in Configs /\ starts[e] < runs[e]
  /\ boot[e] \in {"create", "serve"} => Valid(conf[e])
  /\ boot[e] = "serve" => conf[e].identity
  /\ boot[e] = "panic" => ~conf[e].identity

StartupInv ==
  /\ conf \in [Endorsers -> Configs \cup {None}]
  /\ boot \in [Endorsers -> {"off", "load", "create", "serve", "up", "failed", "panic"}]
  /\ runs \in [Endorsers -> Nat]
  /\ \A e \in Endorsers : BootInv(e)

\* Nothing is launched at the start.
LEMMA InitStartup == StartupInit => StartupInv
BY EndorserAssumption DEF StartupInit, Init, StartupInv, BootInv

-----------------------------------------------------------------------------
\* A client that ends early has added nothing but its own end.
LEMMA EarlyGrows ==
  ASSUME IInv, NEW c \in Calls, NEW r \in Requests, EndEarly(c, r)
  PROVE  TypeOK' /\ Grows
<1> USE DEF IInv, TypeOK
<1>1. TypeOK'
  BY DEF EndEarly, service
<1> QED BY <1>1 DEF EndEarly, Grows, service

\* A client that ends early has sent nothing, so every other call is where it was.
LEMMA EarlyInv ==
  ASSUME IInv, NEW c \in Calls, NEW r \in Requests, EndEarly(c, r)
  PROVE  IInv'
<1> USE DEF IInv, TypeOK
<1>1. TypeOK' /\ Grows
  BY EarlyGrows
<1>2. /\ UNCHANGED <<ledger, sent, phase, height, starts, store, reply>>
      /\ pc[c] = "idle" /\ pc'[c] = "error" /\ req'[c] = r
      /\ before'[c] = {d \in Calls : pc[d] \in {"ok", "error"}}
  BY DEF EndEarly, service
<1>3. \A d \in Calls : d # c => pc'[d] = pc[d] /\ req'[d] = req[d] /\ before'[d] = before[d]
  BY DEF EndEarly
<1>4. ASSUME NEW d \in Calls, NEW e \in Endorsers
      PROVE  (Good(d, e)' <=> Good(d, e)) /\ (Ok(d, e)' <=> Ok(d, e)) /\ (Good(d, e) => d # c)
  <2>1. reply[c][e] = None
    BY <1>2 DEF CallInv
  <2>2. Good(d, e) => d # c
    BY <2>1 DEF Good
  <2> QED BY <1>2, <2>2 DEF Good, Ok
<1>5. LedgerInv'
  BY <1>1, <1>2 DEF LedgerInv, Grows
<1>6. HeightInv'
  <2>1. ASSUME NEW b \in Calls, NEW d \in Calls, b \in before'[d]
        PROVE  /\ pc'[b] \in {"ok", "error"}
               /\ \A e \in Endorsers : store[b][e] # None /\ store[d][e] # None =>
                    store[b][e] <= store[d][e]
    <3>1. CASE d = c
      BY <1>2, <1>3, <2>1, <3>1 DEF CallInv
    <3>2. CASE d # c
      BY <1>1, <1>3, <2>1, <3>2 DEF HeightInv, Grows
    <3> QED BY <3>1, <3>2
  <2> QED BY <1>2, <2>1 DEF HeightInv
<1>7. Serializable'
  <2> SUFFICES ASSUME NEW i \in 1 .. Len(ledger), ledger[i].valid,
                      req'[ledger[i].call].fn = "get"
               PROVE  reply[ledger[i].call][First].payload
                        = Value(req[ledger[i].call].key, i - 1)'
    BY <1>2 DEF Serializable
  <2>1. PICK b, k, h : b = ledger[i].call /\ k = req'[b].key /\ h = i - 1
    OBVIOUS
  <2>2. b \in Calls /\ b # c /\ h \in 0 .. Len(ledger)
    BY <1>2, <2>1 DEF LedgerInv
  <2>3. req'[b] = req[b]
    BY <1>3, <2>2
  <2>4. reply[b][First].payload = Value(k, h)
    BY <2>1, <2>3 DEF Serializable
  <2>5. Value(k, h)' = Value(k, h)
    BY <1>1, <2>2, PrefixKept
  <2> QED BY <1>2, <2>1, <2>4, <2>5
<1>8. ASSUME NEW d \in Calls PROVE CallInv(d)'
  <2>1. CASE d = c
    BY <1>2, <2>1 DEF CallInv
  <2>2. CASE d # c
    BY <1>2, <1>3, <1>4, <2>2, EndorserAssumption DEF CallInv
  <2> QED BY <2>1, <2>2
<1>9. ASSUME NEW d \in Calls, NEW e \in Endorsers PROVE AnswerInv(d, e)'
  <2>1. CASE ~Good(d, e)
    BY <1>2, <1>4, <2>1 DEF AnswerInv
  <2>2. CASE Good(d, e)
    <3>1. PICK q, h : q = req[d] /\ h = store[d][e]
      OBVIOUS
    <3>2. /\ req'[d] = q /\ h \in 0 .. Len(ledger) /\ h # None /\ q.fn # "none"
          /\ reply[d][e] = Execute(q, h)
      BY <1>3, <1>4, <2>2, <3>1 DEF AnswerInv
    <3>3. Execute(q, h)' = Execute(q, h)
      BY <1>1, <3>2, ExecuteKept
    <3>4. (reply[d][e] = Execute(req[d], store[d][e]))'
      BY <1>2, <3>1, <3>2, <3>3
    <3> QED BY <1>2, <3>1, <3>2, <3>4 DEF AnswerInv
  <2> QED BY <2>1, <2>2
<1> QED BY <1>1, <1>5, <1>6, <1>7, <1>8, <1>9

\* A step of a program is one of Endorser, the early end of a client, or neither.
LEMMA ProgramStep ==
  ASSUME [StartupNext]_allvars
  PROVE  [Next]_vars \/ \E c \in Calls, r \in Requests : EndEarly(c, r)
<1>1. ASSUME NEW e \in Endorsers, (\E k \in Configs : Launch(e, k)) \/ Load(e) \/ CreateService(e)
      PROVE  UNCHANGED vars
  BY <1>1 DEF Launch, Load, CreateService
<1>2. ASSUME NEW e \in Endorsers, StartAndServe(e) PROVE [Next]_vars
  BY <1>2 DEF StartAndServe, Next
<1>3. ASSUME NEW c \in Calls, NEW r \in Requests, NEW k \in ClientConfigs, RunClient(c, r, k)
      PROVE  Open(c, r) \/ EndEarly(c, r)
  BY <1>3 DEF RunClient
<1>4. CASE Running
  BY <1>4 DEF Running, Proposal, RunningClient, Next
<1>5. CASE UNCHANGED allvars
  BY <1>5 DEF allvars
<1> QED BY <1>1, <1>2, <1>3, <1>4, <1>5 DEF StartupNext, Next

\* Every step keeps the invariant of Endorser.
LEMMA ProgramInv ==
  ASSUME IInv, [StartupNext]_allvars
  PROVE  IInv'
<1>1. CASE [Next]_vars
  <2>1. TypeOK' /\ Grows
    BY <1>1, NextType, NextGrows
  <2> QED BY <1>1, <2>1, NextAnswer, NextCall, NextHeight, NextSerial DEF IInv
<1> QED BY <1>1, EarlyInv, ProgramStep

-----------------------------------------------------------------------------
\* Whom a running program can start or stop.
LEMMA RunningService ==
  ASSUME IInv, StartupInv, Running, NEW e \in Endorsers
  PROVE  starts' = starts /\ (phase[e] = "down" => phase'[e] = "down")
<1> USE DEF IInv, TypeOK, service
<1>1. ASSUME NEW f \in Endorsers, Sync(f) \/ WaitForReady(f) \/ Close(f) \/ Exit(f)
      PROVE  starts' = starts /\ (phase[e] = "down" => phase'[e] = "down")
  BY <1>1 DEF Sync, WaitForReady, Close, Exit, Die
<1>2. ASSUME NEW f \in Endorsers, NEW c \in Calls, Proposal(f, c)
      PROVE  starts' = starts /\ (phase[e] = "down" => phase'[e] = "down")
  BY <1>2 DEF Proposal, Refuse, OpenStore, ProcessProposal, LogNoArgs, Die
<1>3. ASSUME NEW c \in Calls, RunningClient(c) \/ Commit(c) PROVE UNCHANGED service
  BY <1>3 DEF RunningClient, Endorsed, Submit, ClientFails, Commit
<1>4. CASE Quiet
  BY <1>4 DEF Quiet, vars
<1> QED BY <1>1, <1>2, <1>3, <1>4 DEF Running

\* Every step of one endorser's start keeps its order.
LEMMA StartStep ==
  ASSUME IInv, StartupInv, NEW e \in Endorsers,
         (\E k \in Configs : Launch(e, k)) \/ Load(e) \/ CreateService(e) \/ StartAndServe(e)
  PROVE  StartupInv'
<1> USE DEF StartupInv, IInv, TypeOK
<1>1. \A f \in Endorsers : /\ conf[f] \in Configs => conf[f] \in Config
                          /\ starts[f] \in Nat /\ MaxStarts[f] \in Nat
  BY EndorserAssumption, StartupAssumption
<1>2. ASSUME NEW k \in Configs, Launch(e, k) PROVE StartupInv'
  <2>1. UNCHANGED <<starts, phase>> /\ phase[e] = "down" /\ runs[e] < MaxStarts[e]
    BY <1>2 DEF Launch, Ended, BootInv, vars, service
  <2>2. /\ conf' \in [Endorsers -> Configs \cup {None}]
        /\ boot' \in [Endorsers -> {"off", "load", "create", "serve", "up", "failed", "panic"}]
        /\ runs' \in [Endorsers -> Nat]
    BY <1>2 DEF Launch
  <2>3. BootInv(e)'
    BY <1>1, <1>2, <2>1 DEF Launch, BootInv
  <2>4. \A f \in Endorsers \ {e} : BootInv(f)'
    BY <1>2, <2>1 DEF Launch, BootInv, Valid
  <2> QED BY <2>2, <2>3, <2>4
<1>3. ASSUME Load(e) \/ CreateService(e) PROVE StartupInv'
  <2>1. UNCHANGED <<starts, phase>>
    BY <1>3 DEF Load, CreateService, vars, service
  <2>2. UNCHANGED <<conf, runs>> /\ boot[e] \in {"load", "create"}
    BY <1>3 DEF Load, CreateService, Goto
  <2>3. \E b : boot' = [boot EXCEPT ![e] = b]
    BY <1>3 DEF Load, CreateService, Goto
  <2>4. \/ boot[e] = "load" /\ Valid(conf[e]) /\ boot'[e] = "create"
        \/ boot[e] = "create" /\ conf[e].identity /\ boot'[e] = "serve"
        \/ boot[e] = "create" /\ ~conf[e].identity /\ boot'[e] = "panic"
        \/ boot'[e] = "failed"
    BY <1>1, <1>3, <2>2 DEF Load, CreateService, Goto, BootInv, Valid
  <2>5. \A f \in Endorsers \ {e} : boot'[f] = boot[f]
    BY <2>3
  <2>6. boot' \in [Endorsers -> {"off", "load", "create", "serve", "up", "failed", "panic"}]
    BY <2>3, <2>4
  <2>7. BootInv(e) /\ phase[e] = "down"
    BY <2>2 DEF BootInv
  <2>8. BootInv(e)'
    BY <2>1, <2>2, <2>4, <2>7 DEF BootInv
  <2>9. \A f \in Endorsers \ {e} : BootInv(f)'
    BY <2>1, <2>2, <2>5 DEF BootInv
  <2> QED BY <2>2, <2>6, <2>8, <2>9
<1>4. ASSUME StartAndServe(e) PROVE StartupInv'
  <2>1. UNCHANGED <<conf, runs>> /\ boot[e] = "serve" /\ conf[e].server
    BY <1>4 DEF StartAndServe, Goto, BootInv, Valid
  <2>2. \E b \in {"up", "failed"} : boot' = [boot EXCEPT ![e] = b]
    BY <1>4, <2>1 DEF StartAndServe, Goto
  <2>3. \/ boot'[e] = "up" /\ starts'[e] = starts[e] + 1
        \/ boot'[e] = "failed" /\ starts'[e] = starts[e] /\ phase'[e] = phase[e]
    BY <1>4, <2>1 DEF StartAndServe, Goto, Start, vars, service
  <2>4. \A f \in Endorsers \ {e} : /\ boot'[f] = boot[f] /\ starts'[f] = starts[f]
                                   /\ phase'[f] = phase[f]
    BY <1>4, <2>1 DEF StartAndServe, Goto, Start, vars, service
  <2>5. /\ runs[e] \in starts[e] .. MaxStarts[e] /\ starts[e] < runs[e]
        /\ phase[e] = "down"
    BY <2>1 DEF BootInv
  <2>6. BootInv(e)'
    BY <1>1, <2>1, <2>3, <2>5 DEF BootInv
  <2>7. \A f \in Endorsers \ {e} : BootInv(f)'
    BY <2>1, <2>4 DEF BootInv
  <2> QED BY <2>1, <2>2, <2>6, <2>7
<1> QED BY <1>2, <1>3, <1>4

\* Every step keeps every endorser's start in order.
LEMMA NextStartup ==
  ASSUME IInv, StartupInv, [StartupNext]_allvars
  PROVE  StartupInv'
<1>1. CASE Running
  <2>1. UNCHANGED <<conf, boot, runs>>
    BY <1>1 DEF Running, startup
  <2>2. ASSUME NEW e \in Endorsers PROVE BootInv(e)'
    BY <1>1, <2>1, <2>2, RunningService DEF StartupInv, BootInv, Valid
  <2> QED BY <2>1, <2>2 DEF StartupInv
<1>2. ASSUME NEW c \in Calls, NEW r \in Requests, NEW k \in ClientConfigs, RunClient(c, r, k)
      PROVE  UNCHANGED <<conf, boot, runs, starts, phase>>
  BY <1>2 DEF RunClient, Open, EndEarly, startup, service
<1>3. CASE UNCHANGED <<conf, boot, runs, starts, phase>>
  BY <1>3 DEF StartupInv, BootInv, Valid
<1>4. CASE UNCHANGED allvars
  BY <1>3, <1>4 DEF allvars, vars, service, startup
<1> QED BY <1>1, <1>2, <1>3, <1>4, StartStep DEF StartupNext

-----------------------------------------------------------------------------
\* Endorsers that are launched with any file, and clients run with any flags,
\* keep the invariant of Endorser and the order of the start.
THEOREM StartupInvariance == StartupSpec => [](IInv /\ StartupInv)
<1>1. StartupInit => IInv /\ StartupInv
  BY InitInv, InitStartup DEF StartupInit
<1>2. IInv /\ StartupInv /\ [StartupNext]_allvars => IInv' /\ StartupInv'
  BY ProgramInv, NextStartup
<1> QED BY <1>1, <1>2, PTL DEF StartupSpec

\* Every variable keeps its type, and no endorser serves without a launch.
THEOREM StartupTypeCorrect == StartupSpec => []StartupTypeOK
<1>1. IInv /\ StartupInv => StartupTypeOK
  BY DEF IInv, StartupInv, BootInv, StartupTypeOK
<1> QED BY <1>1, StartupInvariance, PTL

\* Of the parts that may be absent from an accepted configuration only the
\* identity stops the process with a panic.
THEOREM OnlyIdentityCrashesHolds == StartupSpec => []OnlyIdentityCrashes
<1>1. IInv /\ StartupInv => OnlyIdentityCrashes
  BY DEF StartupInv, BootInv, OnlyIdentityCrashes
<1> QED BY <1>1, StartupInvariance, PTL

\* A client that ends early leaves every call with the one block it may have.
LEMMA EarlyOnce ==
  ASSUME IInv, OnceInv, NEW c \in Calls, NEW r \in Requests, EndEarly(c, r)
  PROVE  OnceInv'
<1> USE DEF IInv, TypeOK
<1>1. /\ UNCHANGED <<ledger, sent, reply>> /\ pc[c] = "idle" /\ pc'[c] = "error" /\ c \notin sent
      /\ \A d \in Calls : d # c => pc'[d] = pc[d] /\ req'[d] = req[d]
  BY DEF EndEarly, CallInv
<1>2. \A d \in Calls : /\ Good(d, First)' <=> Good(d, First)
                       /\ Ok(d, First)' <=> Ok(d, First)
  BY <1>1 DEF Good, Ok
<1> QED BY <1>1, <1>2 DEF OnceInv

\* To the store it is a call that is never answered.
LEMMA KVEarly ==
  ASSUME IInv, OnceInv, NEW c \in Calls, NEW r \in Requests, EndEarly(c, r)
  PROVE  KV!Open(c)
<1>1. Grows /\ UNCHANGED <<ledger, reply>> /\ Len(ledger) \in Nat
  <2>1. Grows
    BY EarlyGrows
  <2>2. UNCHANGED <<ledger, reply>> /\ Len(ledger) \in Nat
    BY DEF EndEarly, IInv, TypeOK
  <2> QED BY <2>1, <2>2
<1>2. \A k : \A h \in 0 .. Len(ledger) : Value(k, h)' = Value(k, h)
  BY <1>1, PrefixKept
<1>3. Db' = Db
  BY <1>1, <1>2 DEF Db
<1>4. Past' = Past
  <2>1. ASSUME NEW k \in Keys
        PROVE  {Value(k, h)' : h \in 0 .. Len(ledger)} = {Value(k, h) : h \in 0 .. Len(ledger)}
    BY <1>2
  <2> QED BY <1>1, <2>1 DEF Past
<1>5. Effect' = Effect /\ Got' = Got
  BY <1>1 DEF Effect, Applied, Rejected, Got, Ok
<1>6. req[c] = None /\ req' = [req EXCEPT ![c] = r]
  BY DEF EndEarly, OnceInv
<1> QED BY <1>3, <1>4, <1>5, <1>6 DEF KV!Open

\* The programs implement the one key-value store as well, however their
\* endorsers are launched and their clients fail to start.
THEOREM ProgramsImplementKVStore == StartupSpec => ImplementsKVStore
<1>1. IInv /\ OnceInv /\ [StartupNext]_allvars => OnceInv'
  BY NextOnce, EarlyOnce, ProgramStep
<1>2. IInv /\ OnceInv /\ [StartupNext]_allvars => [KV!Next]_(KV!vars)
  <2> SUFFICES ASSUME IInv, OnceInv, [StartupNext]_allvars PROVE [KV!Next]_(KV!vars)
    OBVIOUS
  <2>1. ASSUME NEW c \in Calls, NEW r \in Requests, EndEarly(c, r) PROVE KV!Next
    BY <2>1, KVEarly DEF KV!Next
  <2> QED BY <2>1, KVStep, ProgramStep
<1>3. StartupInit => OnceInv /\ KV!Init
  BY InitOnce, KVInit DEF StartupInit
<1> QED BY <1>1, <1>2, <1>3, StartupInvariance, PTL DEF StartupSpec, ImplementsKVStore, KV!Spec
=============================================================================
