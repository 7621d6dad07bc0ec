----------------------------- MODULE NodeProofs -----------------------------
(***************************************************************************)
(* Proofs about Node and Routes: requests mean what they say and a         *)
(* successful init is complete, for every number of requests and services. *)
(***************************************************************************)
EXTENDS Node, TLAPS

\* Where a request is, and what has been done for it.
RequestInv(q) ==
  /\ at[q] # "none" => req[q] \in Inputs
  /\ at[q] \in {"none", "decode"} => q \notin started /\ code[q] = None
  /\ at[q] = "run" => q \in started /\ code[q] = None
  /\ q \notin started => todo[q] = {}
  /\ q \in started => /\ at[q] # "none" /\ Status(kind, req[q]) = None
                      /\ req[q].route = "lock" => duration[q] = ToDeadline(req[q].deadline)
                      /\ code[q] \in {None, 200, 500}

\* What an init call has passed has its own parameters.
InitCallInv(q) ==
  q \in started /\ req[q].route = "init" =>
    /\ \A t \in TMSs \ (Evm \cup todo[q]) : params[t] = t
    /\ code[q] = 200 => todo[q] = {}

IInv == /\ TypeOK
        /\ \A q \in Attempts : RequestInv(q) /\ InitCallInv(q)

-----------------------------------------------------------------------------
\* toDeadline never wraps: what it accepts it converts exactly.
THEOREM ToDeadlineExact ==
  ASSUME NEW s \in Int, ToDeadline(s) # None
  PROVE  ToDeadline(s) = s * Second /\ ToDeadline(s) \in 1 .. MaxInt64
<1>1. MaxInt64 \in Nat /\ Second \in Nat \ {0}
  BY RoutesAssumption
<1>2. s >= 1 /\ s <= MaxInt64 \div Second /\ ToDeadline(s) = Times64(s, Second)
  BY <1>1 DEF ToDeadline
<1>3. PICK d \in Int : d = MaxInt64 \div Second
  BY <1>1
<1>4. d * Second <= MaxInt64
  BY <1>1, <1>3
<1>5. s * Second \in Int /\ s * Second <= d * Second
  BY <1>1, <1>2, <1>3
<1>6. s * Second >= 1
  BY <1>1, <1>2
<1>7. PICK p \in Int : p = s * Second
  BY <1>5
<1>8. p \in 1 .. MaxInt64
  BY <1>1, <1>4, <1>5, <1>6, <1>7
<1>9. (p + MaxInt64 + 1) % (2 * (MaxInt64 + 1)) = p + MaxInt64 + 1
  BY <1>1, <1>8
<1> QED BY <1>1, <1>2, <1>7, <1>8, <1>9 DEF Times64

\* A request that leads to a call is the one the client meant.
LEMMA CallIsMeant ==
  ASSUME NEW r \in Request, Status(kind, r) = None
  PROVE  /\ r.route \in HasId => r.id = "ok"
         /\ r.route = "lock" => ToDeadline(r.deadline) # None
<1>1. None \notin Int
  BY RoutesAssumption
<1>2. r.id \in {"ok", "bad"}
  BY DEF Request
<1>3. (r.route \in HasId => r.id # "bad") /\ ~BadRequest(r)
  BY <1>1 DEF Status
<1> QED BY <1>2, <1>3 DEF BadRequest

\* An answer without a call is an HTTP status.
LEMMA StatusType ==
  ASSUME NEW r PROVE Status(kind, r) \in {200, 204, 400, 404, 405, 500, None}
BY DEF Status

-----------------------------------------------------------------------------
\* No request has been made at the start.
LEMMA InitInv == Init => IInv
BY DEF Init, IInv, TypeOK, RequestInv, InitCallInv

\* Every step keeps the types.
LEMMA NextType ==
  ASSUME IInv, [Next]_vars PROVE TypeOK'
<1> USE DEF IInv, TypeOK, http, bindings
<1>1. CASE StartFSC \/ BindingsDone \/ \E l \in Labels : BindEndorsingIdentity(l)
  <2>1. UNCHANGED <<kind, responders, session, http, params>>
    BY <1>1 DEF StartFSC, BindingsDone, BindEndorsingIdentity
  <2>2. stage' \in {"new", "bind", "register", "serve", "drain", "stop", "exited"}
    BY <1>1 DEF StartFSC, BindingsDone, BindEndorsingIdentity
  <2>3. pairs' \in [Labels -> {"todo", "bound", "failed", "skipped"}]
    BY <1>1 DEF StartFSC, BindingsDone, BindEndorsingIdentity
  <2>4. store' \in [Identities -> Identities \cup {Default, None}]
    <3>1. CASE StartFSC \/ BindingsDone
      BY <3>1 DEF StartFSC, BindingsDone
    <3>2. ASSUME NEW l \in Labels, BindEndorsingIdentity(l) PROVE store' \in [Identities -> Identities \cup {Default, None}]
      <4>1. Endorsing(l) \in Identities /\ P2P(l) \in Identities
        BY DEF Endorsing, P2P, Identities
      <4>2. LongTerm(Endorsing(l)) \in Identities \cup {Default, None}
        BY <4>1 DEF LongTerm
      <4> QED BY <3>2, <4>1, <4>2 DEF BindEndorsingIdentity, BindPair, PutBindings
    <3> QED BY <1>1, <3>1, <3>2
  <2> QED BY <2>1, <2>2, <2>3, <2>4
<1>2. ASSUME NEW v \in Responders, RegisterResponder(v) PROVE TypeOK'
  <2>1. v \in {"issue", "transfer", "lock", "redeem"}
    BY RoutesAssumption DEF Responders
  <2> QED BY <1>2, <2>1 DEF RegisterResponder
<1>3. CASE ListenAndServe \/ Stop \/ Shutdown
  <2>1. UNCHANGED <<kind, bindings, responders, session, http, params>>
    BY <1>3 DEF ListenAndServe, Stop, Shutdown
  <2>2. stage' \in {"new", "bind", "register", "serve", "drain", "stop", "exited"}
    BY <1>3 DEF ListenAndServe, Stop, Shutdown
  <2> QED BY <2>1, <2>2
<1>4. CASE FscStop \/ Kill
  <2>1. UNCHANGED <<kind, bindings, responders, session, req, code, started, duration, todo, params>>
    BY <1>4 DEF FscStop, Kill
  <2>2. stage' = "exited"
    BY <1>4 DEF FscStop, Kill
  <2>3. at' \in [Attempts -> {"none", "decode", "run", "respond", "answered", "dropped"}]
    BY <1>4 DEF FscStop, Kill, Drop
  <2> QED BY <2>1, <2>2, <2>3
<1>5. ASSUME NEW s \in Sessions, NEW v \in Responders, OpenSession(s, v) PROVE TypeOK'
  BY <1>5 DEF OpenSession
<1>6. ASSUME NEW q \in Attempts, NEW r \in Inputs, Accept(q, r) PROVE TypeOK'
  BY <1>6 DEF Accept
<1>7. ASSUME NEW q \in Attempts, Handle(q) PROVE TypeOK'
  <2>1. req[q] \in Request
    BY <1>7, NodeAssumption DEF Handle, RequestInv
  <2>2. CASE Status(kind, req[q]) # None
    BY <1>7, <2>2, StatusType DEF Handle
  <2>3. CASE Status(kind, req[q]) = None
    <3>1. req[q].route = "lock" => ToDeadline(req[q].deadline) \in 1 .. MaxInt64
      BY <2>1, <2>3, CallIsMeant, ToDeadlineExact DEF Request
    <3>2. /\ at' = [at EXCEPT ![q] = "run"] /\ started' = started \cup {q}
          /\ duration' = IF req[q].route = "lock"
               THEN [duration EXCEPT ![q] = ToDeadline(req[q].deadline)] ELSE duration
          /\ todo' = IF req[q].route = "init" THEN [todo EXCEPT ![q] = TMSs] ELSE todo
          /\ UNCHANGED <<code, kind, stage, bindings, responders, session, req, params>>
      BY <1>7, <2>3 DEF Handle
    <3>3. duration' \in [Attempts -> 1 .. MaxInt64 \cup {None}]
      BY <3>1, <3>2
    <3>4. todo' \in [Attempts -> SUBSET TMSs]
      BY <3>2
    <3> QED BY <3>2, <3>3, <3>4
  <2> QED BY <2>2, <2>3
<1>8. ASSUME NEW q \in Attempts, Return(q) \/ Respond(q) PROVE TypeOK'
  <2>1. UNCHANGED <<kind, stage, bindings, responders, session, req, started, duration, todo, params>>
    BY <1>8 DEF Return, Respond
  <2>2. at' \in [Attempts -> {"none", "decode", "run", "respond", "answered", "dropped"}]
    BY <1>8 DEF Return, Finish, Respond
  <2>3. code' \in [Attempts -> {200, 204, 400, 404, 405, 500, None}]
    BY <1>8 DEF Return, Finish, Respond
  <2> QED BY <2>1, <2>2, <2>3
<1>9. ASSUME NEW q \in Attempts, NEW t \in TMSs, DeployTMS(q, t) \/ DeployUnknown(q, t)
      PROVE  TypeOK'
  <2>1. UNCHANGED <<kind, stage, bindings, responders, session, req, started, duration>>
    BY <1>9 DEF DeployTMS, DeployUnknown
  <2>2. at' \in [Attempts -> {"none", "decode", "run", "respond", "answered", "dropped"}]
    BY <1>9 DEF DeployTMS, DeployUnknown, Finish
  <2>3. code' \in [Attempts -> {200, 204, 400, 404, 405, 500, None}]
    BY <1>9 DEF DeployTMS, DeployUnknown, Finish
  <2>4. todo' \in [Attempts -> SUBSET TMSs]
    BY <1>9 DEF DeployTMS, DeployUnknown
  <2>5. params' \in [TMSs -> TMSs \cup {None}]
    BY <1>9 DEF DeployTMS, DeployUnknown
  <2> QED BY <2>1, <2>2, <2>3, <2>4, <2>5
<1>10. CASE UNCHANGED vars
  BY <1>10 DEF vars
<1> QED BY <1>1, <1>2, <1>3, <1>4, <1>5, <1>6, <1>7, <1>8, <1>9, <1>10 DEF Next, Exited

-----------------------------------------------------------------------------
\* Every step keeps the requests in order.
LEMMA NextRequest ==
  ASSUME IInv, TypeOK', [Next]_vars, NEW q \in Attempts PROVE RequestInv(q)'
<1> USE DEF IInv, TypeOK, RequestInv, http
<1>1. CASE UNCHANGED <<kind, http>>
  BY <1>1
<1>2. CASE FscStop \/ Kill
  BY <1>2 DEF FscStop, Kill, Drop, Active
<1>3. ASSUME NEW p \in Attempts, NEW r \in Inputs, Accept(p, r) PROVE RequestInv(q)'
  BY <1>3 DEF Accept
<1>4. ASSUME NEW p \in Attempts, Handle(p) PROVE RequestInv(q)'
  <2>1. CASE q # p
    BY <1>4, <2>1 DEF Handle
  <2>2. CASE q = p /\ Status(kind, req[q]) # None
    BY <1>4, <2>2 DEF Handle
  <2>3. CASE q = p /\ Status(kind, req[q]) = None
    <3>1. /\ at'[q] = "run" /\ q \in started' /\ req' = req /\ code' = code /\ kind' = kind
          /\ req[q].route = "lock" => duration'[q] = ToDeadline(req[q].deadline)
      BY <1>4, <2>3 DEF Handle
    <3>2. code[q] = None
      BY <1>4, <2>3 DEF Handle
    <3> QED BY <1>4, <2>3, <3>1, <3>2 DEF Handle
  <2> QED BY <2>1, <2>2, <2>3
<1>5. ASSUME NEW p \in Attempts, Return(p) \/ Respond(p) PROVE RequestInv(q)'
  BY <1>5 DEF Return, Finish, Respond
<1>6. ASSUME NEW p \in Attempts, NEW t \in TMSs, DeployTMS(p, t) \/ DeployUnknown(p, t)
      PROVE  RequestInv(q)'
  BY <1>6 DEF DeployTMS, DeployUnknown, Finish
<1>7. \/ UNCHANGED <<kind, http>> \/ FscStop \/ Kill
      \/ \E p \in Attempts : \E r \in Inputs : Accept(p, r)
      \/ \E p \in Attempts : Handle(p) \/ Return(p) \/ Respond(p)
      \/ \E p \in Attempts : \E t \in TMSs : DeployTMS(p, t) \/ DeployUnknown(p, t)
  BY DEF Next, vars, Exited, StartFSC, BindEndorsingIdentity, BindingsDone, RegisterResponder, ListenAndServe, Stop, Shutdown,
         OpenSession
<1> QED BY <1>1, <1>2, <1>3, <1>4, <1>5, <1>6, <1>7

\* Parameters only ever become a service's own.
LEMMA NextParams ==
  ASSUME IInv, [Next]_vars, NEW t \in TMSs PROVE params'[t] = params[t] \/ params'[t] = t
BY DEF IInv, TypeOK, Next, vars, Exited, StartFSC, BindEndorsingIdentity, BindingsDone, RegisterResponder, ListenAndServe, Stop, Shutdown,
       FscStop, Kill, OpenSession, Accept, Handle, Return, Respond, DeployTMS, DeployUnknown

\* An init call drops a service from its list only when it is deployed or on an EVM chain.
LEMMA NextInitCall ==
  ASSUME IInv, TypeOK', [Next]_vars, NEW q \in Attempts PROVE InitCallInv(q)'
<1> SUFFICES ASSUME q \in started', req'[q].route = "init"
             PROVE  /\ \A t \in TMSs \ (Evm \cup todo'[q]) : params'[t] = t
                    /\ code'[q] = 200 => todo'[q] = {}
  BY DEF InitCallInv
<1> USE DEF IInv, TypeOK, http
<1>1. \/ /\ q \in started /\ req'[q] = req[q] /\ todo'[q] = todo[q]
         /\ code'[q] = code[q] \/ (code'[q] = 200 => todo[q] = {})
      \/ todo'[q] = TMSs /\ code'[q] = None
      \/ /\ q \in started /\ req'[q] = req[q] /\ code'[q] = code[q] /\ code[q] = None
         /\ \E t \in TMSs : /\ todo'[q] = todo[q] \ {t}
                            /\ t \in Evm \/ params'[t] = t
  <2>1. CASE UNCHANGED http
    BY <2>1
  <2>2. CASE FscStop \/ Kill
    BY <2>2 DEF FscStop, Kill
  <2>3. ASSUME NEW p \in Attempts, NEW r \in Inputs, Accept(p, r)
        PROVE  q \in started /\ req'[q] = req[q] /\ todo'[q] = todo[q] /\ code'[q] = code[q]
    BY <2>3 DEF Accept, RequestInv
  <2>4. ASSUME NEW p \in Attempts, Handle(p)
        PROVE  \/ /\ q \in started /\ req'[q] = req[q] /\ todo'[q] = todo[q]
                  /\ code'[q] = code[q]
               \/ todo'[q] = TMSs /\ code'[q] = None
    BY <2>4 DEF Handle, RequestInv
  <2>5. ASSUME NEW p \in Attempts, Return(p) \/ Respond(p)
        PROVE  /\ q \in started /\ req'[q] = req[q] /\ todo'[q] = todo[q]
               /\ code'[q] = code[q] \/ (code'[q] = 200 => todo[q] = {})
    BY <2>5 DEF Return, Finish, Respond
  <2>6. ASSUME NEW p \in Attempts, NEW t \in TMSs, DeployUnknown(p, t)
        PROVE  /\ q \in started /\ req'[q] = req[q] /\ todo'[q] = todo[q]
               /\ code'[q] = code[q] \/ code'[q] # 200
    BY <2>6 DEF DeployUnknown, Finish
  <2>7. ASSUME NEW p \in Attempts, NEW t \in TMSs, DeployTMS(p, t), p # q
        PROVE  q \in started /\ req'[q] = req[q] /\ todo'[q] = todo[q] /\ code'[q] = code[q]
    BY <2>7 DEF DeployTMS
  <2>8. ASSUME NEW t \in TMSs, DeployTMS(q, t)
        PROVE  /\ q \in started /\ req'[q] = req[q] /\ code'[q] = code[q] /\ code[q] = None
               /\ todo'[q] = todo[q] \ {t}
               /\ t \in Evm \/ params'[t] = t
    BY <2>8 DEF DeployTMS, RequestInv
  <2>9. \/ UNCHANGED http \/ FscStop \/ Kill
        \/ \E p \in Attempts : \E r \in Inputs : Accept(p, r)
        \/ \E p \in Attempts : Handle(p) \/ Return(p) \/ Respond(p)
        \/ \E p \in Attempts : \E t \in TMSs : DeployTMS(p, t) \/ DeployUnknown(p, t)
    BY DEF Next, vars, Exited, StartFSC, BindEndorsingIdentity, BindingsDone, RegisterResponder, ListenAndServe, Stop, Shutdown,
           OpenSession
  <2> QED BY <2>1, <2>2, <2>3, <2>4, <2>5, <2>6, <2>7, <2>8, <2>9
<1>2. None # 200
  BY RoutesAssumption
<1>3. q \in started /\ req[q].route = "init" =>
        /\ \A t \in TMSs \ (Evm \cup todo[q]) : params[t] = t
        /\ code[q] = 200 => todo[q] = {}
  BY DEF InitCallInv
<1>4. \A t \in TMSs : params'[t] = params[t] \/ params'[t] = t
  BY NextParams
<1> QED BY <1>1, <1>2, <1>3, <1>4

-----------------------------------------------------------------------------
(* The order of main: bindings and responders come before any request.     *)

Starting == {"new", "bind", "register"}

\* What the store holds for an endorser while main is on its way.
PairInv(l) ==
  /\ stage = "new" => pairs[l] = "todo"
  /\ stage = "bind" /\ l \in HasMsp => store[Endorsing(l)] = Default
  /\ stage = "bind" /\ pairs[l] = "todo" => store[P2P(l)] = None
  /\ pairs[l] = "bound" => store[Endorsing(l)] = Default /\ store[P2P(l)] = Default
  /\ kind # "endorser" /\ stage \notin {"new", "bind", "exited"} => pairs[l] # "todo"

\* A request there is has come to a node with all its responders and bindings.
ReadyInv ==
  /\ stage \in Starting => \A q \in Attempts : at[q] = "none"
  /\ stage \in {"serve", "drain", "stop"} => responders = Responders
  /\ \A q \in Attempts : at[q] # "none" =>
       /\ responders = Responders
       /\ kind # "endorser" => \A l \in Labels : pairs[l] # "todo"

OrderInv == ReadyInv /\ \A l \in Labels : PairInv(l)

\* An endorser's two identities differ from each other and from those of others.
LEMMA IdentitiesDiffer ==
  ASSUME NEW l \in Labels, NEW m \in Labels
  PROVE  /\ Endorsing(l) \in Identities /\ P2P(l) \in Identities
         /\ Endorsing(l) # P2P(m)
         /\ P2P(l) = P2P(m) => l = m
  BY DEF Endorsing, P2P, Identities

\* Nothing is bound, registered or requested at the start.
LEMMA InitOrder == Init => OrderInv
<1> SUFFICES ASSUME Init, NEW l \in Labels PROVE ReadyInv /\ PairInv(l)
  BY DEF OrderInv, Init, ReadyInv
<1>1. ReadyInv
  BY DEF Init, ReadyInv, Starting
<1>2. PairInv(l)
  BY DEF Init, PairInv
<1> QED BY <1>1, <1>2

\* The steps that prepare the bindings, and the ones that only move main on.
Binding == StartFSC \/ BindingsDone \/ \E l \in Labels : BindEndorsingIdentity(l)
Moving == ListenAndServe \/ Stop \/ Shutdown \/ FscStop \/ Kill

\* Every step is one of those or leaves main and its bindings alone.
LEMMA StepKinds ==
  ASSUME [Next]_vars PROVE Binding \/ Moving \/ UNCHANGED <<kind, stage, bindings>>
  BY DEF Next, Binding, Moving, vars, Exited, RegisterResponder, OpenSession, Accept, Handle,
         Return, Respond, DeployTMS, DeployUnknown

\* Starting the node and binding an endorser do what the store's rules allow.
LEMMA NextPair ==
  ASSUME IInv, OrderInv, [Next]_vars, NEW l \in Labels PROVE PairInv(l)'
<1> USE DEF bindings
<1>1. TypeOK /\ PairInv(l)
  BY DEF IInv, OrderInv
<1>2. CASE UNCHANGED <<kind, stage, bindings>>
  BY <1>1, <1>2 DEF PairInv
<1>3. CASE Moving
  BY <1>1, <1>3 DEF Moving, ListenAndServe, Stop, Shutdown, FscStop, Kill, PairInv
<1>4. CASE StartFSC
  <2>1. /\ stage = "new" /\ stage' \in {"bind", "register", "exited"} /\ pairs' = pairs
        /\ kind' = kind /\ (stage' = "register" => kind = "endorser")
    BY <1>4 DEF StartFSC
  <2>2. pairs[l] = "todo"
    BY <1>1, <2>1 DEF PairInv
  <2>3. CASE stage' = "bind"
    <3>1. store' = [i \in Identities |-> IF i \in {Endorsing(m) : m \in HasMsp}
                                         THEN Default ELSE None]
      BY <1>4, <2>3 DEF StartFSC
    <3>2. l \in HasMsp => store'[Endorsing(l)] = Default
      BY <3>1, IdentitiesDiffer
    <3>3. store'[P2P(l)] = None
      BY <3>1, IdentitiesDiffer, NodeAssumption
    <3> QED BY <2>1, <2>2, <2>3, <3>2, <3>3 DEF PairInv
  <2> QED BY <2>1, <2>2, <2>3 DEF PairInv
<1>5. CASE BindingsDone
  BY <1>1, <1>5 DEF BindingsDone, PairInv, TypeOK
<1>6. ASSUME NEW m \in Labels, BindEndorsingIdentity(m) PROVE PairInv(l)'
  <2>1. /\ stage = "bind" /\ stage' = "bind" /\ kind' = kind /\ pairs[m] = "todo"
        /\ \A k \in Labels \ {m} : pairs'[k] = pairs[k]
        /\ pairs'[m] \in {"bound", "failed", "skipped"}
    BY <1>1, <1>6 DEF BindEndorsingIdentity, TypeOK
  <2>2. store[P2P(m)] = None /\ (m \in HasMsp => store[Endorsing(m)] = Default)
    BY <2>1 DEF OrderInv, PairInv
  <2>3. CASE BindPair(m) /\ m \in HasMsp
    <3>1. store' = [store EXCEPT ![P2P(m)] = Default]
      BY <2>2, <2>3, NodeAssumption DEF BindPair, PutBindings, LongTerm
    <3>2. store'[P2P(m)] = Default /\ store'[Endorsing(l)] = store[Endorsing(l)]
      BY <1>1, <3>1, IdentitiesDiffer DEF TypeOK
    <3>3. l # m => store'[P2P(l)] = store[P2P(l)]
      BY <1>1, <3>1, IdentitiesDiffer DEF TypeOK
    <3> QED BY <1>1, <2>1, <2>2, <2>3, <3>2, <3>3 DEF PairInv
  <2>4. CASE store' = store /\ pairs'[m] # "bound"
    BY <1>1, <2>1, <2>4 DEF PairInv
  <2>5. (BindPair(m) /\ m \in HasMsp) \/ (store' = store /\ pairs'[m] # "bound")
    BY <1>1, <1>6, NodeAssumption DEF BindEndorsingIdentity, TypeOK
  <2> QED BY <2>3, <2>4, <2>5
<1> QED BY <1>2, <1>3, <1>4, <1>5, <1>6, StepKinds DEF Binding

\* Requests arrive only after the server has started.
LEMMA NextReady ==
  ASSUME IInv, OrderInv, [Next]_vars PROVE ReadyInv'
<1> USE DEF http, bindings, Starting, Responders
<1>1. TypeOK /\ ReadyInv
  BY DEF IInv, OrderInv
<1>2. CASE Binding
  <2>1. /\ stage \in Starting /\ stage' \notin {"serve", "drain", "stop"} /\ at' = at
    BY <1>2 DEF Binding, StartFSC, BindingsDone, BindEndorsingIdentity
  <2> QED BY <1>1, <2>1 DEF ReadyInv
<1>3. CASE Moving
  <2>1. /\ responders' = responders /\ kind' = kind /\ pairs' = pairs
        /\ stage' \notin Starting
        /\ \A q \in Attempts : at'[q] # "none" => at[q] # "none"
    BY <1>1, <1>3 DEF Moving, ListenAndServe, Stop, Shutdown, FscStop, Kill, Drop, Active, TypeOK
  <2>2. stage' \in {"serve", "drain", "stop"} => responders = Responders
    BY <1>1, <1>3 DEF Moving, ListenAndServe, Stop, Shutdown, FscStop, Kill, ReadyInv
  <2> QED BY <1>1, <2>1, <2>2 DEF ReadyInv
<1>4. ASSUME NEW v \in Responders, RegisterResponder(v) PROVE ReadyInv'
  BY <1>1, <1>4 DEF RegisterResponder, ReadyInv
<1>5. ASSUME NEW p \in Attempts, NEW r \in Inputs, Accept(p, r) PROVE ReadyInv'
  <2>1. kind # "endorser" => \A l \in Labels : pairs[l] # "todo"
    BY <1>5 DEF Accept, OrderInv, PairInv
  <2> QED BY <1>1, <1>5, <2>1 DEF Accept, ReadyInv
<1>6. CASE UNCHANGED <<kind, stage, bindings, responders>>
           /\ \A q \in Attempts : at'[q] # "none" => at[q] # "none"
  BY <1>1, <1>6 DEF ReadyInv
<1>7. \/ Binding \/ Moving \/ (\E v \in Responders : RegisterResponder(v))
      \/ (\E p \in Attempts : \E r \in Inputs : Accept(p, r))
      \/ UNCHANGED <<kind, stage, bindings, responders>>
         /\ \A q \in Attempts : at'[q] # "none" => at[q] # "none"
  <2>1. ASSUME NEW p \in Attempts, Handle(p) \/ Return(p) \/ Respond(p)
        PROVE  /\ UNCHANGED <<kind, stage, bindings, responders>>
               /\ \A q \in Attempts : at'[q] # "none" => at[q] # "none"
    BY <1>1, <2>1 DEF Handle, Return, Finish, Respond, TypeOK
  <2>2. ASSUME NEW p \in Attempts, NEW t \in TMSs, DeployTMS(p, t) \/ DeployUnknown(p, t)
        PROVE  /\ UNCHANGED <<kind, stage, bindings, responders>>
               /\ \A q \in Attempts : at'[q] # "none" => at[q] # "none"
    BY <1>1, <2>2 DEF DeployTMS, DeployUnknown, Finish, TypeOK
  <2> QED BY <2>1, <2>2 DEF Next, Binding, Moving, vars, Exited, OpenSession
<1> QED BY <1>2, <1>3, <1>4, <1>5, <1>6, <1>7

-----------------------------------------------------------------------------
\* Every request goes its way, and every init call deploys as it goes.
THEOREM Invariance == Spec => []IInv
<1>1. IInv /\ [Next]_vars => IInv'
  BY NextType, NextRequest, NextInitCall DEF IInv
<1> QED BY <1>1, InitInv, PTL DEF Spec

\* Every variable keeps its type; above all a deadline is positive and fits.
THEOREM NodeTypeCorrect == Spec => []TypeOK
<1>1. IInv => TypeOK
  BY DEF IInv
<1> QED BY <1>1, Invariance, PTL

\* A refused request has started nothing, and a lock has the deadline that was
\* asked for, whatever the width of the integers.
THEOREM RequestsMeanWhatTheySayHolds == Spec => []RequestsMeanWhatTheySay
<1>1. IInv => RequestsMeanWhatTheySay
  <2> SUFFICES ASSUME IInv, NEW q \in Attempts
               PROVE  /\ code[q] \in {204, 400, 404, 405} => q \notin started
                      /\ q \in started =>
                           /\ req[q].route \in HasId => req[q].id = "ok"
                           /\ req[q].route = "lock" =>
                                /\ duration[q] = req[q].deadline * Second
                                /\ duration[q] \in 1 .. MaxInt64
    BY DEF RequestsMeanWhatTheySay
  <2>1. code[q] \in {204, 400, 404, 405} => q \notin started
    BY RoutesAssumption DEF IInv, RequestInv
  <2>2. ASSUME q \in started
        PROVE  /\ req[q].route \in HasId => req[q].id = "ok"
               /\ req[q].route = "lock" => /\ duration[q] = req[q].deadline * Second
                                           /\ duration[q] \in 1 .. MaxInt64
    <3>1. req[q] \in Request /\ Status(kind, req[q]) = None
      BY <2>2, NodeAssumption DEF IInv, RequestInv
    <3>2. req[q].deadline \in Int
      BY <3>1 DEF Request
    <3> QED BY <2>2, <3>1, <3>2, CallIsMeant, ToDeadlineExact DEF IInv, RequestInv
  <2> QED BY <2>1, <2>2
<1> QED BY <1>1, Invariance, PTL

\* A successful init leaves every service with its own parameters, whatever
\* runs beside it or failed before it.
THEOREM InitDeploysAllHolds == Spec => []InitDeploysAll
<1>1. IInv => InitDeploysAll
  BY DEF IInv, InitCallInv, InitDeploysAll
<1> QED BY <1>1, Invariance, PTL

\* main binds and registers in its order, whatever arrives meanwhile.
THEOREM MainInOrder == Spec => [](IInv /\ OrderInv)
<1>1. IInv /\ OrderInv /\ [Next]_vars => OrderInv'
  BY NextPair, NextReady DEF OrderInv
<1> QED BY <1>1, InitOrder, Invariance, PTL DEF Spec

\* When a call runs, the bindings that were reported as done have been made.
THEOREM EndorsersRecognisedHolds == Spec => []EndorsersRecognised
<1>1. ASSUME IInv, OrderInv, NEW q \in started, NEW l \in Labels, kind # "endorser"
      PROVE  /\ pairs[l] # "todo"
             /\ pairs[l] = "bound" => LongTerm(Endorsing(l)) = LongTerm(P2P(l))
  <2>1. at[q] # "none"
    BY <1>1 DEF IInv, TypeOK, RequestInv
  <2>2. q \in Attempts
    BY <1>1 DEF IInv, TypeOK
  <2>3. pairs[l] # "todo"
    BY <1>1, <2>1, <2>2 DEF OrderInv, ReadyInv
  <2>4. pairs[l] = "bound" => store[Endorsing(l)] = Default /\ store[P2P(l)] = Default
    BY <1>1 DEF OrderInv, PairInv
  <2> QED BY <2>3, <2>4, NodeAssumption DEF LongTerm
<1>2. IInv /\ OrderInv => EndorsersRecognised
  BY <1>1 DEF EndorsersRecognised
<1> QED BY <1>2, MainInOrder, PTL

\* A node that has answered its readiness check refuses no session.
THEOREM ReadyNodeRespondsHolds == Spec => ReadyNodeResponds
<1> DEFINE A == \A s \in Sessions :
       session[s] = "none" /\ session'[s] = "refused" =>
         \A q \in Attempts : ~(code[q] = 200 /\ req[q].route = "readyz")
<1>1. ASSUME IInv, OrderInv, Next, NEW s \in Sessions,
             session[s] = "none", session'[s] = "refused", NEW q \in Attempts, code[q] = 200
      PROVE  FALSE
  <2>1. at[q] # "none"
    BY <1>1, RoutesAssumption DEF IInv, RequestInv
  <2>2. responders = Responders
    BY <1>1, <2>1 DEF OrderInv, ReadyInv
  <2>3. TypeOK
    BY <1>1 DEF IInv
  <2>4. \E v \in Responders : OpenSession(s, v)
    BY <1>1, <2>3 DEF Next, StartFSC, BindEndorsingIdentity, BindingsDone, RegisterResponder,
       ListenAndServe, Stop, Shutdown, FscStop, Kill, Exited, Accept, Handle, Return, Respond,
       DeployTMS, DeployUnknown, OpenSession, vars, TypeOK
  <2> QED BY <1>1, <2>2, <2>3, <2>4 DEF OpenSession, TypeOK
<1>2. IInv /\ OrderInv /\ [Next]_vars => [A]_vars
  BY <1>1
<1> QED BY <1>2, MainInOrder, PTL DEF Spec, ReadyNodeResponds
=============================================================================
