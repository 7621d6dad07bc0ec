-------------------------------- MODULE Node --------------------------------
(***************************************************************************)
(* The process of an issuer, owner or endorser node: main with the binding *)
(* of the endorsers' identities, its HTTP server with requests in flight,  *)
(* the sessions of other nodes' views, the endorser's init call, and the   *)
(* end of the process.                                                     *)
(***************************************************************************)
EXTENDS Routes, FiniteSets

CONSTANTS Attempts,    \* HTTP requests, a retry is one more
          Sessions,    \* sessions that views of other nodes open
          Inputs,      \* the requests the clients may send
          TMSs,        \* token management services in the configuration
          Evm,         \* the ones settled on an EVM chain
          HasPath,     \* the ones with a publicParameters.path
          Labels,      \* the endorsers main names, in its map
          HasMsp,      \* the ones with an endorsing identity in fabric.default.msps
          HasResolver  \* the ones with a P2P identity in fsc.endpoint.resolvers

\* The endorsing (MSP) and the P2P identity of each endorser, and the node's own.
Endorsing(l) == <<"endorsing", l>>
P2P(l) == <<"p2p", l>>
Identities == {"endorsing", "p2p"} \X Labels
Default == <<"default", None>>

ASSUME NodeAssumption ==
  /\ Inputs \subseteq Request
  /\ Evm \subseteq TMSs /\ HasPath \subseteq TMSs
  /\ None \notin TMSs \cup Identities \cup {Default}
  /\ HasMsp \subseteq Labels /\ HasResolver \subseteq Labels

VARIABLES
  kind,        \* the program
  stage,       \* where main is
  store,       \* the binding store: [Identities -> long-term identity or None]
  pairs,       \* [Labels -> what has become of the binding]
  responders,  \* initiator views that have a responder
  session,     \* [Sessions -> none, served or refused]
  req,         \* [Attempts -> Request or None]
  at,          \* [Attempts -> where the handler is]
  code,        \* [Attempts -> HTTP status or None]
  started,     \* requests whose call was made
  duration,    \* [Attempts -> the deadline passed to LockView, or None]
  todo,        \* [Attempts -> the services that init has still to deploy]
  params       \* [TMSs -> None, or the service whose parameters its ledger holds]

http == <<req, at, code, started, duration, todo>>
bindings == <<store, pairs>>
vars == <<kind, stage, bindings, responders, session, http, params>>

TypeOK ==
  /\ kind \in Kinds
  /\ stage \in {"new", "bind", "register", "serve", "drain", "stop", "exited"}
  /\ store \in [Identities -> Identities \cup {Default, None}]
  /\ pairs \in [Labels -> {"todo", "bound", "failed", "skipped"}]
  /\ responders \subseteq {"issue", "transfer", "lock", "redeem"}
  /\ session \in [Sessions -> {"none", "served", "refused"}]
  /\ req \in [Attempts -> Inputs \cup {None}]
  /\ at \in [Attempts -> {"none", "decode", "run", "respond", "answered", "dropped"}]
  /\ code \in [Attempts -> {200, 204, 400, 404, 405, 500, None}]
  /\ started \subseteq Attempts
  /\ duration \in [Attempts -> 1 .. MaxInt64 \cup {None}]
  /\ todo \in [Attempts -> SUBSET TMSs]
  /\ params \in [TMSs -> TMSs \cup {None}]

Init ==
  /\ kind \in Kinds
  /\ stage = "new"
  /\ store = [i \in Identities |-> None]
  /\ pairs = [l \in Labels |-> "todo"]
  /\ responders = {}
  /\ session = [s \in Sessions |-> "none"]
  /\ req = [q \in Attempts |-> None]
  /\ at = [q \in Attempts |-> "none"]
  /\ code = [q \in Attempts |-> None]
  /\ started = {}
  /\ duration = [q \in Attempts |-> None]
  /\ todo = [q \in Attempts |-> {}]
  /\ params = [t \in TMSs |-> None]

-----------------------------------------------------------------------------
(* main.                                                                   *)

\* The views of other nodes that this node responds to.
Responders == CASE kind = "owner"    -> {"issue", "transfer", "lock"}
                [] kind = "issuer"   -> {"redeem"}
                [] kind = "endorser" -> {}

Active == {q \in Attempts : at[q] \in {"decode", "run", "respond"}}
Drop == at' = [q \in Attempts |-> IF q \in Active THEN "dropped" ELSE at[q]]

\* Loading an endorser's MSP binds its identity to the node's own; only issuer
\* and owner go on to bind.  From here on sessions of other nodes arrive.
StartFSC ==
  /\ stage = "new"
  /\ \/ /\ stage' = IF kind = "endorser" THEN "register" ELSE "bind"
        /\ store' = [i \in Identities |-> IF i \in {Endorsing(l) : l \in HasMsp}
                                         THEN Default ELSE None]
     \/ stage' = "exited" /\ UNCHANGED store
  /\ UNCHANGED <<kind, pairs, responders, session, http, params>>

LongTerm(i) == IF store[i] = None THEN i ELSE store[i]

\* The first binding of an identity stays; a later one is not an error.
PutBindings(long, ephemeral) ==
  store' = IF store[ephemeral] = None
           THEN [store EXCEPT ![ephemeral] = LongTerm(long)] ELSE store

BindPair_Reversed(l) == PutBindings(P2P(l), Endorsing(l))
BindPair(l) == PutBindings(Endorsing(l), P2P(l))

\* BindEndorsingIdentities takes the pairs in any order.
BindEndorsingIdentity(l) ==
  /\ stage = "bind" /\ pairs[l] = "todo"
  /\ IF l \in HasMsp \cap HasResolver
     THEN \/ BindPair(l) /\ pairs' = [pairs EXCEPT ![l] = "bound"]
          \/ pairs' = [pairs EXCEPT ![l] = "failed"] /\ UNCHANGED store
     ELSE pairs' = [pairs EXCEPT ![l] = "skipped"] /\ UNCHANGED store
  /\ UNCHANGED <<kind, stage, responders, session, http, params>>

\* The loop is over, or there is no network or identity service to ask.
BindingsDone ==
  /\ stage = "bind"
  /\ \/ (\A l \in Labels : pairs[l] # "todo") /\ UNCHANGED pairs
     \/ (\A l \in Labels : pairs[l] = "todo") /\ pairs' = [l \in Labels |-> "skipped"]
  /\ stage' = "register"
  /\ UNCHANGED <<kind, store, responders, session, http, params>>

RegisterResponder(v) ==
  /\ stage = "register" /\ v \in Responders \ responders
  /\ responders' = responders \cup {v}
  /\ UNCHANGED <<kind, stage, bindings, session, http, params>>

ListenAndServe_First ==
  /\ stage = "register"
  /\ stage' \in {"serve", "drain"}
  /\ UNCHANGED <<kind, bindings, responders, session, http, params>>

\* The server starts, or fails and main goes on to stop.
ListenAndServe ==
  /\ stage = "register" /\ responders = Responders
  /\ stage' \in {"serve", "drain"}
  /\ UNCHANGED <<kind, bindings, responders, session, http, params>>

\* A signal or an error of the server; Shutdown closes the listener.
Stop ==
  /\ stage = "serve"
  /\ stage' = "drain"
  /\ UNCHANGED <<kind, bindings, responders, session, http, params>>

Shutdown_Patient ==
  /\ stage = "drain" /\ Active = {}
  /\ stage' = "stop"
  /\ UNCHANGED <<kind, bindings, responders, session, http, params>>

\* Shutdown returns when no request is active, or after ten seconds.
Shutdown ==
  /\ stage = "drain"
  /\ stage' = "stop"
  /\ UNCHANGED <<kind, bindings, responders, session, http, params>>

\* fsc.Stop and the end of main drop what is still active.
FscStop ==
  /\ stage = "stop"
  /\ stage' = "exited" /\ Drop
  /\ UNCHANGED <<kind, bindings, responders, session, req, code, started, duration, todo, params>>

Kill ==
  /\ stage # "exited"
  /\ stage' = "exited" /\ Drop
  /\ UNCHANGED <<kind, bindings, responders, session, req, code, started, duration, todo, params>>

\* A view v of another node opens a session with this one.
OpenSession(s, v) ==
  /\ stage \notin {"new", "exited"} /\ session[s] = "none" /\ v \in Responders
  /\ session' = [session EXCEPT ![s] = IF v \in responders THEN "served" ELSE "refused"]
  /\ UNCHANGED <<kind, stage, bindings, responders, http, params>>

-----------------------------------------------------------------------------
(* Requests.                                                               *)

Accept(q, r) ==
  /\ stage = "serve" /\ at[q] = "none"
  /\ req' = [req EXCEPT ![q] = r]
  /\ at' = [at EXCEPT ![q] = "decode"]
  /\ UNCHANGED <<kind, stage, bindings, responders, session, code, started, duration, todo, params>>

\* The generated wrappers and the handler up to its call.
Handle(q) ==
  /\ at[q] = "decode"
  /\ LET r == req[q]
         c == Status(kind, r)
     IN  IF c # None
         THEN /\ code' = [code EXCEPT ![q] = c]
              /\ at' = [at EXCEPT ![q] = "respond"]
              /\ UNCHANGED <<started, duration, todo>>
         ELSE /\ at' = [at EXCEPT ![q] = "run"]
              /\ started' = started \cup {q}
              /\ duration' = IF r.route = "lock"
                             THEN [duration EXCEPT ![q] = ToDeadline(r.deadline)] ELSE duration
              /\ todo' = IF r.route = "init" THEN [todo EXCEPT ![q] = TMSs] ELSE todo
              /\ UNCHANGED code
  /\ UNCHANGED <<kind, stage, bindings, responders, session, req, params>>

Finish(q, c) ==
  /\ code' = [code EXCEPT ![q] = c]
  /\ at' = [at EXCEPT ![q] = "respond"]

\* The view, the query or the init call ends.
Return(q) ==
  /\ at[q] = "run"
  /\ \/ Finish(q, 200) /\ todo[q] = {}
     \/ Finish(q, 500)
  /\ UNCHANGED <<kind, stage, bindings, responders, session, req, started, duration, todo, params>>

DeployTMS_FromLedger(q, t) ==
  /\ at[q] = "run" /\ t \in todo[q]
  /\ t \notin Evm => t \in HasPath
  /\ todo' = [todo EXCEPT ![q] = @ \ {t}]
  /\ UNCHANGED <<kind, stage, bindings, responders, session, req, at, code, started, duration, params>>

\* FabricSmartClient.Init deploys the next service with its own parameters and
\* skips the ones on an EVM chain.  A failure is a Return with an error.
DeployTMS(q, t) ==
  /\ at[q] = "run" /\ t \in todo[q]
  /\ t \notin Evm => t \in HasPath
  /\ todo' = [todo EXCEPT ![q] = @ \ {t}]
  /\ params' = IF t \in Evm THEN params ELSE [params EXCEPT ![t] = t]
  /\ UNCHANGED <<kind, stage, bindings, responders, session, req, at, code, started, duration>>

\* A deployment whose outcome is unknown: committed, but reported as failed.
DeployUnknown(q, t) ==
  /\ at[q] = "run" /\ t \in (todo[q] \cap HasPath) \ Evm
  /\ params' = [params EXCEPT ![t] = t]
  /\ Finish(q, 500)
  /\ UNCHANGED <<kind, stage, bindings, responders, session, req, started, duration, todo>>

Respond(q) ==
  /\ at[q] = "respond"
  /\ at' = [at EXCEPT ![q] = "answered"]
  /\ UNCHANGED <<kind, stage, bindings, responders, session, req, code, started, duration, todo, params>>

Exited == stage = "exited" /\ UNCHANGED vars

Next ==
  \/ StartFSC \/ (\E l \in Labels : BindEndorsingIdentity(l)) \/ BindingsDone
  \/ (\E v \in Responders : RegisterResponder(v)) \/ ListenAndServe
  \/ Stop \/ Shutdown \/ FscStop \/ Kill \/ Exited
  \/ \E s \in Sessions, v \in Responders : OpenSession(s, v)
  \/ \E q \in Attempts : \/ \E r \in Inputs : Accept(q, r)
                         \/ Handle(q) \/ Return(q) \/ Respond(q)
                         \/ \E t \in TMSs : DeployTMS(q, t) \/ DeployUnknown(q, t)

Fairness == WF_vars(Shutdown) /\ WF_vars(FscStop)

Spec == Init /\ [][Next]_vars /\ Fairness

-----------------------------------------------------------------------------
\* A client that is told its request is wrong may correct and repeat it:
\* nothing was started, and a lock gets the very deadline that was asked for.
RequestsMeanWhatTheySay ==
  \A q \in Attempts :
    /\ code[q] \in {204, 400, 404, 405} => q \notin started
    /\ q \in started =>
         /\ req[q].route \in HasId => req[q].id = "ok"
         /\ req[q].route = "lock" => /\ duration[q] = req[q].deadline * Second
                                     /\ duration[q] \in 1 .. MaxInt64

\* Once a node has told anyone that it is ready, no view of another node fails
\* there for want of a responder.
ReadyNodeResponds ==
  [][\A s \in Sessions :
       session[s] = "none" /\ session'[s] = "refused" =>
         \A q \in Attempts : ~(code[q] = 200 /\ req[q].route = "readyz")]_vars

\* A successful init, whatever attempts failed halfway before or run beside it,
\* leaves every service that is not on an EVM chain with its own parameters.
InitDeploysAll ==
  \A q \in Attempts : q \in started /\ req[q].route = "init" /\ code[q] = 200 =>
    \A t \in TMSs \ Evm : params[t] = t

\* When a call runs, every endorser whose binding was reported as done is known
\* under both its identities, whatever the store had bound before main did.
EndorsersRecognised ==
  \A q \in started, l \in Labels :
    kind # "endorser" => /\ pairs[l] # "todo"
                         /\ pairs[l] = "bound" => LongTerm(Endorsing(l)) = LongTerm(P2P(l))

\* A node that is told to stop exits, whatever its views wait for.
StopEnds == stage = "drain" ~> stage = "exited"
=============================================================================
