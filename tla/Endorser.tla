------------------------------ MODULE Endorser ------------------------------
(***************************************************************************)
(* The custom endorser: its service with the sample executor, the command  *)
(* line client, and the network both depend on.  An endorser executes a    *)
(* proposal on a snapshot of a database that its synchroniser fills block  *)
(* by block; it starts and stops, and keeps its database or, in memory,    *)
(* loses it.                                                               *)
(*                                                                         *)
(* A call c \in Calls is one run of the client.  A block is a transaction. *)
(* A function with other arguments is "usage", none at all "none".         *)
(***************************************************************************)
EXTENDS Integers, Sequences, FiniteSetsExt

CONSTANTS Endorsers,   \* the endorsers of the client's configuration, all of
                       \* them required by the endorsement policy
          First,       \* the first of them
          Calls, Keys, Values,
          Requests,    \* what the users may run
          Monotonic,   \* protocol "fabric-x": a key's version counts its writes
          InMemory,    \* the database is lost when the process ends
          Genesis,     \* blocks of the ledger before any call
          MaxStarts,   \* [Endorsers -> Nat]: bound on the starts of an endorser
          None         \* no value

\* "to" says whether channel and namespace are those of the service.
Request ==
  [cmd : {"query", "invoke"}, fn : {"get", "set", "usage", "none"}, key : Keys,
   val : Values, to : {"service", "channel", "namespace"}, orderer : BOOLEAN]

ASSUME EndorserAssumption ==
  /\ First \in Endorsers /\ IsFiniteSet(Endorsers)
  /\ Requests \subseteq Request
  /\ Monotonic \in BOOLEAN /\ InMemory \in BOOLEAN /\ Genesis \in Nat
  /\ MaxStarts \in [Endorsers -> Nat]
  /\ None \notin Request \cup Values \cup Calls \cup Nat

VARIABLES
  ledger,  \* sequence of [call, valid]
  sent,    \* calls whose transaction is with the orderer
  phase,   \* [Endorsers -> where the process is]
  height,  \* [Endorsers -> the blocks in its database]
  starts,  \* [Endorsers -> how often it was started]
  req,     \* [Calls -> Request or None]
  pc,      \* [Calls -> where the client is]
  store,   \* [Calls -> [Endorsers -> the height of the simulation store, or None]]
  reply,   \* [Calls -> [Endorsers -> the response, or None]]
  before   \* [Calls -> the calls that had ended when the call was made] (history)

service == <<phase, height, starts>>
client == <<req, pc, before>>
vars == <<ledger, sent, service, client, store, reply>>

Answer(st, p, r, h) == [status |-> st, payload |-> p, reads |-> r, at |-> h]
\* A gRPC error.
Refused == Answer(500, None, None, 0)
Response == [status : {200, 400, 500}, payload : Values \cup {None},
             reads : Nat \cup {None}, at : Nat]

TypeOK ==
  /\ ledger \in Seq([call : Calls \cup {None}, valid : BOOLEAN])
  /\ sent \subseteq Calls
  /\ phase \in [Endorsers -> {"down", "syncing", "serving", "closed"}]
  /\ height \in [Endorsers -> Nat]
  /\ starts \in [Endorsers -> Nat]
  /\ req \in [Calls -> Requests \cup {None}]
  /\ pc \in [Calls -> {"idle", "propose", "submit", "ok", "error"}]
  /\ store \in [Calls -> [Endorsers -> Nat \cup {None}]]
  /\ reply \in [Calls -> [Endorsers -> Response \cup {None}]]
  /\ before \in [Calls -> SUBSET Calls]

Init ==
  /\ ledger = [i \in 1 .. Genesis |-> [call |-> None, valid |-> FALSE]]
  /\ sent = {}
  /\ phase = [e \in Endorsers |-> "down"]
  /\ height = [e \in Endorsers |-> 0]
  /\ starts = [e \in Endorsers |-> 0]
  /\ req = [c \in Calls |-> None]
  /\ pc = [c \in Calls |-> "idle"]
  /\ store = [c \in Calls |-> [e \in Endorsers |-> None]]
  /\ reply = [c \in Calls |-> [e \in Endorsers |-> None]]
  /\ before = [c \in Calls |-> {}]

-----------------------------------------------------------------------------
(* The world state after the first h blocks.                               *)

Writes(k, h) ==
  {i \in 1 .. h : /\ ledger[i].valid
                  /\ req[ledger[i].call].fn = "set" /\ req[ledger[i].call].key = k}
LastWrite(k, h) == Max(Writes(k, h) \cup {0})
Value(k, h) == IF Writes(k, h) = {} THEN None
               ELSE req[ledger[LastWrite(k, h)].call].val
Version(k, h) == IF Monotonic THEN Cardinality(Writes(k, h)) ELSE LastWrite(k, h)

-----------------------------------------------------------------------------
(* The service process.                                                    *)

\* New opens the databases; Run starts the synchroniser.
Start(e) ==
  /\ phase[e] = "down" /\ starts[e] < MaxStarts[e]
  /\ starts' = [starts EXCEPT ![e] = @ + 1]
  /\ phase' = [phase EXCEPT ![e] = "syncing"]
  /\ height' = [height EXCEPT ![e] = IF InMemory THEN 0 ELSE @]
  /\ UNCHANGED <<ledger, sent, client, store, reply>>

\* The synchroniser writes the next block of the committing peer.
Sync(e) ==
  /\ phase[e] \in {"syncing", "serving"} /\ height[e] < Len(ledger)
  /\ height' = [height EXCEPT ![e] = @ + 1]
  /\ UNCHANGED <<ledger, sent, phase, starts, client, store, reply>>

WaitForReady_AtOnce(e) ==
  /\ phase[e] = "syncing"
  /\ phase' = [phase EXCEPT ![e] = "serving"]
  /\ UNCHANGED <<ledger, sent, height, starts, client, store, reply>>

WaitForReady_Ahead(e) ==
  /\ phase[e] = "syncing" /\ height[e] > Len(ledger)
  /\ phase' = [phase EXCEPT ![e] = "serving"]
  /\ UNCHANGED <<ledger, sent, height, starts, client, store, reply>>

\* The server starts once the database has the height of the committing peer.
WaitForReady(e) ==
  /\ phase[e] = "syncing" /\ height[e] = Len(ledger)
  /\ phase' = [phase EXCEPT ![e] = "serving"]
  /\ UNCHANGED <<ledger, sent, height, starts, client, store, reply>>

\* Run closes the databases; proposals may still be executing.
Close(e) ==
  /\ phase[e] \in {"syncing", "serving"}
  /\ phase' = [phase EXCEPT ![e] = "closed"]
  /\ UNCHANGED <<ledger, sent, height, starts, client, store, reply>>

Executing(e) == {c \in Calls : store[c][e] # None /\ reply[c][e] = None}

\* What was executing in the process gets no answer.
Die(e) ==
  /\ phase' = [phase EXCEPT ![e] = "down"]
  /\ reply' = [c \in Calls |-> IF c \in Executing(e)
                               THEN [reply[c] EXCEPT ![e] = Refused] ELSE reply[c]]
Exit(e) ==
  /\ phase[e] = "closed" /\ Die(e)
  /\ UNCHANGED <<ledger, sent, height, starts, client, store>>

-----------------------------------------------------------------------------
(* ProcessProposal.                                                        *)

Respond(e, c, r) == reply' = [reply EXCEPT ![c][e] = r]

\* A wrong channel or namespace, a closed database, or nobody listens.
Refuse(e, c) ==
  /\ pc[c] = "propose" /\ reply[c][e] = None
  /\ req[c].to # "service" \/ phase[e] # "serving"
  /\ Respond(e, c, Refused)
  /\ UNCHANGED <<ledger, sent, service, client, store>>

\* The simulation store is opened at the current height.
OpenStore(e, c) ==
  /\ pc[c] = "propose" /\ reply[c][e] = None /\ store[c][e] = None
  /\ phase[e] = "serving" /\ req[c].to = "service"
  /\ store' = [store EXCEPT ![c][e] = height[e]]
  /\ UNCHANGED <<ledger, sent, service, client, reply>>

Execute_EarlyResult(r, h) ==
  CASE r.fn = "get"   -> Answer(200, Value(r.key, h), None, h)
    [] r.fn = "set"   -> Answer(200, r.val, None, h)
    [] r.fn = "usage" -> Answer(400, None, None, h)

Execute_MissingKey(r, h) ==
  CASE r.fn = "get"   -> IF Writes(r.key, h) = {} THEN Answer(404, None, None, h)
                         ELSE Answer(200, Value(r.key, h), Version(r.key, h), h)
    [] r.fn = "set"   -> Answer(200, r.val, None, h)
    [] r.fn = "usage" -> Answer(400, None, None, h)

\* SampleExecutor.Execute on the store of height h.
Execute(r, h) ==
  CASE r.fn = "get"   -> Answer(200, Value(r.key, h), Version(r.key, h), h)
    [] r.fn = "set"   -> Answer(200, r.val, None, h)
    [] r.fn = "usage" -> Answer(400, None, None, h)

\* Reading needs the database; writing is only simulated.
ProcessProposal(e, c) ==
  /\ c \in Executing(e) /\ req[c].fn # "none"
  /\ phase[e] = "closed" => req[c].fn # "get"
  /\ Respond(e, c, Execute(req[c], store[c][e]))
  /\ UNCHANGED <<ledger, sent, service, client, store>>

\* Without arguments the executor answers, but the log statement that follows
\* indexes the first argument and the process stops.
LogNoArgs(e, c) ==
  /\ c \in Executing(e) /\ req[c].fn = "none" /\ Die(e)
  /\ UNCHANGED <<ledger, sent, height, starts, client, store>>

-----------------------------------------------------------------------------
(* The client.                                                             *)

Open(c, r) ==
  /\ pc[c] = "idle"
  /\ req' = [req EXCEPT ![c] = r]
  /\ pc' = [pc EXCEPT ![c] = IF r.cmd = "invoke" /\ ~r.orderer THEN "error" ELSE "propose"]
  /\ before' = [before EXCEPT ![c] = {d \in Calls : pc[d] \in {"ok", "error"}}]
  /\ UNCHANGED <<ledger, sent, service, store, reply>>

Ok(c, e) == reply[c][e].status \in 200 .. 399

\* Every endorser has answered, and the first answer is a success.
Endorsed(c) ==
  /\ pc[c] = "propose"
  /\ \A e \in Endorsers : reply[c][e] \notin {None, Refused}
  /\ pc' = [pc EXCEPT ![c] = IF ~Ok(c, First) THEN "error"
                             ELSE IF req[c].cmd = "query" THEN "ok" ELSE "submit"]
  /\ UNCHANGED <<ledger, sent, service, req, before, store, reply>>

Submit(c) ==
  /\ pc[c] = "submit"
  /\ sent' = sent \cup {c}
  /\ pc' \in {[pc EXCEPT ![c] = s] : s \in {"ok", "error"}}
  /\ UNCHANGED <<ledger, service, req, before, store, reply>>

ClientFails_Retries(c) ==
  /\ pc[c] = "propose" /\ \E e \in Endorsers : reply[c][e] = Refused
  /\ reply' = [reply EXCEPT ![c] = [e \in Endorsers |-> IF @[e] = Refused THEN None ELSE @[e]]]
  /\ UNCHANGED <<ledger, sent, service, client, store>>

ClientFails(c) ==
  /\ pc[c] = "propose" => \E e \in Endorsers : reply[c][e] = Refused
  /\ pc[c] \in {"propose", "submit"}
  /\ pc' = [pc EXCEPT ![c] = "error"]
  /\ UNCHANGED <<ledger, sent, service, req, before, store, reply>>

-----------------------------------------------------------------------------
(* The committer: every endorser signed the same result, and what was read *)
(* has not been written since.                                             *)

Result(c, e) == <<reply[c][e].status, reply[c][e].payload, reply[c][e].reads>>
Committable_Endorsed(c) == \A e \in Endorsers : Result(c, e) = Result(c, First)
Committable(c) ==
  /\ \A e \in Endorsers : Result(c, e) = Result(c, First)
  /\ reply[c][First].reads \in {None, Version(req[c].key, Len(ledger))}

Commit(c) ==
  /\ c \in sent
  /\ ledger' = Append(ledger, [call |-> c, valid |-> Committable(c)])
  /\ sent' = sent \ {c}
  /\ UNCHANGED <<service, client, store, reply>>

\* Every client has ended and every endorser is up to date, or stopped for good.
Quiet ==
  /\ \A c \in Calls : pc[c] \in {"ok", "error"}
  /\ sent = {}
  /\ UNCHANGED vars

Next ==
  \/ \E e \in Endorsers :
       \/ Start(e) \/ Sync(e) \/ WaitForReady(e) \/ Close(e) \/ Exit(e)
       \/ \E c \in Calls : \/ Refuse(e, c) \/ OpenStore(e, c)
                           \/ ProcessProposal(e, c) \/ LogNoArgs(e, c)
  \/ \E c \in Calls : \/ \E r \in Requests : Open(c, r)
                      \/ Endorsed(c) \/ Submit(c) \/ ClientFails(c) \/ Commit(c)
  \/ Quiet

Spec == Init /\ [][Next]_vars

-----------------------------------------------------------------------------
\* The valid transactions of the ledger are serial: what an invocation
\* returned is what it would return executed alone at its place in the ledger.
Serializable ==
  \A i \in 1 .. Len(ledger) :
    LET c == ledger[i].call
    IN  ledger[i].valid /\ req[c].fn = "get" =>
          reply[c][First].payload = Value(req[c].key, i - 1)

\* The client submits a transaction after it has looked at the first response
\* only: the other endorsers have answered with success as well.
FirstSpeaksForAll ==
  \A c \in Calls : pc[c] = "submit" => \A e \in Endorsers : Ok(c, e)

\* A user who has seen an answer never sees an older state in a later call,
\* also when the endorser has been restarted with an empty database meanwhile.
AnswersMoveForward ==
  \A c, d \in Calls :
    /\ pc[c] = "ok" /\ pc[d] = "ok" /\ c \in before[d]
    => reply[c][First].at <= reply[d][First].at
-----------------------------------------------------------------------------
\* Endorser implements KVStore: the map is the world state after the whole
\* ledger, and the answer of a call is that of the first endorser.
Db == [k \in Keys |-> Value(k, Len(ledger))]
Past == [k \in Keys |-> {Value(k, h) : h \in 0 .. Len(ledger)}]
Got == [c \in Calls |-> IF reply[c][First] # None /\ Ok(c, First)
                        THEN {reply[c][First].payload} ELSE {}]
Applied(c) == \E i \in 1 .. Len(ledger) : ledger[i].call = c /\ ledger[i].valid
Rejected(c) == \E i \in 1 .. Len(ledger) : ledger[i].call = c /\ ~ledger[i].valid
Effect == [c \in Calls |-> IF Applied(c) THEN "applied"
                           ELSE IF Rejected(c) THEN "rejected" ELSE "none"]

KV == INSTANCE KVStore WITH db <- Db, past <- Past, got <- Got, effect <- Effect

\* Every step of clients, endorsers and committer is an atomic step of one
\* key-value store or none: what a client reads is a value the key has had,
\* and an invocation takes effect once, on the state its answer shows.
ImplementsKVStore == KV!Spec
=============================================================================
