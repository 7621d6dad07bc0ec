------------------------------ MODULE Startup ------------------------------
(***************************************************************************)
(* How the programs of Endorser come up: the endorser from its             *)
(* configuration file to the running service, again and again with files   *)
(* an operator changes, and the client from its file and flags to the call *)
(* that Endorser follows.  A field is TRUE if the file has it.             *)
(***************************************************************************)
EXTENDS Endorser

CONSTANTS Configs,       \* the endorser files
          ClientConfigs  \* the client files with the flags and the argument

Protocols == {"", "fabric", "fabric-x", "other"}

\* "file" says whether the file can be opened, read and unmarshalled.
Config == [file : BOOLEAN, database : BOOLEAN, channel : BOOLEAN, protocol : Protocols,
           committer : BOOLEAN, server : BOOLEAN, identity : BOOLEAN]

\* "json" is the transaction argument, "flag" the --namespace flag.  Names are
\* those the service has, others, or "".
ClientConfig ==
  [file : BOOLEAN, json : BOOLEAN, identity : BOOLEAN, protocol : Protocols,
   channel : {"", "service", "other"}, namespace : {"", "service", "other"},
   flag : {"", "service", "other"},
   endorsers : {"none", "noaddress", "ok"}, orderer : {"none", "noaddress", "ok"}]

ASSUME StartupAssumption ==
  Configs \subseteq Config /\ ClientConfigs \subseteq ClientConfig

VARIABLES conf,  \* [Endorsers -> the configuration of the last launch]
          boot,  \* [Endorsers -> where run is]
          runs   \* [Endorsers -> how often it was launched]

startup == <<conf, boot, runs>>
allvars == <<vars, startup>>

StartupTypeOK ==
  /\ TypeOK
  /\ conf \in [Endorsers -> Configs \cup {None}]
  /\ boot \in [Endorsers -> {"off", "load", "create", "serve", "up", "failed", "panic"}]
  /\ \A e \in Endorsers : runs[e] \in starts[e] .. MaxStarts[e]

StartupInit ==
  /\ Init
  /\ conf = [e \in Endorsers |-> None]
  /\ boot = [e \in Endorsers |-> "off"]
  /\ runs = [e \in Endorsers |-> 0]

-----------------------------------------------------------------------------
(* The endorser.                                                           *)

Ended(e) == boot[e] \in {"off", "failed", "panic"} \/ (boot[e] = "up" /\ phase[e] = "down")

\* MaxStarts bounds the launches, those that fail included.
Launch(e, k) ==
  /\ Ended(e) /\ runs[e] < MaxStarts[e]
  /\ runs' = [runs EXCEPT ![e] = @ + 1]
  /\ conf' = [conf EXCEPT ![e] = k]
  /\ boot' = [boot EXCEPT ![e] = "load"]
  /\ UNCHANGED vars

Goto(e, b) == boot' = [boot EXCEPT ![e] = b] /\ UNCHANGED <<conf, runs>>

Valid_NoServer(k) ==
  /\ k.database /\ k.channel /\ k.protocol \in {"", "fabric", "fabric-x"} /\ k.committer

\* Config.Validate.
Valid(k) ==
  /\ k.database /\ k.channel
  /\ k.protocol \in {"", "fabric", "fabric-x"}
  /\ k.committer /\ k.server

Load(e) ==
  /\ boot[e] = "load"
  /\ Goto(e, IF conf[e].file /\ Valid(conf[e]) THEN "create" ELSE "failed")
  /\ UNCHANGED vars

\* The committer's address and the fields of the identity, then service.New:
\* the signer, the databases and the synchroniser, each of which may fail.
CreateService(e) ==
  /\ boot[e] = "create"
  /\ IF conf[e].committer /\ conf[e].identity
     THEN \E b \in {"serve", "failed"} : Goto(e, b)
     ELSE Goto(e, "panic")
  /\ UNCHANGED vars

\* The listener cannot be bound, or the service runs.
StartAndServe(e) ==
  /\ boot[e] = "serve"
  /\ IF conf[e].server
     THEN \/ Goto(e, "up") /\ Start(e)
          \/ Goto(e, "failed") /\ UNCHANGED vars
     ELSE Goto(e, "panic") /\ UNCHANGED vars

-----------------------------------------------------------------------------
(* The client.                                                             *)

\* The flag wins over the file, which must name a namespace all the same.
Namespace(k) == IF k.flag # "" THEN k.flag ELSE k.namespace
Target(k) == IF k.channel # "service" THEN "channel"
             ELSE IF Namespace(k) # "service" THEN "namespace" ELSE "service"

\* prepare and validate.
Prepared(k) ==
  /\ k.file /\ k.json
  /\ k.channel # "" /\ k.namespace # "" /\ k.identity /\ k.endorsers # "none"

\* The addresses must be there when the connections are made; only invoke looks
\* at the orderer and the protocol.
Connects(k, cmd) ==
  /\ k.endorsers = "ok"
  /\ cmd = "invoke" => k.orderer = "ok" /\ k.protocol # "other"

\* The client ends before it has sent anything.
EndEarly(c, r) ==
  /\ pc[c] = "idle"
  /\ req' = [req EXCEPT ![c] = r]
  /\ pc' = [pc EXCEPT ![c] = "error"]
  /\ before' = [before EXCEPT ![c] = {d \in Calls : pc[d] \in {"ok", "error"}}]
  /\ UNCHANGED <<ledger, sent, service, store, reply>>

\* Also with everything in place the identity may not load and a connection may
\* not be made.
RunClient(c, r, k) ==
  /\ r.to = Target(k) /\ r.orderer = (k.orderer # "none")
  /\ \/ Prepared(k) /\ Connects(k, r.cmd) /\ Open(c, r)
     \/ EndEarly(c, r)
  /\ UNCHANGED startup

-----------------------------------------------------------------------------
(* Both with what they do once they run.                                   *)

Proposal(e, c) == Refuse(e, c) \/ OpenStore(e, c) \/ ProcessProposal(e, c) \/ LogNoArgs(e, c)
RunningClient(c) == Endorsed(c) \/ Submit(c) \/ ClientFails(c)

Running ==
  /\ \/ \E e \in Endorsers : \/ Sync(e) \/ WaitForReady(e) \/ Close(e) \/ Exit(e)
                             \/ \E c \in Calls : Proposal(e, c)
     \/ \E c \in Calls : RunningClient(c) \/ Commit(c)
     \/ Quiet
  /\ UNCHANGED startup

StartupNext ==
  \/ \E e \in Endorsers : \/ \E k \in Configs : Launch(e, k)
                          \/ Load(e) \/ CreateService(e) \/ StartAndServe(e)
  \/ \E c \in Calls, r \in Requests, k \in ClientConfigs : RunClient(c, r, k)
  \/ Running

\* Programs do their next step, the synchroniser gets the blocks there are, and
\* a process that has closed its service exits.  Nobody has to launch, stop or
\* call anything.
Fairness ==
  /\ \A e \in Endorsers :
       /\ WF_allvars(Load(e)) /\ WF_allvars(CreateService(e)) /\ WF_allvars(StartAndServe(e))
       /\ WF_allvars(Sync(e) /\ UNCHANGED startup)
       /\ WF_allvars(WaitForReady(e) /\ UNCHANGED startup)
       /\ WF_allvars(Exit(e) /\ UNCHANGED startup)
       /\ \A c \in Calls : WF_allvars(Proposal(e, c) /\ UNCHANGED startup)
  /\ \A c \in Calls : WF_allvars(RunningClient(c) /\ UNCHANGED startup)

StartupSpec == StartupInit /\ [][StartupNext]_allvars /\ Fairness

-----------------------------------------------------------------------------
\* Starting ends, whatever the configuration: the service serves, or the
\* process is told to stop, or it is over.
StartEnds ==
  \A e \in Endorsers :
    boot[e] \in {"load", "create", "serve"} \/ phase[e] = "syncing" ~>
      phase[e] \in {"serving", "closed"} \/ boot[e] \in {"failed", "panic"}

\* Every run of the client ends, although endorsers do not start, stop with a
\* proposal in hand, or come back without their database.
EveryCallEnds == \A c \in Calls : pc[c] # "idle" ~> pc[c] \in {"ok", "error"}

\* What Validate accepts and crashes the process all the same is an absent
\* identity; every other absent part is reported before it is used.
OnlyIdentityCrashes == \A e \in Endorsers : boot[e] = "panic" => ~conf[e].identity

\* "Identity is optional Fabric MSP identity configuration" (Config): a
\* configuration that Validate accepts does not crash the process.
AcceptedConfigRuns == \A e \in Endorsers : boot[e] # "panic"
=============================================================================
