----------------------------- MODULE MCStartup ------------------------------
(* Configurations that are complete but for one field, and no file.        *)
EXTENDS Startup, TLC

CONSTANTS k, v, none, e1, e2, Fns

Full == [file |-> TRUE, database |-> TRUE, channel |-> TRUE, protocol |-> "fabric-x",
         committer |-> TRUE, server |-> TRUE, identity |-> TRUE]
MCConfigs == {Full, [Full EXCEPT !.protocol = "other"]}
  \cup {[Full EXCEPT ![f] = FALSE] : f \in {"file", "committer", "server", "identity"}}

FullClient == [file |-> TRUE, json |-> TRUE, identity |-> TRUE, protocol |-> "",
               channel |-> "service", namespace |-> "service", flag |-> "",
               endorsers |-> "ok", orderer |-> "ok"]
MCClientConfigs ==
  {FullClient, [FullClient EXCEPT !.channel = "other"],
   [FullClient EXCEPT !.namespace = "other", !.flag = "service"],
   [FullClient EXCEPT !.namespace = ""], [FullClient EXCEPT !.protocol = "other"],
   [FullClient EXCEPT !.endorsers = "noaddress"], [FullClient EXCEPT !.orderer = "none"],
   [FullClient EXCEPT !.orderer = "noaddress"]}

MCRequests == [cmd : {"query", "invoke"}, fn : Fns, key : {k}, val : {v},
               to : {"service", "channel"}, orderer : BOOLEAN]
MCMaxStarts == [e \in Endorsers |-> IF e = e1 THEN 2 ELSE 1]
=============================================================================
