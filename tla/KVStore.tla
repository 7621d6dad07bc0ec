------------------------------ MODULE KVStore ------------------------------
(***************************************************************************)
(* What the custom endorser promises its clients, without endorsers,       *)
(* snapshots or blocks: one map from keys to values.  A call is answered   *)
(* with a value the key has or once had; an invocation takes effect at     *)
(* most once, atomically, and only if its answer is still the truth then.  *)
(***************************************************************************)
CONSTANTS Calls, Keys, Requests, None

VARIABLES req,     \* [Calls -> Requests or None]
          db,      \* [Keys -> the value, or None]
          past,    \* [Keys -> the values it has had]
          got,     \* [Calls -> {}, or the one value the call was answered with]
          effect   \* [Calls -> "none", "applied" or "rejected"]

vars == <<req, db, past, got, effect>>

Init ==
  /\ req = [c \in Calls |-> None]
  /\ db = [k \in Keys |-> None]
  /\ past = [k \in Keys |-> {None}]
  /\ got = [c \in Calls |-> {}]
  /\ effect = [c \in Calls |-> "none"]

Open(c) ==
  /\ req[c] = None
  /\ \E r \in Requests : req' = [req EXCEPT ![c] = r]
  /\ UNCHANGED <<db, past, got, effect>>

\* The answer may be out of date already.
Answer(c) ==
  /\ req[c] # None /\ got[c] = {} /\ effect[c] = "none"
  /\ \/ /\ req[c].fn = "get"
        /\ \E v \in past[req[c].key] : got' = [got EXCEPT ![c] = {v}]
     \/ /\ req[c].fn = "set"
        /\ got' = [got EXCEPT ![c] = {req[c].val}]
  /\ UNCHANGED <<req, db, past, effect>>

\* A query has no effect, and neither has a call that was not answered.
MayApply(c) ==
  /\ req[c] # None /\ req[c].cmd = "invoke"
  /\ got[c] # {} /\ effect[c] = "none"

ApplySet(c) ==
  /\ MayApply(c) /\ req[c].fn = "set"
  /\ db' = [db EXCEPT ![req[c].key] = req[c].val]
  /\ past' = [past EXCEPT ![req[c].key] = @ \cup {req[c].val}]
  /\ effect' = [effect EXCEPT ![c] = "applied"]
  /\ UNCHANGED <<req, got>>

ApplyGet(c) ==
  /\ MayApply(c) /\ req[c].fn = "get"
  /\ got[c] = {db[req[c].key]}
  /\ effect' = [effect EXCEPT ![c] = "applied"]
  /\ UNCHANGED <<req, db, past, got>>

Reject(c) ==
  /\ MayApply(c)
  /\ effect' = [effect EXCEPT ![c] = "rejected"]
  /\ UNCHANGED <<req, db, past, got>>

Next == \E c \in Calls : \/ Open(c) \/ Answer(c)
                         \/ ApplySet(c) \/ ApplyGet(c) \/ Reject(c)

Spec == Init /\ [][Next]_vars
=============================================================================
