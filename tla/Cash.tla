-------------------------------- MODULE Cash --------------------------------
(***************************************************************************)
(* What the token sample promises its users, without nodes, views or a     *)
(* network: a call moves its quantity between accounts once and atomically *)
(* or not at all, and is answered "ok" only after it has.  An error answer *)
(* promises nothing: the quantity may have moved, or move later.           *)
(***************************************************************************)
EXTENDS Naturals

CONSTANTS Accounts, Txs, Requests, None

VARIABLES req,     \* [Txs -> Requests or None]
          bal,     \* [Accounts -> Nat]
          effect,  \* [Txs -> "none", "moved" or "refused"]
          answer   \* [Txs -> "none", "ok" or "failed"]

vars == <<req, bal, effect, answer>>

Init ==
  /\ req = [t \in Txs |-> None]
  /\ bal = [a \in Accounts |-> 0]
  /\ effect = [t \in Txs |-> "none"]
  /\ answer = [t \in Txs |-> "none"]

\* A call is made; one that is refused on the spot is answered at once.
Open(t) ==
  /\ req[t] = None
  /\ \E r \in Requests : req' = [req EXCEPT ![t] = r]
  /\ \E a \in {"none", "failed"} : answer' = [answer EXCEPT ![t] = a]
  /\ UNCHANGED <<bal, effect>>

\* The quantity leaves the payer, who has it, and reaches the payee.
Move(t) ==
  /\ req[t] # None /\ effect[t] = "none"
  /\ req[t].from # None => bal[req[t].from] >= req[t].qty
  /\ bal' = [a \in Accounts |->
               (bal[a] + (IF a = req[t].to THEN req[t].qty ELSE 0))
                       - (IF a = req[t].from THEN req[t].qty ELSE 0)]
  /\ effect' = [effect EXCEPT ![t] = "moved"]
  /\ UNCHANGED <<req, answer>>

RefuseMove(t) ==
  /\ req[t] # None /\ effect[t] = "none"
  /\ effect' = [effect EXCEPT ![t] = "refused"]
  /\ UNCHANGED <<req, bal, answer>>

AnswerOk(t) ==
  /\ answer[t] = "none" /\ effect[t] = "moved"
  /\ answer' = [answer EXCEPT ![t] = "ok"]
  /\ UNCHANGED <<req, bal, effect>>

\* Calls fail together when the node that runs them stops.
AnswerFailed(T) ==
  /\ \A t \in T : req[t] # None /\ answer[t] = "none"
  /\ answer' = [t \in Txs |-> IF t \in T THEN "failed" ELSE answer[t]]
  /\ UNCHANGED <<req, bal, effect>>

Next == \/ \E t \in Txs : Open(t) \/ Move(t) \/ RefuseMove(t) \/ AnswerOk(t)
        \/ \E T \in SUBSET Txs : AnswerFailed(T)

Spec == Init /\ [][Next]_vars
=============================================================================
