------------------------------- MODULE MCNode -------------------------------
(* Integers of six bits and seconds of ten ticks.                          *)
EXTENDS Node, TLC

CONSTANTS none, fabric, fabric2, evm

Call(route) == [method |-> "call", route |-> route, id |-> "ok", body |-> "ok",
                deadline |-> 1, hash |-> None, preimage |-> 1]
MCInputs ==
  {Call(r) : r \in {"issue", "transfer", "init", "readyz", "accounts"}}
  \cup {[Call("lock") EXCEPT !.deadline = d] : d \in {0, 3, 4, 7}}
  \cup {[Call("lock") EXCEPT !.hash = 1], [Call("claim") EXCEPT !.preimage = 0],
        [Call("claim") EXCEPT !.id = "bad"],
        Call("reclaim"), [Call("reclaim") EXCEPT !.hash = 2],
        [Call("redeem") EXCEPT !.body = "bad"], [Call("redeem") EXCEPT !.method = "OPTIONS"],
        [Call("readyz") EXCEPT !.method = "other"]}
=============================================================================
