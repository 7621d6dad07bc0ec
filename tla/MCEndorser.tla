----------------------------- MODULE MCEndorser -----------------------------
EXTENDS Endorser, TLC

CONSTANTS k, v, none, e1, e2, Kinds

Call(cmd, fn, val) == [cmd |-> cmd, fn |-> fn, key |-> k, val |-> val,
                       to |-> "service", orderer |-> TRUE]
Good == {Call("invoke", "set", v), Call("invoke", "get", v), Call("query", "get", v)}
\* Calls that somebody refuses.
Bad == {Call("query", "usage", v), Call("query", "none", v),
        [Call("invoke", "set", v) EXCEPT !.orderer = FALSE],
        [Call("query", "get", v) EXCEPT !.to = "namespace"]}
MCMaxStarts == e1 :> 2 @@ e2 :> 1
MCRequests == IF Kinds = "good" THEN Good ELSE Good \cup Bad
CallSymmetry == Permutations(Calls)
=============================================================================
