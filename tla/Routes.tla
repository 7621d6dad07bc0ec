------------------------------- MODULE Routes -------------------------------
(***************************************************************************)
(* What the HTTP layer of the issuer, owner and endorser nodes makes of a  *)
(* request, before and after the call it is for: CORS, the generated       *)
(* routing, parameter and body decoding, and the checks of routes.go.      *)
(*                                                                         *)
(* A body is "none" (the route takes none), "ok" or "bad" (not the JSON of *)
(* the schema).  Lengths stand for hashes and pre-images.                  *)
(***************************************************************************)
EXTENDS Integers

CONSTANTS Kinds,      \* the programs a node may run
          MaxInt64,   \* the largest signed integer (2^63 - 1 in the code)
          Second,     \* a second as a time.Duration (10^9 in the code)
          Sha256Size, \* the length of a digest (32 in the code)
          None        \* no value

ASSUME RoutesAssumption ==
  /\ Kinds \subseteq {"issuer", "owner", "endorser"}
  /\ MaxInt64 \in Nat /\ Second \in Nat \ {0} /\ Sha256Size \in Nat
  /\ Second <= MaxInt64
  /\ None \notin Int

\* Routes that start a view, or in the case of init deploy parameters.
Calls(kind) == CASE kind = "issuer"   -> {"issue"}
                 [] kind = "owner"    -> {"transfer", "redeem", "lock", "claim", "reclaim"}
                 [] kind = "endorser" -> {"init"}
Reads(kind) == IF kind = "owner" THEN {"account", "transactions"} ELSE {}
Health == {"healthz", "readyz"}

\* The routes of the generated server, and what they decode.
RoutesOf(kind) == Calls(kind) \cup Reads(kind) \cup Health
                  \cup (IF kind = "owner" THEN {"accounts"} ELSE {})
HasId == {"account", "transactions", "transfer", "redeem", "lock", "claim", "reclaim"}
HasBody == {"issue", "transfer", "redeem", "lock", "claim", "reclaim"}

Request ==
  [method : {"OPTIONS", "call", "other"}, route : STRING, id : {"ok", "bad"},
   body : {"none", "ok", "bad"}, deadline : Int, hash : Nat \cup {None}, preimage : Nat]

-----------------------------------------------------------------------------
\* Two's complement multiplication.
Times64(a, b) == ((a * b + MaxInt64 + 1) % (2 * (MaxInt64 + 1))) - (MaxInt64 + 1)

ToDeadline_NoUpperBound(seconds) ==
  IF seconds < 1 THEN None ELSE Times64(seconds, Second)

\* toDeadline: seconds to a duration, None if it is refused.
ToDeadline(seconds) ==
  IF seconds < 1 \/ seconds > MaxInt64 \div Second
  THEN None
  ELSE Times64(seconds, Second)

\* The checks of the Lock, Claim and Reclaim handlers.
BadRequest(r) ==
  CASE r.route = "lock"    -> \/ ToDeadline(r.deadline) = None
                              \/ r.hash # None /\ r.hash # Sha256Size
    [] r.route = "claim"   -> r.preimage = 0
    [] r.route = "reclaim" -> r.hash \in {None, 0}
    [] OTHER -> FALSE

Status_Unchecked(kind, r) ==
  IF r.method = "OPTIONS" THEN 204
  ELSE IF r.route \notin RoutesOf(kind) THEN 404
  ELSE IF r.method = "other" THEN 405
  ELSE IF r.route \in HasBody /\ r.body = "bad" THEN 400
  ELSE IF r.route = "accounts" THEN 500
  ELSE IF r.route \in Health THEN 200
  ELSE None

\* The status a request is answered with at once, or None if a call is made.
Status(kind, r) ==
  IF r.method = "OPTIONS" THEN 204
  ELSE IF r.route \notin RoutesOf(kind) THEN 404
  ELSE IF r.method = "other" THEN 405
  ELSE IF r.route \in HasId /\ r.id = "bad" THEN 400
  ELSE IF r.route \in HasBody /\ r.body = "bad" THEN 400
  ELSE IF BadRequest(r) THEN 400
  ELSE IF r.route = "accounts" THEN 500
  ELSE IF r.route \in Health THEN 200
  ELSE None
=============================================================================
