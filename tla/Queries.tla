------------------------------ MODULE Queries -------------------------------
(***************************************************************************)
(* What a node's HTTP API shows of TokenTx between the calls: the balance  *)
(* of an account and its transaction history, both read from the databases *)
(* of the node that is asked, which hears of a commit in its own time.     *)
(***************************************************************************)
EXTENDS TokenTx

CONSTANT Word  \* an amount is counted modulo this (2^64 in the code)

ASSUME QueriesAssumption == Word \in Nat \ {0}

Wrap(x) == x % Word

\* Balance and Balances, which agree: the wallet's unspent tokens.  Only the
\* node that declares a wallet finds it.
OwnerAccount(n, a) ==
  IF HostsWallet(n, a) THEN Wrap(Value(Wallet(n, a))) ELSE None

ToSelf(t) == req[t].from = req[t].to
Names(t, a) == a # None /\ a \in {req[t].from, req[t].to}

Listed_Confirmed(n, t) == status[t][n] = "Confirmed"
\* The statuses GetTransactions asks for.
Listed(n, t) == status[t][n] \in {"Pending", "Confirmed"}

\* GetTransactions: the account's calls, without what it pays to itself, as
\* one page of what the node has recorded.
History(n, a) == {t \in Txs : Listed(n, t) /\ Names(t, a) /\ ~ToSelf(t)}

\* An entry as OwnerTransactions shows it.
OwnerTransactions(n, a) ==
  {[id |-> t, sender |-> req[t].from, recipient |-> req[t].to,
    amount |-> Wrap(req[t].qty), status |-> status[t][n]] : t \in History(n, a)}
=============================================================================
