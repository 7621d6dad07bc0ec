# Verification of the Fabric-X samples

TLA+ models of the programs in this repository, TLC runs that check them on
small instances, and theorems about them that TLAPS proves for every value of
the constants. The models are read from the code: `PROJECT.json` maps every
definition to the lines it stands for.

Contents: 1 inventory, 2 the modules and how they read, 3 the runs,
4 the proofs, 5 findings, 6 what is not modelled, 7 plan.

## 1. Inventory

The repository holds two programs in Go and two small extras: the token sample
(`tokens/`), the custom endorser (`custom-endorser/`), an ERC-20 contract
(`evm/`) and a development network (`devnet/`).

### 1.1 Token sample

Nodes built on the Fabric Smart Client (FSC) and the Panurus token library: an
issuer, two owner nodes (`owner1` with alice and bob, `owner2` with carlos and
dan) and endorsers. A node runs an HTTP server and *views*: goroutines that talk
to views of other nodes over sessions.

| part | state | operations | interacts with | correct if |
|---|---|---|---|---|
| Initiator views `issuer/service/fsc.go`, `owner/service/fsc.go` | where the view is, the transaction it assembles | issue, transfer, redeem | responders, endorsers, orderer | the quantity moves once and atomically or not at all; the answer is true; there is an answer |
| Responder views `common/views/accept.go`, `redeem.go` | where the view is | identity, accept, wait for finality; the issuer's signature on a redeem | initiators, commit events | nothing is committed without them; they end |
| A node's databases | transaction records, tokens, name bindings | written by views and commit events; survive a restart | views | agree with the ledger and with each other; move forward only |
| HTLC views `owner/service/htlc_*.go` | locks on one or two ledgers, deadlines | lock, claim, reclaim, and the lock responder | clocks of nodes and endorsers | a lock ends once; not back before its deadline; not paid after it |
| Swap driver `scripts/test_swap.sh` | the steps of two users | lock, lock, claim, claim, reclaim | HTLC endpoints of two nodes on two networks | nobody ends with both sides |
| HTTP routes `*/routes/*.go` | none | decode, check, convert, answer | the calls above | a refusal starts nothing; conversions are exact |
| Owner queries `owner/service/fsc.go` (`Balance`, `Balances`, `GetTransactions`) | none of their own | read balance, read history | a node's databases, between commit events | a client sees what it was told; history and balance fit together |
| Token parameters `endorser/service/fsc.go` | parameters per service | init | orderers of several networks | after "ok" every service has its own |
| Node processes `*/main.go`, `common/fsc.go` | stage, binding store, responder registry, requests in flight | start, bind the endorsers' identities, register, serve, stop | everything above | ready means ready; bound endorsers are recognised; a stopped node ends |
| View factories `common/views/issue.go`, `redeem.go` | none | variants of issue and redeem, registered by `issuer/main.go` and `owner/main.go` under a name | only the node library's own view service could start them | not modelled, see 6 |

### 1.2 Custom endorser

| part | state | operations | interacts with | correct if |
|---|---|---|---|---|
| Service and process `service/service.go`, `cmd/endorser/main.go` | a database per endorser, its height, the synchroniser, open proposals | start, synchronise, become ready, process a proposal, close, exit | committing peer, clients | it serves no state older than it served before |
| Executor `cmd/endorser/executor.go` | none | get, set, usage | a snapshot of the database | what is committed as valid is serial |
| Client `cmd/client/main.go` | none | query, invoke | all endorsers, the orderer | it submits only what all accepted |
| Configuration `config/config.go`, `cmd/client/main.go` | a file, an operator's flags | load, validate, convert | the start of both processes | what it accepts runs; the rest is an error, not a crash |

### 1.3 What is hard here

* **Interleavings.** Any number of views run on each node. Two calls of a wallet
  may select the same token; a claim and a reclaim of one lock may both be on
  their way to the orderer; commit events arrive before, between and after the
  steps of the views they concern.
* **Unknown outcomes.** Every wait is bounded. A call that timed out, failed
  after ordering or was cut off by a stop may commit all the same, and the client
  may call again.
* **Clocks.** Deadlines are set by one node and judged by others, and by every
  endorser.
* **Restarts.** A stop ends the views of a node and keeps its databases; an
  endorser with an in-memory database loses it.
* **Stale state.** Token databases lag behind the ledger; endorsers execute on
  snapshots of different heights; the first binding of a name stays.

`PROJECT.json` lists the hazards line by line with the properties for each.

## 2. Modules

```
Cash  <--- TokenTxProperties --> Queries --> TokenTx   TokenTxProofs, CashProofs, MCTokenTx
Escrow <-- HtlcProperties ----------------->  Htlc     HtlcProofs, MCHtlc
                                     Swap --> Htlc     SwapProofs, MCSwap
                                     Node --> Routes   NodeProofs, MCNode
KVStore <----------------------------------- Endorser  EndorserProofs, MCEndorser
                                  Startup --> Endorser StartupProofs, MCStartup
Sums <--- CashProofs, HtlcProofs
```

`<M>Properties` states what `M` must guarantee, `<M>Proofs` proves it, `MC<M>`
gives constants for TLC. `Cash`, `Escrow` and `KVStore` are abstract specifications;
`CashProofs` has what is proved about money, the refinement of `Cash` included, and
`Sums` the lemmas about sums over finite sets. A
definition `D_something` just before `D` is `D` with a plausible bug; it is not
used by the specification but serves to show that a property would notice.

### TokenTx: issue, transfer, redeem

A `t \in Txs` is one HTTP call, the view it starts and the transaction that view
makes; a call repeated by a client is another member with the same request.

| variable | in the code |
|---|---|
| `req`, `ini` | the request, and the line the initiator view has reached, or its answer |
| `peer`, `bind` | the node its session reaches, and the binding store that decides it (`getRemoteIdentity`) |
| `rsp`, `reply`, `acked` | the responder view, the identity it sent, its acknowledgement in `AcceptView` |
| `inputs`, `outs`, `endorsed` | the transaction |
| `submitted`, `verdict` | orderer and committer |
| `status` | the transaction database of every node |
| `restarts` | how often a node was stopped |

The stages of `ini` are those of all three views: `identity` (the session for the
recipient's identity), `build` (`tx.Issue`, `Transfer`, `Redeem` with token
selection), `collect` (`CollectEndorsementsView`), `ready` and `ordered`
(`OrderingAndFinalityView`). The answers `notfound`, `connection`,
`insufficient` and `error` are the ones `FabricSmartClient.Transfer` tells apart;
`lost` is the missing answer of a stopped node. Each step has its failures:
`IdentityFails`, `CollectFails`, `OrderFails` (after which the orderer may have
the transaction), `FinalityTimeout`, `ResponderTimeout`.

The library is modelled from what the views rely on. Selection picks tokens of
the wallet in the node's own database, and may or may not skip the tokens of a
concurrent call. `CollectEndorsements` asks the issuer for a redeem, then the
endorsers, then sends the approved transaction to the recipient. The committer
demands all endorsements and unspent inputs. A commit event writes the record and
the tokens of every party.

### Queries

The balance of an account is the sum of the unspent tokens in the wallet of the
node that is asked, modulo `Word`; its history is the calls of that account that
the node has recorded as pending or confirmed, without what the account pays to
itself. Both are functions of the state of TokenTx: a client may read between any
two steps, and a node may be behind the ledger and the other nodes.

### Cash

Balances; a call moves its quantity once and atomically or not at all, and is
answered ok only after it has. An error answer promises nothing.

### Htlc: lock, claim, reclaim

As in TokenTx, a call is its view and its transaction; a lock call also names
the locked token. Every node and endorser has a clock, `now + Skew[x]`. The
deadline is set in `Build` from the locker's clock, the recipient's responder
checks it on its own (`Accept`), claim and reclaim select locks by the clock of
their node (`Claimable`, `Expired`), and each endorser judges by its own
(`MayEndorse`). A hash is represented by its pre-image; a pre-image the node
generates is named by the call. `Knows` says which pre-images a user can have:
chosen, answered, or published by a claim. Which tokens pay is left to TokenTx.

### Escrow

A quantity leaves the locker, is held, and goes whole either to the recipient or,
not before the deadline on the slowest endorser's clock, back.

### Swap

The users of `scripts/test_swap.sh` as clients of Htlc on two networks: when each
step is made (`Ready`), what fails (`SwapFails`) and how long things take
(`SwapTick`): `Delay` from a call to its commit being known, `Wait` from alice's
lock to dan's, `React` from the public pre-image to dan's claim. Alice may be as
late as she likes. `SwapAssumption` is the margin between the two deadlines, in
the terms of the script's times and the skew of every clock involved.

### Node and Routes

`Routes` is the HTTP layer as a function from a request to its status, or to
"make the call": CORS, the generated routing, parameter and body decoding, the
checks of the Lock, Claim and Reclaim handlers, and `toDeadline` with integers
that wrap. `Node` is the process around it: `StartFSC`, `BindEndorsingIdentity` for one
endorser after the other in any order (`store` is the binding store, where the
first binding of an identity stays; `pairs` what became of each endorser),
`RegisterResponder` one by one, `ListenAndServe`, requests that are decoded, run and answered, sessions of
other nodes' views, the signal, `Shutdown` with its ten seconds, `FscStop`; and
the endorser's init, service by service, where each deployment may fail, or
succeed and be reported as failed.

### Endorser

`ledger` is a sequence of blocks of one transaction with the committer's verdict;
`height[e]` is how much of it endorser `e` has. `Start`, `Sync`, `WaitForReady`,
`Close` and `Exit` are the life of the process; `OpenStore` and `ProcessProposal`
the two halves of a proposal, between which blocks arrive; `Open`, `Endorsed`,
`Submit` and `ClientFails` the client. `Version` is the number of writes of a key
(protocol `fabric-x`) or the place of the last one (`fabric`). `LogNoArgs` is the
log statement that indexes the first argument. `before` is a history variable:
the calls that had ended when a call was made.

### KVStore

One map from keys to values. A call is answered with a value the key has or once
had, or with the value it sets; an invocation takes effect at most once,
atomically, and a read takes effect only if its answer is still the truth. That
the answer of a query may be old is what the code does: an endorser answers from
its own height.

### Startup

Endorser with the way to it. `Launch` starts the process with any configuration,
again after it has ended; `Load` reads and validates the file, `CreateService`
uses the committer's address and the identity and makes the service,
`StartAndServe` binds the listener and goes on with `Endorser!Start`. A field is
present or absent; using an absent one is a crash (`panic`). `RunClient` is the
client from its file, flags and argument to `Endorser!Open` or to an early end.

## 3. Runs

| run | instance | question |
|---|---|---|
| `spend` | an issue of 2 and two of a payment of 1 (with change) and a redeem of 2, three calls in all | Is a token ever spent twice, is money made or lost, are answers, records, balances and histories true, does TokenTx implement Cash? |
| `answers` | any two of ten requests that reach every answer; two endorsers; one stop of a node; fairness | Are answers and records true, does the counterparty agree, do records and histories move forward, does a client read its own writes; is every call answered, does every responder end, does every record become final? |
| `pending`, `binding` | one and two calls | Two findings, see 5 |
| `kv` | two calls of every kind, two endorsers of which one restarts, in-memory databases | Is the valid ledger serial, is the first response enough, does a user's view move forward, does Endorser implement KVStore? |
| `startup` | two endorsers, one launched twice, each time with a complete file, one that lacks one thing, or none; one client call with eight configurations; fairness | What crashes, does every start end, does every client call end? |
| `startup_identity` | as `startup` | A finding, see 5 |
| `htlc_spend` | three of lock, claim, reclaim under one hash, the locker's clock ahead | Does a lock end once, in time, for its parties, with true answers? |
| `htlc_escrow` | local and refused locks with generated and chosen hashes, claims and reclaims | Does Htlc implement Escrow? |
| `htlc_hash` | one lock | A finding, see 5 |
| `swap_fair` | the swap with dan's node ahead and the shortest sufficient deadline | Can anybody end with both sides? |
| `node` | two requests of 17 kinds, one session, three endorsers of which one has no resolver, on each program | Do refusals start nothing, is init complete, are bound endorsers recognised, does ready mean ready, does the node end? |

**Why the bounds are enough.** Three calls are the smallest number for a token
and two that compete for it, and for a lock with a claim and a reclaim; more
calls add competitors of the same kind. Two endorsers are needed where a
transaction may be signed by some (`answers`, `kv`) or where one may come up and
the other not (`startup`); where endorsers only repeat
one another there is one. One stop hits any node at any step. Quantities 1
and 2 give payments with and without change. In `htlc_spend` the time goes to 2:
before, at and after the deadline on clocks that differ by one. In `node` integers
have six bits and a second ten ticks: 3 seconds fit, 4 wrap around to a
negative and 7 to a positive value. Amounts wrap at `Word = 3`, which the issued
2 and its change reach in sums. The second launch in `startup` comes with an
empty database and perhaps another file. `spend` has no stop and
`answers` no competition for a token; the proofs cover both at once. Symmetry is
used for calls and endorsers where only safety is checked, never for liveness.

**Fairness.** `answers`: the waits of a view are bounded by the time-outs of its
views, so a running initiator or responder takes a step; the orderer and committer
decide; commit events are delivered, again after a restart, because the node
library reads blocks on from where its database is. No fairness is assumed of
clients, of endorsers or of node stops. `node`: `Shutdown` returns after ten
seconds at most (`context.WithTimeout` in main) and `FscStop` follows it; nothing
is assumed of requests. `startup`: `main` goes from one step to the next, the
synchroniser gets the blocks there are, `WaitForReady` polls, a closed service's
process exits, an endorser handles a proposal it has and the client works on its
answers with a time-out. Nobody has to launch, stop or call anything, and nothing
makes the orderer commit. A run whose calls have all ended may stop: each
specification has a `Quiet` or `Exited` step for exactly that state, so that TLC's
deadlock check stays on and reports a view that waits without a way out.

**Time in the swap.** `SwapIsFair` needs the margin that the script chooses
generously, `SwapAssumption`: alice's deadline covers dan's, the time dan takes to
answer with his lock, two calls, dan's reaction and the skews of the clocks that
judge. The run has alice's deadline at 6, dan's at 1, `Wait`, `Delay` and the skew
of dan's node 1 each, and `React` 0, which is the assumption with equality. Without
the assumption and with one tick less TLC finds dan without either side. The second half of
`SwapIsFair` protects an alice who claims with `Delay` to spare before dan's
deadline on every endorser's clock; nothing protects a later one.

## 4. Proofs

All for any finite or infinite number of calls, nodes, accounts and requests; in
Endorser and Startup the endorsers are finitely many.

**TokenTxProofs.** `IInv == TypeOK /\ TxInv /\ NoDoubleSpend`. The properties are
not inductive: that a committed transaction was accepted needs to be known when
it is ordered, and before that when signatures are complete. `TxInv` says for
each call how initiator, responder, ledger and records fit together
(`CallInv`, `ResponderInv`, `LedgerInv`, `RecordInv`); for instance that what is
ordered was acknowledged and is recorded at both parties. `Frame` shows
that a step which leaves a call's part alone keeps its invariant, so each action is
proved for its own call only. `NoDoubleSpend` follows since a commit needs inputs
that are unspent and `Build` changes only what is not committed. Theorems:
`TypeCorrect`, `DoubleSpendFree`, `CounterpartiesAgree`, `TrueAnswers`,
`AgreeingRecords` and the action property `ForwardRecords`. Assumed of the
constants: that the issuer is a node, that accounts have a home, and which fields
requests of each kind have.

What a client may read stands in the same module. `QueryInv` adds to `IInv` that a
call that got anywhere runs at the home of its payer and that "ok" is answered
only after the node's own record is confirmed. Theorems: `ReadsSeeWrites`,
`AgreeingHistories` and the action property `StayingEntries`.

**Sums.** `SumFunctionOnSet` for every finite set: empty, one more element, parts,
bounds, equal summands, and sums of sums over disjoint sets. The library's
induction theorems take an operator, which the provers cannot instantiate; here
induction is over a set of sets. `Minimal`, from the well-founded order of finite
sets by inclusion, gives a smallest set that fails, `SetInduction` and `AddInduction`
follow, and the recursive function inside the fold is shown to exist and to be
unique. The lemmas on `%` say that a sum may be wrapped at every step or once.

**CashProofs.** Money. `CashInv` adds to `IInv` and `QueryInv` that the committed
transactions are finitely many and, for each call, `MoneyInv`: a recipient's
identity is the one the request names, and from `Build` on the transaction takes
in tokens of its payer, created by transactions that the payer's node knows to be
committed, worth the quantity and the change, and creates outputs worth the same.
`Conservation` alone is not inductive: a commit adds to the supply what was
selected long before. The last clause makes the tokens of a payer those that exist
on the ledger; `NoDoubleSpend` makes them unspent once. Each transaction balances
(`TransactionBalances`), hence all that are committed do, whichever accounts one
looks at (`LeftWorth`): all accounts give `MoneyIsConserved`, one account on a node
gives `HistoryAddsUp`, with the wrapped sums of the API, and one account on the
ledger gives the balances of `Cash`. `CashRefined`: a commit of a valid transaction
is `Move`, and the payer has the quantity (`PayerHasIt`); a refused one is
`RefuseMove`; the other steps open calls, answer them or change nothing.

**HtlcProofs.** `IInv` adds to typing and `LockAnswersAreTrue` that at most one
committed call spends a lock (`SpentOnce`), what each view has built, signed and
sent (`ViewInv`), and that a claim or reclaim has found a committed lock of its
own party and that whoever signed a reclaim has seen the deadline pass
(`TargetInv`). `Grows` collects what no step takes back: knowledge, verdicts,
scripts of built locks and time; with it `TargetInv` is kept by all the steps of
other calls at once. Theorems: `HtlcTypeCorrect`, `LocksEndOnceHolds`,
`ReclaimWaitsHolds`, `LocksAreAcceptedHolds`, `LockAnswersAreTrueHolds`.

Theorem `ImplementsEscrowHolds`: every step is a step of Escrow or none. `DealInv`
adds that a lock has its terms from `Build` on and that finitely many are
committed. `StepKinds` sorts the steps: `Build` is an offer, the commit of a lock
takes the quantity from the locker (`HoldStep`), the commit of a claim or reclaim
gives it to one of the two (`EndStep`, `SpendStep`), `Tick` moves the slowest clock
(`SlowestIs`), the rest changes nothing that Escrow sees. `BalanceStep` says what
one more lock or one ended lock does to the balances, which are sums over locks. A
reclaim has the signature of the slowest endorser too, so its deadline has passed
there (`TargetInv`).

**EndorserProofs.** The lemma `SameVersion` is the heart: two prefixes of the
ledger with the same version of a key have the same writes of it, with either
kind of version. `PrefixKept` says that later blocks do not change what a prefix
holds. Then a valid transaction has read the state of its own place.
For `AnswersMoveForward`, `HeightInv` says that a serving endorser has every
store it ever opened behind it, also after a restart without its database,
because it serves only with all blocks of the ledger. Theorems:
`EndorserTypeCorrect`, `SerializableHolds`, `FirstSpeaksForAllHolds`,
`AnswersMoveForwardHolds`.

The same module shows that every step of Endorser is a step of KVStore or none. The
map of KVStore is what the valid transactions of the ledger have written, its `past`
the values at any place of it, an answer the one an accepted proposal has
computed. `CommitValue` and `CommitPast` say what one block adds; `OnceInv` that a
call's transaction is on the ledger only once; a read that is valid has found the
version of its own place (`SameVersion` again), so its answer is the truth when it
takes effect. Theorem: `ImplementsKVStoreHolds`.

**StartupProofs.** All steps of Startup but `EndEarly` are steps of Endorser or leave
its variables alone; `EndEarly` opens and ends a call at once and keeps every
invariant of EndorserProofs (`EarlyInv`, `EarlyGrows`, `EarlyOnce`). `BootInv` says
which checks a process has passed at each stage of its start: past `Load` its file
has passed `Validate`, at `serve` it has an identity, and only a process that is up
has a service. Theorems: `StartupTypeCorrect`, `OnlyIdentityCrashesHolds` and
`ProgramsImplementKVStore`, the refinement for the whole programs.

**SwapProofs.** The lemmas of HtlcProofs hold of the swap, whose steps are steps
of Htlc. `TimeInv` keeps every call within `Delay` of its start, `OrderInv` says
who has waited for whom, `ClaimInv` what follows once alice has claimed: dan's
call comes by `Last == since[claimA] + Delay + React`, finds the lock unspent and
before its deadline on his clock and on every endorser's (`Margin`), and nobody
signs alice's reclaim before he is done. Theorem: `SwapIsFairHolds`, for all
deadlines, waits, reactions, delays, endorsers and skews that `SwapAssumption`
admits.

**NodeProofs.** `ToDeadlineExact`: the conversion of deadlines is exact for
every width of the integers. `RequestInv` and `InitCallInv` follow each request
and each init call. `MainInOrder` says what `main` has done by each stage; from it
`EndorsersRecognisedHolds` follows for every set and order of endorsers, because
start-up has bound every endorsing identity already and `main` binds the P2P
identity, which has no binding yet, to the same long-term one. Theorems: `NodeTypeCorrect`,
`RequestsMeanWhatTheySayHolds`, `InitDeploysAllHolds`, `MainInOrder`,
`EndorsersRecognisedHolds`, `ReadyNodeRespondsHolds`.

**Assumptions.** Each is an `ASSUME` of the module that declares the constants, and
TLC evaluates it on every instance. `ConstantsAssumption` and `RequestsAssumption`:
the issuer is a node, accounts have a home, which fields a request of each kind
has. `HtlcAssumption`: types, and that there is an endorser. `SwapAssumption`: the
names of the script and its margin of time. `EndorserAssumption`: types, finitely
many endorsers, of which the client's first is one. `StartupAssumption`,
`NodeAssumption` and `QueriesAssumption` are types. `RoutesAssumption`: a second fits
into the integers, a program is one of the three. `None` is not among the values it
stands beside (`EscrowAssumption` for the terms of a lock). There is no bound on
calls, quantities or clocks, nor on the width of integers.

**Model-checked only.** `EveryCallAnswered`, `EveryResponderEnds`,
`EverySubmittedSettles`, `StopEnds`, `StartEnds` and `EveryCallEnds`: liveness under
fairness is out of the prover's reach. Every invariant, action property and
refinement that a run checks is proved.

## 5. Findings

1. `pending`: `AcceptCashView` acknowledges a transaction and then asserts that
   it is still pending. The initiator may order it in between; if the commit event
   comes first, the responder fails although the tokens have arrived. No state is
   harmed: records and answers stay true (`answers`).
2. `binding`: the comment in `getRemoteIdentity` says the name is bound so that the
   right node is contacted. The first binding of a name stays, so a later call that
   names another node contacts the first one.
3. `htlc_hash`: a lock that fails after ordering may commit, but its generated
   hash is lost with the answer, and the reclaim endpoint asks for the hash.
4. `startup_identity`: the configuration calls the identity optional and
   `Validate` does not ask for it, but `run` reads its fields: without one the
   process ends with a nil pointer dereference. `OnlyIdentityCrashes` (`startup`)
   shows that it is the only part of which this is true.

A remark without a run: `swagger.yaml:159-166` says that a transfer often shows as
two transactions with the same id, the second one the change. `GetTransactions`
sets `ExcludeToSelf`, so the change is not listed.

## 6. Not modelled

* The view factories in `common/views/issue.go` and `redeem.go`: `main` registers
  them under the names `issue` and `redeem`, but only the node library's own view
  service could start them, nothing in the repository asks it to, and no
  responder is registered for these views. They differ from the modelled views in
  details only. The factories of `lock`, `claim` and `reclaim`, registered the same
  way, make the very views that Htlc models. The issuer's responder, in `redeem.go` too, is in TokenTx.
* In the swap driver: issuing the starting balances, which is TokenTx's, and the
  retries of `curl_with_retry`, which may make a second lock under the same hash.
  Htlc has such locks (`htlc_spend`); Swap has one call per step, and what
  `SwapIsFair` says is said of that one.
* Whether `readyz` should wait for token parameters and a network: no document
  says so, and the first calls then fail like any other call.
* The page size of a history, and a record that stays pending because its
  initiator stopped before ordering: the code promises nothing of either.
* SDK assembly, containers, playbooks and the ERC-20 contract: wiring, I/O, or
  behaviour that lives in a library.
* Inside the libraries: cryptography, how tokens are selected, gRPC, SQLite.

## 7. Plan

Done: TokenTx with Queries and Cash, Htlc with Escrow, Swap, Node and Routes,
Endorser with KVStore and Startup, and the proofs above. What could follow:

1. Retries in the swap: a second lock under one hash and what each party then
   has to watch.
2. The binding store of a node as one table for the endorsers' identities (`Node`)
   and the names of accounts (`TokenTx!Contact`).
3. The steps of the liveness arguments that are safety: for each wait, that its
   step is enabled while a call waits, as invariants.
