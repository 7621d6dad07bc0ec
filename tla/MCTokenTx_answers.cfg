\* Two calls of every kind and outcome, two endorsers, one node stop; with liveness.
SPECIFICATION FairSpec
CONSTANTS
  issuer = issuer owner1 = owner1 owner2 = owner2
  alice = alice bob = bob dan = dan none = none
  Nodes <- MCNodes
  Issuer = issuer
  Accounts = {alice, bob, dan}
  Home <- MCHome
  Endorsers = {e1, e2}
  Txs = {t1, t2}
  Requests <- AnswerRequests
  MaxRestarts = 1
  None = none
  Word = 3
INVARIANTS
  CounterpartyAgreed
  AnswersAreTrue
  RecordsAgree
  ReadYourWrites
  HistoriesAgree
PROPERTIES
  RecordsMoveForward
  EntriesStay
  EveryCallAnswered
  EveryResponderEnds
  EverySubmittedSettles
