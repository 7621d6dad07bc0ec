\* One issue and two competing spends; TokenTx implements Cash.
SPECIFICATION Spec
CONSTANTS
  issuer = issuer owner1 = owner1 owner2 = owner2
  alice = alice bob = bob dan = dan none = none
  Nodes <- MCNodes
  Issuer = issuer
  Accounts = {alice, bob, dan}
  Home <- MCHome
  Endorsers = {e1}
  Txs = {t1, t2, t3}
  Requests <- SpendRequests
  MaxRestarts = 0
  None = none
  Word = 3
SYMMETRY TxSymmetry
INVARIANTS
  TypeOK
  NoDoubleSpend
  Conservation
  AnswersAreTrue
  RecordsAgree
  
PROPERTY
  ImplementsCash
