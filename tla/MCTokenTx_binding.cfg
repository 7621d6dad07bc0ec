\* The node a transfer contacts after an earlier call named another one.
SPECIFICATION Spec
CONSTANTS
  issuer = issuer owner1 = owner1 owner2 = owner2
  alice = alice bob = bob dan = dan none = none
  Nodes <- MCNodes
  Issuer = issuer
  Accounts = {alice, bob, dan}
  Home <- MCHome
  Endorsers = {e1}
  Txs = {t1, t2}
  Requests <- AnswerRequests
  MaxRestarts = 0
  None = none
  Word = 3
INVARIANT
  ContactsNamedNode
