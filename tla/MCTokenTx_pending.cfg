\* The assertion of AcceptCashView that its transaction is still pending.
SPECIFICATION Spec
CONSTANTS
  issuer = issuer owner1 = owner1 owner2 = owner2
  alice = alice bob = bob dan = dan none = none
  Nodes <- MCNodes
  Issuer = issuer
  Accounts = {alice, bob, dan}
  Home <- MCHome
  Endorsers = {e1}
  Txs = {t1}
  Requests <- LiveRequests
  MaxRestarts = 0
  None = none
  Word = 3
INVARIANT
  AcceptSanity
