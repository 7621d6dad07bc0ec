\* Local locks with a generated hash, and refused calls: an escrow.
SPECIFICATION Spec
CONSTANTS
  owner1 = owner1 owner2 = owner2 alice = alice bob = bob dan = dan
  e1 = e1 s = s net = net none = none
  Nodes = {owner1, owner2}
  Accounts = {alice, bob, dan}
  Home <- MCHome
  Nets = {net}
  Endorsers = {e1}
  Secrets = {s}
  Holds <- MCHolds
  Supply <- MCSupply
  Ahead = {}
  Skew <- MCSkew
  Calls = {c1, c2, c3}
  Requests <- LocalRequests
  MaxTime = 1
  None = none
SYMMETRY CallSymmetry
INVARIANT
  TypeOK
PROPERTY
  ImplementsEscrow
