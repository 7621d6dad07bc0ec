\* What the client knows of a lock whose call failed.
SPECIFICATION Spec
CONSTANTS
  owner1 = owner1 owner2 = owner2 alice = alice bob = bob dan = dan
  e1 = e1 s = s net = net none = none
  Nodes = {owner1, owner2}
  Accounts = {alice, bob, dan}
  Home <- MCHome
  Nets = {net}
  Endorsers = {e1}
  Secrets = {s}
  Holds <- MCHolds
  Supply <- MCSupply
  Ahead = {owner1}
  Skew <- MCSkew
  Calls = {c1}
  Requests <- LocalRequests
  MaxTime = 1
  None = none
SYMMETRY CallSymmetry
INVARIANT
  LockerKnowsHash
