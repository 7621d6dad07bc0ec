\* Dan's node is a tick ahead; the shortest deadline of alice's lock that is enough.
SPECIFICATION SwapSpec
CONSTANTS
  owner1 = owner1 owner2 = owner2 alice = alice dan = dan e1 = e1
  netA = fabric netD = evm secret = secret none = none
  lockA = lockA lockD = lockD claimA = claimA claimD = claimD
  reclaimA = reclaimA reclaimD = reclaimD
  Calls = {lockA, lockD, claimA, claimD, reclaimA, reclaimD}
  Nodes = {owner1, owner2}
  Accounts = {alice, dan}
  Home <- MCHome
  Nets = {fabric, evm}
  Endorsers = {e1}
  Secrets = {secret}
  Holds <- MCHolds
  Supply <- MCSupply
  Ahead = {owner2}
  Skew <- MCSkew
  Requests <- MCRequests
  DurA = 6
  DurD = 1
  Wait = 1
  React = 0
  Delay = 1
  MaxTime = 7
  None = none
INVARIANT
  SwapIsFair
