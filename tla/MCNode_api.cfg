\* Two requests and a session of another node, on every kind of node.
SPECIFICATION Spec
CONSTANTS
  none = none fabric = fabric fabric2 = fabric2 evm = evm
  Kinds = {"issuer", "owner", "endorser"}
  MaxInt64 = 31
  Second = 10
  Sha256Size = 2
  None = none
  Attempts = {q1, q2}
  Sessions = {s1}
  Inputs <- MCInputs
  TMSs = {fabric, fabric2, evm}
  Evm = {evm}
  HasPath = {fabric, fabric2}
  Labels = {endorser1, endorser2, endorser3}
  HasMsp = {endorser1, endorser2, endorser3}
  HasResolver = {endorser1, endorser2}
INVARIANTS
  TypeOK
  RequestsMeanWhatTheySay
  InitDeploysAll
  EndorsersRecognised
PROPERTIES
  ReadyNodeResponds
  StopEnds
