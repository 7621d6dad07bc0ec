\* Calls that set and get one key at two endorsers that start, stop and lag.
SPECIFICATION Spec
CONSTANTS
  k = k v = v e1 = e1 e2 = e2 none = none
  Endorsers = {e1, e2}
  First = e1
  Calls = {c1, c2}
  Keys = {k}
  Values = {v}
  Kinds = "all"
  Requests <- MCRequests
  Monotonic = TRUE
  InMemory = TRUE
  Genesis = 1
  MaxStarts <- MCMaxStarts
  None = none

SYMMETRY CallSymmetry
INVARIANTS
  TypeOK
  Serializable
  FirstSpeaksForAll
  AnswersMoveForward
PROPERTY
  ImplementsKVStore
