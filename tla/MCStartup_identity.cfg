\* The identity that the configuration calls optional.
SPECIFICATION StartupSpec
CONSTANTS
  k = k v = v e1 = e1 e2 = e2 none = none
  Endorsers = {e1, e2}
  First = e1
  Calls = {c1}
  Keys = {k}
  Values = {v}
  Fns = {"get", "none"}
  Requests <- MCRequests
  Configs <- MCConfigs
  ClientConfigs <- MCClientConfigs
  Monotonic = TRUE
  InMemory = TRUE
  Genesis = 1
  MaxStarts <- MCMaxStarts
  None = none
INVARIANT
  AcceptedConfigRuns
