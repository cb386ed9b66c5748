SPECIFICATION Spec
CONSTANTS
  s1 = s1
  s2 = s2
  s3 = s3
  Slaves = {s1, s2}
  Library = {}
  Position <- InTurn
  Rings <- BothWays
  Rewired = TRUE
  IdentityOf <- Identities
  Files <- Esi
  Values = {0, 1}
  MAX_SLAVES = 2
  ESI_MAX = 2
  FILE_MAX = 1
  MaxFaults = 2
  MaxCalls = 4
PROPERTY IdentityOwn
CHECK_DEADLOCK FALSE
