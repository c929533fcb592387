SPECIFICATION Spec
CONSTANTS
  Second = 3
  Modulus = 64
  DefaultInterval = 4
  MinInterval = 2
  Refused = Refused
  Monitors = {m1, m2}
  Checks = {c1, c2}
  Threads = {t1, t2}
  RawHosts <- MCHosts
  RawPaths <- MCPaths
  Numbers = {0, 1, 10, 11}
  None = None
  MaxRequests = 3
SYMMETRY Symmetry
INVARIANTS
  TypeOK
  RowsValid
  NoAliases
  AsAsked
  ListComplete
  ListFailsOnlyForNew
CHECK_DEADLOCK FALSE
