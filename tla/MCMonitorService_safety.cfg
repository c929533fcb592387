CONSTANTS
  m1 = m1
  m2 = m2
  p1 = p1
  p2 = p2
  None = None
  Threads = {t1, t2}
  Monitors = {m1, m2}
  PingOf <- MCPingOf
  HTTPIds = {h1, h2}
  Hosts = {a, b}
  Keys = {k1}
  Values = {v1}
  EventsCap = 2
  Cancels = TRUE
  MaxRequests = 3
  MaxRestarts = 1
SPECIFICATION Spec
SYMMETRY Symmetry
INVARIANTS TypeOK Converges StreamAlternates
CHECK_DEADLOCK FALSE
