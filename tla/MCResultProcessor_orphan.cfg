CONSTANTS
  m1 = m1
  m2 = m2
  p1 = p1
  h1 = h1
  p2 = p2
  None = None
  Monitors = {m1, m2}
  Configs <- MCConfigs
  HTTPConfigs = {h1}
  MonitorOf <- MCMonitorOf
  MaxChecks = 4
  MaxFaults = 1
  MaxChanges = 1
SPECIFICATION Spec
INVARIANT DownHasCause
CHECK_DEADLOCK FALSE
