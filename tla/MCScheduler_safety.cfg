\* Two workers, and enough events for a config to be created, changed and
\* removed while it is checked.  No config id is used again after it was dropped.
SPECIFICATION Spec
CONSTANTS
  Configs = {c1, c2}
  Versions = {v1, v2}
  NoVersion = NoVersion
  Workers = {w1, w2}
  Objs = {o1, o2, o3}
  NoObj = NoObj
  NoJob = NoJob
  ConfigEventCap = 2
  MaxConfigEvents = 3
  AppCtx = FALSE
  Revival = FALSE
SYMMETRY WorkerSymmetry
INVARIANTS
  TypeOK
  SingleFlight
  NoConfigLost
  RemovedAreDropped
  SettledAsWanted
  DoneMeansDrained
  DrainNotAborted
PROPERTY ImplementsCycle
