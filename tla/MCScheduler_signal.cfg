SPECIFICATION Spec
CONSTANTS
  Configs = {c1, c2}
  Versions = {v1}
  NoVersion = NoVersion
  Workers = {w1}
  Objs = {o1, o2}
  NoObj = NoObj
  NoJob = NoJob
  ConfigEventCap = 2
  MaxConfigEvents = 0
  AppCtx = TRUE
  Revival = FALSE
INVARIANTS
  DrainNotAborted
