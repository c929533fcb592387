SPECIFICATION MCFairSpec
CONSTANTS
  Configs = {c1, c2, c3, c4}
  Versions = {v1}
  NoVersion = NoVersion
  Workers = {w1}
  Objs = {o1, o2, o3, o4}
  NoObj = NoObj
  NoJob = NoJob
  ConfigEventCap = 2
  MaxConfigEvents = 0
  AppCtx = FALSE
  Revival = FALSE
PROPERTIES
  SteadyStream
