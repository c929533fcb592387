\* One worker, three configs: the largest number that cannot lock the ring
\* (2W+1).  A config event fills its channel.  The scheduler is started as main
\* starts it.
SPECIFICATION MCFairSpec
CONSTANTS
  Configs = {c1, c2, c3}
  Versions = {v1}
  NoVersion = NoVersion
  Workers = {w1}
  Objs = {o1, o2, o3}
  NoObj = NoObj
  NoJob = NoJob
  ConfigEventCap = 1
  MaxConfigEvents = 1
  AppCtx = TRUE
  Revival = FALSE
INVARIANTS
  NoPipelineDeadlock
PROPERTIES
  SteadyStream
  StopCompletes
  EventsApplied
