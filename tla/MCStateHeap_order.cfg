\* Three configs (a head with two children), intervals 1 and 2.  The clock is
\* bounded, so a behaviour ends with it.
SPECIFICATION Spec
CONSTANTS
  Configs = {c1, c2, c3}
  Intervals = {1, 2}
  Objs = {o1, o2, o3, o4}
  NoObj = NoObj
  NoJob = NoJob
  JitterMax = 2
  Hour = 4
  MaxNow = 2
  MaxConfigEvents = 2
  MaxHeap = 4
SYMMETRY Symmetry
INVARIANTS
  TypeOK
  IndexOK
  NoOversleep
PROPERTY
  OldestFirst
CHECK_DEADLOCK FALSE
