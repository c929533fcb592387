SPECIFICATION FairSpec
CONSTANTS
  Handlers = {h1, h2, h3}
  EventCap = 1
  MaxPending = 2
INVARIANTS
  TypeOK
  ResultsSafe
  CleanExit
PROPERTIES
  ProcessExits
  RequestsEnd
