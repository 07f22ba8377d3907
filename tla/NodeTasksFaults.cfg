SPECIFICATION MCSpec
CONSTANTS
  Nodes = {n1}
  Handlers = {h1, h2}
  Ops = {"create", "update", "delete", "disable", "limit", "restart"}
  MaxTasks = 2
  MaxFaults = 1
  Unhealthy = TRUE
  Interleaved = FALSE
INVARIANTS TypeOK TransientOwned DeletedIsGone ActiveIsReal LimitIsReal
PROPERTIES FinalStays TransientResolves TasksEnd
CHECK_DEADLOCK FALSE
