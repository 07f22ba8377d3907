SPECIFICATION MCSpec
CONSTANTS
  Nodes = {n1}
  Handlers = {h1}
  Ops = {"create"}
  MaxTasks = 1
  MaxFaults = 0
  Unhealthy = FALSE
  Interleaved = FALSE
PROPERTY PendingIsResent
CHECK_DEADLOCK FALSE
