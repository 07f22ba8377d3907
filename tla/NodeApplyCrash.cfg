SPECIFICATION Spec
CONSTANTS
  Nodes = {n1, n2, n3}
  Clash = {n1, n2}
  Tasks = {t1}
  Ops = {"add", "update", "enable", "disable", "remove"}
  MaxId = 2
  MaxFaults = 2
  Interleaved = FALSE
INVARIANTS TypeOK NodesValid SuccessIsReal FailureUndone FilesAgree IdsNotRecycled
PROPERTY ImplementsNodeStore
CHECK_DEADLOCK FALSE
