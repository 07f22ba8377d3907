SPECIFICATION Spec
CONSTANTS
  Nodes = {n1, n2}
  Clash = {}
  Tasks = {t1, t2}
  Ops = {"add"}
  MaxId = 2
  MaxFaults = 0
  Interleaved = TRUE
SYMMETRY TaskSymmetry
INVARIANT SuccessIsReal
CHECK_DEADLOCK FALSE
