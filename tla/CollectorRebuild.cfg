SPECIFICATION Spec
CONSTANTS
  Nodes = {n1}
  System = sys
  Loops = {l1, l2}
  MaxBytes = 2
  MaxEpoch = 2
  MaxFaults = 0
  Overlap = FALSE
INVARIANT RebuildLosesNothing
