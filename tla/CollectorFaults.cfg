SPECIFICATION Spec
CONSTANTS
  Nodes = {n1}
  System = sys
  Loops = {l1, l2}
  MaxBytes = 3
  MaxEpoch = 3
  MaxFaults = 2
  Overlap = FALSE
SYMMETRY CollectorSymmetry
INVARIANTS TypeOK NoDoubleCount NothingForgotten
PROPERTY TotalsGrow
