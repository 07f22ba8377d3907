SPECIFICATION MCSpec
CONSTANTS
  n1 = n1
  n2 = n2
  p1 = p1
  p2 = p2
  Nodes = {n1, n2}
  Ports = {p1, p2}
  None = None
  Gone = Gone
  MaxBytes = 1
  MaxChanges = 4
  MaxFaults = 4
  Addresses = {1, 2, 3}
  Refused = {2}
  MaxLimit = 1
  MaxEvents = 4
INVARIANTS BothTypeOK RoundIsExact IPLimitsInForce
PROPERTY EnforcersSettle
