SPECIFICATION Spec
CONSTANTS
  Scopes = {s1, s2}
  MaxBytes = 1
  MaxSeq = 3
  MaxConns = 1
  MaxRestarts = 0
  MaxIngestErrors = 1
  MaxDiskErrors = 0
  LinkCap = 2
  Overlap = FALSE
SYMMETRY ScopeSymmetry
INVARIANT NoRowLost
