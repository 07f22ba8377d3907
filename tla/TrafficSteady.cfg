SPECIFICATION FairSpec
CONSTANTS
  Scopes = {s1}
  MaxBytes = 2
  MaxSeq = 4
  MaxConns = 3
  MaxRestarts = 1
  MaxIngestErrors = 0
  MaxDiskErrors = 1
  LinkCap = 1
  Overlap = FALSE
INVARIANTS NoRowLost NoOverReport
PROPERTY Convergence
