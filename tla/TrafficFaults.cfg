SPECIFICATION Spec
CONSTANTS
  Scopes = {s1}
  MaxBytes = 2
  MaxSeq = 3
  MaxConns = 2
  MaxRestarts = 1
  MaxIngestErrors = 1
  MaxDiskErrors = 1
  LinkCap = 1
  Overlap = TRUE
INVARIANTS TypeOK SequenceIdentity NothingSkipped
PROPERTY ImplementsLedger

