SPECIFICATION FairSpec
CONSTANTS
  Attempts = {a1, a2}
  Tokens = {t1, t2}
  Hosts = {h1, h2}
  None = None
INVARIANTS TypeOK OneMachinePerToken UsedIsKnown NoLeftovers
PROPERTY RequestEnds
CHECK_DEADLOCK FALSE
