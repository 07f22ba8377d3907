SPECIFICATION FairSpec
CONSTANTS
  c1 = c1
  c2 = c2
  t1 = t1
  Conns = {c1, c2}
  Tasks = {t1}
  QueueCap = 1
  Threshold = 1
  MaxFaults = 2
  None = None
INVARIANTS TypeOK ListedIsServed StatusFollowsHeartbeat
PROPERTIES Reconnects AcceptedArrives
