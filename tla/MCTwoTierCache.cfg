SPECIFICATION Spec
CONSTANTS
  t1 = t1  t2 = t2  t3 = t3
  q1 = q1  q2 = q2  q3 = q3
  Tiles = {t1, t2, t3}
  Requests = {q1, q2, q3}
  MemMax = 1
  DiskMax = 2
  QueueMax = 1
  CountBound = 0
  Faults = {"write", "insert", "query", "scan", "remove", "delete"}
  NoTile = NoTile
CHECK_DEADLOCK FALSE
SYMMETRY Exchangeable
INVARIANTS
  MemIndexed
  DbClosedLast
  StaleCountIsSafe
PROPERTIES
  Preserved
