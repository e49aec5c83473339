SPECIFICATION DiskSpec
CONSTANTS
  t1 = t1  t2 = t2  t3 = t3  t4 = t4
  Tiles = {t1, t2, t3, t4}
  DiskMax = 2
  QueueMax = 2
  CountBound = 5
  Faults = {}
  NoTile = NoTile
SYMMETRY AnyTile
PROPERTIES
  EvictsOnlyOverLimit
