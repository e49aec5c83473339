SPECIFICATION Spec
CONSTANTS
  A = A  B = B
  pA = pA  pB = pB
  r1 = r1  main = main
  f1 = f1
  Releases = {A, B}
  Pointers = {pA, pB}
  Readers = {r1}
  Loader = main
  Callers = {r1, main}
  Flights = {f1}
  Manifests = {A, B}
  Retries = 0
  MaxFileSize = 2
  MaxTileSize = 2
  MaxBlock = 2
  MaxColumn = 2
  Budget = 1
  Absent = Absent  NoRelease = NoRelease  NoKey = NoKey  NoFlight = NoFlight
  Pending = Pending  Failed = Failed
  Objects <- MCObjects
  Versions <- MCVersions
  Length <- MCLength
  Names <- MCNames
  File <- MCFile
  Tiles <- MCTiles
  Keys = {}
  Size <- MCSize
  Wanted <- MCWanted
  Copies = {NoRelease, A, B}
  Builds = {}
  Zooms = {0}
INVARIANTS
  NotModifiedIsTrue
CHECK_DEADLOCK FALSE
