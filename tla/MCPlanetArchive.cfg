SPECIFICATION FairSpec
CONSTANTS
  A = A  B = B  C = C
  pA = pA  pB = pB  pC = pC
  r1 = r1  r2 = r2  main = main
  f1 = f1  f2 = f2
  Releases = {A, B, C}
  Pointers = {pA, pB, pC}
  Readers = {r1, r2}
  Loader = main
  Callers = {r1, r2, main}
  Flights = {f1, f2}
  Manifests = {A, B, C}
  Retries = 1
  MaxFileSize = 3
  MaxTileSize = 2
  MaxBlock = 3
  MaxColumn = 6
  Budget = 4
  Absent = Absent  NoRelease = NoRelease  NoKey = NoKey  NoFlight = NoFlight
  Pending = Pending  Failed = Failed
  Objects <- MCObjects
  Versions <- MCVersions
  Length <- MCLength
  Names <- MCNames
  File <- MCFile
  Tiles <- MCTiles
  Keys <- MCKeys
  Size <- MCSize
  Wanted <- MCWanted
  Copies = {NoRelease}
  Builds <- MCBuilds
  Zooms = {0, 1, 2, 3}
INVARIANTS
  Accounted
  SingleFlight
  WaitersGetTheirs
  ServesStoredTiles
  FailsForAReason
  OpensOneRelease
  TileIdsFillTheCurve
  BuildsAreReadable
PROPERTIES
  LoadsAndReadsEnd
