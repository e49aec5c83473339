SPECIFICATION Spec
CONSTANTS
  q1 = q1  q2 = q2
  Requests = {q1, q2}
  Tiles <- TwoTiles
  Layers <- AllLayers
  Contents <- AllContents
  Grid <- BothZooms
  NoTile = NoTile
SYMMETRY AnyRequest
CHECK_DEADLOCK FALSE
INVARIANTS
  AnswersMatchFiles
  NoReaderLost
  CornersFindCells
