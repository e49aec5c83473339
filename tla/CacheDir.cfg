SPECIFICATION Spec
CONSTANTS
  ZoomDirs = {"z5", "z7"}
  DbFiles = {"metadata.db", "metadata.db-journal"}
  Foreign = {"photos"}
  Marker = ".tilesservice_cache_owner"
  Tmp = ".tilesservice_cache_owner.tmp"
  Db = "metadata.db"
INVARIANTS
  UnrelatedUntouched
  ServesOwnFiles
  RestartRecovers
