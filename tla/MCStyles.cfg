SPECIFICATION Spec
CONSTANTS
  r1 = r1  r2 = r2
  NoRelease = NoRelease  NoVersion = NoVersion
  Requests = {r1, r2}
  Files = {"s", "light"}
  Names = {"s", "light", "odd name"}
  Proper = {"s", "t", "light"}
  Versions = {"09", "10", "1a", "9", "b"}
  Number <- MCNumber
  Text <- MCText
  Manifests <- MCManifests
  Drafts <- MCDrafts
  Kinds = {"none", "dangling"}
  MaxEdits = 2
SYMMETRY RequestSymmetry
INVARIANTS
  ServedIsCurrent
  ListingIsTrue
  LatestIsNewest
  StylesAgree
