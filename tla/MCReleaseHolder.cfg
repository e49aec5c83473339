SPECIFICATION Spec
CONSTANTS
  r1 = r1  r2 = r2
  s1 = s1  s2 = s2  s3 = s3  s4 = s4
  k1 = k1  k2 = k2  kBad = kBad  kRejected = kRejected
  main = main  c1 = c1  c2 = c2
  Requests = {r1, r2}
  Loaders = {main}
  Poller = Poller
  Closers = {c1}
  Slots = {s1, s2, s3, s4}
  Keys = {k1, k2, kRejected}
  Bad = {}
  Rejected = {kRejected}
  NoKey = NoKey
  NoSlot = NoSlot
  Nobody = Nobody
SYMMETRY Exchangeable
INVARIANTS
  LeasedStaysOpen
  ClosedOnceUnused
  NoArchiveLeaks
  StatusIsHonest
PROPERTIES
  NeverUnloaded
  ImplementsLease
