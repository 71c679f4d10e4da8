SPECIFICATION FairSpec
CONSTANTS
  Workers = {w1, w2, w3}
  Paths = {p1, p2}
  Handles = {h1, h2, h3}
  NoHandle = NoHandle
  NoEntry = NoEntry
  NoPath = NoPath
  Nobody = Nobody
INVARIANTS
  TypeOK
  HeldHandlesOpen
  LiveHandleIsCached
  MapNeverNamesClosed
  OpenIsOwned
PROPERTIES
  SharesFiles
  MutexReleased
  QuietDrains
