SPECIFICATION FairSpec
CONSTANTS
  Workers = {w1, w2}
  Paths = {p1, p2}
  Mappings = {m1, m2, m3}
  NoMapping = NoMapping
  NoEntry = NoEntry
  NoPath = NoPath
  Nobody = Nobody
  p1 = p1
  p2 = p2
  SizesOf <- Sizes
  BufferSize = 3
  HeaderSize = 1
  WordSize = 100
  MaxOffset = 4
INVARIANTS
  TypeOK
  ReadsAreMapped
  ReadsFitUnlessChanged
  MappedIsOwned
  DescriptorsAreClosed
PROPERTIES
  SharesMappings
  QuietUnmaps
