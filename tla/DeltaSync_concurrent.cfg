SPECIFICATION Spec
CONSTANTS
  Ids = {i1, i2}
  NoRow = NoRow
  Readers = {r1, r2}
  Plans = {p1}
  Aliases = {}
  FullListsTombstones = TRUE
  MaxItems = 2
  StaleReads = TRUE
  MaxVersion = 3
SYMMETRY Symmetry
INVARIANT TypeOK
INVARIANT CacheIsSnapshot
PROPERTY ImplementsSnapshotReads
