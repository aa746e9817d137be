SPECIFICATION Spec
CONSTANTS
  Ids = {i1, i2}
  NoRow = NoRow
  Readers = {r1}
  Plans = {p1, p2}
  Aliases = {default}
  FullListsTombstones = FALSE
  MaxItems = 1
  StaleReads = FALSE
  MaxVersion = 2
SYMMETRY Symmetry
INVARIANT ReadsAreSnapshots
