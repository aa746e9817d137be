SPECIFICATION Spec
CONSTANTS
  Ids = {i1, i2}
  NoRow = NoRow
  Readers = {r1, r2}
  Dates = {1, 2}
  DefaultSince = 2
  Sinces = {1}
  FullListsTombstones = FALSE
  MaxItems = 1
  MaxVersion = 2
SYMMETRY Symmetry
INVARIANT TypeOK
INVARIANT ExactUnlessMixed
INVARIANT FilteredReadsExact
INVARIANT UnboundedOnlyByFlush
PROPERTY NoRevival
