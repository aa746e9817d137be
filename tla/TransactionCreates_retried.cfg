SPECIFICATION Spec
CONSTANTS
  MaxInt = 7
  Cap = 2
  Elicits = TRUE
  Calls = {c1, c2}
  Other = Other
  ImportIds = {id1}
  NoImport = NoImport
  MaxLedger = 3
SYMMETRY Symmetry
INVARIANT OncePerImportId
INVARIANT NothingUnconfirmed
INVARIANT OutcomesTell
CHECK_DEADLOCK FALSE
