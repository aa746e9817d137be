SPECIFICATION Spec
CONSTANTS
  Items = {n1, n2, n3}
  Entries <- MCEntries
  Months <- MCMonths
  MonthStates <- MCMonthStates
  InitialPlans <- MCInitialPlans
  Calls <- MCCalls
  Primings <- MCPrimings
  CardCategories = {"card"}
  Ceiling = 2
  MaxItems = 6
  MaxVersion = 2
  NoRow = NoRow
  NoMonth = NoMonth
  NoDate = NoDate
  NoAge = NoAge
CHECK_DEADLOCK FALSE
SYMMETRY Symmetry
INVARIANT TypeOK
INVARIANT VerdictIsComplete
INVARIANT MonthsCompared
INVARIANT SpendingTrue
INVARIANT CheckInTrue
