SPECIFICATION Spec
CONSTANTS
  Items = {n1}
  Entries <- MCEntries
  Months <- MCMonths
  MonthStates <- MCMonthStates
  InitialPlans <- MCInitialPlans
  Calls <- MCLateCalls
  Primings <- MCPrimings
  CardCategories = {"card"}
  Ceiling = 2
  MaxItems = 6
  MaxVersion = 2
  NoRow = NoRow
  NoMonth = NoMonth
  NoDate = NoDate
  NoAge = NoAge
CHECK_DEADLOCK FALSE
INVARIANT ComparesPriorMonth
