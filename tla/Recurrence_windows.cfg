SPECIFICATION RecurrenceSpec
CONSTANTS
  Starts <- MCStarts
  Windows <- MCWindows
  MaxIter = 12
INVARIANT RecurrenceTypeOK
INVARIANT OccurrencesExact
INVARIANT StepsThroughWindow
INVARIANT OffAsAdmitted
CHECK_DEADLOCK FALSE
