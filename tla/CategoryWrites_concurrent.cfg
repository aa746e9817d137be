SPECIFICATION FairSpec
CONSTANTS
  MaxInt = 7
  Cap = 1
  Elicits = TRUE
  Calls = {c1, c2}
  Other = Other
  Amounts <- SomeAmounts
  MaxAmount = 1
  MaxChanges = 1
INVARIANT ChecksPrecedeEffects
INVARIANT OutcomesTell
INVARIANT AuditUnlessDisturbed
PROPERTY CallsEnd
CHECK_DEADLOCK FALSE
