SPECIFICATION Spec
CONSTANTS
  MaxInt = 7
  Cap = 2
  Elicits = TRUE
  Calls = {c1, c2}
  Other = Other
  Fields <- TwoFields
  Values = {TRUE, FALSE}
  Keep = Keep
  MaxChanges = 1
SYMMETRY Symmetry
INVARIANT OtherFieldsSurvive
INVARIANT UnaskedOnlyApproves
INVARIANT AuditUnlessDisturbed
CHECK_DEADLOCK FALSE
