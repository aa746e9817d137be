SPECIFICATION FairSpec
CONSTANTS
  Callers = {c1, c2}
  Interval = 2
  Burst = 2
  Timeout = 3
  Window = 4
  Quota = 5
  MaxTime = 7
INVARIANT TypeOK
INVARIANT RateKept
INVARIANT LoneCallerAdmitted
PROPERTY EveryRequestEnds
CHECK_DEADLOCK FALSE
