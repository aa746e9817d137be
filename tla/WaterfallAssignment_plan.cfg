SPECIFICATION WaterfallSpec
CONSTANTS
  MaxInt = 7
  Categories = {c1, c2}
  Budgets = {0, 4}
  Incomings = {0, 3, 6}
  Needs = {1, 2, 7}
  MaxTiers = 2
  MaxEntries = 2
SYMMETRY Symmetry
INVARIANT WaterfallTypeOK
INVARIANT PriorityRespected
INVARIANT PlanMovesWhatItSays
INVARIANT ShortMeansSpent
CHECK_DEADLOCK FALSE
