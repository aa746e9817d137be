SPECIFICATION DebtSpec
CONSTANTS
  Accounts = {a1, a2}
  Debts = {3, 4, 5, 8}
  Credits = {0, 2}
  MaxRows = 2
  Aprs = {0, 2, 3}
  Fine = 2
  MaxApr = 20
  Minimums = {0, 1, 2, 3}
  Extras = {0, 1, 3}
  MaxExtra = 3
  MaxAnnual = 3
  Divisor = 8
  MaxMonths = 12
SYMMETRY Symmetry
INVARIANT DebtTypeOK
INVARIANT MilestonesFitProjection
INVARIANT AvalancheMonth
INVARIANT AmortizingConverges
CHECK_DEADLOCK FALSE
