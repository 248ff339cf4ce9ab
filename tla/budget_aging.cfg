CONSTANTS
  Requests = {q1, q2, q3}
  Fingerprints = {f1, f2}
  Amounts = {1, 2}
  MaxPerCall = 2
  Windows <- MCDay
  ReplayTtl = 2
  SettleWithin = 3
  MaxTime = 4
  None = None
SPECIFICATION Spec
INVARIANT HeldBudgetCounts
SYMMETRY Symmetry
CHECK_DEADLOCK FALSE
