CONSTANTS
  Requests = {q1, q2, q3}
  Fingerprints = {f1, f2}
  Amounts = {1, 2}
  MaxPerCall = 2
  Windows <- MCWindows
  ReplayTtl = 2
  SettleWithin = 1
  MaxTime = 4
  None = None
SPECIFICATION Spec
INVARIANT TypeOK WindowGrantsCapped ReplayWindow SpendsMatchCommits
SYMMETRY Symmetry
CHECK_DEADLOCK FALSE
