CONSTANTS
  Parts = {"audit", "financial", "guard", "facts", "discovery", "limits", "session"}
  old = old
  new = new
  e1 = e1
  e2 = e2
  Organizations = {old, new}
  Writers = {c1, c2, c3}
  Legacy <- MCLegacy
  MaxClock = 2
  NoEvent = NoEvent
  Keys = {m1, m2}
  Payments = {n1, n2}
  Calls = {c1, c2, c3}
  NoPayment = NoPayment
  small = small
  big = big
  huge = huge
  bad = bad
  Payers = {c1, c2, c3}
  Prints = {small, big, huge, bad}
  Context <- MCContext
  Budget = 3
  MaxSettlements = 1
  Readers = {"reader"}
  Depths = {1, 2}
  MaxHead = 2
  MaxBranches = 1
  Blocks = 6
  Lookbacks = {0, 3, 9}
  BlockRanges = {1, 2, 3}
  Processes = {"api"}
  Orgs = {m1, m2}
  MaxPerHour = 2
  Hour = 2
  LastTick = 2
  MaxRestarts = 1
  Tabs = {m1, m2}
  ApiCalls = {n1, n2}
  MaxTokens = 2
SPECIFICATION Spec
INVARIANTS
  EdgesTypeOK
  OneChain
  HeadIsTip
  SettledMirrorIsTrue
  FinalEvidenceIsTrue
  PaidWithinBudget
  ReservationTellsPayment
  DiscoveryFindsNewest
  HourlyCap
PROPERTIES
  GrowsAtTip
  VerdictsAreTrue
  RetryCarriesNewToken
SYMMETRY Symmetry
CHECK_DEADLOCK FALSE
