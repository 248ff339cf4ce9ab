CONSTANTS
  Intents = {1}
  Keys = {k1}
  Requests = {q1}
  Sweeps = {s1}
  None = None
  GuardEnabled = TRUE
  Live = TRUE
  BatchSize = 1
  Faults = {"lost_response"}
  MaxFaults = 1
SPECIFICATION Spec
INVARIANT NoReleaseWhileOnChain
