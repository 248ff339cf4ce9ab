CONSTANTS
  Intents = {1, 2}
  Keys = {k1, k2}
  Requests = {q1, q2}
  Sweeps = {s1}
  None = None
  GuardEnabled = TRUE
  Live = TRUE
  BatchSize = 2
  Faults = {"crash", "provider_reject", "rpc_timeout", "dropped_response"}
  MaxFaults = 2
SPECIFICATION OrderedFairSpec
INVARIANT TypeOK NoReleaseWhileOnChain
PROPERTY ImplementsContract ConvergesOrStrands
