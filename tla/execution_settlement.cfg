CONSTANTS
  Intents = {1, 2}
  Keys = {k1, k2}
  Requests = {q1, q2, q3}
  Sweeps = {s1, s2}
  None = None
  GuardEnabled = TRUE
  Live = TRUE
  BatchSize = 2
  Faults = {"crash", "provider_reject", "lost_response", "dropped_response", "store_fault", "rpc_timeout", "lagging_rpc"}
  MaxFaults = 2
SPECIFICATION ModesSpec
INVARIANT ExecutionOwned SpendIsSettledOnce GuardLabelTrue
SYMMETRY Symmetry
