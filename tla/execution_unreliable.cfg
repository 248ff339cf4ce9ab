CONSTANTS
  Intents = {1}
  Keys = {k1, k2}
  Requests = {q1, q2, q3}
  Sweeps = {s1}
  None = None
  GuardEnabled = TRUE
  Live = TRUE
  BatchSize = 1
  Faults = {"crash", "provider_reject", "lost_response", "dropped_response", "store_fault", "rpc_timeout", "lagging_rpc", "replay_expiry"}
  MaxFaults = 2
SPECIFICATION Spec
INVARIANT AtMostOneTransfer ConfirmedIsSettled
PROPERTY KeepsToStore CorrelationDurable
SYMMETRY Symmetry
