CONSTANTS
  Intents = {1}
  Keys = {k1}
  Requests = {q1}
  Sweeps = {s1}
  None = None
  GuardEnabled = TRUE
  Live = TRUE
  BatchSize = 2
  Faults = {"crash"}
  MaxFaults = 1
SPECIFICATION FairSpec
PROPERTY RecordedConverges
