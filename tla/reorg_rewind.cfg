CONSTANTS
  Parts = {"reorg"}
  Transfers = {t1, t2}
  Rescans = {r1}
  Sweep = sweep
  ScanLimit = 2
  MaxHeight = 2
  MaxReorgs = 1
  MaxOutages = 0
  Keys = {k1}
  Callers = {c1, c2}
  Settlers = {handler, cron}
  MaxStops = 1
  Uploads = {u1, u2}
  Exports = {e1}
  Hinted = {u1}
  Vendors = {v1, v2}
  GeminiKey = TRUE
  Deliverers = {d1, d2}
  MaxJobs = 1
  MaxTroubles = 2
SPECIFICATION Spec
PROPERTY ReorgRewinds
CHECK_DEADLOCK FALSE
