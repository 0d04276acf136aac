SPECIFICATION Spec
CONSTANTS
  k1 = k1  k2 = k2  v1 = v1  v2 = v2  c1 = c1  c2 = c2  g1 = g1  g2 = g2
  Keys = {k1, k2}
  Values = {v1}
  NoVal = NoVal
  Garbage = Garbage
  NoOp = NoOp
  Clients = {c1}
  Touches <- Shared
  Compactors = {g1, g2}
  NShards = 2
  ShardOf <- TwoShards
  TTLs = {0, 1}
  Threshold = 2
  PowerLoss = FALSE
  MaxCalls = 3
  MaxNow = 1
  MaxCrashes = 1
  MaxFaults = 0
CHECK_DEADLOCK FALSE
INVARIANTS QuietRecovery
