SPECIFICATION RelayFairSpec
CONSTANTS
  Key = {g1, n1, p1, m1}
  Meta = {m1}
  Refused = {n1}
  Poison = {p1}
  MaxRow = 5
  Limit = 4
  MaxBatches = 2
  SoftCap = 1
  HardCap = 2
  MaxLate = 1
INVARIANTS AckedHandled
PROPERTIES PendingKept Settled
