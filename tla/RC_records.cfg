INIT PartInit
NEXT PartNext
CONSTANTS
  tick = tick
  trans = trans
  transO = transO
  local = local
  Key = {trans, transO, local}
  Twin <- Durables
  Alike <- Prefixed
  Meta = {}
  Refused = {}
  Poison = {}
  MaxRow = 2
  Limit = 2
  MaxBatches = 1
  SoftCap = 5
  HardCap = 5
  MaxLate = 1
  Conn = {c1}
  User = {u1, u2}
  Staff = staff
  MaxRes = 2
  MaxSess = 1
  MaxTime = 2
  MinLen = 1
  MaxLen = 2
  Grace = 1
  MaxWaiting = 1
  MoveTo = {"FAILED"}
SYMMETRY Drivers
INVARIANTS StoredWasCommitted RecordsSound
CHECK_DEADLOCK FALSE
