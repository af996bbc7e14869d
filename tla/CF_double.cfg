SPECIFICATION FleetSpec
CONSTANTS
  Conn = {c1}
  User = {u1}
  Staff = staff
  MaxRes = 1
  MaxSess = 2
  MaxTime = 0
  MinLen = 1
  MaxLen = 1
  Grace = 0
  MaxWaiting = 1
  MoveTo = {"FAILED"}

INVARIANT OneLiveSession
