SPECIFICATION Spec
CONSTANTS
  Conn = {c1}
  User = {u1, u2}
  Staff = staff
  MaxRes = 2
  MaxSess = 1
  MaxTime = 2
  MinLen = 1
  MaxLen = 2
  Grace = 1
  MaxWaiting = 2
  MoveTo = {"FAILED"}
SYMMETRY Drivers
INVARIANTS NoOverlap HoldSound
PROPERTIES SettledStays Implements
CHECK_DEADLOCK FALSE
