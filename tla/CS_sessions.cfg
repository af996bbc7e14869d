SPECIFICATION FairSpec
CONSTANTS
  Conn = {c1}
  User = {u1, u2}
  Staff = staff
  MaxRes = 1
  MaxSess = 2
  MaxTime = 2
  MinLen = 1
  MaxLen = 1
  Grace = 0
  MaxWaiting = 2
  MoveTo = {"CHARGING", "SUSPENDED"}
INVARIANTS OneSessionPerConnector ConvertedOnce
PROPERTIES NestedKeysReleased StaleSettled
CHECK_DEADLOCK FALSE
