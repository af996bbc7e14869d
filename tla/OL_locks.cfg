SPECIFICATION FairSpec
CONSTANTS
  Conn = {k1}
  User = {u1}
  Tx = {t1, t2}
  None = None
  MaxRes = 2
  MaxSess = 2
  MaxTime = 2
INVARIANTS StatusTrue
PROPERTIES Implements HoldsReleased TransactionsEnd
CHECK_DEADLOCK FALSE
