SPECIFICATION FairSpec
CONSTANTS
  None = None
  Used = Used
  User = {u1, u2}
  Address = {a1, a2}
  Invoice = {v1}
  Nonce = {n1, n2}
  Intent = {t1}
  Owner <- MCOwner
  Due = 2
  Credit = 2
  Welcome = 1
  MaxPlain = 1
  MaxWait = 2
  MaxMirrors = 2
  MaxFaults = 1
INVARIANTS CreditedOnce PaidOnce LinksMirrored
PROPERTY SettleAnswered
CHECK_DEADLOCK FALSE

