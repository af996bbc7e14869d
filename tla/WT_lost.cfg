SPECIFICATION WriteSpec
CONSTANTS
  Conn = {k1, k2}
  Spot = {p1}
  Caller = {c1, c2}
  None = None
  MaxRes = 2
  MaxSess = 2
  MaxFaults = 1
SYMMETRY Symmetric
INVARIANTS SessionsKnown
CHECK_DEADLOCK FALSE
