INIT PartInit
NEXT PartNext
CONSTANTS
  Conn = {k1, k2}
  Spot = {p1}
  Caller = {c1, c2}
  None = None
  MaxRes = 2
  MaxSess = 2
  MaxFaults = 1
  NSess = 2
  Rate = 2
  Least = 1
  Declared = {1}
  H = 2
  Reserve = 1
  Margin = 0
  Infinity = 9
  Admin = {a1, a2}
  Point = {1}
  CpOf <- OneForAll
  SiteCaps = {3, 4}
  Tariff <- Prices
  Nil = Nil
  Ask <- Requirements
  MaxDec = 1
  MaxTime = 1
SYMMETRY Alike
INVARIANTS BookingsMirrored SessionsDurable PlanSound PromiseServed
PROPERTY NeverOvercommits
CHECK_DEADLOCK FALSE
