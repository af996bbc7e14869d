SPECIFICATION Spec
CONSTANTS
  Session = {s1}
  Slot = {c1, c2, c3}
  MaxReg = 1
  MaxSeq = 2
  MaxId = 2
  MaxFaults = 1
INVARIANTS BilledOnce EndCovers ReadingsKept
SYMMETRY SlotSymmetry
CHECK_DEADLOCK FALSE
