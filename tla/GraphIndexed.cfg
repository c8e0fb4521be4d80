CONSTANTS
  Workers = {w1}
  Tries = 1
  MaxPulls = 1
  OldLast = 0
  MaxGoes = 1
  MaxLate = 1
  MaxPoint = 2
  MaxRestarts = 0
  w1 = w1
  w2 = w2
  Variants = {"v1"}
  None = "none"
  Permits = {"s1"}
  MaxEvents = 1
SPECIFICATION MCSpec
CHECK_DEADLOCK FALSE
INVARIANT IndexedHasRow
