CONSTANTS
  Workers = {w1}
  Tries = 2
  MaxPulls = 2
  OldLast = 1
  MaxGoes = 1
  MaxLate = 2
  MaxPoint = 3
  MaxRestarts = 1
  w1 = w1
  w2 = w2
  Variants = {"v1", "v2"}
  None = "none"
  Permits = {"s1", "s2"}
  MaxEvents = 2
SPECIFICATION MCSpec
CHECK_DEADLOCK FALSE
INVARIANTS  CachesSound
PROPERTIES LeavesMemory KeepsHold IndexFollows
