CONSTANTS
  Senders = {s1, s2}
  Remain = 2
  Window = 2
  Type = "GAUGE"
  MaxTs = 4
  MaxLists = 1
  s1 = s1
  s2 = s2
SPECIFICATION Spec
SYMMETRY Symmetry
CHECK_DEADLOCK FALSE
INVARIANT WalkNeverAtNil
