CONSTANTS
  Keep = 4
  LastTs = 5
  Numbers <- MCNumbers
  Limits = {1, 2, 3}
  MinStep = 2
  DefaultStep = 3
  Now = 5
  Timestamps <- MCTimestamps
  Steps <- MCSteps
  Senders = {s1, s2}
  s1 = s1
  s2 = s2
SYMMETRY Symmetry
CONSTANTS
  Remain = 3
  Window = 2
  Type = "GAUGE"
  MaxTs = 4
  MaxLists = 2
SPECIFICATION MCSpec
CHECK_DEADLOCK FALSE
INVARIANTS WindowSound FunctionsAgree TimesAgree AnswerIsComplete
