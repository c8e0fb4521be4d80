CONSTANTS
  Senders = {s1, s2}
  Strategies = {strat}
  Expressions = {}
  Rule <- MCLookup
  Type = "GAUGE"
  Metrics = {"plain", "ignoreSelf"}
  Remain = 2
  MinInterval = 1
  Values = {0, 1}
  MaxTs = 4
  MaxClock = 3
  MaxPages = 3
  MaxSyncs = 1
  MaxRestarts = 1
  RedisFails = TRUE
  NoRule = NoRule
  strat = strat
  expr = expr
  s1 = s1
  s2 = s2
SPECIFICATION Spec
CHECK_DEADLOCK FALSE
PROPERTY PointAlarmsOnce
