CONSTANTS
  Senders = {s1}
  Strategies = {strat}
  Expressions = {expr}
  Rule <- MCLookup
  Type = "GAUGE"
  Metrics = {"plain", "ignoreSelf", "problemSelf"}
  Remain = 2
  MinInterval = 1
  Values = {0, 1}
  MaxTs = 4
  MaxClock = 3
  MaxPages = 3
  MaxSyncs = 1
  MaxRestarts = 1
  RedisFails = FALSE
  NoRule = NoRule
  strat = strat
  expr = expr
  s1 = s1
  s2 = s2
SPECIFICATION Spec
CHECK_DEADLOCK FALSE
INVARIANT SeriesSound
INVARIANT PagesAgree
 
PROPERTY RepeatsOnNewPoints
PROPERTY ImplementsEpisodes
