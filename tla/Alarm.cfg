CONSTANTS
  c1 = c1
  c2 = c2
  u1 = u1
  u2 = u2
  Cases = {c1, c2}
  SelfCases = {c2}
  MetricOf <- MCMetricOf
  Users = {u1, u2}
  Kinds <- MCKinds
  Prios = {1, 2, 4}
  HighPrios = {1}
  Callback = TRUE
  Before = {}
  After = {}
  Workers <- MCWorkers
  MaxEvents = 2
  MaxFailures = 1
  Contents <- MCContents
  Robots = {"d1", "d2"}
  MaxPosts = 2
  Limit = 1
  Expires = 5
  Ahead = 3
  FetchTime = 1
  PostTime = 1
  Default = 2
  MaxTime = 7
SPECIFICATION MCSpec
CHECK_DEADLOCK FALSE
INVARIANTS OnePlace CaseIsCurrent 
PROPERTY Settles
