CONSTANTS
  Receivers = {r1}
  GraphAddrs = {g1}
  JudgeNodes = {j}
  Tsdb = {}
  Ignored = {2, 3}
  QueueSize = 2
  Batch <- MCBatch
  Concurrent <- MCConcurrent
  Tries <- MCBatch
  MaxItems = 3
  MaxRequest = 2
  MaxRestarts = 1
  r1 = r1
  r2 = r2
  g1 = g1
  g2 = g2
  j = j
  t = t
SPECIFICATION TasksFair
CHECK_DEADLOCK FALSE
INVARIANTS TypeOK Accounted SentEntersSeries
PROPERTIES ImplementsChannel Settled
