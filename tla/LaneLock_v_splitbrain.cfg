SPECIFICATION LanesSpec
CONSTANTS
  e1 = e1
  e2 = e2
  a = a
  b = b
  t1 = t1
  t2 = t2
  Exec = {e1, e2}
  Lane = {a, b}
  Task = {t1, t2}
  Detector = {}
  GatewayOf <- MCGatewayOf
  TaskOf <- SharedTaskOf
  ResourceLanes <- SharedLanes
  TaskLane <- TaskLanes
  TTL = 1
  MaxFailures = 3
  MaxRuns <- Once
  NoLock = NoLock
  NoLane = NoLane
  d = d
INVARIANT
  SplitBrainPrevented
