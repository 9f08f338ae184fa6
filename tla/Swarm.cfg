SPECIFICATION SwarmSpec
CONSTANTS
  g1 = g1
  g2 = g2
  k1 = k1
  h1 = h1
  h2 = h2
  w1 = w1
  w2 = w2
  t1 = t1
  t2 = t2
  NotSeen = NotSeen
  Gone = Gone
  NoTask = NoTask
  NoGateway = NoGateway
  Gateway = {g1, g2}
  Key = {k1}
  Handler = {h1, h2}
  TTLOf <- MCTTLOf
  Patient = TRUE
  MaxTime = 5
  MaxSent = 3
  NoRow = NoRow
  NoRequest = NoRequest
  \* Links that go down three times.
  MaxOutages = 3
  \* Two gateways, room for one container, a Warden that may be started again.
  Watched = {h1, h2}
  MaxContainers = 1
  HeartbeatTTL = 1
  Cooldown = 1
  MaxClock = 2
  MaxRestarts = 1
  MaxRuns = 2
  \* Three events of one task, and three of the stream, one of them malformed.
  TaskEvent = {"t1", "t2", "t3"}
  StreamEvent = {"s1", "s2", "bad"}
  Malformed = {"bad"}
  FetchBatch = 2
  MaxBuffered = 2
  MaxFaults = 2
  Call = {"c", "d", "e"}
  CallGateway <- MCCallGateway
  MaxAnswers = 2
  \* A task and its subtask, two clients, three events.
  Task = {t1, t2}
  TaskGateway = {"g", "h"}
  ParentOf <- MCParentOf
  Client = {h1, h2}
  Published <- MCPublished
  MaxLog = 3
  \* Three subtasks, two workers, and the router's settings.
  BatchSize = 3
  PoolWorker = {w1, w2}
  Capacity <- MCCapacity
  CanRun <- MCCanRun
  InitialBatch = 1
  MaxErrors = 2
  MaxChurn = 3
  MaxLost = 1
  \* One page, two pollers and two workers.
  Page = {"p"}
  Poller = {"x", "y"}
  Worker = {h1, h2}
  TaskMessage = {"s", "c", "n", "f", "b"}
  KindOf <- MCKindOf
  PageOf <- MCPageOf
  AgentOf <- MCAgentOf
  WithoutIds = {"b"}
  NoNotes = {"n"}
  AnyAgent = "Any"
  MaxBoardFaults = 2
  \* Three requests of two attempts, and a breaker that opens at three failures.
  ApiCall = {"x", "y", "z"}
  Attempts = 2
  Threshold = 3
  OpenFor = 1
  LastTime = 3
SYMMETRY Symmetry
INVARIANTS
  Exclusive
  BeliefCovered
  ClusterSafe
  WardenSafe
  RouterSafe
  PipelineSafe
  BridgeSafe
  BoardSafe
  RPCSafe
  ClientSafe
PROPERTY
  RenewExtends
\* A closed manager, a stopped Warden, a finished batch, a drained stream and a
\* finished page have nothing left to do.
CHECK_DEADLOCK FALSE
