SPECIFICATION ProgressSpec
CONSTANTS
  g1 = g1
  w1 = w1
  w2 = w2
  t1 = t1
  t2 = t2
  p1 = p1
  p2 = p2
  NotSeen = NotSeen
  Gone = Gone
  NoTask = NoTask
  NoGateway = NoGateway
  NoProposal = NoProposal
PROPERTIES
  LocalPreferred
  DeadForgotten
  Settles
  StreamDrains
  ProjectionFinishes
  ProjectionSafe
  ChatProfiled
  EventuallyDecided
  GatewayEnds
\* Every part may come to its end: closed, stopped, ended, drained or decided.
CHECK_DEADLOCK FALSE
