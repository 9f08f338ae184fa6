SPECIFICATION TablesSpec
CONSTANTS
  p1 = p1
  p2 = p2
  w1 = w1
  w2 = w2
  k1 = k1
  Proposal = {p1, p2}
  Worker = {w1, w2}
  Window = 1
  MaxTime = 2
  MaxActions = 2
  MaxFaults = 1
  NoProposal = NoProposal
  NoKey = NoKey
  NoHash = NoHash
  Absent = Absent
  \* Two writes at a time, three in all, one of which may break off.
  Handler = {w1, w2}
  Content = {p1, p2}
  Near = {}
  Key = {k1}
  MaxRequests = 3
  MaxFailed = 1
  \* Three memories, two requests to supersede_entity, pages of one record.
  N = 3
  Nearness <- MCNearness
  Score <- MCScore
  Requests <- MCRequests
  Shapes <- MCShapes
  Client = {w1, w2}
  PageLimit = 1
  MaxClock = 2
  MaxLag = 1
  MaxDeletes = 1
  Gone = Gone
  NotYet = NotYet
SYMMETRY Symmetry
INVARIANT
  AcceptedRecalled
\* Proposals, requests, memories and time are bounded.
CHECK_DEADLOCK FALSE
