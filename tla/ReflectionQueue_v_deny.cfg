SPECIFICATION Spec
CONSTANTS
  p1 = p1
  p2 = p2
  w1 = w1
  w2 = w2
  Proposal = {p1}
  Worker = {w1, w2}
  Window = 1
  MaxTime = 1
  MaxActions = 2
  MaxFaults = 0
  NoProposal = NoProposal
SYMMETRY Symmetry
INVARIANT
  DeniedWithoutMemory
\* Every proposal is decided and no action is left to take.
CHECK_DEADLOCK FALSE
