SPECIFICATION StoreSpec
CONSTANTS
  h1 = h1
  h2 = h2
  c1 = c1
  c2 = c2
  k1 = k1
  Handler = {h1, h2}
  Content = {c1, c2}
  Near <- NothingNear
  Key = {k1}
  MaxRequests = 3
  MaxFailed = 0
  NoKey = NoKey
  NoHash = NoHash
SYMMETRY Symmetry
PROPERTY
  DedupeKeepsContent
\* The requests are bounded in number, and then nothing is left to do.
CHECK_DEADLOCK FALSE
