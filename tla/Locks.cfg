SPECIFICATION LocksSpec
CONSTANTS
  c1 = c1
  c2 = c2
  a = a
  b = b
  p = p
  q = q
  t1 = t1
  t2 = t2
  Context = {c1, c2}
  Slug = {a, b}
  Holder = {p, q}
  HolderId <- MCHolderId
  Rank <- MCRank
  Root <- MCRoot
  Targets <- MCTargets
  TTL = 1
  MaxTime = 3
  MaxEnter = 2
  NoLock = NoLock
  Task = {t1, t2}
  ProcessOf <- MCProcessOf
  FileTTL = 1
  MaxInstant = 3
  MaxCalls = 3
INVARIANTS
  HeldOrFenced
  NoLeak
  ExclusiveUntilExpiry
PROPERTIES
  RegistriesKeepContract
\* The tasks and contexts make a bounded number of calls and then stop.
CHECK_DEADLOCK FALSE
