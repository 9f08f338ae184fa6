SPECIFICATION MemorySpec
CONSTANTS
  \* Four paragraphs, a block for three of them, two callers.
  Caller = {"a", "b"}
  Paragraph = {p1, p2, p3, p4}
  Limit = 3
  Threshold = 1
  Batch = 1
  MaxCasRetries = 2
  MaxCalls = 4
  \* Two evidence requests and a learning one; two consolidations of up to
  \* three episodes into up to two rules.
  Request = {"ev1", "ev2", "le"}
  Learning = {"le"}
  Episode = {"e1", "e2", "e3"}
  Rule = {"r1", "r2"}
  Dream = {"c", "d"}
  MaxFaults = 2
  \* Two markers, one risky and one poorly worded; two tasks, two reviews.
  Source = {"m", "n"}
  NoSource = "-"
  Risky = {"n"}
  Vague = {"m"}
  Poor = {"m"}
  Patches <- MCPatches
  Scanner = {"a", "b"}
  Reviewer = {"c", "d"}
  MaxTasks = 2
  MaxReviews = 2
  \* Four memories, two runs.
  N = 4
  Similar <- MCSimilar
  MinCluster = 2
  MaxCluster = 2
  Run = {"a", "b"}
  \* Two files of three slugs, one new node of an agent, polls every two ticks.
  Path = {"p", "q"}
  Slug = {"s1", "s2", "s3"}
  Uuid = {"u"}
  Contents <- MCContents
  PollEvery = 2
  Window = 1
  MaxEdits = 2
  MaxAgentOps = 1
  MaxVaultFaults = 1
  p1 = p1
  p2 = p2
  p3 = p3
  p4 = p4
  None = None
  \* Three files of two contents each, one edit, two ingests.
  ModuleOf <- MCModuleOf
  CodeOf <- MCCodeOf
  MaxTreeEdits = 1
  MaxRuns = 2
  MaxDeaths = 1
  Unparsed = Unparsed
  NoNode = NoNode
INVARIANT
  EveryRuleStored
\* Calls, workflows, runs, edits and tasks are bounded in number.
CHECK_DEADLOCK FALSE
