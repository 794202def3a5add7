SPECIFICATION Spec
CONSTANTS
  Models = {m1}
  Endpoints = {e1, e2}
  ToolSets = {t1}
  Scopes = {s1, s2}
  Jobs = {}
  LocalJobs = {}
  AwaitJobs = TRUE
  MaxToolIterations = 1
  MaxCallsPerResponse = 2
  Budgets <- OfInputAndConfig
SYMMETRY Symmetric
INVARIANTS
  QueuedInputKept
  OneUnfinishedRun
  IdleIsSettled
  EpochFollowsSelection
  SelectionKept
  RequestIsDescribed
  LiveFollowsJournal
