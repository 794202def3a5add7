SPECIFICATION FairSpec
CONSTANTS
  Models = {m1}
  Endpoints = {e1}
  ToolSets = {t1}
  Scopes = {s1}
  Jobs = {local1, detached1}
  LocalJobs = {local1}
  AwaitJobs = TRUE
  MaxToolIterations = 1
  MaxCallsPerResponse = 1
  Budgets <- OfReturns
PROPERTIES
  OperationsReturn
INVARIANTS
  CompletedRunJoinedItsJobs
