SPECIFICATION Spec
CONSTANTS
  Models = {m1}
  Endpoints = {e1}
  ToolSets = {t1}
  Scopes = {s1}
  Jobs = {detached1}
  LocalJobs = {}
  AwaitJobs = TRUE
  MaxToolIterations = 2
  MaxCallsPerResponse = 1
  Budgets <- OfJobs
INVARIANTS
  TypeOK
  NoStaleAnnouncement
  JournalAlwaysReplays
  AcknowledgedIsJournaled
PROPERTIES
  ImplementsLog
