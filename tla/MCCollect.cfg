SPECIFICATION Spec
CONSTANTS
  Managers = {m1, m2}
  m1 = m1
  m2 = m2
  NoOne = NoOne
  Eraser = Eraser
  MaxOpens = 3
  MaxFaults = 0
  MaxDeletions = 0
SYMMETRY Symmetric
INVARIANTS
  TypeOK
  AbandonedIsLost
  CompletionKept
  RemovedAfterWork
PROPERTIES
  ExitStopsPlainJobs
  ImplementsPromise
