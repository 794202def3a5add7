SPECIFICATION FairSpec
CONSTANTS
  Managers = {m1}
  m1 = m1
  NoOne = NoOne
  Eraser = Eraser
  MaxOpens = 2
  MaxFaults = 1
  MaxDeletions = 1
INVARIANTS
  DeletedAfterCommand
PROPERTIES
  EndIsLearned
  StoppingEnds
