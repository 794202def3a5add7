SPECIFICATION Spec
CONSTANTS
  Managers = {m1}
  m1 = m1
  NoOne = NoOne
  Eraser = Eraser
  MaxOpens = 1
  MaxFaults = 0
  MaxDeletions = 1
PROPERTIES
  DeletionCanBeRepeated
