SPECIFICATION Spec
CONSTANTS
  Session = {s1, s2}
  Node = {n1}
  Lease = {l1, l2}
  Nobody = Nobody
  MaxPending = 1
  MaxAttempts = 1
  MaxWrites = 1
  MaxFaults = 0
INVARIANTS QuietMeansCurrent
CHECK_DEADLOCK FALSE
