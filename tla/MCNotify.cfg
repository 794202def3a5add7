SPECIFICATION Spec
CONSTANTS
  Session = {s1, s2}
  Node = {n1, n2}
  Lease = {l1, l2}
  Nobody = Nobody
  MaxPending = 1
  MaxAttempts = 1
  MaxWrites = 1
  MaxFaults = 1
INVARIANTS RegistrationsKept ChangeIsAnnounced
SYMMETRY Symmetry
CHECK_DEADLOCK FALSE
