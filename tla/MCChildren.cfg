SPECIFICATION Spec

CONSTANTS
    Child = {c1, c2}
    NoChild = NoChild
    MaxChildren = 2
    MaxActive = 1
    MaxRuns = 2
    MaxPrompts = 2
    MaxRestarts = 1
INVARIANTS WithinBounds ParentIsTold
PROPERTIES PastIsFinal CallsReturn
CHECK_DEADLOCK FALSE
