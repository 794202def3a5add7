SPECIFICATION Spec
CONSTANTS
  MaxKeys = 4
  MaxQueued = 1
  MaxEvents = 1
  ChannelSize = 1
  MaxSessions = 3
INVARIANTS
  ReplacedQuietly
CHECK_DEADLOCK FALSE
