SPECIFICATION Spec
CONSTANTS
  MaxStarts = 2
  MaxSessions = 2
  MaxEpoch = 3
INVARIANT SingleConsumer
CHECK_DEADLOCK FALSE
