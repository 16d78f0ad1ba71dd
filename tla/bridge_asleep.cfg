SPECIFICATION FairSpec
CONSTANTS
  MaxStarts = 1
  MaxSessions = 1
  MaxEpoch = 2
PROPERTY StopReturns
CHECK_DEADLOCK FALSE
