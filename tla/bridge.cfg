SPECIFICATION FairSpec
CONSTANTS
  MaxStarts = 1
  MaxSessions = 2
  MaxEpoch = 3
INVARIANT SessionsAreSeparate
PROPERTY IntentsHold
PROPERTY IntentsServed
CHECK_DEADLOCK FALSE
