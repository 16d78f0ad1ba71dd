SPECIFICATION MCSpec
CONSTANTS
  MaxStarts = 2
  MaxSessions = 2
  MaxEpoch = 2
  Times = {10, 20}
  Texts = {"hello", "world"}
  MaxSeq = 2
  LastEpoch = 2
CONSTRAINT TwoAreLeft
INVARIANT StopIsComplete
INVARIANT ShowsEachOnce
INVARIANT OneLateAtMost
CHECK_DEADLOCK FALSE
