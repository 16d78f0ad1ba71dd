SPECIFICATION WhisperSpec
CONSTANTS
  Offloads = {FALSE}
  MaxBufferWords = 3
  MaxSpoken = 6
  MaxEmpty = 0
INVARIANT NothingCommittedTwice
CHECK_DEADLOCK FALSE
