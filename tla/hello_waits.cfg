SPECIFICATION WireFairSpec
CONSTANTS
  MaxPayload = 31
  TextLengths = {0, 3}
  Samples = {0, 2}
  ReadSize = 64
  MaxFrames = 2
PROPERTY HelloIsRead
CHECK_DEADLOCK FALSE
