SPECIFICATION ClocksSpec
CONSTANTS
  HelloTimeout = 8
  HeartbeatInterval = 2
  HeartbeatTimeout = 6
  BaseBackoff = 4
  MaxBackoff = 240
  ReplyDelay = 1
  Replies = FALSE
INVARIANT NoFalseAlarm
