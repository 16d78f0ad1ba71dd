SPECIFICATION MCSpec
CONSTANTS
  MaxSeq = 2
  MaxReceipts = 2
  MaxHello = 1
  MaxAudio = 1
  MaxOut = 1
  HelloTimeout = 8
  HeartbeatInterval = 2
  HeartbeatTimeout = 6
  BaseBackoff = 4
  MaxBackoff = 240
  ReplyDelay = 1
  Replies = TRUE
INVARIANT RequestsCounted
INVARIANT NothingMisplaced
INVARIANT NoticedInTime
INVARIANT NoFalseAlarm
PROPERTY RequestsAnswered
CHECK_DEADLOCK FALSE
