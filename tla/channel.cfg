SPECIFICATION Spec
CONSTANTS
  Capacity = 2
  Words <- MCWords
  MaxPush = 4
  LoadsInOrder = TRUE
  p1 = p1
  p2 = p2
  Producers <- MCProducers
  MaxStarts = 2
  Commands <- MCCommands
  Heartbeat = "heartbeat"
  MaxRequests = 3
  AudioCapacity = 1
  MaxAudio = 2
  AnswerReasons = {"complete", "superseded"}
INVARIANT DeliveredIntact
INVARIANT BarrierIsExact
INVARIANT OwnRingIsHeld
INVARIANT ScheduleExact
INVARIANT BooksBalance
PROPERTY DeliversInOrder
PROPERTY FreshestComesOut
PROPERTY ClosedBarrierEmpties
PROPERTY IsMailbox
PROPERTY ControlGoesFirst
CHECK_DEADLOCK FALSE
