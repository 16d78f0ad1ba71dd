SPECIFICATION Spec
CONSTANTS
  QueueMaxsize = 2
  MinSilenceFrames = 2
  MaxFrames = 4
  MaxPauses = 2
  MaxReconnects = 2
  MaxWords = 3
  MaxBreaks = 3
  MaxChunks = 3
  MaxTimers = 2
  MaxDrops = 2
  MaxStarts = 2
  Offloads = {TRUE, FALSE}
  MaxBufferWords = 3
  MaxSpoken = 6
  MaxEmpty = 1
  MaxFed = 4
  MaxPolls = 2
  MaxPushed = 3
  Layouts <- MCLayouts
  Specs <- MCSpecs
  MaxCaptures = 2
  MaxLines = 2
  MaxCharsPerLine = 2
  MaxTranscripts = 3
  MaxSockets = 2
  NoTime = NoTime
  CaptionTexts <- MCTexts
  Suppressed <- MCSuppressed
INVARIANT RunIsExact
INVARIANT WordsCommittedOnce
INVARIANT EachChunkOnce
INVARIANT NothingShownLate
INVARIANT DeviceIsTheNamed
INVARIANT HandlesGivenBack
INVARIANT TranscriptsExact
INVARIANT OverlayIsExact
PROPERTY RunReturns
PROPERTY BrokenIsMended
PROPERTY AudioIsHeard
CHECK_DEADLOCK FALSE
