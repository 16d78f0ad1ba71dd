SPECIFICATION Spec
CONSTANTS
  MaxCaptions = 3
  MaxFaults = 3
  MaxConnectAttempts = 2
  MaxPresses = 3
  MaxOutages = 2
  MaxHotkeyAttempts = 2
  MaxPayload = 31
  TextLengths = {0, 3}
  Samples = {0, 2}
  ReadSize = 20
  MaxFrames = 2
  Fields = {"model", "prompt"}
  Default <- MCDefault
  Unmanaged = {"extra"}
  Secrets = {"KEY"}
  Values = {"", "new"}
  FirstConfig <- MCConfig
  FirstEnv <- MCEnv
  MaxEdits = 2
  MaxStarts = 3
  MaxSaves = 3
  MaxClicks = 4
  MaxRetries = 2
  Keys = {"", "k"}
  MaxPolls = 2
  MaxChanges = 2
INVARIANT SinkKeepsUp
INVARIANT KeysKeepTheirMeaning
INVARIANT WireIsExact
INVARIANT NoOrphan
INVARIANT SavedIsLoaded
INVARIANT TestedKeyBuilds
PROPERTY LastClickIsAnswered
PROPERTY ProbedIsShown
CHECK_DEADLOCK FALSE
