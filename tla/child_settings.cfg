SPECIFICATION RunControlSpec
CONSTANTS
  Fields = {"model", "prompt"}
  Default <- MCDefault
  Unmanaged = {"extra"}
  Secrets = {"KEY"}
  Values = {"", "new"}
  FirstConfig <- MCConfig
  FirstEnv <- MCEnv
  MaxEdits = 1
  MaxStarts = 1
  MaxSaves = 1
INVARIANT ChildRunsAsSaved
CHECK_DEADLOCK FALSE
