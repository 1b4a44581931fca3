SPECIFICATION Spec
CONSTANTS
  MayFail <- MCEverything
  MaxPending = 6
INVARIANTS
  StillCapturing
  CleanExit
  NoFrameLost
PROPERTIES
  Returns
  QuitObeyed
  UpdatesShown
