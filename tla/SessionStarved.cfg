SPECIFICATION FairSpec
CONSTANTS
  Modes = {m1}
  Refused = {}
  NoMode = NoMode
  MissLimit = 2
  SwitchresAttempts = 1
  AutoReconnect = TRUE
  CoreEchoesBlank = FALSE
  MaxFrame = 5
  MaxRevision = 2
  MaxFaults = 1
PROPERTY
  AutoReconnectRebuilds
CHECK_DEADLOCK FALSE
