SPECIFICATION FairSpec
CONSTANTS
  Modes = {m1, m2}
  Refused = {m2}
  NoMode = NoMode
  MissLimit = 2
  SwitchresAttempts = 2
  AutoReconnect = TRUE
  CoreEchoesBlank = FALSE
  MaxFrame = 5
  MaxRevision = 2
  MaxFaults = 2
PROPERTIES
  StreamRecovers
  PendingModeApplied
CHECK_DEADLOCK FALSE
