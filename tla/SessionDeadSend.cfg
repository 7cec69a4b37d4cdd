SPECIFICATION Spec
CONSTANTS
  Modes = {m1}
  Refused = {}
  NoMode = NoMode
  MissLimit = 2
  SwitchresAttempts = 2
  AutoReconnect = TRUE
  CoreEchoesBlank = FALSE
  MaxFrame = 5
  MaxRevision = 1
  MaxFaults = 1
INVARIANT
  NoSendAfterTeardown
CHECK_DEADLOCK FALSE
