SPECIFICATION Spec
CONSTANTS
  Modes = {m1, m2}
  Refused = {}
  NoMode = NoMode
  MissLimit = 2
  SwitchresAttempts = 2
  AutoReconnect = TRUE
  CoreEchoesBlank = FALSE
  MaxFrame = 5
  MaxRevision = 2
  MaxFaults = 2
INVARIANT
  PacksAcknowledgedMode
CHECK_DEADLOCK FALSE
