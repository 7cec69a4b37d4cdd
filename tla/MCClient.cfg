SPECIFICATION ClientSpec
CONSTANTS
  Modes = {m1, m2, m3}
  Refused = {m3}
  NoMode = NoMode
  MissLimit = 2
  SwitchresAttempts = 2
  AutoReconnect = TRUE
  CoreEchoesBlank = TRUE
  MaxFrame = 5
  MaxRevision = 2
  MaxFaults = 2
  SendSlots = 5
  RawSlices = 2
  SoundSlices = 1
  MaxFields = 2
  MaxInits = 2
  MaxSwitches = 1
  FailAt = {6}
  MaxOutstandingReceive = 2
  MaxArrivals = 5
  MaxPackets = 3
  WordSize = 64
  VTotal = 5
  LineTime = 2
  Margin = 2
  MaxSpread = 1
  StartFrames = {12}
  Lines = {0, 4}
  LastFrame = 14
  MaxStream = 2
  MaxLate = 2
  MaxPolls = 2
INVARIANTS
  ClientTypeOK
  BlitFitsUnlessLost
  BlitSizeIsPackedSize
  EchoNeverAhead
  RetryStaysArmed
  ReceiveNeverDeaf
  SleepBounded
  TornDownOnce
PROPERTIES
  FramesIncrease
  PayloadAsAnnounced
  RefusedOnlyByBacklog
  VSyncInPicture
CHECK_DEADLOCK FALSE
