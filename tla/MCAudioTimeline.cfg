SPECIFICATION MCSpec
CONSTANTS
  Delay = 10
  Lead = 1
  RingSize = 21
  SendLimit = 5
  FieldFrames = 2
  ReanchorLimit = 6
  Tolerance = 1
  FreshLimit = 6
  ServoTime = 5
  Grain = 8
  MaxCorrection = 2
  Drift = 1
  PacketFrames = 2
  Slip = 1
  Jitter = 1
  MaxPackets = 1
  MaxTime = 15
  MaxDisturbances = 1
  MaxChanges = 1
  MaxGlitches = 1
INVARIANTS
  TypeOK
  SlotsInWindow
  ReceiverBufferBounded
  ClockFollowsCount
  SoundUnbroken
PROPERTY
  ImplementsDelayLine
CHECK_DEADLOCK FALSE
