SPECIFICATION CaptureSpec
CONSTANTS
  PoolSize = 2
  MaxSignals = 5
  MaxFailures = 2
  Sources <- MCSources
  Sizes <- MCSizes
  ActiveSize <- MCActive
  Offsets <- MCOffsets
  Outputs = {4, 5}
  Rates = {44100, 48000, 96000}
  Accepted = {22050, 44100, 48000}
INVARIANTS
  CaptureTypeOK
  NoFrameSleptThrough
  CropSound
  AudioPaired
PROPERTY
  FramesTaken
CHECK_DEADLOCK FALSE
