SPECIFICATION Spec
CONSTANTS
  Displays = {d1, d2}
  FirstDisplay = d1
  Windows = {w1}
  NoWindow = NoWindow
  CropSizes = {1, 2}
  MaxCaptures = 2
  MaxSessions = 2
INVARIANTS
  TypeOK
  CaptureExclusive
  WorkersHeld
  RestartHandsOver
  FrameFromSelectedSource
PROPERTIES
  CallsReturn
  ImplementsService
CHECK_DEADLOCK FALSE
