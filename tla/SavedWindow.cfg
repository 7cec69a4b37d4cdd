SPECIFICATION FrontSpec
CONSTANTS
  Timings = {1}
  Presets <- MCPresets
  Options = {"a"}
  Nlc = {"a"}
  Gate <- MCGate
  FirstOptions = "a"
  OldOptions = "a"
  SizeTexts = {0, 1}
  BufferTexts = {0, 1}
  FirstBuffer = 1
  Handles = {1, 2, 3}
  Title <- MCTitle
  MaxEvents = 7
INVARIANT
  SavedWindowRestored
CHECK_DEADLOCK FALSE
