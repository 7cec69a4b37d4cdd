SPECIFICATION FrameSpec
CONSTANTS
  Strips = 2
  MaxFrames = 4
  Modes <- MCModes
  DefaultMode <- MCDefault
  BufferBytes = 24
  EnvelopeWidth = 2
  EnvelopeHeight = 5
  Widths = {0, 2, 3}
  Heights = {0, 3, 4, 5}
  Top = 3
  Width = 3
  Height = 2
  Pixels <- MCPixels
  Nears = {0, 1, 2}
  Packs = {"global", "tiled", "rice"}
  Tile = 2
  HeaderBits = 3
  RiceLimit = 3
  EscapeBits = 4
  WordBits = 4
  MaxSegment = 16
  Capacity = 80
  Timings = {1, 2}
  Presets <- MCPresets
  Options = {"a", "b"}
  Nlc = {"a"}
  Gate <- MCGate
  FirstOptions = "a"
  OldOptions = "b"
  SizeTexts = {0, 1, 3}
  BufferTexts = {0, 1, 2}
  FirstBuffer = 1
  Handles = {1, 2, 3}
  Title <- MCTitle
  MaxEvents = 5
  Pictures <- MCPictures
  Bases = 4
  MinMatch = 4
  LastLiterals = 2
  MFLimit = 7
  WildCopy = 5
  RunMask = 3
  DistanceMax = 15
  SkipTrigger = 2
  Buckets = 5
  AdaptiveSize = 8
  MaxAttempts = 9
  Codecs = {3, 5}
INVARIANTS
  FrameTypeOK
  PublishedWhole
  LeasedFrameIsNewest
  PackingSafe
  RoundTrip
  BlockRoundTrip
  FrontEndSound
PROPERTY
  LeasedBufferStable
