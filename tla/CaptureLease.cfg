SPECIFICATION Spec
CONSTANTS
  Strips = 2
  MaxFrames = 4
  Modes <- MCModes
  DefaultMode <- MCDefault
INVARIANT
  LeaseKeepsWriterOff
