SPECIFICATION Spec
CONSTANTS
  PoolSize = 2
  MaxSignals = 3
  MaxFailures = 1
PROPERTY
  SourceRecovers
CHECK_DEADLOCK FALSE
