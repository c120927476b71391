SPECIFICATION FairSpec
CONSTANTS
  MaxOutput = 1
  PipeCap = 1
  MaxWritten = 4
PROPERTY ExecutionEnds
CHECK_DEADLOCK FALSE
