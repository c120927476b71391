SPECIFICATION FairSpec
CONSTANTS
  MaxOutput = 1
  PipeCap = 1
  MaxWritten = 4
INVARIANTS
  TypeOK
  CompleteUnlessTruncated
  ChildIsGone
PROPERTY ReadingEnds
CHECK_DEADLOCK FALSE
