SPECIFICATION Spec
CONSTANTS
  Word <- MCWord
  Shape <- MCShape
  Prefix <- MCPrefix
  Command <- MCCommand
  CmdShape <- MCCmdShape
  Binary <- MCBinary
  Path <- MCPath
  NoPositional = NoPositional
  Override <- MCOverride
  Tables <- MCTables
  Requests <- MCRequests
  FindLen = 4
  AptLen = 4
  LsLen = 3
  AwsLen = 4
INVARIANTS
  TypeOK
  SpawnConforms
  SpawnedAsAsked
  EnginesAgree
CHECK_DEADLOCK FALSE
