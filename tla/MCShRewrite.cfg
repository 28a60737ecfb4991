CONSTANTS
  Functions <- MCFunctions
  Enter = 600
  New = 900
  Caller = 500
  Pointee = 550
  EnterSize = 256
  BranchBits = 8
  RangeLow = 128
  RangeHigh = 127
SPECIFICATION Spec
INVARIANT TypeOK
INVARIANT OnlyCodeRuns
INVARIANT EntryReachesNew
PROPERTY ImplementsProgram
CHECK_DEADLOCK FALSE
