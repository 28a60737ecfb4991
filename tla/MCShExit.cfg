CONSTANTS
  h1 = h1
  h2 = h2
  linked = linked
  fromKernel = fromKernel
  t1 = t1
  t2 = t2
  Threads = {t1, t2}
  Hooks = {h1, h2}
  PcOf <- MCPcOf
  Files = {linked, fromKernel}
  LayoutOf <- MCLayoutOf
  Size = 64
  PageSize = 8
  RangeLow = 2
  RangeHigh = 24
  MaxAddr = 1000
  GapsCap = 2
  Shields = 2
  Faults = {"slot", "jump", "free"}
  None = None
  Out = Out
SPECIFICATION FairSpec
INVARIANT TypeOK
INVARIANT LiveExitsAreIntact
INVARIANT SegmentsAreUntouched
INVARIANT ExitsAreInReach
INVARIANT SignalsAreCaught
PROPERTY LockIsReleased
