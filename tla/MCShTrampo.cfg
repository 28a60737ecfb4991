CONSTANTS
  t1 = t1
  t2 = t2
  x1 = x1
  Threads = {t1, t2}
  Runners = {x1}
  PageAddrs <- MCPageAddrs
  TrampoSize = 2
  PageSize = 4
  Delay = 1
  Requests <- MCRequests
  AddrMax = 12
  Usecs = 1
  MaxSec = 4
  NoSlot = NoSlot
SPECIFICATION Spec
SYMMETRY Symmetry
INVARIANT TypeOK
INVARIANT ExclusiveSlots
INVARIANT WithinWindow
INVARIANT NeverAborts
PROPERTY NoReissueUnderRunner
