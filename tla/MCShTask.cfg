CONSTANTS
  c1 = c1
  c2 = c2
  l1 = l1
  l2 = l2
  Clients = {c1, c2}
  Libs = {l1, l2}
  Modes = {FALSE}
  Opens = {"first"}
  Calm = FALSE
  Faults = {"search"}
  None = None
  Soinfos <- MCSoinfo
  ScanWords = 32
  NotFound = NotFound
SPECIFICATION FairSpec
INVARIANT TypeOK
INVARIANT HooksFindMonitor
INVARIANT CountMatches
INVARIANT QueueIsAlive
INVARIANT WaitingTasksHaveNames
INVARIANT LoadHooksPending
PROPERTY WaitingEnds
