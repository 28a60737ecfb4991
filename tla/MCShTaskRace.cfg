CONSTANTS
  c1 = c1
  c2 = c2
  l1 = l1
  l2 = l2
  Clients = {c1, c2}
  Libs = {l1, l2}
  Modes = {FALSE}
  Opens = {"first"}
  Calm = FALSE
  Faults = {}
  None = None
  Soinfos <- MCSoinfo
  ScanWords = 32
  NotFound = NotFound
SPECIFICATION Spec
SYMMETRY Symmetry
INVARIANT NobodyWaitsInVain
