CONSTANTS
  c1 = c1
  c2 = c2
  l1 = l1
  l2 = l2
  Clients = {c1, c2}
  Libs = {l1, l2}
  Modes = {FALSE}
  Opens = {"again", "fails"}
  Calm = TRUE
  Faults = {}
  None = None
  Soinfos <- MCSoinfo
  ScanWords = 32
  NotFound = NotFound
SPECIFICATION Spec
SYMMETRY Symmetry
INVARIANT LoadHooksPending
