CONSTANTS
  c1 = c1
  c2 = c2
  c3 = c3
  l1 = l1
  l2 = l2
  Clients = {c1, c2, c3}
  Libs = {l1, l2}
  Modes = {TRUE, FALSE}
  Opens = {"first"}
  Calm = TRUE
  Faults = {}
  None = None
  Soinfos <- MCSoinfos
  ScanWords = 32
  NotFound = NotFound
SPECIFICATION Spec
SYMMETRY Symmetry
INVARIANT NobodyWaitsInVain
INVARIANT NoSwitchOutlivesLibrary
INVARIANT HooksAreEffective
INVARIANT LayoutIsFound
PROPERTY InitIsFinal
