CONSTANTS
  t1 = t1
  t2 = t2
  h1 = h1
  h2 = h2
  p1 = p1
  p2 = p2
  p3 = p3
  c1 = c1
  m1 = m1
  Threads = {t1, t2}
  Hubs = {h1}
  Proxies = {p1}
  Target <- StacksTarget
  CallSites = {c1}
  NSlots = 1
  Maps = {m1}
  FrameMax = 1
  MaxDepth = 2
  Interrupts = TRUE
  NoStack = NoStack
  NoFunc = NoFunc
SPECIFICATION Spec
SYMMETRY StacksSymmetry
INVARIANT StacksAreExclusive
