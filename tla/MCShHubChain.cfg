CONSTANTS
  t1 = t1
  t2 = t2
  h1 = h1
  h2 = h2
  p1 = p1
  p2 = p2
  p3 = p3
  c1 = c1
  Threads = {t1}
  Hubs = {h1, h2}
  Proxies = {p1, p2, p3}
  Target <- ChainTarget
  CallSites = {c1}
  NSlots = 1
  Maps = {}
  FrameMax = 2
  MaxDepth = 4
  Interrupts = FALSE
  NoStack = NoStack
  NoFunc = NoFunc
SPECIFICATION Spec
SYMMETRY ChainSymmetry
INVARIANT TypeOK
INVARIANT NoProxyIsSkipped
INVARIANT ChainMovesForward
INVARIANT NoUninvitedReentry
INVARIANT FramesMirrorCalls
INVARIANT NoStackLeaks
