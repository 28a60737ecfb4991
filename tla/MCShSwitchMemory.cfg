CONSTANTS
  f1 = f1
  f2 = f2
  libc = libc
  lib = lib
  c1 = c1
  c2 = c2
  x1 = x1
  p1 = p1
  p2 = p2
  w1 = w1
  w2 = w2
  w3 = w3
  Callers = {c1, c2}
  Runners = {x1}
  Targets = {f1, f2}
  Proxies = {p1, p2}
  LibOf <- MCLibOf
  SafeTargets = {f1}
  Sw = {w1, w2, w3}
  Modes = {TRUE, FALSE}
  Faults = {"rewrite", "patch"}
  None = None
SPECIFICATION Spec
SYMMETRY Symmetry
VIEW MemoryView
INVARIANT TypeOK
INVARIANT TreeMirrorsCode
INVARIANT RunnersStayAlive
INVARIANT SafeCallsBypassHook
INVARIANT NothingLeaks
