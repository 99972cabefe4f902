CONSTANTS
  b1 = b1  b2 = b2  b3 = b3
  Procs = {p1, p2, p3, p4}
  Bufs = {b1, b2, b3}
  Blocks = {k1, k2, k3, k4}
  Values = {v0}
  Zero = v0
  InitList <- List3
  NoBlock = NoBlock  NoProc = NoProc  NoBuf = NoBuf
  CopyinFaults = TRUE
SPECIFICATION Spec
SYMMETRY Symm
CHECK_DEADLOCK FALSE
INVARIANTS IInv
PROPERTY NotRecycledInUse
