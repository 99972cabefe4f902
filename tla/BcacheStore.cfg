CONSTANTS
  b1 = b1  b2 = b2  b3 = b3
  Procs = {p1, p2}
  Bufs = {b1, b2}
  Blocks = {k1, k2, k3}
  Values = {v0, v1}
  Zero = v0
  InitList <- List2
  NoBlock = NoBlock  NoProc = NoProc  NoBuf = NoBuf
  CopyinFaults = FALSE
SPECIFICATION FairSpec
PROPERTIES StoreSpec SleeperWoken
