CONSTANTS
  f = f  g = g  h = h  d = d
  Procs = {p1, p2}
  Files = {f, g, h, d}
  Dirs = {d}
  Values = {a, b}
  Payload = {a}
  Zero = b
  Blank = b
  byts_per_clus = 2
  data_clus_cnt = 7
  FatLen = 9
  Chain <- MCChain
  Reuse = FALSE
  Lens = {2}
  Sizes = {2}
  MaxSize = 4
  None = None
  Given = {"a", " a", "b", "c", "?"}
  NULL = NULL
  Formatted <- MCFormatted
  Pieces <- MCPieces
  Short <- MCShort
  PerCluster = 4
  Readers = {r1, r2}
  Rooms = {2, 5}
  MaxSlots = 12
  MaxCalls = 6
SPECIFICATION Parts
SYMMETRY Symm
CHECK_DEADLOCK FALSE
INVARIANTS NoCrossLink ReadBack ListingComplete
PROPERTY HoldsExactly
