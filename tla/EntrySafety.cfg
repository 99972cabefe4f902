CONSTANTS
  usr = usr  tmp = tmp  log = log
  Procs = {p1, p2}
  Slots = {s1, s2, s3}
  Root = Root  None = None
  Paths <- MCPaths
  Uses <- MCUses
  Dirs <- MCDirs
  InitDisk <- MCDisk
  PutRace = FALSE
  RefMax = 9
SPECIFICATION Spec
SYMMETRY Symm
CHECK_DEADLOCK FALSE
INVARIANTS RefExact ParentIsParent OneEntryPerFile NothingForgotten PutNeverBlocks
