SPECIFICATION NamespaceSpec
CONSTANTS
    thr1 = thr1
    thr2 = thr2
    dirA = dirA
    dirB = dirB
    new1 = new1
    new2 = new2
    na = na
    nb = nb
    Threads = {thr1, thr2}
    Root = Root
    Dirs = {dirA, dirB}
    Spare = {new1, new2}
    Names = {na, nb}
    MaxDepth = 2
    Calls = 2
    NULL = NULL
SYMMETRY MCSymmetry
CHECK_DEADLOCK FALSE
INVARIANTS
    PathLeadsHome
    CycleNeedsTwoRenames
