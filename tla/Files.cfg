SPECIFICATION FilesSpec
CONSTANTS
    proc1 = proc1
    proc2 = proc2
    Procs = {proc1, proc2}
    InitProc = proc1
    NOFILE = 2
    LowLimit = 1
    NFILE = 2
    Pages = {pg1}
    na = na
    testsuite = testsuite
    devnull = devnull
    Names = {na, testsuite, devnull}
    OnDemand = {testsuite}
    Testsuite = {testsuite}
    DevNull = {devnull}
    Root = Root
    Nodes <- MCNodes
    Openflags <- MCOpenflags
    Paths <- MCPaths
    MaxSize = 1
    MaxLost = 1
    NULL = NULL
INVARIANTS
    FileRefExact
    EntryRefExact
    OpenatSurvivesExec
CHECK_DEADLOCK FALSE
