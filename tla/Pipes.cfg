SPECIFICATION Parts
CONSTANTS
    Procs = {p1, p2}
    Creator = p1
    a = a
    b = b
    Bytes = {a, b}
    Zero = a
    Writes <- MCWrites
    Reads = {1, 3}
    PIPESIZE = 2
    Wrap = 4
    NoProc = NoProc
    Kills = TRUE
    CopyFaults = TRUE
    MAXARGS = 3
    NPROC = 7
    NOFILE = 6
    NENVS = 2
    Scripts <- MCScripts
    Programs <- MCPrograms
    Assignments <- MCAssignments
    BadFiles = {"bad"}
CHECK_DEADLOCK FALSE
INVARIANTS
    FreedUnused
    ProgramSeesItsPlace
    ListInOrder
PROPERTIES
    NobodyLeftAsleep
    QueueSpec
    EndOfFile
    ParsedAsGrammar
    PromptReturns
