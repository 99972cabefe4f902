SPECIFICATION Parts
CONSTANTS
    Procs = {p1, p2}
    Chars = {"x"}
    Keys = {"x", "return", "^D", "^U", "^H", "^P"}
    INPUT_BUF = 3
    WRAP = 6
    FIFO = 1
    Lengths = {1, 4}
    MaxKeys = 4
    START = 5
    Killable = {p1}
    NPROC = 3
    Tids = {1, 2, 3}
    Sigs = {2, 3}
    TgSigs = {2, 3}
    INTBITS = 4
    Unmaskable = {3}
    NTIMERS = 2
    Whichs = {0, 1}
    TICKS = 3
    MaxSleep = 2
    MaxPid = 4
    MaxCalls = 4
CHECK_DEADLOCK FALSE
INVARIANTS
    OnlyVictims
    OneTimerEach
PROPERTIES
    LineSpec
    NewlineWakes
    KilledExits
