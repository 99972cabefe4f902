SPECIFICATION Parts
CONSTANTS
    Procs = {proc1, proc2}
    Init0 = proc1
    kernel_end = 1
    RAMSTOP = 63
    MAXVA = 20
    WORD = 2
    CopyAddrs = {1, 9, 16, 21}
    CopyLens = {3}
    PGSIZE = 2
    HEAPEND = 8
    USER_MMAP_START = 14
    USER_STACK_TOP = 18
    INIT_STACK_SIZE = 2
    MaxSz = 3
    Calls = 5
    MaxOther = 16
    Lengths = {0, 2}
    MaxArgs = 2
    MaxAreas = 3
    NULL = NULL
    HEADER = 2
    CORE = 4
    Requests = {0, 3, 9}
    Brk = 11
    NIL = NIL
CHECK_DEADLOCK FALSE
INVARIANTS
    
    
    HeapExact
PROPERTY PagesAccounted
