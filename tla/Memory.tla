------------------------------- MODULE Memory -------------------------------
(***************************************************************************)
(* Physical pages and who holds them: kalloc.c, vm.c, vma.c, mmap.c, the   *)
(* page tables of proc.c and exec().                                       *)
(*                                                                         *)
(* A page has no identity: kmem.npage counts the free ones, and what a     *)
(* process holds is counted from its structures, the way freeproc() finds  *)
(* it.  Addresses are bytes and PGSIZE of them are a page.  Every kalloc() *)
(* of a call is a place where the call may run out of memory, since the    *)
(* pipes hold any number of pages.                                         *)
(***************************************************************************)
EXTENDS UserCopy, FiniteSets

CONSTANTS
    Procs,                \* slots of proc[]; the first process is in Init0
    Init0,
    kernel_end, RAMSTOP,  \* the physical memory that is left to the allocator
    HEAPEND,              \* where the second last-level table begins
    USER_MMAP_START, USER_STACK_TOP, INIT_STACK_SIZE,
    MaxSz, MaxAreas,      \* bounds: p->sz and areas of a process
    MaxOther, Lengths,    \* bounds: pages of pipes, lengths for mmap(),
    MaxArgs, Calls,       \* arguments of exec(), calls made, and what is copied
    CopyAddrs, CopyLens,
    NULL

ASSUME MemoryAssumption ==
    /\ Init0 \in Procs /\ NULL \notin Procs
    /\ {PGSIZE, WORD, INIT_STACK_SIZE} \subseteq Nat \ {0}
    /\ kernel_end \in Nat /\ RAMSTOP > kernel_end /\ MAXVA > USER_STACK_TOP
    /\ HEAPEND % PGSIZE = 0 /\ HEAPEND < USER_MMAP_START
    /\ USER_MMAP_START % PGSIZE = 0 /\ USER_STACK_TOP % PGSIZE = 0
    /\ USER_MMAP_START + INIT_STACK_SIZE <= USER_STACK_TOP

VARIABLES
    npage,     \* kmem.npage, the length of kmem.freelist
    proc,      \* the memory side of proc[]
    other,     \* pages that pipes hold, so that calls run out of memory anywhere
    outcome,   \* the call that was made last and how it ended
    calls,     \* how many calls were made
    dead       \* the kernel panicked, or went on with memory it had freed

memVars == <<npage, proc, other, outcome, calls, dead>>

---------------------------------------------------------------------------
\* kinit() and freerange(): every whole page between the two.
freerange == (RAMSTOP \div PGSIZE) - PGROUNDUP(kernel_end)

\* kalloc() and kfree(), where m.n counts the pages of kmem.freelist.
kalloc(m) == IF m.n = 0 THEN [m EXCEPT !.ok = FALSE] ELSE [m EXCEPT !.n = @ - 1, !.ok = TRUE]
kfree(m, k) == [m EXCEPT !.n = @ + k]

\* The pages of the addresses from lo to hi.
Span(lo, hi) == PGROUNDDOWN(lo) .. PGROUNDUP(hi) - 1

\* The page-table pages below the root that lead to a page: the levels of the
\* walk, with those that nothing shares in one.
TRAMPOLINE == USER_STACK_TOP
TablesOf(pg) ==
    IF pg >= PGROUNDUP(TRAMPOLINE) THEN <<"top">>
    ELSE IF pg < PGROUNDUP(HEAPEND) THEN <<"low", "heap">> ELSE <<"low", "areas">>

\* An address space in the making: free pages, tables, leaves, whether the
\* last step worked, and whether one found a page where it expects none (or
\* none where it expects one).
Space(n, s) == [n |-> n, tab |-> s.tab, leaf |-> s.leaf, ok |-> TRUE, panics |-> FALSE]
Empty == [tab |-> {}, leaf |-> {}]
Kept(m) == [tab |-> m.tab, leaf |-> m.leaf]

\* walk(.., alloc = 1): the missing tables, as far as the memory goes.
AddTables(m, miss) ==
    LET k == IF m.n < Len(miss) THEN m.n ELSE Len(miss)
    IN  [m EXCEPT !.n = @ - k, !.tab = @ \cup {miss[i] : i \in 1 .. k}, !.ok = k = Len(miss)]

walk(m, pg) == AddTables(m, SelectSeq(TablesOf(pg), LAMBDA t : t \notin m.tab))

\* kalloc() and mappages(): the page goes back if there is no table for it.
SetLeaf(w, pg) ==
    IF ~w.ok THEN kfree(w, 1)
    ELSE [w EXCEPT !.leaf = @ \cup {pg}, !.panics = @ \/ pg \in w.leaf]

mappages(m, pg) ==
    IF ~kalloc(m).ok THEN kalloc(m) ELSE SetLeaf(walk(kalloc(m), pg), pg)

\* uvmdealloc(), uvmdealloc1(), vmunmap(.., do_free = 1)
vmunmap(m, pgs) == [kfree(m, Cardinality(pgs)) EXCEPT !.leaf = @ \ pgs]

\* Pages lo to hi - 1, one after the other.
MapAll(m, lo, hi) ==
    LET upto[k \in Nat] ==
            IF k = 0 THEN [m EXCEPT !.ok = TRUE]
            ELSE IF upto[k - 1].ok THEN mappages(upto[k - 1], lo + k - 1) ELSE upto[k - 1]
    IN  IF hi <= lo THEN [m EXCEPT !.ok = TRUE] ELSE upto[hi - lo]

GiveBack(m, r) == IF r.ok THEN r ELSE vmunmap(r, r.leaf \ m.leaf)


\* The loop of uvmalloc(), uvmalloc1(), uvmcopy() and vma_map(): when the
\* memory runs out, what was mapped is unmapped and freed.
uvmalloc1(m, lo, hi) == GiveBack(m, MapAll(m, lo, hi))

---------------------------------------------------------------------------
(* The areas of a process: a list of pages, the head first, that starts    *)
(* with an empty area at USER_MMAP_START.                                  *)

Area(type, lo, hi, sz) == [type |-> type, lo |-> lo, hi |-> hi, sz |-> sz]
Anchor == Area("MMAP", USER_MMAP_START, USER_MMAP_START, 0)
ListPages(vma) == IF vma = NULL THEN 0 ELSE 1 + Len(vma)
Areas(vma) == IF vma = NULL THEN {} ELSE {vma[i] : i \in DOMAIN vma}
AreaPages(vma) == UNION {Span(a.lo, a.hi) : a \in Areas(vma)}

\* vma_init(): the head and the empty area.  When there is a page for one of
\* them only, p->vma points to the page that was given back.
vma_init(n) ==
    CASE n >= 2 -> [n |-> n - 2, vma |-> <<Anchor>>, ok |-> TRUE, dangling |-> FALSE]
      [] n = 1 -> [n |-> n, vma |-> NULL, ok |-> FALSE, dangling |-> TRUE]
      [] OTHER -> [n |-> n, vma |-> NULL, ok |-> FALSE, dangling |-> FALSE]

\* free_vma_list(): the pages of the areas that are mapped, and the list.
free_vma_list(m, vma) ==
    kfree(vmunmap(m, AreaPages(vma) \cap m.leaf), ListPages(vma))

\* alloc_vma(): the first area above, or the one the new area is in.  0: the
\* areas overlap.
Place(vma, lo, hi) ==
    LET below(i) == vma[i].hi <= lo
        k == 1 + Cardinality({i \in DOMAIN vma : \A j \in 1 .. i : ~(hi <= vma[j].lo) /\ below(j)})
    IN  CASE k > Len(vma) -> [at |-> k, old |-> FALSE]
          [] hi <= vma[k].lo -> [at |-> k, old |-> FALSE]
          [] lo >= vma[k].lo /\ hi <= vma[k].hi -> [at |-> k, old |-> TRUE]
          [] OTHER -> [at |-> 0, old |-> FALSE]

\* alloc_mmap_vma(): without an address, below the lowest area.
find_mmap_vma(vma) == vma[CHOOSE i \in DOMAIN vma : vma[i].type = "MMAP"
                              /\ \A j \in 1 .. i - 1 : vma[j].type # "MMAP"]

InsertAt(vma, i, a) == SubSeq(vma, 1, i - 1) \o <<a>> \o SubSeq(vma, i, Len(vma))

\* The page of the list is taken; r: the memory with the pages of the area.
AddArea(m, r, vma, i, a) ==
    IF ~kalloc(m).ok THEN [m |-> kalloc(m), vma |-> vma]
    ELSE IF ~r.ok THEN [m |-> kfree(r, 1), vma |-> vma]
    ELSE [m |-> r, vma |-> InsertAt(vma, i, a)]

\* An area of no bytes gets no page, although one that starts inside a page
\* ends at the end of that page.
WithPages(m, a) ==
    IF a.sz = 0 THEN kalloc(m) ELSE uvmalloc1(kalloc(m), PGROUNDDOWN(a.lo), PGROUNDUP(a.hi))

PutArea(m, vma, a, where) ==
    CASE where.at = 0 -> [m |-> [m EXCEPT !.ok = FALSE], vma |-> vma]
      [] where.old -> [m |-> [m EXCEPT !.ok = TRUE], vma |-> vma]
      [] OTHER -> AddArea(m, WithPages(m, a), vma, where.at, a)

alloc_vma(m, vma, addr, sz) ==
    LET lo == PGROUNDDOWN(addr) * PGSIZE  hi == PGROUNDUP(addr + sz) * PGSIZE
    IN  PutArea(m, vma, Area("MMAP", lo, hi, sz), Place(vma, lo, hi))

alloc_mmap_vma(m, vma, addr, sz) ==
    LET low == find_mmap_vma(vma).lo
    IN  alloc_vma(m, vma, IF addr = 0 /\ sz < low THEN PGROUNDDOWN(low - sz) * PGSIZE ELSE addr, sz)

\* alloc_vma_stack(): the last area.
Stack == Area("STACK", USER_STACK_TOP - INIT_STACK_SIZE, USER_STACK_TOP, INIT_STACK_SIZE)
alloc_vma_stack(m, vma) == AddArea(m, WithPages(m, Stack), vma, Len(vma) + 1, Stack)

---------------------------------------------------------------------------
\* proc_pagetable(): the root, a new list of areas (which replaces p->vma
\* whatever it was), the trampolines.
MapTrampolines(m, vma) ==
    [n |-> IF m.ok THEN m.n ELSE m.n + 1 + Cardinality(m.tab),
     vma |-> vma, ok |-> m.ok, dangling |-> FALSE, space |-> Kept(m)]

PageTable(n, vma, i) ==
    IF ~i.ok THEN [n |-> n, vma |-> vma, ok |-> FALSE, dangling |-> i.dangling, space |-> Empty]
    ELSE MapTrampolines(walk(Space(i.n, Empty), PGROUNDUP(TRAMPOLINE)), i.vma)

proc_pagetable(n, vma) ==
    IF n = 0 THEN [n |-> 0, vma |-> vma, ok |-> FALSE, dangling |-> FALSE, space |-> Empty]
    ELSE PageTable(n, vma, vma_init(n - 1))

\* proc_freepagetable(), uvmfree() and freewalk(): the pages below sz, then
\* the tables; leaves that are left over are not looked at.
\* Variant: the page that sz ends in is left mapped.
vproc_freepagetable(n, space, sz) ==
    n + 1 + Cardinality(space.tab) + Cardinality(space.leaf \cap (0 .. PGROUNDDOWN(sz) - 1))

proc_freepagetable(n, space, sz) ==
    n + 1 + Cardinality(space.tab) + Cardinality(space.leaf \cap Span(0, sz))

\* What freeproc() would find of a process.
Held(q) ==
    (IF q.trapframe THEN 1 ELSE 0) + (IF q.exec_close = "own" THEN 1 ELSE 0)
        + (IF q.space = NULL THEN 0 ELSE 1 + Cardinality(q.space.tab) + Cardinality(q.space.leaf))
        + ListPages(q.vma)

Unused == [state |-> "unused", trapframe |-> FALSE, exec_close |-> "never",
           space |-> NULL, vma |-> NULL, sz |-> 0]

\* freeproc(): exec_close is not forgotten.
FreeTable(m, sz) ==
    [n |-> proc_freepagetable(m.n, Kept(m), sz) + 2, q |-> [Unused EXCEPT !.exec_close = "stale"]]

freeproc(n, q) == FreeTable(free_vma_list(Space(n, q.space), q.vma), q.sz)

\* allocproc(): the trapframe, the page table, exec_close.  end: how it ends.
\* When there is no page table, freeproc() frees the exec_close of the last
\* process in the slot again (or panics on NULL); when there is no page for
\* exec_close, it is written to nevertheless.
WithTable(q, t) ==
    IF ~t.ok \/ t.n = 0 THEN [n |-> t.n, q |-> q, end |-> "dead"]
    ELSE [n |-> t.n - 1, end |-> "ok",
          q |-> [state |-> "used", trapframe |-> TRUE, exec_close |-> "own",
                 space |-> t.space, vma |-> t.vma, sz |-> 0]]

allocproc(n, q) ==
    IF n = 0 THEN [n |-> 0, q |-> q, end |-> "none"] ELSE WithTable(q, proc_pagetable(n - 1, NULL))

---------------------------------------------------------------------------
(* The calls.                                                              *)

Alive(p) == dead = FALSE /\ calls < Calls /\ proc[p].state = "used"
Ends(how) == outcome' = [how |-> how, args |-> 0] /\ calls' = calls + 1
Dies == dead' = TRUE /\ UNCHANGED <<npage, proc, other>>
Lives == UNCHANGED dead

\* growproc(), to a size.
Resize(m, sz, size) ==
    IF size >= sz THEN uvmalloc1(m, PGROUNDUP(sz), PGROUNDUP(size))
    ELSE vmunmap(m, PGROUNDUP(size) .. PGROUNDUP(sz) - 1)

growproc(p, size) ==
    \E m \in {Resize(Space(npage, proc[p].space), proc[p].sz, size)} :
        IF m.panics THEN Dies /\ Ends("remap")
        ELSE /\ npage' = m.n
             /\ proc' = [proc EXCEPT ![p].space = Kept(m), ![p].sz = IF m.ok THEN size ELSE @]
             /\ Ends(IF m.ok THEN "grown" ELSE "no memory")
             /\ Lives /\ UNCHANGED other

sys_sbrk(p) ==
    /\ Alive(p)
    /\ \E size \in 0 .. MaxSz \ {proc[p].sz} : growproc(p, size)

\* sys_brk() does not shrink.
sys_brk(p) ==
    /\ Alive(p)
    /\ \E size \in proc[p].sz + 1 .. MaxSz : growproc(p, size)

\* sys_mmap(): without MAP_FIXED the area is used before it is tested.
Mapping(q, addr, len) ==
    IF q.vma = NULL THEN NULL ELSE alloc_mmap_vma(Space(npage, q.space), q.vma, addr, len)

mmap(p) ==
    /\ Alive(p)
    /\ \E fixed \in BOOLEAN, addr \in {0, HEAPEND, HEAPEND + 1}, len \in Lengths :
       \E r \in {Mapping(proc[p], addr, len)} :
        /\ fixed => addr # 0
        /\ ListPages(proc[p].vma) <= MaxAreas
        /\ IF r = NULL THEN Dies /\ Ends("no areas")
           ELSE IF r.m.panics \/ (~r.m.ok /\ ~fixed) THEN Dies /\ Ends("no area")
           ELSE /\ npage' = r.m.n
                /\ proc' = [proc EXCEPT ![p].space = Kept(r.m), ![p].vma = r.vma]
                /\ Ends(IF r.m.ok THEN "mapped" ELSE "no memory")
                /\ Lives /\ UNCHANGED other

\* vma_map(): the pages of an area, which the parent must have.
vma_map(m, leaf, a) ==
    IF Span(a.lo, a.hi) \subseteq leaf
    THEN uvmalloc1(m, PGROUNDDOWN(a.lo), PGROUNDUP(a.hi))
    ELSE [m EXCEPT !.ok = FALSE, !.panics = TRUE]

\* Area by area, after vma_copy() has copied the list.
CopyAreas(m, leaf, vma) ==
    LET upto[i \in Nat] ==
            IF i = 0 THEN m
            ELSE IF upto[i - 1].ok THEN vma_map(upto[i - 1], leaf, vma[i]) ELSE upto[i - 1]
    IN  upto[Len(vma)]

\* The end of fork(): m is the memory after uvmcopy(), c the child.
ForkAreas(c, q, child, m) ==
    CASE m.n > 0 /\ q.vma = NULL -> Dies /\ Ends("no areas")
      [] m.n = 0 \/ m.n < ListPages(q.vma) ->       \* the child goes on without areas
           /\ npage' = 0
           /\ proc' = [proc EXCEPT ![c] = [child EXCEPT !.space = Kept(m), !.vma = NULL, !.sz = q.sz]]
           /\ Ends("areas lost") /\ Lives /\ UNCHANGED other
      [] OTHER ->
           \E full \in {CopyAreas([m EXCEPT !.n = @ - ListPages(q.vma)], q.space.leaf, q.vma)} :
             IF full.panics THEN Dies /\ Ends("page missing")
             ELSE IF ~full.ok THEN Dies /\ Ends("slot locked")   \* np->lock is never released
             ELSE /\ npage' = full.n
                  /\ proc' = [proc EXCEPT ![c] = [child EXCEPT !.space = Kept(full), !.vma = q.vma,
                                                               !.sz = q.sz]]
                  /\ Ends("forked") /\ Lives /\ UNCHANGED other

\* uvmcopy() in the new process.
ForkMemory(c, q, child, m) ==
    IF m.ok THEN ForkAreas(c, q, child, m)
    ELSE \E undone \in {freeproc(m.n, [child EXCEPT !.space = Kept(m)])} :
           /\ npage' = undone.n
           /\ proc' = [proc EXCEPT ![c] = undone.q]
           /\ Ends("no memory") /\ Lives /\ UNCHANGED other

\* fork() and clone().
fork(p) ==
    \E c \in Procs : \E a \in {allocproc(npage, proc[c])} :
        /\ Alive(p) /\ proc[c].state = "unused"
        /\ CASE a.end = "dead" -> Dies /\ Ends("no memory for a process")
             [] a.end = "none" -> Ends("no memory") /\ Lives /\ UNCHANGED <<npage, proc, other>>
             [] OTHER ->
                  \E m \in {uvmalloc1(Space(a.n, a.q.space), 0, PGROUNDUP(proc[p].sz))} :
                    ForkMemory(c, proc[p], a.q, m)

\* exit() keeps the memory; wait() frees it.
exit(p) ==
    /\ Alive(p) /\ p # Init0
    /\ proc' = [proc EXCEPT ![p].state = "zombie"]
    /\ Ends("exit") /\ Lives /\ UNCHANGED <<npage, other>>

wait(p) ==
    /\ dead = FALSE /\ calls < Calls /\ proc[p].state = "zombie"
    /\ \E r \in {freeproc(npage, proc[p])} :
        /\ npage' = r.n
        /\ proc' = [proc EXCEPT ![p] = r.q]
        /\ Ends("freed") /\ Lives /\ UNCHANGED other

---------------------------------------------------------------------------
(* sys_exec(), sys_execve() and exec(): a page for each argument, then     *)

\* free_vma_list() and vma_init(), before anything is tested.
exec_areas(m) == [n |-> m.n, space |-> Kept(m), init |-> vma_init(m.n)]

\* loadelf(), load_elf_interp() and alloc_vma_stack() in the new page table.
\* lib: the pages of the interpreter, 0 for a static program.
LoadLib(m, vma, lib) ==
    IF lib = 0 \/ ~m.ok THEN [m |-> m, vma |-> vma] ELSE alloc_mmap_vma(m, vma, 0, lib * PGSIZE)

LoadStack(r) == IF r.m.ok THEN alloc_vma_stack(r.m, r.vma) ELSE r

exec_load(t, size, lib) ==
    LoadStack(LoadLib(uvmalloc1(Space(t.n, t.space), 0, PGROUNDUP(size)), t.vma, lib))

\* The program is in the file; q: the process without its old areas.
ExecLoad(p, q, args, t, size, lib, fits) ==
    \E x \in {exec_load(t, size, lib)} :
        IF ~(x.m.ok /\ ~x.m.panics /\ size # 0 /\ fits)
        THEN Dies /\ Ends("page table freed")         \* it is p->pagetable
        ELSE /\ npage' = proc_freepagetable(x.m.n, q.space, q.sz) + args
             /\ proc' = [proc EXCEPT ![p] = [q EXCEPT !.space = Kept(x.m), !.vma = x.vma,
                                                      !.sz = PGROUNDUP(size) * PGSIZE]]
             /\ Ends("exec") /\ Lives /\ UNCHANGED other

\* The file was found; n: the free pages before proc_pagetable().
ExecTable(p, q, args, n, size, lib, fits) ==
    \E t \in {proc_pagetable(n, q.vma)} :
        CASE t.ok -> ExecLoad(p, q, args, t, size, lib, fits)
          [] ~t.ok /\ t.dangling -> Dies /\ Ends("areas freed")
          [] OTHER -> /\ npage' = t.n + args
                      /\ proc' = [proc EXCEPT ![p] = [q EXCEPT !.vma = t.vma]]
                      /\ Ends(IF t.n = n THEN "no memory" ELSE "list replaced")
                      /\ Lives /\ UNCHANGED other

\* A path that ends in ".sh": exec() ends the process, and does not come back
\* to where the pages of the arguments are freed.
exec_script(p, q, args, n) ==
    IF p = Init0 THEN Dies /\ Ends("init exiting")
    ELSE /\ npage' = n
         /\ proc' = [proc EXCEPT ![p] = [q EXCEPT !.state = "zombie"]]
         /\ outcome' = [how |-> "script", args |-> args] /\ calls' = calls + 1
         /\ Lives /\ UNCHANGED other

\* When there is no page for an argument, the ones taken are given back.
exec(p) ==
    \E file \in {"script", "missing", "program"}, args \in 0 .. MaxArgs,
       fits \in BOOLEAN, size \in 0 .. MaxSz, lib \in 0 .. 1 :
        /\ Alive(p)
        /\ file # "program" => fits /\ size = 0 /\ lib = 0
        /\ IF npage < args THEN Ends("no memory") /\ Lives /\ UNCHANGED <<npage, proc, other>>
           ELSE \E a \in {exec_areas(free_vma_list(Space(npage - args, proc[p].space), proc[p].vma))} :
                \E q \in {[proc[p] EXCEPT !.space = a.space, !.vma = a.init.vma]} :
                  CASE a.init.dangling -> Dies /\ Ends("areas freed")
                    [] ~a.init.dangling /\ file = "script" -> exec_script(p, q, args, a.init.n)
                    [] ~a.init.dangling /\ file = "program" ->
                         ExecTable(p, q, args, a.init.n, size, lib, fits)
                    [] OTHER -> /\ npage' = a.init.n + args
                                /\ proc' = [proc EXCEPT ![p] = q]
                                /\ Ends("not found") /\ Lives /\ UNCHANGED other

---------------------------------------------------------------------------
\* kinit() and userinit(): one page of program and a stack.
MemoryInit ==
    /\ other \in 0 .. MaxOther
    /\ \E a \in {allocproc(freerange - other, Unused)} :
       \E s \in {alloc_vma_stack(uvmalloc1(Space(a.n, a.q.space), 0, 1), a.q.vma)} :
        /\ npage = s.m.n
        /\ proc = [p \in Procs |->
                     IF p = Init0 THEN [a.q EXCEPT !.space = Kept(s.m), !.vma = s.vma, !.sz = PGSIZE]
                     ELSE Unused]
        /\ outcome = [how |-> "boot", args |-> 0] /\ calls = 0
        /\ dead = FALSE

MemoryNext ==
    \E p \in Procs : sys_sbrk(p) \/ sys_brk(p) \/ mmap(p) \/ fork(p) \/ exit(p) \/ wait(p) \/ exec(p)

MemorySpec == MemoryInit /\ [][MemoryNext]_memVars

---------------------------------------------------------------------------
\* Pages that nobody will ever free.
Lost ==
    LET sum[S \in SUBSET Procs] ==
            IF S = {} THEN 0
            ELSE LET p == CHOOSE p \in S : TRUE IN Held(proc[p]) + sum[S \ {p}]
    IN  freerange - npage - other - sum[Procs]


\* No call loses or invents a page, whether it succeeds or runs out of memory
\* at any of its allocations, except for the lists of areas that vma_copy()
\* and proc_pagetable() put in the place of another: two pages for each fork
\* and each exec, and what vma_copy() leaves when it gives up; and for the
\* pages of the arguments of a script, one each, since exec() ends the process
\* before sys_exec() frees them.
PagesAccounted ==
    [][dead' \/ Lost' - Lost \in (CASE outcome'.how \in {"forked", "exec", "list replaced"} -> {2}
                                    [] outcome'.how = "areas lost" -> 2 .. MaxAreas + 2
                                    [] outcome'.how = "script" -> {outcome'.args}
                                    [] OTHER -> {0})]_memVars

\* The bytes of Bytes(a, n) up to the first that is not mapped for the user.
Mapped(leaf, a, n) ==
    Bytes(a, Cardinality({i \in 1 .. n : \A j \in 1 .. i :
                              a + j <= MAXVA /\ PGROUNDDOWN(a + j - 1) \in leaf}))

Moves(c, leaf, a, n) ==
    /\ c.got = Mapped(leaf, a, n)
    /\ c.end = IF Len(c.got) = n THEN "ok" ELSE "fault"


=============================================================================
