----------------------------- MODULE Namespace -----------------------------
(***************************************************************************)
(* Paths and the directory tree: lookup_path() and new_create() of         *)
(* fat32.c, create(), sys_unlinkat(), sys_rename(), sys_renameat2() and    *)
(* sys_getcwd() of sysfile.c, run by several processes at once.            *)
(*                                                                         *)
(* A step takes at most one sleep lock and runs until the next one: what   *)
(* happens between two elock() calls happens under the locks held.  An     *)
(* entry is in memory (parent, name, valid) and on disk (slot): both are   *)
(* kept, because sys_rename() changes them at different times.             *)
(* A file has one entry in memory, itself, unless a lookup meets it between *)
(* the two halves of a rename and makes another (file).  References are    *)
(* the matter of EntryCache and Files.                                     *)
(***************************************************************************)
EXTENDS Integers, Sequences

CONSTANTS
    Threads, Root, Dirs, Spare,  \* processes; root; directories; free entries
    Names, MaxDepth,             \* names; components of a path
    Calls,                       \* bound: calls that are made altogether
    NULL

Nodes == {Root} \cup Dirs \cup Spare

ASSUME NamespaceAssumption ==
    /\ Root \notin Dirs \cup Spare /\ Dirs \cap Spare = {} /\ NULL \notin Nodes \cup Threads
    /\ MaxDepth \in Nat \ {0} /\ Calls \in Nat

Paths == UNION {[1 .. n -> Names] : n \in 1 .. MaxDepth}

VARIABLES
    parent, name, dir, valid,  \* the fields of struct dirent
    file,       \* what an entry is an entry of: itself, or the file it doubles
    slot,       \* slot[d][x]: what directory d has on disk under the name x
    lock,       \* the process that holds entry->lock
    cwd, at,    \* working directories; what each process is doing
    calls,      \* how many calls were made
    panicked,   \* the kernel has stopped
    undefined   \* ghost: one of the three things that PathLeadsHome excepts

treeVars == <<parent, name, dir, valid, file, slot>>
nsVars == <<treeVars, lock, cwd, at, calls, panicked, undefined>>

Idle == [op |-> "idle"]
Goto(t, where) == at' = [at EXCEPT ![t] = where]
Free(n) == lock[n] = NULL
Unlock(ns) == lock' = [n \in Nodes |-> IF n \in ns THEN NULL ELSE lock[n]]
NoLock == UNCHANGED lock
NoTree == UNCHANGED treeVars

---------------------------------------------------------------------------
\* What dirlookup() may return: an entry in the cache; for a file that is on
\* disk, and in the cache under another name or parent, an entry that was free;
\* or nothing.
Cached(d, x) == {n \in Nodes : valid[n] = 1 /\ parent[n] = d /\ name[n] = x}
Fresh == {n \in Spare : valid[n] = 0}

dirlookup(d, x) ==
    CASE valid[d] # 1 -> {NULL}
      [] valid[d] = 1 /\ Cached(d, x) # {} -> Cached(d, x)
      [] valid[d] = 1 /\ Cached(d, x) = {} /\ slot[file[d]][x] = NULL -> {NULL}
      [] OTHER -> Fresh

\* dirlookup() returns n: an entry that was free becomes the second of a file.
eget(d, x, n) ==
    IF valid[n] # 0 THEN NoTree /\ UNCHANGED undefined
    ELSE /\ parent' = [parent EXCEPT ![n] = d]
         /\ name' = [name EXCEPT ![n] = x]
         /\ dir' = [dir EXCEPT ![n] = dir[slot[file[d]][x]]]
         /\ valid' = [valid EXCEPT ![n] = 1]
         /\ file' = [file EXCEPT ![n] = slot[file[d]][x]]
         /\ UNCHANGED slot
         /\ undefined' = TRUE

\* isdirempty()
isdirempty(d) == valid[d] # 1 \/ \A x \in Names : slot[file[d]][x] = NULL

\* Is another process in a rename, from its search of the ancestors on?
Checked == {"rename", "locked", "over", "empty", "moving"}
Overlaps(t) == \E u \in Threads \ {t} : at[u].op \in Checked

\* A call that fails in a lookup.  sys_renameat2() tests srclock, which it has
\* not set: eunlock() panics on an entry that is not locked.
Fails(t, call) ==
    /\ Goto(t, Idle)
    /\ panicked' \in IF call = "rename" THEN BOOLEAN ELSE {FALSE}

---------------------------------------------------------------------------
\* lookup_path(), one component: the directory is locked, searched, unlocked.
\* rest: the components to go; what: the call, with its own arguments.
Begin(t) ==
    \E op \in {"unlink", "open", "mkdir", "rename"}, path, new \in Paths,
       from \in {Root, cwd[t]} :
        /\ at[t] = Idle
        /\ calls < Calls
        /\ op # "rename" => new = path
        /\ calls' = calls + 1
        /\ Goto(t, [op |-> "look", cur |-> from, rest |-> path, call |-> op,
                    from |-> from, path |-> path, new |-> new, src |-> NULL])
        /\ UNCHANGED <<treeVars, lock, cwd, panicked, undefined>>

\* How many components of the path are left when the lookup stops: one for
\* enameparent().
Stop(a) == IF a.call \in {"open", "mkdir"} \/ a.src # NULL THEN 1 ELSE 0

lookup_path(t) ==
    LET a == at[t]
        x == Head(a.rest)
    IN  /\ a.op = "look"
        /\ Len(a.rest) > Stop(a)
        /\ Free(a.cur) /\ NoLock
        /\ \E n \in IF dir[a.cur] THEN dirlookup(a.cur, x) ELSE {NULL} :
             CASE n # NULL ->
                    /\ eget(a.cur, x, n)
                    /\ Goto(t, [a EXCEPT !.cur = n, !.rest = Tail(@)])
                    /\ UNCHANGED panicked
               [] n = NULL /\ dir[a.cur] /\ a.call \in {"open", "mkdir"} ->
                    /\ Goto(t, [a EXCEPT !.op = "create"])   \* the missing parents
                    /\ NoTree /\ UNCHANGED <<panicked, undefined>>
               [] OTHER -> Fails(t, a.call) /\ NoTree /\ UNCHANGED undefined
        /\ UNCHANGED <<cwd, calls>>

\* The lookup is over: on with the call.  sys_unlinkat() leaves files whose path
\* begins with "/tmp/testsuite-" alone; which names these are is left open.
\* enameparent() looks at the last directory under its lock.
Found(t) ==
    LET a == at[t]
    IN  /\ a.op = "look"
        /\ Len(a.rest) = Stop(a)
        /\ CASE a.call = "unlink" ->
                    /\ UNCHANGED panicked
                    /\ \/ Goto(t, [op |-> "unlink", ep |-> a.cur])
                       \/ Goto(t, Idle)
             [] a.call \in {"open", "mkdir"} -> Goto(t, [a EXCEPT !.op = "create"]) /\ UNCHANGED panicked
             [] a.call = "rename" /\ a.src = NULL ->
                    /\ Goto(t, [a EXCEPT !.src = a.cur, !.cur = a.from, !.rest = a.new])
                    /\ UNCHANGED panicked
             [] OTHER ->
                    /\ Free(a.cur)
                    /\ IF dir[a.cur]
                       THEN /\ Goto(t, [op |-> "check", src |-> a.src, pdst |-> a.cur, new |-> Head(a.rest)])
                            /\ UNCHANGED panicked
                       ELSE Fails(t, a.call)
        /\ UNCHANGED <<treeVars, lock, cwd, calls, undefined>>

---------------------------------------------------------------------------
\* ealloc() and the rest of create(): dp is locked, the entry is looked up
\* or made, dp is unlocked.  With components left the entry is the directory
\* for the next one; open() and mkdir() lock and unlock the last.
OrFresh(found) == IF found # {NULL} THEN found ELSE IF Fresh # {} THEN Fresh ELSE {NULL}

\* Variant: a directory that was removed is not noticed.
vealloc(d, x) == OrFresh(dirlookup(d, x))

ealloc(d, x) == IF valid[d] # 1 THEN {NULL} ELSE OrFresh(dirlookup(d, x))

NewEntry(d, x, n, isdir) ==
    /\ parent' = [parent EXCEPT ![n] = d]
    /\ name' = [name EXCEPT ![n] = x]
    /\ dir' = [dir EXCEPT ![n] = isdir]
    /\ valid' = [valid EXCEPT ![n] = 1]
    /\ slot' = [slot EXCEPT ![file[d]][x] = n]
    /\ UNCHANGED <<file, undefined>>

create(t) ==
    LET a == at[t]
        x == Head(a.rest)
        last == Len(a.rest) = 1
        isdir == ~last \/ a.call = "mkdir"
        next(n) == IF last THEN [op |-> "opened", ep |-> n] ELSE [a EXCEPT !.cur = n, !.rest = Tail(@)]
    IN  /\ a.op = "create"
        /\ Free(a.cur) /\ NoLock
        /\ \E n \in IF dir[a.cur] THEN ealloc(a.cur, x) ELSE {NULL} :
             CASE n = NULL -> NoTree /\ UNCHANGED undefined /\ Goto(t, Idle)
               [] n # NULL /\ dirlookup(a.cur, x) # {NULL} ->
                    eget(a.cur, x, n) /\ Goto(t, IF dir'[n] = isdir THEN next(n) ELSE Idle)
               [] OTHER -> NewEntry(a.cur, x, n, isdir) /\ Goto(t, next(n))
        /\ UNCHANGED <<cwd, calls, panicked>>

create_done(t) ==
    /\ at[t].op = "opened"
    /\ Free(at[t].ep)
    /\ Goto(t, Idle)
    /\ UNCHANGED <<treeVars, lock, cwd, calls, panicked, undefined>>

---------------------------------------------------------------------------
\* Variant of unlink_lock: the parent is locked first.
vunlink_lock(t) ==
    LET e == at[t].ep
    IN  /\ at[t].op = "unlink"
        /\ parent[e] # NULL /\ Free(parent[e])
        /\ Goto(t, [op |-> "opened", ep |-> e])
        /\ lock' = [lock EXCEPT ![parent[e]] = t]
        /\ UNCHANGED <<treeVars, cwd, calls, panicked, undefined>>

\* sys_unlinkat() and sys_remove(): the entry, then its parent.
unlink_lock(t) ==
    LET e == at[t].ep
    IN  /\ at[t].op = "unlink"
        /\ Free(e)
        /\ IF dir[e] /\ ~isdirempty(e)
           THEN Goto(t, Idle) /\ NoLock
           ELSE Goto(t, [op |-> "remove", ep |-> e]) /\ lock' = [lock EXCEPT ![e] = t]
        /\ UNCHANGED <<treeVars, cwd, calls, panicked, undefined>>

eremove(e) ==
    IF valid[e] # 1 THEN UNCHANGED <<valid, slot>>
    ELSE /\ valid' = [valid EXCEPT ![e] = -1]
         /\ slot' = [slot EXCEPT ![file[parent[e]]][name[e]] = NULL]

unlink_remove(t) ==
    LET e == at[t].ep
    IN  /\ at[t].op = "remove"
        /\ Free(parent[e])
        /\ eremove(e)
        /\ Unlock({e})
        /\ Goto(t, Idle)
        /\ UNCHANGED <<parent, name, dir, file, cwd, calls, panicked, undefined>>

---------------------------------------------------------------------------
(* sys_rename() and sys_renameat2().                                       *)

\* n and what is above it: the entries in every set that holds n and the
\* parents of its members.
Above(n) ==
    {m \in Nodes : \A S \in SUBSET Nodes :
        n \in S /\ (\A k \in S : parent[k] \in S \cup {NULL}) => m \in S}

rename_check(t) ==
    LET a == at[t]
    IN  /\ a.op = "check"
        /\ IF a.src \in Above(a.pdst) THEN Fails(t, "rename")
           ELSE Goto(t, [a EXCEPT !.op = "rename"]) /\ UNCHANGED panicked
        /\ UNCHANGED <<treeVars, lock, cwd, calls, undefined>>

rename_src(t) ==
    /\ at[t].op = "rename"
    /\ Free(at[t].src)
    /\ lock' = [lock EXCEPT ![at[t].src] = t]
    /\ Goto(t, [at[t] EXCEPT !.op = "locked"])
    /\ UNCHANGED <<treeVars, cwd, calls, panicked, undefined>>

\* What directory d may hold after emake() has written n under the name x.  At
\* an offset that was never set, it may write over other entries of d, or where
\* no search finds what it wrote.
emake(d, x, n, offset) ==
    {[y \in Names |-> IF y \in lost THEN NULL ELSE IF y = x THEN n ELSE slot[d][y]] :
        lost \in IF offset THEN {{}} ELSE SUBSET Names}

\* memmove() of the name, emake() in the new directory; then the entry goes
\* from the old directory, which has to be locked unless it is the same.
\* An entry that was removed since it was looked up has no old place, and is
\* valid again.  gone: the empty directory that is overwritten, or NULL;
\* c: what the new directory then holds.
Move(t, a, gone, offset, c) ==
    LET here == parent[a.src] = a.pdst
        put == [slot EXCEPT ![file[a.pdst]] = c]
    IN  /\ undefined' = (undefined \/ Overlaps(t) \/ ~offset)
        /\ name' = [name EXCEPT ![a.src] = a.new]
        /\ slot' = IF here /\ valid[a.src] = 1 THEN [put EXCEPT ![file[a.pdst]][name[a.src]] = NULL] ELSE put
        /\ valid' = [n \in Nodes |-> IF here /\ n = a.src THEN 1 ELSE IF n = gone THEN -1 ELSE valid[n]]
        /\ IF here
           THEN Unlock({a.src, a.pdst, gone}) /\ Goto(t, Idle)
           ELSE /\ lock' = [n \in Nodes |-> IF n \in {a.pdst, gone} THEN NULL
                                            ELSE IF n = a.src THEN t ELSE lock[n]]
                /\ Goto(t, [op |-> "moving", src |-> a.src, pdst |-> a.pdst, old |-> name[a.src]])
        /\ UNCHANGED <<parent, dir, file, cwd, calls, panicked>>

\* dirlookup() sets off only when it has searched all of pdst.  emake() panics
\* on one that is not the offset of an entry.
Place(t, a, gone) ==
    LET offset == gone = NULL /\ valid[a.pdst] = 1
    IN  \/ \E c \in emake(file[a.pdst], a.new, file[a.src], offset) : Move(t, a, gone, offset, c)
        \/ /\ ~offset /\ panicked' = TRUE
           /\ UNCHANGED <<treeVars, lock, cwd, at, calls, undefined>>

rename_pdst(t) ==
    LET a == at[t]
    IN  /\ a.op = "locked"
        /\ Free(a.pdst)
        /\ \E dst \in dirlookup(a.pdst, a.new) :
             IF dst = NULL THEN Place(t, a, NULL)
             ELSE /\ eget(a.pdst, a.new, dst)
                  /\ IF dst # a.src /\ dir'[dst] /\ dir[a.src]
                     THEN Goto(t, [op |-> "over", src |-> a.src, pdst |-> a.pdst,
                                   new |-> a.new, dst |-> dst]) /\ NoLock
                     ELSE Goto(t, Idle) /\ Unlock({a.src})
                  /\ UNCHANGED <<cwd, calls, panicked>>

\* It is ok to overwrite an empty directory: dst and then pdst again.
rename_over(t) ==
    LET a == at[t]
    IN  /\ a.op = "over"
        /\ Free(a.dst)
        /\ IF isdirempty(a.dst)
           THEN Goto(t, [a EXCEPT !.op = "empty"]) /\ lock' = [lock EXCEPT ![a.dst] = t]
           ELSE Goto(t, Idle) /\ Unlock({a.src})
        /\ UNCHANGED <<treeVars, cwd, calls, panicked, undefined>>

rename_remove(t) ==
    /\ at[t].op = "empty"
    /\ Free(at[t].pdst)
    /\ Place(t, at[t], at[t].dst)

rename_done(t) ==
    LET a == at[t]
    IN  /\ a.op = "moving"
        /\ Free(parent[a.src])
        /\ slot' = IF valid[a.src] = 1 THEN [slot EXCEPT ![file[parent[a.src]]][a.old] = NULL] ELSE slot
        /\ valid' = [valid EXCEPT ![a.src] = 1]
        /\ parent' = [parent EXCEPT ![a.src] = a.pdst]
        /\ Unlock({a.src})
        /\ undefined' = (undefined \/ Overlaps(t))
        /\ Goto(t, Idle)
        /\ UNCHANGED <<name, dir, file, cwd, calls, panicked>>

---------------------------------------------------------------------------
\* A tree of directories that have a free name; every process is in one.
NamespaceInit ==
    /\ \E nm \in [Dirs -> Names], up \in [Dirs -> {Root} \cup Dirs] :
         /\ \A c, d \in Dirs : up[c] = up[d] /\ nm[c] = nm[d] => c = d
         /\ \A d \in Dirs : IF up[d] = Root THEN TRUE ELSE up[up[d]] = Root
         /\ name = [n \in Nodes |-> IF n \in Dirs THEN nm[n] ELSE NULL]
         /\ parent = [n \in Nodes |-> IF n \in Dirs THEN up[n] ELSE NULL]
         /\ slot = [d \in Nodes |-> [x \in Names |->
                LET at_x == {c \in Dirs : up[c] = d /\ nm[c] = x}
                IN  IF at_x = {} THEN NULL ELSE CHOOSE c \in at_x : TRUE]]
    /\ dir = [n \in Nodes |-> n \notin Spare]
    /\ valid = [n \in Nodes |-> IF n \in Spare THEN 0 ELSE 1]
    /\ lock = [n \in Nodes |-> NULL]
    /\ cwd \in [Threads -> {Root} \cup Dirs]
    /\ at = [t \in Threads |-> Idle]
    /\ file = [n \in Nodes |-> n]
    /\ calls = 0 /\ panicked = FALSE /\ undefined = FALSE

Step(t) ==
    \/ Begin(t) \/ lookup_path(t) \/ Found(t)
    \/ create(t) \/ create_done(t)
    \/ unlink_lock(t) \/ unlink_remove(t)
    \/ rename_check(t) \/ rename_src(t) \/ rename_pdst(t)
    \/ rename_over(t) \/ rename_remove(t) \/ rename_done(t)

NamespaceNext == ~panicked /\ \E t \in Threads : Step(t)

NamespaceSpec == NamespaceInit /\ [][NamespaceNext]_nsVars

---------------------------------------------------------------------------
\* sys_getcwd(): the names on the way up, which it follows without a lock.
getcwd(n) ==
    LET up[k \in Nat] == IF k = 0 THEN <<n, <<>>>>
                         ELSE LET m == up[k - 1]
                              IN  IF m[1] \in {Root, NULL} THEN m
                                  ELSE <<parent[m[1]], <<name[m[1]]>> \o m[2]>>
    IN  up[MaxDepth + 2]

\* Following a path from the root on disk.
Walk(path) ==
    LET to[k \in 0 .. Len(path)] ==
            IF k = 0 THEN Root ELSE IF to[k - 1] = NULL THEN NULL ELSE slot[to[k - 1]][path[k]]
    IN  to[Len(path)]

InRename(t) == at[t].op \in {"locked", "over", "empty", "moving"}

Underway(n) == \E t \in Threads : at[t].op = "moving" /\ at[t].src = n

\* The path that sys_getcwd() computes for an entry that was not removed leads
\* to that entry, unless the entry or one above it is between the two halves of
\* a rename: however lookups, creations of missing parents, removals and a
\* rename interleave, nothing is created in a removed directory, no directory
\* that is removed has entries, no name is given twice.  Excepted, and for good,
\* is a tree in which (undefined)
\*   1. two renames overlapped: one changed the tree while the other was between
\*      its search of the ancestors and its end;
\*   2. a rename wrote at an offset that it never set, because the new name was
\*      that of an empty directory, which it overwrites, or because the new
\*      directory was removed before the rename had it locked;
\*   3. a lookup met a file between the two halves of a rename, under the old
\*      name or under the new one, and made a second entry for it: the path of
\*      the one with the old name leads nowhere when the rename is over.
PathLeadsHome ==
    ~undefined =>
        \A n \in Nodes :
            valid[n] = 1 /\ (\A t \in Threads : at[t].op = "moving" => at[t].src \notin Above(n)) =>
                LET up == getcwd(n)
                IN  up[1] = Root /\ Walk(up[2]) = n

Wants(t) ==
    LET a == at[t]
    IN  CASE a.op = "look" /\ (Len(a.rest) > Stop(a) \/ a.src # NULL) -> a.cur
          [] a.op = "create" -> a.cur
          [] a.op \in {"opened", "unlink"} -> a.ep
          [] a.op = "remove" -> parent[a.ep]
          [] a.op = "rename" -> a.src
          [] a.op \in {"locked", "empty"} -> a.pdst
          [] a.op = "over" -> a.dst
          [] a.op = "moving" -> parent[a.src]
          [] OTHER -> NULL

\* "elock(ep->parent); // Will this lead to deadlock?": lookups, creations and
\* removals never wait for each other's entry locks in a circle, nor with a
\* single rename, whatever it searched before the others changed the tree: it
\* takes two renames, in the circle or before it, or one that went wrong (the
\* exceptions 2 and 3 of PathLeadsHome).
CycleNeedsTwoRenames ==
    \A ts \in SUBSET Threads :
        (ts # {} /\ \A t \in ts : Wants(t) # NULL /\ lock[Wants(t)] \in ts)
            => undefined \/ \E t, u \in ts : t # u /\ InRename(t) /\ InRename(u)

---------------------------------------------------------------------------
(* The inductive invariant *)

\* The entries that exist, or did: all but the spare ones still free.
Known == {n \in Nodes : valid[n] # 0}

\* What a process may be doing with entries of the set N.
Doing(N) ==
    {Idle}
    \cup [op : {"look", "create"}, cur : N, rest : Seq(Names), from : N, path : Paths, new : Paths,
           call : {"unlink", "open", "mkdir", "rename"}, src : N \cup {NULL}]
    \cup [op : {"opened", "unlink", "remove"}, ep : N]
    \cup [op : {"check", "rename", "locked"}, src : N, pdst : N, new : Names]
    \cup [op : {"over", "empty"}, src : N, pdst : N, new : Names, dst : N]
    \cup [op : {"moving"}, src : N, pdst : N, old : Names \cup {NULL}]

NamespaceTypeOK ==
    /\ parent \in [Nodes -> Known \cup {NULL}] /\ name \in [Nodes -> Names \cup {NULL}]
    /\ dir \in [Nodes -> BOOLEAN] /\ valid \in [Nodes -> {-1, 0, 1}]
    /\ file \in [Nodes -> Nodes] /\ \A n \in Nodes : file[n] \in Known \cup {n}
    /\ slot \in [Nodes -> [Names -> Known \cup {NULL}]]
    /\ lock \in [Nodes -> Threads \cup {NULL}] /\ cwd \in [Threads -> Known]
    /\ at \in [Threads -> Doing(Known)] /\ panicked \in BOOLEAN /\ undefined \in BOOLEAN
    /\ Root \in Known
    /\ \A t \in Threads : /\ at[t].op = "create" => at[t].rest # <<>>
                          /\ at[t].op \in {"over", "empty"} => at[t].dst # at[t].src

\* The entries that a process has locked, by what it is doing.
Held(a) ==
    CASE a.op = "remove" -> {a.ep}
      [] a.op \in {"locked", "over", "moving"} -> {a.src}
      [] a.op = "empty" -> {a.src, a.dst}
      [] OTHER -> {}

LocksOwned ==
    /\ \A n \in Nodes : lock[n] # NULL => n \in Held(at[lock[n]])
    /\ \A t \in Threads : \A n \in Held(at[t]) : lock[n] = t

\* No set of entries has the parents of all its members.
Acyclic == \A S \in SUBSET Nodes : (\A n \in S : parent[n] \in S) => S = {}

\* What a rename found out about the tree is still so.
ChecksHold ==
    \A t \in Threads :
        /\ at[t].op \in Checked => at[t].src \notin Above(at[t].pdst)
        /\ at[t].op \in {"over", "empty"} => parent[at[t].dst] = at[t].pdst

\* No file has a second entry.
OneEntryEach == \A n \in Nodes : file[n] = n

\* An entry has its place: under its name in its parent, a directory that
\* was not removed.
InPlace(n) ==
    /\ parent[n] \in Nodes /\ valid[parent[n]] = 1 /\ dir[parent[n]]
    /\ name[n] \in Names /\ slot[parent[n]][name[n]] = n

\* What PathLeadsHome rests on, entry by entry.
EntriesInPlace ==
    /\ \A n \in Known : parent[n] = NULL <=> n = Root
    /\ \A n \in Nodes \ {Root} : valid[n] = 1 /\ ~Underway(n) => InPlace(n)

\* A directory on disk has nothing but the entries whose place it is; one
\* that is being moved has two.
SlotsExact ==
    \A d \in Nodes, x \in Names :
        slot[d][x] # NULL =>
            LET n == slot[d][x]
            IN  /\ valid[d] = 1 /\ dir[d]
                /\ IF ~Underway(n) THEN valid[n] = 1 /\ parent[n] = d /\ name[n] = x
                   ELSE \E t \in Threads :
                          /\ at[t].op = "moving" /\ at[t].src = n
                          /\ \/ d = at[t].pdst /\ x = name[n]
                             \/ valid[n] = 1 /\ d = parent[n] /\ x = at[t].old

\* Between the two halves of a rename, of which there is one at a time.
MovesHalfDone ==
    \A t \in Threads : at[t].op = "moving" =>
        LET a == at[t]
        IN  /\ \A u \in Threads : at[u].op = "moving" => u = t
            /\ a.src # Root /\ parent[a.src] # a.pdst
            /\ valid[a.pdst] = 1 /\ dir[a.pdst]
            /\ name[a.src] \in Names /\ slot[a.pdst][name[a.src]] = a.src
            /\ valid[a.src] = 1 => a.old \in Names /\ slot[parent[a.src]][a.old] = a.src

\* A directory that is about to be removed stays empty.
RemovedEmpty ==
    \A t \in Threads : at[t].op = "remove" /\ valid[at[t].ep] = 1 =>
        \A x \in Names : slot[at[t].ep][x] = NULL

\* What a lookup has found: to remove, never the root; to move to, a directory.
ArgumentsOK ==
    \A t \in Threads :
        /\ at[t].op = "look" => /\ at[t].rest = <<>> => at[t].cur # Root
                                /\ at[t].call = "unlink" => at[t].src = NULL
        /\ at[t].op \in {"unlink", "remove"} => at[t].ep # Root
        /\ at[t].op \in {"check", "rename", "locked"} => dir[at[t].pdst]

NamespaceInv ==
    /\ NamespaceTypeOK /\ LocksOwned
    /\ ~undefined => Acyclic /\ ChecksHold /\ OneEntryEach

PlacesInv ==
    ~undefined => EntriesInPlace /\ SlotsExact /\ MovesHalfDone /\ RemovedEmpty /\ ArgumentsOK

=============================================================================
