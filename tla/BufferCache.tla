---------------------------- MODULE BufferCache ----------------------------
(***************************************************************************)
(* The block buffer cache (kernel/bio.c) with the sleep lock of every      *)
(* buffer (kernel/sleeplock.c) and the RAM disk behind it (kernel/disk.c,  *)
(* kernel/ramdisk.c), used by the FAT32 layer (kernel/fat32.c).            *)
(*                                                                         *)
(* A step is a critical section of one spin lock (bcache.lock, the lk of a *)
(* sleep lock, ramdisklock) or a use of the data of a buffer between two   *)
(* of them.  No code takes a second spin lock inside those sections, apart *)
(* from the p->lock that sleep() and wakeup() take, so that running each   *)
(* section in one step loses no interleaving.                              *)
(*                                                                         *)
(* A definition marked "Variant" is a plausible mistake in the one that    *)
(* follows it; the properties below are shown to catch it.                 *)
(***************************************************************************)
EXTENDS Integers, FiniteSets, Sequences

CONSTANTS
  Procs,         \* processes inside the kernel
  Bufs,          \* bcache.buf[0 .. NBUF-1]
  Blocks,        \* the (dev, sectorno) pairs in use
  Values,        \* contents of a block
  InitList,      \* the order in which binit() leaves the list of buffers
  NoBlock,       \* the pair (~0, ~0) that binit() gives every buffer
  NoProc,        \* no process holds the sleep lock
  NoBuf,         \* the process refers to no buffer
  Zero,          \* the contents of memory at boot
  CopyinFaults   \* TRUE: a copy from user space may fail half way

NBUF == Cardinality(Bufs)

ASSUME SetsAssumption ==
  /\ IsFiniteSet(Procs) /\ IsFiniteSet(Bufs)
  /\ NoBlock \notin Blocks /\ NoProc \notin Procs /\ NoBuf \notin Bufs
  /\ Zero \in Values /\ CopyinFaults \in BOOLEAN

ASSUME InitListAssumption ==
  /\ InitList \in [1..NBUF -> Bufs]
  /\ \A b \in Bufs : \E i \in 1..NBUF : InitList[i] = b
  /\ \A i, j \in 1..NBUF : InitList[i] = InitList[j] => i = j

VARIABLES
  block,    \* b->dev and b->sectorno
  valid,    \* b->valid
  data,     \* b->data
  refcnt,   \* b->refcnt
  list,     \* the list from head.next (most recent) to head.prev
  owner,    \* the process that holds b->lock (locked, pid)
  disk,     \* the RAM disk
  pc,       \* where each process is in bread/bwrite/brelse
  buf       \* the buffer that the process refers to

cacheVars == <<block, valid, data, refcnt, list, owner>>
vars == <<block, valid, data, refcnt, list, owner, disk, pc, buf>>

\* The process is in code that runs with b->lock held.
Using == {"check", "fill", "held", "dirty", "done"}

Locations == Using \cup {"idle", "lock", "asleep", "unref", "panic"}

Panicked == \E p \in Procs : pc[p] = "panic"

-----------------------------------------------------------------------------
\* binit(): every buffer unused, all of them in the list.
Init ==
  /\ block  = [b \in Bufs |-> NoBlock]
  /\ valid  = [b \in Bufs |-> FALSE]
  /\ data   = [b \in Bufs |-> Zero]
  /\ refcnt = [b \in Bufs |-> 0]
  /\ list   = InitList
  /\ owner  = [b \in Bufs |-> NoProc]
  /\ disk   \in [Blocks -> Values]
  /\ pc     = [p \in Procs |-> "idle"]
  /\ buf    = [p \in Procs |-> NoBuf]

At(p, loc) == ~Panicked /\ pc[p] = loc

Goto(p, loc) == pc' = [pc EXCEPT ![p] = loc]

\* The positions of the list that the first scan of bget() stops at.
Cached(k) == {i \in 1..NBUF : block[list[i]] = k}

\* Variant: takes a buffer with one reference left for unused.
UnusedOrLast == {i \in 1..NBUF : refcnt[list[i]] <= 1}

\* The positions that the second scan of bget() stops at.
Unused == {i \in 1..NBUF : refcnt[list[i]] = 0}

\* bget(), the block is cached: the first buffer from head.next.
BgetHit(p, k) ==
  /\ At(p, "idle")
  /\ \E i \in Cached(k) :
       /\ \A j \in Cached(k) : i <= j
       /\ refcnt' = [refcnt EXCEPT ![list[i]] = @ + 1]
       /\ buf' = [buf EXCEPT ![p] = list[i]]
  /\ Goto(p, "lock")
  /\ UNCHANGED <<block, valid, data, list, owner, disk>>

\* Variant: bcache.lock is given up between the two scans.
BgetRecycleCached(p, k) ==
  /\ At(p, "idle")
  /\ \E i \in Unused :
       /\ \A j \in Unused : j <= i
       /\ block'  = [block EXCEPT ![list[i]] = k]
       /\ valid'  = [valid EXCEPT ![list[i]] = FALSE]
       /\ refcnt' = [refcnt EXCEPT ![list[i]] = 1]
       /\ buf'    = [buf EXCEPT ![p] = list[i]]
  /\ Goto(p, "lock")
  /\ UNCHANGED <<data, list, owner, disk>>

\* bget(), not cached: recycle the first unused buffer from head.prev.
BgetRecycle(p, k) ==
  /\ At(p, "idle")
  /\ Cached(k) = {}
  /\ \E i \in Unused :
       /\ \A j \in Unused : j <= i
       /\ block'  = [block EXCEPT ![list[i]] = k]
       /\ valid'  = [valid EXCEPT ![list[i]] = FALSE]
       /\ refcnt' = [refcnt EXCEPT ![list[i]] = 1]
       /\ buf'    = [buf EXCEPT ![p] = list[i]]
  /\ Goto(p, "lock")
  /\ UNCHANGED <<data, list, owner, disk>>

\* bget(), neither: panic("bget: no buffers"), and the machine stops.
BgetPanic(p, k) ==
  /\ At(p, "idle")
  /\ Cached(k) = {} /\ Unused = {}
  /\ Goto(p, "panic")
  /\ UNCHANGED <<cacheVars, disk, buf>>

\* acquiresleep(): the lock is free.
AcquireSleep(p) ==
  /\ At(p, "lock")
  /\ owner[buf[p]] = NoProc
  /\ owner' = [owner EXCEPT ![buf[p]] = p]
  /\ Goto(p, "check")
  /\ UNCHANGED <<block, valid, data, refcnt, list, disk, buf>>

\* acquiresleep(): the lock is taken; sleep(lk, &lk->lk).
SleepOnLock(p) ==
  /\ At(p, "lock")
  /\ owner[buf[p]] # NoProc
  /\ Goto(p, "asleep")
  /\ UNCHANGED <<cacheVars, disk, buf>>

\* kill() makes a sleeper runnable; the while loop of acquiresleep() looks
\* at lk->locked again.
KillSleeper(p) ==
  /\ At(p, "asleep")
  /\ Goto(p, "lock")
  /\ UNCHANGED <<cacheVars, disk, buf>>

\* bread(): the buffer is valid and is returned as it is.
BreadValid(p) ==
  /\ At(p, "check")
  /\ valid[buf[p]]
  /\ Goto(p, "held")
  /\ UNCHANGED <<cacheVars, disk, buf>>

\* bread(): disk_read(b), the copy made under ramdisklock.
DiskRead(p) ==
  /\ At(p, "check")
  /\ ~valid[buf[p]]
  /\ data' = [data EXCEPT ![buf[p]] = disk[block[buf[p]]]]
  /\ Goto(p, "fill")
  /\ UNCHANGED <<block, valid, refcnt, list, owner, disk, buf>>

\* bread(): b->valid = 1 after disk_read() has returned.
BreadFill(p) ==
  /\ At(p, "fill")
  /\ valid' = [valid EXCEPT ![buf[p]] = TRUE]
  /\ Goto(p, "held")
  /\ UNCHANGED <<block, data, refcnt, list, owner, disk, buf>>

\* The FAT32 layer stores into b->data (write_fat, zero_clus, alloc_clus,
\* rw_clus).
Modify(p, v) ==
  /\ At(p, "held")
  /\ data' = [data EXCEPT ![buf[p]] = v]
  /\ Goto(p, "dirty")
  /\ UNCHANGED <<block, valid, refcnt, list, owner, disk, buf>>

\* Variant: the write does not reach the disk.
BwriteLost(p) ==
  /\ At(p, "dirty")
  /\ owner[buf[p]] = p
  /\ disk' = disk
  /\ Goto(p, "done")
  /\ UNCHANGED <<cacheVars, buf>>

\* bwrite(): every store is followed by it.  The conjunct on owner is the
\* holdingsleep() test whose failure is a panic; HolderOwns says that it
\* never fails, here and in ReleaseSleep.
Bwrite(p) ==
  /\ At(p, "dirty")
  /\ owner[buf[p]] = p
  /\ disk' = [disk EXCEPT ![block[buf[p]]] = data[buf[p]]]
  /\ Goto(p, "done")
  /\ UNCHANGED <<cacheVars, buf>>

\* rw_clus(): either_copyin() has stored into b->data and then failed on the
\* next page of the user's buffer; bwrite() is not called.
CopyinFault(p) ==
  /\ CopyinFaults
  /\ At(p, "dirty")
  /\ Goto(p, "done")
  /\ UNCHANGED <<cacheVars, disk, buf>>

\* Variant: no wakeup(lk).
ReleaseSleepQuiet(p) ==
  /\ At(p, "held") \/ At(p, "done")
  /\ owner[buf[p]] = p
  /\ owner' = [owner EXCEPT ![buf[p]] = NoProc]
  /\ pc' = [q \in Procs |->
              IF q = p THEN "unref"
              ELSE pc[q]]
  /\ UNCHANGED <<block, valid, data, refcnt, list, disk, buf>>

\* brelse(), first half: releasesleep() frees the lock and wakes every
\* process that sleeps on it.
ReleaseSleep(p) ==
  /\ At(p, "held") \/ At(p, "done")
  /\ owner[buf[p]] = p
  /\ owner' = [owner EXCEPT ![buf[p]] = NoProc]
  /\ pc' = [q \in Procs |->
              IF q = p THEN "unref"
              ELSE IF pc[q] = "asleep" /\ buf[q] = buf[p] THEN "lock"
              ELSE pc[q]]
  /\ UNCHANGED <<block, valid, data, refcnt, list, disk, buf>>

\* The list after buffer b has been unlinked and inserted after head.
MoveToHead(b) ==
  LET at == CHOOSE i \in 1..NBUF : list[i] = b
  IN  [i \in 1..NBUF |-> IF i = 1 THEN b
                         ELSE IF i <= at THEN list[i - 1] ELSE list[i]]

\* brelse(), second half, under bcache.lock.
BrelseUnref(p) ==
  /\ At(p, "unref")
  /\ refcnt' = [refcnt EXCEPT ![buf[p]] = @ - 1]
  /\ list' = IF refcnt[buf[p]] = 1 THEN MoveToHead(buf[p]) ELSE list
  /\ buf' = [buf EXCEPT ![p] = NoBuf]
  /\ Goto(p, "idle")
  /\ UNCHANGED <<block, valid, data, owner, disk>>

\* What a process that is inside the kernel goes on to do by itself.
Step(p) ==
  \/ AcquireSleep(p)
  \/ SleepOnLock(p)
  \/ BreadValid(p)
  \/ DiskRead(p)
  \/ BreadFill(p)
  \/ Bwrite(p)
  \/ ReleaseSleep(p)
  \/ BrelseUnref(p)

Next ==
  \E p \in Procs :
    \/ \E k \in Blocks : BgetHit(p, k) \/ BgetRecycle(p, k) \/ BgetPanic(p, k)
    \/ \E v \in Values : Modify(p, v)
    \/ KillSleeper(p)
    \/ CopyinFault(p)
    \/ Step(p)

Spec == Init /\ [][Next]_vars

\* The kernel is preemptive (kerneltrap() yields on a timer interrupt) and
\* scheduler() goes round the table, so a process that is not asleep runs on
\* and, having got its buffer, comes to brelse().
Fairness == \A p \in Procs : WF_vars(Step(p))

FairSpec == Spec /\ Fairness

-----------------------------------------------------------------------------
\* Types of the variables.
TypeOK ==
  /\ block  \in [Bufs -> Blocks \cup {NoBlock}]
  /\ valid  \in [Bufs -> BOOLEAN]
  /\ data   \in [Bufs -> Values]
  /\ refcnt \in [Bufs -> Nat]
  /\ list   \in [1..NBUF -> Bufs]
  /\ owner  \in [Bufs -> Procs \cup {NoProc}]
  /\ disk   \in [Blocks -> Values]
  /\ pc     \in [Procs -> Locations]
  /\ buf    \in [Procs -> Bufs \cup {NoBuf}]

\* The pointer surgery of brelse() loses no buffer and duplicates none: the
\* list is an enumeration of all of bcache.buf.
ListComplete ==
  /\ \A b \in Bufs : \E i \in 1..NBUF : list[i] = b
  /\ \A i, j \in 1..NBUF : list[i] = list[j] => i = j

\* bget() never gives one disk block two buffers, whatever processes race
\* for it: two copies of one block would diverge.
OneBufferPerBlock ==
  \A b, c \in Bufs : block[b] = block[c] /\ block[b] # NoBlock => b = c

\* "Only one process at a time can use a buffer" (bio.c): a process between
\* the return of bget() and releasesleep() is the owner of the sleep lock of
\* its buffer, so the holdingsleep() panics of bwrite() and brelse() are
\* unreachable.
HolderOwns ==
  /\ \A p \in Procs : pc[p] \in Using => owner[buf[p]] = p
  /\ \A b \in Bufs : owner[b] # NoProc =>
        buf[owner[b]] = b /\ pc[owner[b]] \in Using

\* refcnt counts the processes that refer to the buffer, from bget() until
\* the second half of brelse(), which runs after the lock has been given up.
Refs(b) == {p \in Procs : buf[p] = b}

RefcntExact == \A b \in Bufs : refcnt[b] = Cardinality(Refs(b))

\* releasesleep() against acquiresleep(): nobody sleeps on a free lock.
NoLostWakeup ==
  \A p \in Procs : pc[p] = "asleep" => owner[buf[p]] # NoProc

\* With at least as many buffers as processes (NBUF = 3000, NPROC = 50) the
\* panic of bget() is unreachable, because no process holds two buffers.
NoPanic == Cardinality(Procs) <= NBUF => ~Panicked

\* bget() gives up only when every buffer is in use by another process.
PanicOnlyWhenFull ==
  \A p \in Procs : pc[p] = "panic" =>
    \A b \in Bufs : \E q \in Procs \ {p} : buf[q] = b

\* A buffer is not recycled for another block while some process refers to
\* it, be it asleep on the lock or on its way out of brelse().
NotRecycledInUse ==
  [][\A p \in Procs : buf[p] # NoBuf => block'[buf[p]] = block[buf[p]]]_vars

\* "After changing buffer data, call bwrite to write it to disk" (bio.c): a
\* valid buffer that nobody is in the middle of changing equals the disk, so
\* that recycling it loses nothing.
CacheMatchesDisk ==
  \A b \in Bufs :
    valid[b] /\ (\A p \in Procs : buf[p] = b => pc[p] # "dirty")
      => data[b] = disk[block[b]]

\* Every process that sleeps on a buffer's lock is woken.
SleeperWoken ==
  \A p \in Procs : pc[p] = "asleep" ~> pc[p] # "asleep"

-----------------------------------------------------------------------------
\* Facts that the properties above rest on.

\* A process refers to a buffer from bget() to the end of brelse(), and that
\* buffer stands for a real block.
RefWhileInside ==
  \A p \in Procs :
    /\ buf[p] = NoBuf <=> pc[p] \in {"idle", "panic"}
    /\ buf[p] # NoBuf => block[buf[p]] \in Blocks

\* After bread() the buffer is valid until it is released; while bread() is
\* filling it, it is not, and holds what is on the disk.
ValidInUse ==
  \A p \in Procs :
    /\ pc[p] \in {"held", "dirty", "done"} => valid[buf[p]]
    /\ pc[p] = "fill" =>
         ~valid[buf[p]] /\ data[buf[p]] = disk[block[buf[p]]]

\* A buffer that holds no block holds nothing valid.
ValidHasBlock == \A b \in Bufs : valid[b] => block[b] \in Blocks

\* The inductive invariant.
IInv ==
  /\ TypeOK
  /\ ListComplete
  /\ OneBufferPerBlock
  /\ HolderOwns
  /\ RefcntExact
  /\ NoLostWakeup
  /\ RefWhileInside
  /\ ValidInUse
  /\ ValidHasBlock
  /\ PanicOnlyWhenFull

-----------------------------------------------------------------------------
\* What the cache promises: BlockStore, with the contents of a block taken
\* from its valid buffer, and from the disk if there is none.
ContentOf(k) ==
  IF \E b \in Bufs : block[b] = k /\ valid[b]
  THEN data[CHOOSE b \in Bufs : block[b] = k /\ valid[b]]
  ELSE disk[k]

HolderOf(k) ==
  IF \E b \in Bufs : block[b] = k
  THEN owner[CHOOSE b \in Bufs : block[b] = k]
  ELSE NoProc

Store == INSTANCE BlockStore WITH
  content <- [k \in Blocks |-> ContentOf(k)],
  holder  <- [k \in Blocks |-> HolderOf(k)]

StoreSpec == Store!Spec
=============================================================================
