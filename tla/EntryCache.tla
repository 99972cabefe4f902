----------------------------- MODULE EntryCache -----------------------------
(***************************************************************************)
(* The cache of directory entries of kernel/fat32.c: eget(), edup(),       *)
(* eput(), dirlookup(), ealloc(), eremove() and eupdate() with the locks   *)
(* and references that path lookup, open, create, mkdir, write, close and  *)
(* remove (kernel/sysfile.c) take through them.                            *)
(*                                                                         *)
(* A step is a critical section of ecache.lock, or what a process does     *)
(* under the sleep lock of an entry between two of them.  A sleep lock is  *)
(* a holder and a wait until there is none; BufferCache has its wakeups.   *)
(* A file is named by its path, which also says what the directory on the  *)
(* disk is asked for: Append(directory, name).                             *)
(*                                                                         *)
(* A definition marked "Variant" is a plausible mistake in the one that    *)
(* follows it; the properties below are shown to catch it.                 *)
(***************************************************************************)
EXTENDS Integers, Sequences, FiniteSets

CONSTANTS
  Procs,      \* processes inside the kernel
  Slots,      \* ecache.entries[]
  Root,       \* the entry root, which is not in ecache.entries
  None,       \* the null pointer
  Paths,      \* the paths of files, without the root
  Uses,       \* the system calls that programs make: <<call, path>>
  Dirs,       \* those of them that are directories
  InitDisk,   \* what is on the disk at boot
  PutRace,    \* TRUE: eget() may take an entry during its last eput()
  RefMax      \* bound on root.ref

Entries == Slots \cup {Root}
ENTRY_CACHE_NUM == Cardinality(Slots)
Parent(g) == SubSeq(g, 1, Len(g) - 1)
Names == UNION {{g[i] : i \in DOMAIN g} : g \in Paths}

\* Paths are at most two deep, so that create() calls itself at most once.
ASSUME EntryAssumption ==
  /\ IsFiniteSet(Procs) /\ IsFiniteSet(Slots)
  /\ Root \notin Slots /\ None \notin Entries /\ None \notin Procs
  /\ Paths \subseteq Seq(Names)
  /\ \A g \in Paths : Len(g) \in 1..2 /\ (Len(g) = 2 => Parent(g) \in Dirs)
  /\ Dirs \subseteq Paths
  /\ Uses \subseteq {"open", "create", "mkdir", "remove"} \X Paths
  /\ \A g \in Paths : /\ <<"create", g>> \in Uses => g \notin Dirs
                      /\ <<"mkdir", g>> \in Uses => g \in Dirs
  /\ InitDisk \in [Paths -> {"absent", "empty", "full"}]
  /\ PutRace \in BOOLEAN /\ RefMax \in Nat

VARIABLES
  node,     \* the file that the entry stands for: filename, off, first_clus
  parent,   \* ep->parent
  valid,    \* ep->valid
  dirty,    \* ep->dirty
  clus,     \* ep->first_clus # 0
  ref,      \* ep->ref
  owner,    \* the process that holds ep->lock
  list,     \* from root.next (most recent) to root.prev
  disk,     \* the directories on the disk: no entry, or one without or
            \* with a first cluster
  pc,       \* where the process is
  op,       \* its system call
  goal,     \* the path it was given
  done,     \* how many names of the path it has resolved
  cur,      \* lookup_path(): entry; later the entry that was found
  ep,       \* dirlookup(), ealloc(): ep
  fd,       \* the entry behind the open file
  pe,       \* eput(): entry
  pp,       \* eput(): eparent
  ret       \* where eput() returns to

entryVars == <<node, parent, valid, dirty, clus, ref, owner, list>>
callVars  == <<op, goal, done, cur, ep, fd>>
putVars   == <<pe, pp, ret>>
vars == <<entryVars, disk, pc, callVars, putVars>>

\* Inside eput() with the lock of the entry, or on the way to ref--.
LastPut == {"putwork", "putupdate", "putunlock", "putdec", "putcheck"}

IsDir(e) == e = Root \/ node[e] \in Dirs
At(p, loc) == pc[p] = loc /\ \A q \in Procs : pc[q] # "panic"
Goto(p, loc) == pc' = [pc EXCEPT ![p] = loc]

\* create() makes its parent directory under the name "mkparent".
Depth(p)    == IF op[p] = "mkparent" THEN Len(goal[p]) - 1 ELSE Len(goal[p])
Creating(p) == op[p] \in {"create", "mkdir", "mkparent"}
AtParent(p) == Creating(p) /\ done[p] + 1 = Depth(p)

\* create(): enameparent() has failed.
ParentMissing(p) == op[p] \in {"create", "mkdir"} /\ ~AtParent(p)

Child(p) == Append(node[cur[p]], goal[p][done[p] + 1])

-----------------------------------------------------------------------------
\* fat32_init(), and every process has the root for its working directory.
\* The slots have no names: the order in which they are linked is any order.
Init ==
  /\ node   = [e \in Entries |-> <<>>]
  /\ parent = [e \in Entries |-> None]
  /\ valid  = [e \in Entries |-> IF e = Root THEN 1 ELSE 0]
  /\ dirty  = [e \in Entries |-> FALSE]
  /\ clus   = [e \in Entries |-> e = Root]
  /\ ref    = [e \in Entries |-> IF e = Root THEN Cardinality(Procs) ELSE 0]
  /\ owner  = [e \in Entries |-> None]
  /\ list   \in [1..ENTRY_CACHE_NUM -> Slots]
  /\ \A s \in Slots : \E i \in 1..ENTRY_CACHE_NUM : list[i] = s
  /\ disk   = InitDisk
  /\ pc     = [p \in Procs |-> "user"]
  /\ op     = [p \in Procs |-> "open"]
  /\ goal   = [p \in Procs |-> <<>>]
  /\ done   = [p \in Procs |-> 0]
  /\ cur    = [p \in Procs |-> None]
  /\ ep     = [p \in Procs |-> None]
  /\ fd     = [p \in Procs |-> None]
  /\ pe     = [p \in Procs |-> None]
  /\ pp     = [p \in Procs |-> None]
  /\ ret    = [p \in Procs |-> "user"]

\* elock(e) when e->ref >= 1; otherwise it panics, see NoLockPanic.
CanLock(e) == owner[e] = None /\ ref[e] >= 1
Lock(p, e) == owner' = [owner EXCEPT ![e] = p]

\* The process calls eput(e), and goes on at loc after that.
CallEput(p, e, loc) ==
  /\ pe'  = [pe EXCEPT ![p] = e]
  /\ ret' = [ret EXCEPT ![p] = loc]
  /\ Goto(p, "put")
  /\ UNCHANGED pp

\* The system call is over but for eput(e); its local variables are gone.
FinishWithEput(p, e) ==
  /\ CallEput(p, e, "user")
  /\ cur'  = [cur EXCEPT ![p] = None]
  /\ op'   = [op EXCEPT ![p] = "open"]
  /\ goal' = [goal EXCEPT ![p] = <<>>]
  /\ done' = [done EXCEPT ![p] = 0]

-----------------------------------------------------------------------------
(* Path lookup *)

\* A system call with a path: lookup_path() starts with edup(&root).
StartWalk(p, o, g) ==
  /\ ref[Root] < RefMax
  /\ ref'  = [ref EXCEPT ![Root] = @ + 1]
  /\ cur'  = [cur EXCEPT ![p] = Root]
  /\ done' = [done EXCEPT ![p] = 0]
  /\ op'   = [op EXCEPT ![p] = o]
  /\ goal' = [goal EXCEPT ![p] = g]
  /\ Goto(p, "walk")
  /\ UNCHANGED <<node, parent, valid, dirty, clus, owner, list, disk,
                 ep, fd, putVars>>

Call(p, o, g) ==
  /\ At(p, "user") /\ fd[p] = None
  /\ StartWalk(p, o, g)

\* lookup_path(): elock(entry).
WalkLock(p) ==
  /\ At(p, "walk") /\ CanLock(cur[p])
  /\ Lock(p, cur[p])
  /\ Goto(p, "look")
  /\ UNCHANGED <<node, parent, valid, dirty, clus, ref, list, disk,
                 callVars, putVars>>

\* lookup_path(): not a directory; dirlookup(): not a valid one.  Both end in
\* eunlock(entry) and eput(entry).  ealloc() looks at dp->valid, too.
LookFails(p) ==
  /\ At(p, "look") \/ At(p, "make")
  /\ \/ ~IsDir(cur[p])
     \/ valid[cur[p]] # 1 /\ ~(pc[p] = "look" /\ AtParent(p))
  /\ Goto(p, "leave")
  /\ UNCHANGED <<entryVars, disk, callVars, putVars>>

\* lookup_path(): the parent directory is what was asked for: eunlock(entry).
LookParent(p) ==
  /\ At(p, "look") /\ AtParent(p) /\ IsDir(cur[p])
  /\ owner' = [owner EXCEPT ![cur[p]] = None]
  /\ Goto(p, "relock")
  /\ UNCHANGED <<node, parent, valid, dirty, clus, ref, list, disk,
                 callVars, putVars>>

\* eget(): the entries that the first loop stops at.
Matching(p) ==
  {s \in Slots : /\ valid[s] = 1 /\ parent[s] = cur[p]
                 /\ node[s][Len(node[s])] = goal[p][done[p] + 1]}

\* eget(): the positions that the second loop stops at.
Unused == {i \in 1..ENTRY_CACHE_NUM : ref[list[i]] = 0}

\* dirlookup(), called by lookup_path() and by ealloc().
Looking(p) ==
  \/ At(p, "look") /\ IsDir(cur[p]) /\ ~AtParent(p) /\ valid[cur[p]] = 1
  \/ At(p, "make") /\ valid[cur[p]] = 1

\* The assumption under which the cache is right: eget() does not come upon an
\* entry that another process is in the last eput() of.
Settled(s) == PutRace \/ \A q \in Procs : ~(pe[q] = s /\ pc[q] \in LastPut)

\* Variant: a cached child takes no reference of its parent.
EgetHitAlone(p, s) ==
  /\ Looking(p) /\ s \in Matching(p)
  /\ Settled(s)
  /\ ref' = [ref EXCEPT ![s] = @ + 1]
  /\ ep' = [ep EXCEPT ![p] = s]
  /\ Goto(p, "leave")
  /\ UNCHANGED <<node, parent, valid, dirty, clus, owner, list, disk,
                 op, goal, done, cur, fd, putVars>>

\* eget(): the entry is cached.  A child with references has one of its parent.
EgetHit(p, s) ==
  /\ Looking(p) /\ s \in Matching(p)
  /\ Settled(s)
  /\ ref' = IF ref[s] = 0
            THEN [ref EXCEPT ![s] = 1, ![parent[s]] = @ + 1]
            ELSE [ref EXCEPT ![s] = @ + 1]
  /\ ep' = [ep EXCEPT ![p] = s]
  /\ Goto(p, "leave")
  /\ UNCHANGED <<node, parent, valid, dirty, clus, owner, list, disk,
                 op, goal, done, cur, fd, putVars>>

\* eget(): take the least recently used entry without references.  What else
\* it holds is stale and not read before it is filled in; it is cleared here.
EgetRecycle(p) ==
  /\ \/ Looking(p) /\ Matching(p) = {} /\ Goto(p, "scan")
     \/ At(p, "alloc") /\ Goto(p, "emake")
  /\ \E i \in Unused :
       /\ \A j \in Unused : j <= i
       /\ Settled(list[i])
       /\ ref'   = [ref EXCEPT ![list[i]] = 1]
       /\ valid' = [valid EXCEPT ![list[i]] = 0]
       /\ dirty' = [dirty EXCEPT ![list[i]] = FALSE]
       /\ node'  = [node EXCEPT ![list[i]] = <<>>]
       /\ parent' = [parent EXCEPT ![list[i]] = None]
       /\ clus'  = [clus EXCEPT ![list[i]] = FALSE]
       /\ ep'    = [ep EXCEPT ![p] = list[i]]
  /\ UNCHANGED <<owner, list, disk, op, goal, done, cur, fd, putVars>>

\* eget(): panic("eget: insufficient ecache").
EgetPanic(p) ==
  /\ (Looking(p) /\ Matching(p) = {}) \/ At(p, "alloc")
  /\ Unused = {}
  /\ Goto(p, "panic")
  /\ UNCHANGED <<entryVars, disk, callVars, putVars>>

\* The fields of ep, and ep->parent = edup(dp).
Fill(p, c) ==
  LET s == ep[p] IN
  /\ node'   = [node EXCEPT ![s] = Child(p)]
  /\ parent' = [parent EXCEPT ![s] = cur[p]]
  /\ valid'  = [valid EXCEPT ![s] = 1]
  /\ clus'   = [clus EXCEPT ![s] = c]
  /\ ref'    = [ref EXCEPT ![cur[p]] = @ + 1]

\* dirlookup(): the scan of the directory finds the name.
ScanFound(p) ==
  /\ At(p, "scan") /\ Child(p) \in Paths /\ disk[Child(p)] # "absent"
  /\ Fill(p, disk[Child(p)] = "full")
  /\ Goto(p, "leave")
  /\ UNCHANGED <<dirty, owner, list, disk, callVars, putVars>>

\* dirlookup(): it does not: eput(ep), which is not valid.
ScanFails(p) ==
  /\ At(p, "scan") /\ (Child(p) \in Paths => disk[Child(p)] = "absent")
  /\ ref' = [ref EXCEPT ![ep[p]] = @ - 1]
  /\ ep' = [ep EXCEPT ![p] = None]
  /\ Goto(p, IF AtParent(p) THEN "alloc" ELSE "leave")
  /\ UNCHANGED <<node, parent, valid, dirty, clus, owner, list, disk,
                 op, goal, done, cur, fd, putVars>>

\* eunlock(entry) and eput(entry), and go on with what was found.
Leave(p) ==
  /\ At(p, "leave") /\ ep[p] # None
  /\ owner' = [owner EXCEPT ![cur[p]] = None]
  /\ CallEput(p, cur[p], IF done[p] + 1 = Depth(p) THEN "found" ELSE "walk")
  /\ done' = [done EXCEPT ![p] = @ + 1]
  /\ cur'  = [cur EXCEPT ![p] = ep[p]]
  /\ ep'   = [ep EXCEPT ![p] = None]
  /\ UNCHANGED <<node, parent, valid, dirty, clus, ref, list, disk,
                 op, goal, fd>>

\* eunlock(entry) and eput(entry), nothing was found: return NULL.
LeaveFails(p) ==
  /\ At(p, "leave") /\ ep[p] = None
  /\ ~ParentMissing(p)
  /\ owner' = [owner EXCEPT ![cur[p]] = None]
  /\ FinishWithEput(p, cur[p])
  /\ UNCHANGED <<node, parent, valid, dirty, clus, ref, list, disk, ep, fd>>

\* The same in create(), which makes the missing parent directory.
LeaveForParent(p) ==
  /\ At(p, "leave") /\ ep[p] = None
  /\ ParentMissing(p)
  /\ owner' = [owner EXCEPT ![cur[p]] = None]
  /\ CallEput(p, cur[p], "mkparent")
  /\ cur' = [cur EXCEPT ![p] = None]
  /\ UNCHANGED <<node, parent, valid, dirty, clus, ref, list, disk,
                 op, goal, done, ep, fd>>

-----------------------------------------------------------------------------
(* create() and ealloc() *)

\* create(): the parent does not exist; create(pname, T_DIR).
CreateParent(p) ==
  /\ At(p, "mkparent")
  /\ StartWalk(p, "mkparent", goal[p])

\* Variant: no elock(dp).
CreateUnlocked(p) ==
  /\ At(p, "relock")
  /\ Lock(p, cur[p])
  /\ Goto(p, "make")
  /\ UNCHANGED <<node, parent, valid, dirty, clus, ref, list, disk,
                 callVars, putVars>>

\* create(): elock(dp).
CreateLock(p) ==
  /\ At(p, "relock") /\ CanLock(cur[p])
  /\ Lock(p, cur[p])
  /\ Goto(p, "make")
  /\ UNCHANGED <<node, parent, valid, dirty, clus, ref, list, disk,
                 callVars, putVars>>

\* ealloc(): under the lock of the new entry, which nobody else knows: fill it
\* in and emake() it on the disk.  A directory gets a cluster at once.
Emake(p) ==
  /\ At(p, "emake")
  /\ LET isdir == Child(p) \in Dirs IN
       /\ Fill(p, isdir)
       /\ disk' = [disk EXCEPT ![Child(p)] = IF isdir THEN "full" ELSE "empty"]
  /\ Goto(p, "leave")
  /\ UNCHANGED <<dirty, owner, list, callVars, putVars>>

\* create(T_DIR) returns the locked parent, and the creation goes on in it.
ParentMade(p) ==
  /\ At(p, "found") /\ op[p] = "mkparent" /\ CanLock(cur[p])
  /\ Lock(p, cur[p])
  /\ op' = [op EXCEPT ![p] = IF goal[p] \in Dirs THEN "mkdir" ELSE "create"]
  /\ Goto(p, "make")
  /\ UNCHANGED <<node, parent, valid, dirty, clus, ref, list, disk,
                 goal, done, cur, ep, fd, putVars>>

\* sys_mkdir(): elock, eunlock and eput of the new directory.
MkdirDone(p) ==
  /\ At(p, "found") /\ op[p] = "mkdir" /\ CanLock(cur[p])
  /\ FinishWithEput(p, cur[p])
  /\ UNCHANGED <<entryVars, disk, ep, fd>>

-----------------------------------------------------------------------------
(* open(), write(), close() *)

Opening(p) == At(p, "found") /\ op[p] \in {"open", "create"} /\ CanLock(cur[p])

\* open(), under the lock of the entry: with O_TRUNC, etrunc().
Open(p, trunc) ==
  /\ Opening(p)
  /\ trunc => ~IsDir(cur[p])
  /\ clus'  = [clus EXCEPT ![cur[p]] = @ /\ ~trunc]
  /\ dirty' = [dirty EXCEPT ![cur[p]] = @ \/ trunc]
  /\ fd'    = [fd EXCEPT ![p] = cur[p]]
  /\ cur'   = [cur EXCEPT ![p] = None]
  /\ Goto(p, "user")
  /\ UNCHANGED <<node, parent, valid, ref, owner, list, disk,
                 op, goal, done, ep, putVars>>

\* open(): a directory for writing, or no file or descriptor left.
OpenFails(p) ==
  /\ Opening(p)
  /\ FinishWithEput(p, cur[p])
  /\ UNCHANGED <<entryVars, disk, ep, fd>>

\* filewrite(), under the lock: ewrite() allocates the first cluster or makes
\* the file longer.
Write(p) ==
  /\ At(p, "user") /\ fd[p] # None /\ ~IsDir(fd[p]) /\ CanLock(fd[p])
  /\ clus'  = [clus EXCEPT ![fd[p]] = TRUE]
  /\ dirty' = [dirty EXCEPT ![fd[p]] = TRUE]
  /\ UNCHANGED <<node, parent, valid, ref, owner, list, disk, pc,
                 callVars, putVars>>

\* fileclose(): eput(ff.ep).
Close(p) ==
  /\ At(p, "user") /\ fd[p] # None
  /\ FinishWithEput(p, fd[p])
  /\ fd' = [fd EXCEPT ![p] = None]
  /\ UNCHANGED <<entryVars, disk, ep>>

-----------------------------------------------------------------------------
(* sys_remove() and sys_unlinkat() *)

RemoveLock(p) ==
  /\ At(p, "found") /\ op[p] = "remove" /\ CanLock(cur[p])
  /\ Lock(p, cur[p])
  /\ Goto(p, "rmlock")
  /\ UNCHANGED <<node, parent, valid, dirty, clus, ref, list, disk,
                 callVars, putVars>>

\* isdirempty(), of a directory that is still there.
NotEmpty(e) ==
  /\ valid[e] = 1
  /\ \E g \in Paths : Len(g) > 1 /\ Parent(g) = node[e] /\ disk[g] # "absent"

RemoveNotEmpty(p) ==
  /\ At(p, "rmlock") /\ NotEmpty(cur[p])
  /\ owner' = [owner EXCEPT ![cur[p]] = None]
  /\ FinishWithEput(p, cur[p])
  /\ UNCHANGED <<node, parent, valid, dirty, clus, ref, list, disk, ep, fd>>

RemoveLockParent(p) ==
  /\ At(p, "rmlock") /\ ~NotEmpty(cur[p]) /\ CanLock(parent[cur[p]])
  /\ Lock(p, parent[cur[p]])
  /\ Goto(p, "rmdo")
  /\ UNCHANGED <<node, parent, valid, dirty, clus, ref, list, disk,
                 callVars, putVars>>

\* eremove(), eunlock() of the parent and of the entry, eput().  A second
\* eremove() of the entry changes nothing.
Remove(p) ==
  LET e == cur[p] IN
  /\ At(p, "rmdo")
  /\ disk'  = IF valid[e] = 1 THEN [disk EXCEPT ![node[e]] = "absent"] ELSE disk
  /\ valid' = [valid EXCEPT ![e] = -1]
  /\ owner' = [owner EXCEPT ![parent[e]] = None, ![e] = None]
  /\ FinishWithEput(p, e)
  /\ UNCHANGED <<node, parent, dirty, clus, ref, list, ep, fd>>

-----------------------------------------------------------------------------
(* eput() *)

\* The last reference of an entry that is or was valid.
IsLastPut(p) == pe[p] # Root /\ valid[pe[p]] # 0 /\ ref[pe[p]] = 1

\* The list after entry e has been unlinked and inserted behind root.
MoveToHead(e) ==
  LET at == CHOOSE i \in 1..ENTRY_CACHE_NUM : list[i] = e
  IN  [i \in 1..ENTRY_CACHE_NUM |->
         IF i = 1 THEN e ELSE IF i <= at THEN list[i - 1] ELSE list[i]]

\* eput(): not the last reference, or an entry that was never filled in.
EputDrop(p) ==
  /\ At(p, "put") /\ ~IsLastPut(p)
  /\ ref' = [ref EXCEPT ![pe[p]] = @ - 1]
  /\ pe'  = [pe EXCEPT ![p] = None]
  /\ ret' = [ret EXCEPT ![p] = "user"]
  /\ Goto(p, ret[p])
  /\ UNCHANGED <<node, parent, valid, dirty, clus, owner, list, disk,
                 callVars, pp>>

\* Variant: leaves the entry where it is in the list.
EputLastUnmoved(p) ==
  /\ At(p, "put") /\ IsLastPut(p) /\ owner[pe[p]] = None
  /\ Lock(p, pe[p])
  /\ list' = list
  /\ Goto(p, "putwork")
  /\ UNCHANGED <<node, parent, valid, dirty, clus, ref, disk, callVars, putVars>>

\* With ecache.lock: acquiresleep(&entry->lock), move the entry to the front.
\* Having to wait here would be a panic in sched().
EputLast(p) ==
  /\ At(p, "put") /\ IsLastPut(p) /\ owner[pe[p]] = None
  /\ Lock(p, pe[p])
  /\ list' = MoveToHead(pe[p])
  /\ Goto(p, "putwork")
  /\ UNCHANGED <<node, parent, valid, dirty, clus, ref, disk, callVars, putVars>>

\* The entry has been removed: etrunc().
EputTrunc(p) ==
  /\ At(p, "putwork") /\ valid[pe[p]] = -1
  /\ clus'  = [clus EXCEPT ![pe[p]] = FALSE]
  /\ dirty' = [dirty EXCEPT ![pe[p]] = TRUE]
  /\ Goto(p, "putunlock")
  /\ UNCHANGED <<node, parent, valid, ref, owner, list, disk, callVars, putVars>>

\* elock(entry->parent)
EputLockParent(p) ==
  /\ At(p, "putwork") /\ valid[pe[p]] # -1 /\ CanLock(parent[pe[p]])
  /\ Lock(p, parent[pe[p]])
  /\ Goto(p, "putupdate")
  /\ UNCHANGED <<node, parent, valid, dirty, clus, ref, list, disk,
                 callVars, putVars>>

\* Variant: clears ep->dirty without writing the entry.
EupdateLost(p) ==
  LET e == pe[p] IN
  /\ At(p, "putupdate")
  /\ disk' = disk
  /\ dirty' = [dirty EXCEPT ![e] = FALSE]
  /\ owner' = [owner EXCEPT ![parent[e]] = None]
  /\ Goto(p, "putunlock")
  /\ UNCHANGED <<node, parent, valid, clus, ref, list, callVars, putVars>>

\* eupdate(entry) and eunlock(entry->parent).
Eupdate(p) ==
  LET e == pe[p] IN
  /\ At(p, "putupdate")
  /\ disk' = IF dirty[e]
             THEN [disk EXCEPT ![node[e]] = IF clus[e] THEN "full" ELSE "empty"]
             ELSE disk
  /\ dirty' = [dirty EXCEPT ![e] = FALSE]
  /\ owner' = [owner EXCEPT ![parent[e]] = None]
  /\ Goto(p, "putunlock")
  /\ UNCHANGED <<node, parent, valid, clus, ref, list, callVars, putVars>>

\* releasesleep(&entry->lock)
EputUnlock(p) ==
  /\ At(p, "putunlock")
  /\ owner' = [owner EXCEPT ![pe[p]] = None]
  /\ Goto(p, "putdec")
  /\ UNCHANGED <<node, parent, valid, dirty, clus, ref, list, disk,
                 callVars, putVars>>

\* eparent = entry->parent, and entry->ref-- under ecache.lock.
EputDec(p) ==
  /\ At(p, "putdec")
  /\ pp'  = [pp EXCEPT ![p] = parent[pe[p]]]
  /\ ref' = [ref EXCEPT ![pe[p]] = @ - 1]
  /\ Goto(p, "putcheck")
  /\ UNCHANGED <<node, parent, valid, dirty, clus, owner, list, disk,
                 callVars, pe, ret>>

\* "if (entry->ref == 0) eput(eparent)", without ecache.lock.
EputCheck(p) ==
  /\ At(p, "putcheck")
  /\ pp' = [pp EXCEPT ![p] = None]
  /\ IF ref[pe[p]] = 0
     THEN pe' = [pe EXCEPT ![p] = pp[p]] /\ Goto(p, "put") /\ UNCHANGED ret
     ELSE /\ pe' = [pe EXCEPT ![p] = None]
          /\ ret' = [ret EXCEPT ![p] = "user"]
          /\ Goto(p, ret[p])
  /\ UNCHANGED <<entryVars, disk, callVars>>

-----------------------------------------------------------------------------
Eput(p) ==
  \/ EputDrop(p) \/ EputLast(p) \/ EputTrunc(p) \/ EputLockParent(p)
  \/ Eupdate(p) \/ EputUnlock(p) \/ EputDec(p) \/ EputCheck(p)

Lookup(p) ==
  \/ WalkLock(p) \/ LookFails(p) \/ LookParent(p) \/ EgetRecycle(p)
  \/ \E s \in Slots : EgetHit(p, s)
  \/ EgetPanic(p) \/ ScanFound(p) \/ ScanFails(p)
  \/ Leave(p) \/ LeaveFails(p) \/ LeaveForParent(p)

Create(p) ==
  CreateParent(p) \/ CreateLock(p) \/ Emake(p) \/ ParentMade(p) \/ MkdirDone(p)

Unlink(p) ==
  RemoveLock(p) \/ RemoveNotEmpty(p) \/ RemoveLockParent(p) \/ Remove(p)

Next ==
  \E p \in Procs :
    \/ \E use \in Uses : Call(p, use[1], use[2])
    \/ Lookup(p) \/ Create(p) \/ Unlink(p) \/ Eput(p)
    \/ \E trunc \in BOOLEAN : Open(p, trunc)
    \/ OpenFails(p) \/ Write(p) \/ Close(p)

Spec == Init /\ [][Next]_vars

-----------------------------------------------------------------------------
\* Who has a reference of entry e: the variables of the processes, and the
\* cached children that have references themselves.
Refs(e) ==
  {<<p, "cur">> : p \in {q \in Procs : cur[q] = e}} \cup
  {<<p, "ep">>  : p \in {q \in Procs : ep[q] = e}} \cup
  {<<p, "fd">>  : p \in {q \in Procs : fd[q] = e}} \cup
  {<<p, "pe">>  : p \in {q \in Procs : pe[q] = e /\ pc[q] # "putcheck"}} \cup
  {<<p, "pp">>  : p \in {q \in Procs : pp[q] = e}} \cup
  {<<p, "cwd">> : p \in IF e = Root THEN Procs ELSE {}} \cup
  {<<s, "child">> : s \in {t \in Slots : /\ parent[t] = e
                                         /\ ref[t] > 0 /\ valid[t] # 0}}

\* ep->ref is exact, through lookups, failed lookups, creations and the chain
\* of eput() calls up the path.
RefExact == \A e \in Entries : ref[e] = Cardinality(Refs(e))

\* eget(): the "parent" pointer tells "whether an entry with the name as given
\* is really the file we want in the right path".  An entry is not recycled
\* while a cached entry points to it as its parent: a stale child would be
\* found in another directory.
ParentIsParent ==
  \A s \in Slots : valid[s] = 1 =>
    /\ parent[s] \in Entries /\ valid[parent[s]] = 1
    /\ node[parent[s]] = Parent(node[s])

\* Lookups and creations that race make at most one entry for a file.
OneEntryPerFile ==
  \A s, t \in Slots : valid[s] = 1 /\ valid[t] = 1 /\ node[s] = node[t] => s = t

\* What the last eput() of an entry is for: a file that nobody has open is on
\* the disk as it was left, and the clusters of a removed one are free.
NothingForgotten ==
  \A s \in Slots : ref[s] = 0 =>
    /\ valid[s] = 1 => disk[node[s]] = IF clus[s] THEN "full" ELSE "empty"
    /\ valid[s] = -1 => ~clus[s]

\* eput(): "ref == 1 means no other process can have entry locked, so this
\* acquiresleep() won't block (or deadlock)".  It is called with ecache.lock
\* held, and sleeping with a second lock is a panic in sched().
PutNeverBlocks ==
  \A p \in Procs : pc[p] = "put" /\ IsLastPut(p) => owner[pe[p]] = None

\* The entry that the process is about to lock, None if there is none.
Wants(p) ==
  IF pc[p] \in {"walk", "relock", "found"} THEN cur[p]
  ELSE IF pc[p] = "rmlock" THEN parent[cur[p]]
  ELSE IF pc[p] = "putwork" /\ valid[pe[p]] # -1 THEN parent[pe[p]]
  ELSE None

\* elock(), eunlock(): "entry->ref < 1" is a panic.  Whoever locks an entry,
\* and whoever has it locked, has a reference of it.
NoLockPanic ==
  /\ \A p \in Procs : Wants(p) # None => ref[Wants(p)] >= 1
  /\ \A e \in Entries : owner[e] # None => ref[e] >= 1

-----------------------------------------------------------------------------
(* The inductive invariant behind these, part by part.  It holds as long as *)
(* eget() finds every entry settled (~PutRace).                             *)

Putting == LastPut \cup {"put"}
Locking == {"look", "make", "scan", "alloc", "emake", "leave", "rmlock", "rmdo"}
Walking == {"walk", "look", "relock", "make", "scan", "alloc", "emake", "leave"}
Reached == {"found", "rmlock", "rmdo"}
Places  == Putting \cup Walking \cup Reached \cup {"user", "mkparent", "panic"}

\* Where the process is, or where it goes on after eput().
Place(p) == IF pc[p] \in Putting THEN ret[p] ELSE pc[p]

EntryTypeOK ==
  /\ node \in [Entries -> Paths \cup {<<>>}]
  /\ parent \in [Entries -> Entries \cup {None}]
  /\ valid \in [Entries -> {-1, 0, 1}]
  /\ dirty \in [Entries -> BOOLEAN] /\ clus \in [Entries -> BOOLEAN]
  /\ ref \in [Entries -> Nat]
  /\ owner \in [Entries -> Procs \cup {None}]
  /\ list \in [1..ENTRY_CACHE_NUM -> Slots]
  /\ disk \in [Paths -> {"absent", "empty", "full"}]
  /\ pc \in [Procs -> Places]
  /\ op \in [Procs -> {"open", "create", "mkdir", "remove", "mkparent"}]
  /\ goal \in [Procs -> Paths \cup {<<>>}]
  /\ done \in [Procs -> Nat]
  /\ cur \in [Procs -> Entries \cup {None}]
  /\ ep \in [Procs -> Slots \cup {None}]
  /\ fd \in [Procs -> Entries \cup {None}]
  /\ pe \in [Procs -> Entries \cup {None}]
  /\ pp \in [Procs -> Entries \cup {None}]
  /\ ret \in [Procs -> {"user", "walk", "found", "mkparent"}]

\* Every slot is linked once.
ListLinked ==
  /\ \A s \in Slots : \E i \in 1..ENTRY_CACHE_NUM : list[i] = s
  /\ \A i, j \in 1..ENTRY_CACHE_NUM : list[i] = list[j] => i = j

RootStays == node[Root] = <<>> /\ valid[Root] = 1

\* Which variables of a process point to an entry where.
PointersUsed ==
  \A p \in Procs :
    /\ cur[p] # None <=> Place(p) \in Walking \cup Reached \cup {"panic"}
    /\ ep[p] # None => pc[p] \in {"scan", "emake", "leave"}
    /\ pc[p] \in {"scan", "emake"} => ep[p] # None
    /\ pe[p] # None <=> pc[p] \in Putting
    /\ pp[p] # None <=> pc[p] = "putcheck"
    /\ fd[p] # None => pc[p] = "user"

\* How much of its path a process has resolved.
WalkedSoFar ==
  \A p \in Procs :
    /\ Place(p) \in Walking \cup Reached \cup {"mkparent"} => goal[p] \in Paths
    /\ op[p] = "mkparent" \/ Place(p) = "mkparent" => Len(goal[p]) = 2
    /\ Place(p) \in Walking => done[p] < Depth(p)
    /\ pc[p] \in {"relock", "make", "alloc", "emake"} => AtParent(p)
    /\ Place(p) \in Reached => done[p] = Depth(p)

\* The entries of a process are those of the path that it walks.
OnItsPath ==
  \A p \in Procs :
    /\ Place(p) \in Walking \cup Reached => node[cur[p]] = SubSeq(goal[p], 1, done[p])
    /\ pc[p] = "leave" /\ ep[p] # None => node[ep[p]] = Child(p)

\* Who holds which lock where.
LocksWhere ==
  \A p \in Procs :
    /\ pc[p] \in Locking => owner[cur[p]] = p
    /\ pc[p] = "rmdo" => owner[parent[cur[p]]] = p
    /\ pc[p] \in {"putwork", "putupdate", "putunlock"} => owner[pe[p]] = p
    /\ pc[p] = "putupdate" => owner[parent[pe[p]]] = p

\* Entry e is locked by process p.
Holds(p, e) ==
  \/ pc[p] \in Locking \cup {"panic"} /\ e = cur[p]
  \/ pc[p] = "rmdo" /\ e = parent[cur[p]]
  \/ pc[p] \in {"putwork", "putupdate", "putunlock"} /\ e = pe[p]
  \/ pc[p] = "putupdate" /\ e = parent[pe[p]]

LocksWhose == \A e \in Entries : owner[e] # None => Holds(owner[e], e)

\* The last eput() has the last reference, and what it has done is not undone.
LastPutAlone ==
  \A p \in Procs :
    /\ pc[p] \in LastPut => pe[p] \in Slots
    /\ pc[p] \in LastPut \ {"putcheck"} => ref[pe[p]] = 1
    /\ pc[p] = "putcheck" => ref[pe[p]] = 0
    /\ pc[p] = "putupdate" => valid[pe[p]] = 1
    /\ pc[p] \in {"putunlock", "putdec"} =>
         /\ valid[pe[p]] = 1 => ~dirty[pe[p]]
         /\ valid[pe[p]] = -1 => ~clus[pe[p]]

\* A process points to entries that are or were valid, but for the one that
\* it is filling in.
PointersValid ==
  \A p \in Procs :
    /\ cur[p] # None => valid[cur[p]] # 0
    /\ fd[p] # None => valid[fd[p]] # 0
    /\ pc[p] \in Putting \ {"putcheck"} => valid[pe[p]] # 0
    /\ pp[p] # None => valid[pp[p]] # 0
    /\ pc[p] = "leave" /\ ep[p] # None => valid[ep[p]] # 0
    /\ pc[p] \in {"scan", "emake"} => valid[ep[p]] = 0 /\ ref[ep[p]] = 1

\* An entry with references has a parent, and a valid one is on the disk.
EntryFilled ==
  \A s \in Slots :
    /\ valid[s] # 0 => node[s] \in Paths
    /\ valid[s] # 0 /\ ref[s] > 0 => parent[s] \in Entries /\ valid[parent[s]] # 0
    /\ valid[s] = 0 => ~dirty[s]
    /\ valid[s] = 1 => disk[node[s]] # "absent"
    /\ valid[s] = 1 /\ ~dirty[s] => disk[node[s]] = IF clus[s] THEN "full" ELSE "empty"
    /\ valid[s] = 1 /\ ref[s] = 0 => ~dirty[s]
    /\ valid[s] = -1 /\ ref[s] = 0 => ~clus[s]

\* While its directory is locked, a file that was not found is not there.
NotThereYet ==
  \A p \in Procs : pc[p] \in {"scan", "alloc", "emake"} =>
    valid[cur[p]] = 1 /\ Matching(p) = {}

\* While it is locked, a directory that was found empty is empty.
StillEmpty ==
  \A p \in Procs : pc[p] = "rmdo" => ~NotEmpty(cur[p])

\* An entry that is, or is about to be, without references is linked before
\* its cached children, and eget() recycles from the other end.
Leaving(e) == ref[e] = 0 \/ \E p \in Procs : pc[p] \in LastPut /\ pe[p] = e
ParentsFirst ==
  \A i, j \in 1..ENTRY_CACHE_NUM :
    valid[list[i]] = 1 /\ parent[list[i]] = list[j] /\ Leaving(list[j]) => j < i

\* The inductive invariant of the entry cache: how the counts, the locks, the
\* order of the list and the state of the disk hang together through eget(),
\* ealloc(), eremove() and every step of eput().
EntryInv ==
  /\ EntryTypeOK /\ ListLinked /\ RootStays /\ PointersUsed /\ WalkedSoFar
  /\ OnItsPath /\ LocksWhere /\ LocksWhose /\ LastPutAlone /\ PointersValid
  /\ EntryFilled /\ NotThereYet /\ StillEmpty /\ ParentsFirst
  /\ RefExact /\ ParentIsParent /\ OneEntryPerFile
=============================================================================
