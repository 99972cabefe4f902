------------------------------- MODULE Fat32 -------------------------------
(***************************************************************************)
(* File contents in kernel/fat32.c: the file allocation table, the         *)
(* clusters, and the cursor (cur_clus, clus_cnt) that every directory      *)
(* entry keeps into the chain of its file; eread(), ewrite(), etrunc() and *)
(* etruncate() with alloc_clus() and reloc_clus() under them.              *)
(*                                                                         *)
(* eread() and ewrite() run under the lock of the entry, one step for each *)
(* link of the chain that reloc_clus() follows and each rw_clus().  A      *)
(* sector of the table or of a cluster is used under its buffer lock       *)
(* (BufferCache).  enext(), which scans a directory, is the reader that    *)
(* goes on to the end of the chain.                                        *)
(*                                                                         *)
(* A definition marked "Variant" is a plausible mistake in the one that    *)
(* follows it; the properties below are shown to catch it.                 *)
(***************************************************************************)
EXTENDS Integers, Sequences, FiniteSets

CONSTANTS
  Procs,           \* processes inside the kernel
  Files,           \* directory entries of files and directories
  Dirs,            \* those of them that are directories
  Values,          \* contents of a byte
  Payload,         \* the bytes that programs write
  Zero,            \* the byte that zero_clus() writes
  Blank,           \* what the files contain at boot
  byts_per_clus,   \* fat.byts_per_clus
  data_clus_cnt,   \* fat.data_clus_cnt
  FatLen,          \* entries in the sectors of the table
  Chain,           \* the clusters of every file at boot
  Reuse,           \* TRUE: files also grow after a cluster has been freed
  Lens,            \* arguments of ftruncate()
  Sizes,           \* how many bytes programs read or write at a time
  MaxSize,         \* bound on the size of a file
  None             \* no process, no file

Clusters == 2..data_clus_cnt + 1
EOC == FatLen + 2      \* FAT32_EOC: above every number of a cluster

ASSUME FatAssumption ==
  /\ IsFiniteSet(Procs) /\ IsFiniteSet(Files) /\ Dirs \subseteq Files
  /\ None \notin Procs \cup Files
  /\ Zero \in Values /\ Blank \in Values /\ Payload \subseteq Values
  /\ byts_per_clus \in Nat \ {0} /\ data_clus_cnt \in Nat
  /\ FatLen \in Nat /\ FatLen >= data_clus_cnt + 2
  /\ Chain \in [Files -> Seq(Clusters)]
  /\ \A f \in Dirs : Chain[f] # <<>>
  /\ Lens \subseteq Nat /\ Sizes \subseteq Nat \ {0} /\ MaxSize \in Nat
  /\ Reuse \in BOOLEAN

VARIABLES
  table,      \* the first FAT
  data,       \* the clusters
  first,      \* entry->first_clus
  size,       \* entry->file_size
  cur,        \* entry->cur_clus
  cnt,        \* entry->clus_cnt
  owner,      \* the holder of entry->lock
  pc,         \* where the process is
  file,       \* the file that it reads or writes
  off,        \* off
  left,       \* n - tot
  val,        \* ewrite(): the byte that is written, n times
  got,        \* eread(): what has been copied to the user
  freed,      \* free_clus() has been called
  written,    \* for the properties: the last byte written at every offset
  panicked    \* the kernel has stopped

diskVars  == <<table, data>>
entryVars == <<first, size, cur, cnt, owner>>
procVars  == <<pc, file, off, left, val, got>>
vars == <<diskVars, entryVars, procVars, freed, written, panicked>>

Offsets == 0..MaxSize - 1

\* read_fat()
NextClus(c) == IF c >= EOC THEN c ELSE IF c \in Clusters THEN table[c] ELSE 0

\* The chain of a file, by the table: its clusters, and what comes after them.
Walk(f) ==
  LET w[i \in 0..data_clus_cnt] ==
        IF i = 0 THEN <<first[f]>>
        ELSE LET s == w[i - 1] IN Append(s, NextClus(s[i]))
  IN  w[data_clus_cnt]

ClusAt(f, i) == Walk(f)[i + 1]

Reach(f) ==
  LET s == Walk(f) IN {s[i] : i \in 1..Len(s)} \cap Clusters

-----------------------------------------------------------------------------
\* The clusters of a formatted disk that have a successor in a file.
BootLinks ==
  UNION {{<<Chain[f][i], Chain[f][i + 1]>> : i \in 1..Len(Chain[f]) - 1}
           : f \in Files}
BootEnds == {Chain[f][Len(Chain[f])] : f \in {g \in Files : Chain[g] # <<>>}}

\* fat32_init(): entries 0 and 1 of the table are reserved.  The files are
\* full, and read_entry_info() has set their cursors to the first cluster.
Init ==
  /\ table = [k \in 0..FatLen - 1 |->
                IF k < 2 \/ k \in BootEnds THEN EOC
                ELSE IF \E l \in BootLinks : l[1] = k
                     THEN (CHOOSE l \in BootLinks : l[1] = k)[2] ELSE 0]
  /\ data  = [c \in Clusters |-> [i \in 0..byts_per_clus - 1 |-> Blank]]
  /\ first = [f \in Files |-> IF Chain[f] = <<>> THEN 0 ELSE Chain[f][1]]
  /\ size  = [f \in Files |->
                IF f \in Dirs THEN 0 ELSE byts_per_clus * Len(Chain[f])]
  /\ cur   = first
  /\ cnt   = [f \in Files |-> 0]
  /\ owner = [f \in Files |-> None]
  /\ pc    = [p \in Procs |-> "user"]
  /\ file  = [p \in Procs |-> None]
  /\ off   = [p \in Procs |-> 0]
  /\ left  = [p \in Procs |-> 0]
  /\ val   = [p \in Procs |-> Zero]
  /\ got   = [p \in Procs |-> <<>>]
  /\ freed = FALSE
  /\ written = [f \in Files |-> [i \in Offsets |-> Blank]]
  /\ panicked = FALSE

Panic ==
  /\ panicked' = TRUE
  /\ UNCHANGED <<diskVars, entryVars, procVars, freed, written>>

-----------------------------------------------------------------------------
(* alloc_clus() *)

\* Variant: does not mark the entry.
MarkLost(k) == table

\* The entry k, the first that is zero, is marked as the end of a chain.
Mark(k) == [table EXCEPT ![k] = EOC]

\* "i * ent_per_sec + j + 2"
clus(k) == k + 2

Unmarked == {k \in 0..FatLen - 1 : table[k] = 0}
FirstUnmarked(k) == k \in Unmarked /\ \A j \in Unmarked : k <= j

\* zero_clus()
Zeroed(c) == [data EXCEPT ![c] = [i \in DOMAIN @ |-> Zero]]

\* The programs under which an allocation is right: none of their files grows
\* once a cluster has been freed.
MayGrow == Reuse \/ ~freed

\* "no clusters", or a number that zero_clus() refuses.
AllocPanics == \A k \in Unmarked : FirstUnmarked(k) => clus(k) \notin Clusters

-----------------------------------------------------------------------------
(* eread(), ewrite() and enext() *)

Begin(p, f, loc, o, n, v) ==
  /\ ~panicked /\ pc[p] = "user" /\ owner[f] = None
  /\ owner' = [owner EXCEPT ![f] = p]
  /\ pc'   = [pc EXCEPT ![p] = loc]
  /\ file' = [file EXCEPT ![p] = f]
  /\ off'  = [off EXCEPT ![p] = o]
  /\ left' = [left EXCEPT ![p] = n]
  /\ val'  = [val EXCEPT ![p] = v]
  /\ UNCHANGED <<size, got, freed, written>>

\* eread() of at most n bytes.
Read(p, f, o, n) ==
  /\ f \notin Dirs /\ o < size[f]
  /\ Begin(p, f, "read", o, IF o + n > size[f] THEN size[f] - o ELSE n, Zero)
  /\ UNCHANGED <<diskVars, first, cur, cnt, panicked>>

\* dirlookup() calls enext() from the beginning of a directory.
Scan(p, f) ==
  /\ f \in Dirs
  /\ Begin(p, f, "scan", 0, byts_per_clus, Zero)
  /\ UNCHANGED <<diskVars, first, cur, cnt, panicked>>

\* ewrite(), no holes.
Write(p, f, o, n, v) ==
  /\ f \notin Dirs /\ first[f] # 0
  /\ o <= size[f] /\ o + n <= MaxSize
  /\ Begin(p, f, "write", o, n, v)
  /\ UNCHANGED <<diskVars, first, cur, cnt, panicked>>

\* ewrite() to an empty file: the first cluster.
WriteFirst(p, f, o, n, v) ==
  /\ f \notin Dirs /\ first[f] = 0
  /\ o <= size[f] /\ o + n <= MaxSize
  /\ MayGrow /\ ~AllocPanics
  /\ \E k \in Unmarked :
       /\ FirstUnmarked(k)
       /\ table' = Mark(k)
       /\ data'  = Zeroed(clus(k))
       /\ first' = [first EXCEPT ![f] = clus(k)]
       /\ cur'   = [cur EXCEPT ![f] = clus(k)]
       /\ cnt'   = [cnt EXCEPT ![f] = 0]
  /\ Begin(p, f, "write", o, n, v)
  /\ UNCHANGED panicked

\* ewrite() to an empty file, on a disk without a cluster for it.
WriteFirstPanics(p, f) ==
  /\ ~panicked /\ pc[p] = "user" /\ owner[f] = None
  /\ f \notin Dirs /\ first[f] = 0
  /\ MayGrow /\ AllocPanics
  /\ Panic

-----------------------------------------------------------------------------
(* rw_clus() of the part of the file that is in one cluster *)

Room(p) == byts_per_clus - (off[p] % byts_per_clus)

\* "if (n - tot < m) m = n - tot"
Chunk(p) == IF left[p] < Room(p) THEN left[p] ELSE Room(p)

Advance(p) ==
  /\ off'  = [off EXCEPT ![p] = @ + Chunk(p)]
  /\ left' = [left EXCEPT ![p] = @ - Chunk(p)]

CopyOut(p, c) ==
  /\ got' = [got EXCEPT ![p] =
       @ \o [i \in 1..Chunk(p) |-> data[c][(off[p] % byts_per_clus) + i - 1]]]
  /\ Advance(p)

\* m bytes at off, in cluster c.
CopyIn(p, c, m) ==
  LET at == off[p] % byts_per_clus IN
  /\ data' = [data EXCEPT ![c] =
       [i \in DOMAIN @ |-> IF i \in at..at + m - 1 THEN val[p] ELSE @[i]]]
  /\ written' = [written EXCEPT ![file[p]] =
       [i \in Offsets |-> IF i \in off[p]..off[p] + m - 1 THEN val[p] ELSE @[i]]]

-----------------------------------------------------------------------------
(* reloc_clus() *)

Busy(p) == ~panicked /\ pc[p] # "user" /\ left[p] > 0
clus_num(p) == off[p] \div byts_per_clus
AtEnd(p) == NextClus(cur[file[p]]) >= EOC

Forward(p)  == Busy(p) /\ clus_num(p) > cnt[file[p]] /\ cur[file[p]] >= 2
Backward(p) == Busy(p) /\ clus_num(p) < cnt[file[p]]
InPlace(p)  == Busy(p) /\ clus_num(p) = cnt[file[p]]

\* One link further.
SeekNext(p) ==
  /\ Forward(p) /\ ~AtEnd(p)
  /\ cur' = [cur EXCEPT ![file[p]] = NextClus(@)]
  /\ cnt' = [cnt EXCEPT ![file[p]] = @ + 1]
  /\ UNCHANGED <<diskVars, first, size, owner, procVars, freed, written, panicked>>

\* The end of the chain in ewrite(): alloc_clus() and write_fat().
SeekGrow(p) ==
  /\ Forward(p) /\ AtEnd(p) /\ pc[p] = "write"
  /\ MayGrow /\ ~AllocPanics
  /\ \E k \in Unmarked :
       /\ FirstUnmarked(k)
       /\ table' = [Mark(k) EXCEPT ![cur[file[p]]] = clus(k)]
       /\ data'  = Zeroed(clus(k))
       /\ cur'   = [cur EXCEPT ![file[p]] = clus(k)]
       /\ cnt'   = [cnt EXCEPT ![file[p]] = @ + 1]
  /\ UNCHANGED <<first, size, owner, procVars, freed, written, panicked>>

\* The end of the chain in eread() and enext(): the cursor goes back to the
\* first cluster.  enext() stops; eread() does not look at the -1, and reads
\* there.
SeekEnds(p) ==
  /\ Forward(p) /\ AtEnd(p) /\ pc[p] \in {"read", "scan"}
  /\ cur' = [cur EXCEPT ![file[p]] = first[file[p]]]
  /\ cnt' = [cnt EXCEPT ![file[p]] = 0]
  /\ IF pc[p] = "scan"
     THEN left' = [left EXCEPT ![p] = 0] /\ UNCHANGED <<off, got>>
     ELSE CopyOut(p, first[file[p]])
  /\ UNCHANGED <<diskVars, first, size, owner, pc, file, val, freed, written,
                 panicked>>

\* Variant: counts again from zero without going to the first cluster.
SeekBackHalf(p) ==
  /\ Backward(p) /\ ClusAt(file[p], clus_num(p)) < EOC
  /\ cnt' = [cnt EXCEPT ![file[p]] = clus_num(p)]
  /\ UNCHANGED <<diskVars, first, size, cur, owner, procVars, freed, written,
                 panicked>>

\* Back: from the first cluster again.
SeekBack(p) ==
  /\ Backward(p) /\ ClusAt(file[p], clus_num(p)) < EOC
  /\ cur' = [cur EXCEPT ![file[p]] = ClusAt(file[p], clus_num(p))]
  /\ cnt' = [cnt EXCEPT ![file[p]] = clus_num(p)]
  /\ UNCHANGED <<diskVars, first, size, owner, procVars, freed, written, panicked>>

-----------------------------------------------------------------------------
(* The rest of the loops, and their panics *)

ReadChunk(p) ==
  /\ InPlace(p) /\ pc[p] = "read" /\ cur[file[p]] \in Clusters
  /\ CopyOut(p, cur[file[p]])
  /\ UNCHANGED <<diskVars, entryVars, pc, file, val, freed, written, panicked>>

WriteChunk(p) ==
  /\ InPlace(p) /\ pc[p] = "write" /\ cur[file[p]] \in Clusters
  /\ CopyIn(p, cur[file[p]], Chunk(p))
  /\ Advance(p)
  /\ UNCHANGED <<table, entryVars, pc, file, val, got, freed, panicked>>

\* enext() looks at the entries in a cluster.  It stops at the name that is
\* looked for or at END_OF_ENTRY, or goes on.
ScanChunk(p, stop) ==
  /\ InPlace(p) /\ pc[p] = "scan" /\ cur[file[p]] \in Clusters
  /\ off'  = [off EXCEPT ![p] = IF stop THEN @ ELSE @ + byts_per_clus]
  /\ left' = [left EXCEPT ![p] = IF stop THEN 0 ELSE @]
  /\ UNCHANGED <<diskVars, entryVars, pc, file, val, got, freed, written,
                 panicked>>

\* either_copyin() or either_copyout() fails behind the m-th byte: break.
CopyFails(p, m) ==
  /\ InPlace(p) /\ pc[p] \in {"read", "write"} /\ cur[file[p]] \in Clusters
  /\ m < Chunk(p)
  /\ IF pc[p] = "write" THEN CopyIn(p, cur[file[p]], m)
                        ELSE UNCHANGED <<data, written>>
  /\ left' = [left EXCEPT ![p] = 0]
  /\ UNCHANGED <<table, entryVars, pc, file, off, val, got, freed, panicked>>

\* "cluster number error", "reloc_clus", or no cluster for a file that grows.
SeekPanics(p) ==
  /\ \/ InPlace(p) /\ cur[file[p]] \notin Clusters
     \/ Busy(p) /\ clus_num(p) > cnt[file[p]] /\ cur[file[p]] < 2
     \/ Backward(p) /\ ClusAt(file[p], clus_num(p)) >= EOC
     \/ Forward(p) /\ AtEnd(p) /\ pc[p] = "write" /\ MayGrow /\ AllocPanics
  /\ Panic

\* The end of eread() or ewrite(), and eunlock().
Finish(p) ==
  /\ ~panicked /\ pc[p] # "user" /\ left[p] = 0
  /\ size' = [size EXCEPT ![file[p]] =
                IF pc[p] = "write" /\ off[p] > @ THEN off[p] ELSE @]
  /\ owner' = [owner EXCEPT ![file[p]] = None]
  /\ pc'   = [pc EXCEPT ![p] = "user"]
  /\ file' = [file EXCEPT ![p] = None]
  /\ off'  = [off EXCEPT ![p] = 0]
  /\ val'  = [val EXCEPT ![p] = Zero]
  /\ got'  = [got EXCEPT ![p] = <<>>]
  /\ UNCHANGED <<diskVars, first, cur, cnt, left, freed, written, panicked>>

-----------------------------------------------------------------------------
(* Truncation *)

FreeChain(f) ==
  /\ table' = [k \in DOMAIN table |-> IF k \in Reach(f) THEN 0 ELSE table[k]]
  /\ freed' = (freed \/ Reach(f) # {})

\* etrunc(), under entry->lock; the cursor stays where it was.
Etrunc(f) ==
  /\ ~panicked /\ f \notin Dirs /\ owner[f] = None
  /\ FreeChain(f)
  /\ size'  = [size EXCEPT ![f] = 0]
  /\ first' = [first EXCEPT ![f] = 0]
  /\ UNCHANGED <<data, cur, cnt, owner, procVars, written, panicked>>

\* sys_ftruncate() and etruncate(), without the lock.  The first loop does not
\* count i: it frees the whole chain, or nothing if len > 0.
Etruncate(f, len) ==
  /\ ~panicked /\ f \notin Dirs /\ len <= size[f]
  /\ size' = [size EXCEPT ![f] = len]
  /\ IF len = 0 THEN FreeChain(f) ELSE UNCHANGED <<table, freed>>
  /\ UNCHANGED <<data, first, cur, cnt, owner, procVars, written, panicked>>

-----------------------------------------------------------------------------
Seek(p) == SeekNext(p) \/ SeekGrow(p) \/ SeekEnds(p) \/ SeekBack(p) \/ SeekPanics(p)

Copy(p) ==
  \/ ReadChunk(p) \/ WriteChunk(p)
  \/ \E stop \in BOOLEAN : ScanChunk(p, stop)
  \/ \E m \in 0..byts_per_clus - 1 : CopyFails(p, m)

Call(p, f) ==
  \/ \E o \in Offsets, n \in Sizes : Read(p, f, o, n)
  \/ \E o \in Offsets, n \in Sizes, v \in Payload :
       Write(p, f, o, n, v) \/ WriteFirst(p, f, o, n, v)
  \/ Scan(p, f) \/ WriteFirstPanics(p, f)

Next ==
  \/ \E p \in Procs : Seek(p) \/ Copy(p) \/ Finish(p)
  \/ \E p \in Procs, f \in Files : Call(p, f)
  \/ \E f \in Files : Etrunc(f) \/ (\E len \in Lens : Etruncate(f, len))

Spec == Init /\ [][Next]_vars

-----------------------------------------------------------------------------
\* alloc_clus(): no cluster belongs to two files.
NoCrossLink ==
  \A f \in Files : LET r == Reach(f) IN
    \A g \in Files \ {f} : r \cap Reach(g) = {}

\* Every byte of a file up to its size is in a cluster of its chain, and is the
\* last byte that ewrite() put there: nothing is lost when the file grows, and
\* no other file writes it.
ReadBack ==
  \A f \in Files \ Dirs : LET s == Walk(f) IN
    \A i \in 0..size[f] - 1 :
      LET c == s[(i \div byts_per_clus) + 1] IN
      c \in Clusters /\ data[c][i % byts_per_clus] = written[f][i]

=============================================================================
