---------------------------- MODULE FilesProofs ----------------------------
(***************************************************************************)
(* Proofs about Files.tla, for any number of processes, descriptors, file  *)
(* slots, pipes, names and entries, and any open flags: the reference      *)
(* counts of files and of directory entries are exact, pipe ends are open  *)
(* as long as a file has them, and descriptors of openat() survive exec(). *)
(***************************************************************************)
EXTENDS Files, Arithmetic

\* The sets that are counted over are finite.
LEMMA Finite ==
  /\ IsFiniteSet(Procs) /\ IsFiniteSet(Fds) /\ IsFiniteSet(FileSlots)
  /\ NOFILE \in Nat /\ NOFILE > 1 /\ LowLimit \in Nat \ {0} /\ LowLimit <= NOFILE
  /\ NFILE \in Nat /\ 1 \in Fds
  /\ NULL \notin Entries /\ NULL \notin FileSlots /\ NULL \notin Pages /\ Root \in Entries
<1>1. /\ NOFILE \in Nat /\ NOFILE > 1 /\ LowLimit \in Nat \ {0} /\ LowLimit <= NOFILE
      /\ NFILE \in Nat /\ IsFiniteSet(Procs)
      /\ NULL \notin Entries /\ NULL \notin FileSlots /\ NULL \notin Pages /\ Root \in Entries
  BY FilesAssumption DEF Entries, FileSlots
<1>2. IsFiniteSet(0 .. NOFILE - 1) /\ IsFiniteSet(1 .. NFILE)
  BY <1>1, FS_Interval
<1> QED
  BY <1>1, <1>2 DEF Fds, FileSlots

\* The least element of a set of numbers.
LEMMA MinLeast ==
  ASSUME NEW S, S \subseteq Nat, S # {}
  PROVE  Min(S) \in S /\ \A x \in S : Min(S) <= x
<1>1. \E n \in S : \A m \in S : n <= m
  BY LeastNat
<1> QED
  BY <1>1 DEF Min

\* The greater of two numbers.
LEMMA MaxOfTwo ==
  ASSUME NEW a \in Nat, NEW b \in Nat
  PROVE  Max({a, b}) \in {a, b} /\ Max({a, b}) \in Nat
<1>1. \E x \in {a, b} : \A y \in {a, b} : x >= y
  OBVIOUS
<1> QED
  BY <1>1 DEF Max

\* The lesser of two numbers.
LEMMA MinOfTwo ==
  ASSUME NEW a \in Nat, NEW b \in Nat
  PROVE  Min({a, b}) \in {a, b} /\ Min({a, b}) \in Nat
  BY MinLeast

-----------------------------------------------------------------------------
(* Counting descriptors *)

\* The descriptors that refer to f, if o are the descriptors of all processes.
UsersIn(o, f) == {pf \in Procs \X Fds : o[pf[1]][pf[2]] = f}

\* A change of the descriptors of one process is all that changes the number.
LEMMA UsersRow ==
  ASSUME NEW o, NEW u, NEW p \in Procs, NEW f, Agree(Procs \ {p}, o, u)
  PROVE  /\ Cardinality(UsersIn(o, f)) \in Nat /\ Cardinality(UsersIn(u, f)) \in Nat
         /\ Count(Fds, o[p], f) \in Nat /\ Count(Fds, u[p], f) \in Nat
         /\ Count(Fds, o[p], f) <= Cardinality(UsersIn(o, f))
         /\ Cardinality(UsersIn(u, f))
              = Cardinality(UsersIn(o, f)) - Count(Fds, o[p], f) + Count(Fds, u[p], f)
<1> DEFINE Rest == {pf \in (Procs \ {p}) \X Fds : o[pf[1]][pf[2]] = f}
           Row(r) == {fd \in Fds : r[fd] = f}
           Col(r) == {<<p, fd>> : fd \in Row(r)}
<1>1. IsFiniteSet(Procs \X Fds)
  BY Finite, FS_Product
<1>2. IsFiniteSet(Rest) /\ Cardinality(Rest) \in Nat
  <2>1. Rest \subseteq Procs \X Fds
    OBVIOUS
  <2> QED
    BY <1>1, <2>1, FS_Subset, FS_CardinalityType
<1>3. ASSUME NEW r
      PROVE  /\ IsFiniteSet(Col(r)) /\ Cardinality(Col(r)) = Count(Fds, r, f)
             /\ Count(Fds, r, f) \in Nat
  <2>1. IsFiniteSet(Row(r)) /\ Count(Fds, r, f) = Cardinality(Row(r)) /\ Count(Fds, r, f) \in Nat
    <3>1. IsFiniteSet(Fds)
      BY Finite
    <3>2. IsFiniteSet({x \in Fds : r[x] = f}) /\ Count(Fds, r, f) \in Nat
      BY ONLY <3>1, CountType
    <3> QED
      BY <3>2 DEF Count
  <2> DEFINE g == [fd \in Row(r) |-> <<p, fd>>]
  <2>2. g \in Bijection(Row(r), Col(r))
    <3> HIDE DEF Row
    <3> QED
      BY DEF Bijection, Injection, Surjection, IsInjective
  <2>3. ExistsBijection(Row(r), Col(r))
    BY <2>2 DEF ExistsBijection
  <2> HIDE DEF Row, Col
  <2> QED
    BY <2>1, <2>3, FS_Bijection
<1>4. UsersIn(o, f) = Rest \cup Col(o[p]) /\ Rest \cap Col(o[p]) = {}
  BY DEF UsersIn
<1>5. UsersIn(u, f) = Rest \cup Col(u[p]) /\ Rest \cap Col(u[p]) = {}
  BY DEF UsersIn, Agree
<1>6. ASSUME NEW C, IsFiniteSet(C), Rest \cap C = {}
      PROVE  Cardinality(Rest \cup C) = Cardinality(Rest) + Cardinality(C)
  <2> HIDE DEF Rest
  <2>1. Cardinality(Rest \cup C) = Cardinality(Rest) + Cardinality(C) - Cardinality(Rest \cap C)
    BY <1>2, <1>6, FS_Union
  <2>2. Cardinality(Rest \cap C) = 0 /\ Cardinality(C) \in Nat
    BY <1>6, FS_EmptySet, FS_CardinalityType
  <2> QED
    BY <1>2, <2>1, <2>2
<1> HIDE DEF Rest, Col
<1>7. /\ Cardinality(UsersIn(o, f)) = Cardinality(Rest) + Count(Fds, o[p], f)
      /\ Count(Fds, o[p], f) \in Nat
  BY <1>3, <1>4, <1>6
<1>8. /\ Cardinality(UsersIn(u, f)) = Cardinality(Rest) + Count(Fds, u[p], f)
      /\ Count(Fds, u[p], f) \in Nat
  BY <1>3, <1>5, <1>6
<1> QED
  BY <1>2, <1>7, <1>8

\* One if a descriptor that holds g refers to f.
Hit(g, f) == IF g = f THEN 1 ELSE 0

\* The descriptor fd of p changes from a to g, and no other does.
SetOne(o, u, p, fd, a, g) ==
  Agree(Procs \ {p}, o, u) /\ Agree(Fds \ {fd}, o[p], u[p]) /\ o[p][fd] = a /\ u[p][fd] = g

\* One descriptor changes.
LEMMA UsersSet ==
  ASSUME NEW o, NEW u, NEW p \in Procs, NEW fd \in Fds, NEW a, NEW g,
         SetOne(o, u, p, fd, a, g), NEW f
  PROVE  /\ Cardinality(UsersIn(o, f)) \in Nat /\ Cardinality(UsersIn(u, f)) \in Nat
         /\ Hit(a, f) \in Nat /\ Hit(g, f) \in Nat
         /\ Cardinality(UsersIn(u, f)) = Cardinality(UsersIn(o, f)) - Hit(a, f) + Hit(g, f)
<1> DEFINE r == o[p]
           v == u[p]
<1>0. r[fd] = a /\ v[fd] = g
  BY DEF SetOne
<1>1. IsFiniteSet(Fds) /\ \A x \in Fds \ {fd} : v[x] = r[x]
  BY Finite DEF Agree, SetOne
<1>2. /\ Cardinality(UsersIn(o, f)) \in Nat /\ Count(Fds, o[p], f) \in Nat
      /\ Cardinality(UsersIn(u, f)) \in Nat
      /\ Cardinality(UsersIn(u, f))
              = Cardinality(UsersIn(o, f)) - Count(Fds, o[p], f) + Count(Fds, u[p], f)
  BY UsersRow DEF SetOne
<1> HIDE DEF r, v
<1>3. Count(Fds, v, f) = Count(Fds, r, f) - (IF r[fd] = f THEN 1 ELSE 0)
                             + (IF v[fd] = f THEN 1 ELSE 0)
  BY <1>1, CountExcept
<1>4. Count(Fds, v, f) = Count(Fds, r, f) - Hit(a, f) + Hit(g, f)
  BY <1>0, <1>3 DEF Hit
<1>5. Hit(a, f) \in Nat /\ Hit(g, f) \in Nat
  BY DEF Hit
<1> QED
  BY <1>2, <1>4, <1>5 DEF r, v

\* The descriptor is set.
LEMMA SetOneIs ==
  ASSUME NEW o \in [Procs -> [Fds -> FileSlots \cup {NULL}]], NEW p \in Procs, NEW fd \in Fds, NEW g
  PROVE  SetOne(o, [o EXCEPT ![p][fd] = g], p, fd, o[p][fd], g)
  BY DEF SetOne, Agree

\* Of the descriptors of p, fds are lost.
Loses(o, u, p, fds) ==
  /\ Agree(Procs \ {p}, o, u) /\ Agree(Fds \ fds, o[p], u[p])
  /\ \A fd \in fds : u[p][fd] = NULL

\* How many of them refer to f.
Gone(o, p, fds, f) == Count(fds, o[p], f)

LEMMA UsersDrop ==
  ASSUME NEW o, NEW u, NEW p \in Procs, NEW fds \in SUBSET Fds, Loses(o, u, p, fds),
         NEW f \in FileSlots
  PROVE  /\ Gone(o, p, fds, f) \in Nat /\ Cardinality(UsersIn(o, f)) \in Nat
         /\ Cardinality(UsersIn(u, f)) \in Nat
         /\ Gone(o, p, fds, f) <= Cardinality(UsersIn(o, f))
         /\ Cardinality(UsersIn(u, f)) = Cardinality(UsersIn(o, f)) - Gone(o, p, fds, f)
<1> DEFINE r == o[p]
           v == u[p]
<1>1. IsFiniteSet(Fds) /\ fds \subseteq Fds /\ IsFiniteSet(fds)
  BY Finite, FS_Subset
<1>2. /\ Cardinality(UsersIn(o, f)) \in Nat /\ Count(Fds, o[p], f) \in Nat
      /\ Cardinality(UsersIn(u, f)) \in Nat
      /\ Count(Fds, o[p], f) <= Cardinality(UsersIn(o, f))
      /\ Cardinality(UsersIn(u, f))
              = Cardinality(UsersIn(o, f)) - Count(Fds, o[p], f) + Count(Fds, u[p], f)
  BY UsersRow DEF Loses
<1>3. \A fd \in fds : v[fd] # f
  BY Finite DEF Loses
<1>4. Agree(Fds \ fds, r, v)
  BY DEF Loses
<1> HIDE DEF r, v
<1>5. Count(fds, v, f) = 0
  BY <1>1, <1>3, CountType
<1>6. /\ Count(fds, r, f) \in Nat /\ Count(fds, r, f) <= Count(Fds, r, f)
      /\ Count(Fds, v, f) = Count(Fds, r, f) - Count(fds, r, f)
  BY <1>1, <1>4, <1>5, CountDrop
<1> QED
  BY <1>2, <1>6 DEF r, v, Gone

-----------------------------------------------------------------------------
(* The invariant in the form in which it is proved: counts over fixed sets *)

\* The entry that each file slot holds.
NodeIn(ft) == [f \in FileSlots |-> IF ft[f].type = "ENTRY" THEN ft[f].ep ELSE NULL]

FileCounts ==
  \A f \in FileSlots : ftable[f].ref = Cardinality(UsersIn(ofile, f)) + lostFile[f]

EntryCounts ==
  \A e \in Entries :
    entry[e].ref = Count(FileSlots, NodeIn(ftable), e) + Count(Procs, cwd, e) + lostEntry[e]

\* The slot with the record r holds the write end (w) or the read end of pg.
IsEnd(r, pg, w) == r.type = "PIPE" /\ r.pipe = pg /\ (r.writable <=> w)

PipeEnds ==
  \A pg \in Pages : /\ pipe[pg].readopen <=> \E f \in FileSlots : IsEnd(ftable[f], pg, FALSE)
                    /\ pipe[pg].writeopen <=> \E f \in FileSlots : IsEnd(ftable[f], pg, TRUE)

OneEnd ==
  \A pg \in Pages, w \in BOOLEAN : \A f, g \in FileSlots :
    IsEnd(ftable[f], pg, w) /\ IsEnd(ftable[g], pg, w) => f = g

Core ==
  /\ FilesTypeOK /\ HeldByLiving /\ SlotsSound /\ OpenatUnmarked
  /\ FileCounts /\ EntryCounts /\ PipeEnds /\ OneEnd

\* Open files and working directories, counted in two ways.
LEMMA EntryCounting ==
  ASSUME NEW al \in SUBSET Procs, NEW cw, \A p \in Procs \ al : cw[p] = NULL,
         NEW ft, NEW e \in Entries
  PROVE  /\ Cardinality({f \in FileSlots : ft[f].type = "ENTRY" /\ ft[f].ep = e})
              = Count(FileSlots, NodeIn(ft), e)
         /\ Cardinality({p \in al : cw[p] = e}) = Count(Procs, cw, e)
<1>1. e # NULL
  BY Finite
<1>2. {f \in FileSlots : ft[f].type = "ENTRY" /\ ft[f].ep = e}
        = {f \in FileSlots : NodeIn(ft)[f] = e}
  BY <1>1 DEF NodeIn
<1>3. {p \in al : cw[p] = e} = {p \in Procs : cw[p] = e}
  BY <1>1
<1> QED
  BY <1>2, <1>3 DEF Count

\* A file that some slot's record says is a pipe end has references.
LEMMA EndsAre ==
  ASSUME FilesTypeOK, SlotsSound, NEW pg \in Pages, NEW w \in BOOLEAN
  PROVE  Ends(pg, w) = {f \in FileSlots : IsEnd(ftable[f], pg, w)}
<1> SUFFICES ASSUME NEW f \in FileSlots
             PROVE  f \in Ends(pg, w) <=> IsEnd(ftable[f], pg, w)
  BY DEF Ends
<1>1. ftable[f] \in File
  BY DEF FilesTypeOK
<1>2. ftable[f].writable \in BOOLEAN /\ ftable[f].ref \in Nat
  BY <1>1 DEF File
<1>3. ftable[f].ref > 0 \/ ftable[f].type = "NONE"
  BY <1>2 DEF SlotsSound
<1>4. ftable[f].writable = w <=> (ftable[f].writable <=> w)
  BY <1>2
<1> QED
  BY <1>3, <1>4 DEF Ends, IsEnd

\* The two forms say the same.
LEMMA CoreSame == Core <=> FilesInv
<1> SUFFICES ASSUME FilesTypeOK, HeldByLiving, SlotsSound
             PROVE  /\ FileCounts /\ PipeEnds <=> FileRefExact
                    /\ EntryCounts <=> EntryRefExact
                    /\ OneEnd <=> OneFilePerEnd
  BY DEF Core, FilesInv
<1>1. EntryCounts <=> EntryRefExact
  <2>1. ASSUME NEW e \in Entries
        PROVE  /\ Cardinality({f \in FileSlots : ftable[f].type = "ENTRY" /\ ftable[f].ep = e})
                     = Count(FileSlots, NodeIn(ftable), e)
               /\ Cardinality({p \in alive : cwd[p] = e}) = Count(Procs, cwd, e)
    <3>1. alive \in SUBSET Procs /\ \A p \in Procs \ alive : cwd[p] = NULL
      BY DEF FilesTypeOK, HeldByLiving
    <3> QED
      BY ONLY <3>1, e \in Entries, EntryCounting
  <2> QED
    BY <2>1 DEF EntryCounts, EntryRefExact
<1>2. OneEnd <=> OneFilePerEnd
  BY EndsAre DEF OneEnd, OneFilePerEnd
<1>3. PipeEnds <=> \A pg \in Pages : /\ pipe[pg].readopen = (Ends(pg, FALSE) # {})
                                     /\ pipe[pg].writeopen = (Ends(pg, TRUE) # {})
  <2>1. ASSUME NEW pg \in Pages, NEW w \in BOOLEAN
        PROVE  Ends(pg, w) # {} <=> \E f \in FileSlots : IsEnd(ftable[f], pg, w)
    BY EndsAre
  <2>2. \A pg \in Pages : pipe[pg].readopen \in BOOLEAN /\ pipe[pg].writeopen \in BOOLEAN
    BY DEF FilesTypeOK
  <2> QED
    BY <2>1, <2>2 DEF PipeEnds
<1>4. FileRefExact <=> FileCounts /\ \A pg \in Pages :
                                        /\ pipe[pg].readopen = (Ends(pg, FALSE) # {})
                                        /\ pipe[pg].writeopen = (Ends(pg, TRUE) # {})
  BY DEF FileRefExact, FileCounts, Users, UsersIn
<1> QED
  BY <1>1, <1>2, <1>3, <1>4

-----------------------------------------------------------------------------
(* What openat() returned *)

\* A file that stays in use keeps its type.
TypesKept ==
  \A f \in FileSlots : ftable[f].ref # 0 /\ ftable'[f].ref # 0 => ftable'[f].type = ftable[f].type

\* A file that a descriptor refers to has references.
LEMMA UsedRef ==
  ASSUME NEW o \in [Procs -> [Fds -> FileSlots \cup {NULL}]], NEW ft, NEW lost \in [FileSlots -> Nat],
         \A f \in FileSlots : ft[f].ref = Cardinality(UsersIn(o, f)) + lost[f],
         NEW q \in Procs, NEW y \in Fds, o[q][y] # NULL
  PROVE  o[q][y] \in FileSlots /\ ft[o[q][y]].ref # 0
<1> DEFINE f == o[q][y]
           U == UsersIn(o, f)
<1>1. f \in FileSlots /\ lost[f] \in Nat
  OBVIOUS
<1>2. <<q, y>> \in U /\ U \subseteq Procs \X Fds
  BY DEF UsersIn
<1>3. ft[f].ref = Cardinality(U) + lost[f]
  BY <1>1
<1>4. IsFiniteSet(Procs \X Fds)
  BY Finite, FS_Product
<1> HIDE DEF U, f
<1>5. IsFiniteSet(U)
  BY <1>2, <1>4, FS_Subset
<1>6. Cardinality(U) \in Nat /\ Cardinality(U) # 0
  BY <1>2, <1>5, FS_CardinalityType, FS_EmptySet
<1> QED
  BY <1>1, <1>3, <1>6 DEF f

\* A descriptor that openat() returned before, and that the step leaves alone.
LEMMA KeptOne ==
  ASSUME Core, FilesTypeOK', FileCounts', TypesKept, NEW q \in Procs, NEW y \in openatFd[q],
         ofile'[q][y] = ofile[q][y], execClose'[q][y] = execClose[q][y]
  PROVE  /\ ofile'[q][y] # NULL
         /\ execClose'[q][y] => ftable'[ofile'[q][y]].type = "NULL"
         /\ \A fd0, fd1 \in Fds : call[q] = <<"pipe", fd0, fd1>> => y \notin {fd0, fd1}
<1>1. OpenatUnmarked /\ FilesTypeOK /\ FileCounts
  BY DEF Core
<1>2. y \in Fds /\ ofile[q][y] # NULL
  BY <1>1 DEF FilesTypeOK, OpenatUnmarked
<1>3. ofile'[q][y] = ofile[q][y] /\ execClose'[q][y] = execClose[q][y]
  OBVIOUS
<1>4. ofile[q][y] \in FileSlots /\ ftable[ofile[q][y]].ref # 0
  <2>1. /\ ofile \in [Procs -> [Fds -> FileSlots \cup {NULL}]] /\ lostFile \in [FileSlots -> Nat]
        /\ \A f \in FileSlots : ftable[f].ref = Cardinality(UsersIn(ofile, f)) + lostFile[f]
    BY <1>1 DEF FilesTypeOK, FileCounts
  <2> QED
    BY ONLY <1>2, <2>1, q \in Procs, UsedRef
<1>5. ftable'[ofile'[q][y]].ref # 0
  <2>1. /\ ofile' \in [Procs -> [Fds -> FileSlots \cup {NULL}]] /\ lostFile' \in [FileSlots -> Nat]
        /\ \A f \in FileSlots : ftable'[f].ref = Cardinality(UsersIn(ofile', f)) + lostFile'[f]
    BY DEF FilesTypeOK, FileCounts
  <2>2. ofile'[q][y] # NULL
    BY <1>2, <1>3
  <2> QED
    BY ONLY <1>2, <2>1, <2>2, q \in Procs, UsedRef
<1>6. ftable'[ofile'[q][y]].type = ftable[ofile[q][y]].type
  BY <1>3, <1>4, <1>5 DEF TypesKept
<1>7. execClose[q][y] => ftable[ofile[q][y]].type = "NULL"
  BY <1>1 DEF OpenatUnmarked
<1>8. \A fd0, fd1 \in Fds : call[q] = <<"pipe", fd0, fd1>> => y \notin {fd0, fd1}
  BY <1>1 DEF OpenatUnmarked
<1> QED
  BY <1>2, <1>3, <1>6, <1>7, <1>8

\* What openat() returned before stays open, unmarked or /dev/null, and no pipe's.
LEMMA OpenatKept ==
  ASSUME Core, FilesTypeOK', FileCounts', TypesKept,
         \A q \in Procs : openatFd'[q] \subseteq openatFd[q],
         \A q \in Procs : \A y \in openatFd'[q] :
            ofile'[q][y] = ofile[q][y] /\ execClose'[q][y] = execClose[q][y],
         \A q \in Procs : call'[q] = call[q] \/ call'[q] \in {<<>>, <<"out">>, <<"append">>}
  PROVE  OpenatUnmarked'
<1> SUFFICES ASSUME NEW q \in Procs, NEW y \in openatFd'[q]
             PROVE  /\ ofile'[q][y] # NULL
                    /\ execClose'[q][y] => ftable'[ofile'[q][y]].type = "NULL"
                    /\ \A fd0, fd1 \in Fds : call'[q] = <<"pipe", fd0, fd1>> => y \notin {fd0, fd1}
  BY DEF OpenatUnmarked
<1>1. /\ ofile'[q][y] # NULL
      /\ execClose'[q][y] => ftable'[ofile'[q][y]].type = "NULL"
      /\ \A fd0, fd1 \in Fds : call[q] = <<"pipe", fd0, fd1>> => y \notin {fd0, fd1}
  BY KeptOne
<1>2. \A fd0, fd1 \in Fds : <<"pipe", fd0, fd1>> \notin {<<>>, <<"out">>, <<"append">>}
  OBVIOUS
<1> QED
  BY <1>1, <1>2

LEMMA OpenatSame ==
  ASSUME Core, UNCHANGED <<ofile, execClose, call, ftable, openatFd, lostFile>>, FilesTypeOK'
  PROVE  OpenatUnmarked'
<1>1. FileCounts' /\ TypesKept
  BY DEF Core, FileCounts, TypesKept
<1> QED
  BY <1>1, OpenatKept

-----------------------------------------------------------------------------
(* The initial states *)

LEMMA CoreInit == FilesInit => Core
<1> SUFFICES ASSUME FilesInit PROVE Core
  OBVIOUS
<1> USE DEF FilesInit
<1>1. FilesTypeOK
  <2>1. /\ ofile \in [Procs -> [Fds -> FileSlots \cup {NULL}]]
        /\ execClose \in [Procs -> [Fds -> BOOLEAN]]
        /\ filelimit \in [Procs -> {NOFILE, LowLimit}]
        /\ cwd \in [Procs -> Entries \cup {NULL}] /\ alive \subseteq Procs
    BY Finite, FilesAssumption
  <2>2. /\ \A p \in Procs : call[p] \in {<<>>, <<"out">>, <<"append">>}
        /\ call = [p \in Procs |-> call[p]]
    OBVIOUS
  <2>3. NoFile \in File
    BY DEF NoFile, File
  <2>4. ftable \in [FileSlots -> File] /\ link \in [Names -> Nodes \cup {NULL}]
    BY <2>3
  <2>5. /\ pipe \in [Pages -> [readopen : BOOLEAN, writeopen : BOOLEAN]]
        /\ entry \in [Entries -> [ref : Nat, dir : BOOLEAN, size : Nat]]
    OBVIOUS
  <2>6. /\ lostFile \in [FileSlots -> Nat] /\ lostEntry \in [Entries -> Nat]
        /\ openatFd \in [Procs -> SUBSET Fds]
    OBVIOUS
  <2> QED
    BY <2>1, <2>2, <2>4, <2>5, <2>6 DEF FilesTypeOK
<1>2. HeldByLiving /\ OpenatUnmarked
  BY Finite DEF HeldByLiving, OpenatUnmarked
<1>3. SlotsSound /\ PipeEnds /\ OneEnd
  BY DEF SlotsSound, PipeEnds, OneEnd, IsEnd, NoFile
<1>4. FileCounts
  <2> SUFFICES ASSUME NEW f \in FileSlots
               PROVE  ftable[f].ref = Cardinality(UsersIn(ofile, f)) + lostFile[f]
    BY DEF FileCounts
  <2>1. UsersIn(ofile, f) = {}
    BY Finite DEF UsersIn
  <2>2. Cardinality(UsersIn(ofile, f)) = 0
    BY <2>1, FS_EmptySet
  <2> QED
    BY <2>2 DEF NoFile
<1>5. EntryCounts
  <2> SUFFICES ASSUME NEW e \in Entries
               PROVE  entry[e].ref = Count(FileSlots, NodeIn(ftable), e) + Count(Procs, cwd, e)
                                       + lostEntry[e]
    BY DEF EntryCounts
  <2>1. e # NULL /\ IsFiniteSet(FileSlots) /\ IsFiniteSet(Procs)
    BY Finite
  <2>2. \A f \in FileSlots : NodeIn(ftable)[f] # e
    BY <2>1 DEF NodeIn, NoFile
  <2>3. Count(FileSlots, NodeIn(ftable), e) = 0
    BY ONLY <2>1, <2>2, CountType
  <2>4. Count(Procs, cwd, e) = IF e = Root THEN 1 ELSE 0
    <3>1. CASE e = Root
      <4>1. {p \in Procs : cwd[p] = e} = {InitProc}
        BY <2>1, <3>1, FilesAssumption
      <4> QED
        BY <3>1, <4>1, FS_Singleton DEF Count
    <3>2. CASE e # Root
      <4>1. \A p \in Procs : cwd[p] # e
        BY <2>1, <3>2
      <4>2. Count(Procs, cwd, e) = 0
        BY ONLY <2>1, <4>1, CountType
      <4> QED
        BY <3>2, <4>2
    <3> QED
      BY <3>1, <3>2
  <2> QED
    BY <2>3, <2>4
<1> QED
  BY <1>1, <1>2, <1>3, <1>4, <1>5 DEF Core

-----------------------------------------------------------------------------
(* Calls that move offsets and sizes, links or limits *)

\* The two records hold the same thing, for as many.
Alike(r, s) == r.ref = s.ref /\ r.type = s.type /\ r.pipe = s.pipe /\ r.ep = s.ep
                 /\ r.writable = s.writable

\* Who refers to what does not change.
QuietFrame ==
  /\ UNCHANGED <<ofile, execClose, cwd, alive, call, pipe, lostFile, lostEntry, openatFd>>
  /\ \A f \in FileSlots : Alike(ftable'[f], ftable[f])
  /\ \A e \in Entries : entry'[e].ref = entry[e].ref

\* The pipe ends stay in their files.
LEMMA EndsKept ==
  ASSUME PipeEnds, OneEnd, pipe' = pipe,
         \A f \in FileSlots : \A pg \in Pages, w \in BOOLEAN :
            IsEnd(ftable[f]', pg, w) <=> IsEnd(ftable[f], pg, w)
  PROVE  PipeEnds' /\ OneEnd'
<1>1. PipeEnds'
  <2> SUFFICES ASSUME NEW pg \in Pages
               PROVE  /\ pipe[pg].readopen <=> \E f \in FileSlots : IsEnd(ftable[f]', pg, FALSE)
                      /\ pipe[pg].writeopen <=> \E f \in FileSlots : IsEnd(ftable[f]', pg, TRUE)
    BY Zenon DEF PipeEnds
  <2>1. /\ pipe[pg].readopen <=> \E f \in FileSlots : IsEnd(ftable[f], pg, FALSE)
        /\ pipe[pg].writeopen <=> \E f \in FileSlots : IsEnd(ftable[f], pg, TRUE)
    BY DEF PipeEnds
  <2>2. \A f \in FileSlots : /\ IsEnd(ftable[f]', pg, FALSE) <=> IsEnd(ftable[f], pg, FALSE)
                             /\ IsEnd(ftable[f]', pg, TRUE) <=> IsEnd(ftable[f], pg, TRUE)
    OBVIOUS
  <2> QED
    BY ONLY <2>1, <2>2, Zenon
<1>2. OneEnd'
  BY DEF OneEnd
<1> QED
  BY <1>1, <1>2

LEMMA QuietStep ==
  ASSUME Core, QuietFrame, FilesTypeOK'
  PROVE  Core'
<1> USE DEF QuietFrame
<1>1. HeldByLiving'
  BY DEF Core, HeldByLiving
<1>2. SlotsSound' /\ FileCounts'
  BY DEF Core, SlotsSound, FileCounts, Alike
<1>7. OpenatUnmarked'
  <2>1. TypesKept
    BY DEF TypesKept, Alike
  <2> QED
    BY <1>2, <2>1, OpenatKept
<1>3. NodeIn(ftable') = NodeIn(ftable)
  BY DEF NodeIn, Alike
<1>4. EntryCounts'
  BY <1>3 DEF Core, EntryCounts
<1>5. \A f \in FileSlots : \A pg \in Pages, w \in BOOLEAN :
         IsEnd(ftable[f]', pg, w) <=> IsEnd(ftable[f], pg, w)
  BY DEF IsEnd, Alike
<1>6. PipeEnds' /\ OneEnd'
  BY <1>5, EndsKept DEF Core
<1> QED
  BY <1>1, <1>2, <1>4, <1>6, <1>7 DEF Core

\* What a step leaves alone keeps its type.
LEMMA QuietTypes ==
  ASSUME Core, UNCHANGED <<ofile, execClose, cwd, alive, call, pipe, lostFile, lostEntry, openatFd>>,
         filelimit' \in [Procs -> {NOFILE, LowLimit}], link' \in [Names -> Nodes \cup {NULL}],
         ftable' \in [FileSlots -> File],
         entry' \in [Entries -> [ref : Nat, dir : BOOLEAN, size : Nat]]
  PROVE  FilesTypeOK'
  BY DEF Core, FilesTypeOK

\* The offset of one file moves.
LEMMA OffMoves ==
  ASSUME NEW ft \in [FileSlots -> File], NEW g \in FileSlots, NEW n \in Nat
  PROVE  /\ [ft EXCEPT ![g].off = n] \in [FileSlots -> File]
         /\ \A f \in FileSlots : Alike([ft EXCEPT ![g].off = n][f], ft[f])
  BY DEF File, Alike

\* The references to one file change.
LEMMA RefMoves ==
  ASSUME NEW ft \in [FileSlots -> File], NEW g \in FileSlots, NEW n \in Nat
  PROVE  /\ [ft EXCEPT ![g].ref = n] \in [FileSlots -> File]
         /\ \A f \in FileSlots : f # g => [ft EXCEPT ![g].ref = n][f] = ft[f]
<1>1. [ft EXCEPT ![g].ref = n] \in [FileSlots -> File]
  BY DEF File
<1> QED
  BY <1>1

\* The size of one entry changes.
LEMMA SizeMoves ==
  ASSUME NEW en \in [Entries -> [ref : Nat, dir : BOOLEAN, size : Nat]],
         NEW e \in Entries, NEW n \in Nat
  PROVE  /\ [en EXCEPT ![e].size = n] \in [Entries -> [ref : Nat, dir : BOOLEAN, size : Nat]]
         /\ \A d \in Entries : [en EXCEPT ![e].size = n][d].ref = en[d].ref
  OBVIOUS

\* What an open descriptor refers to.
LEMMA OpenFile ==
  ASSUME Core, NEW p \in Procs, NEW fd \in Fds, ofile[p][fd] # NULL
  PROVE  /\ ofile[p][fd] \in FileSlots /\ ftable[ofile[p][fd]] \in File
         /\ ftable[ofile[p][fd]].off \in Nat
         /\ ftable[ofile[p][fd]].type = "ENTRY" =>
              /\ ftable[ofile[p][fd]].ep \in Entries
              /\ entry[ftable[ofile[p][fd]].ep].size \in Nat
<1> DEFINE g == ofile[p][fd]
<1>1. g \in FileSlots
  BY DEF Core, FilesTypeOK
<1> HIDE DEF g
<1>2. ftable[g] \in File
  BY <1>1 DEF Core, FilesTypeOK
<1>3. ftable[g].type = "ENTRY" => ftable[g].ep \in Entries
  BY <1>1, <1>2 DEF Core, SlotsSound, File
<1>4. \A e \in Entries : entry[e].size \in Nat
  BY DEF Core, FilesTypeOK
<1> QED
  BY <1>1, <1>2, <1>3, <1>4 DEF g, File

\* Nothing that counts changes.
LEMMA CoreStutter ==
  ASSUME Core, UNCHANGED <<procVars, ftable, pipe, link, entry, ghosts>>
  PROVE  Core'
<1>1. FilesTypeOK'
  BY DEF Core, FilesTypeOK, procVars, ghosts
<1>2. QuietFrame
  BY DEF QuietFrame, procVars, ghosts, Alike
<1> QED
  BY <1>1, <1>2, QuietStep

\* An offset moves, and nothing else.
LEMMA OffStep ==
  ASSUME Core, NEW g \in FileSlots, NEW n \in Nat, ftable' = [ftable EXCEPT ![g].off = n],
         Touch, UNCHANGED entry
  PROVE  Core'
<1>1. ftable \in [FileSlots -> File] /\ entry \in [Entries -> [ref : Nat, dir : BOOLEAN, size : Nat]]
  BY DEF Core, FilesTypeOK
<1>2. ftable' \in [FileSlots -> File] /\ \A f \in FileSlots : Alike(ftable'[f], ftable[f])
  BY <1>1, OffMoves
<1>3. filelimit' \in [Procs -> {NOFILE, LowLimit}] /\ link' \in [Names -> Nodes \cup {NULL}]
  BY DEF Core, FilesTypeOK, Touch, procVars
<1>4. UNCHANGED <<ofile, execClose, cwd, alive, call, pipe, lostFile, lostEntry, openatFd>>
  BY DEF Touch, procVars, ghosts
<1>5. FilesTypeOK'
  BY <1>1, <1>2, <1>3, <1>4, QuietTypes
<1>6. QuietFrame
  BY <1>2, <1>4 DEF QuietFrame
<1> QED
  BY <1>5, <1>6, QuietStep

\* A size changes, and offsets.
LEMMA SizeStep ==
  ASSUME Core, NEW e \in Entries, NEW n \in Nat, entry' = [entry EXCEPT ![e].size = n],
         Touch, ftable' \in [FileSlots -> File],
         \A f \in FileSlots : Alike(ftable'[f], ftable[f])
  PROVE  Core'
<1>1. entry \in [Entries -> [ref : Nat, dir : BOOLEAN, size : Nat]]
  BY DEF Core, FilesTypeOK
<1>2. /\ entry' \in [Entries -> [ref : Nat, dir : BOOLEAN, size : Nat]]
      /\ \A d \in Entries : entry'[d].ref = entry[d].ref
  BY <1>1, SizeMoves
<1>3. filelimit' \in [Procs -> {NOFILE, LowLimit}] /\ link' \in [Names -> Nodes \cup {NULL}]
  BY DEF Core, FilesTypeOK, Touch, procVars
<1>4. UNCHANGED <<ofile, execClose, cwd, alive, call, pipe, lostFile, lostEntry, openatFd>>
  BY DEF Touch, procVars, ghosts
<1>5. FilesTypeOK'
  BY <1>2, <1>3, <1>4, QuietTypes
<1>6. QuietFrame
  BY <1>2, <1>4 DEF QuietFrame
<1> QED
  BY <1>5, <1>6, QuietStep

LEMMA PanicStep ==
  ASSUME Core, NEW why, Panic(why)
  PROVE  Core'
  BY CoreStutter DEF Panic

LEMMA ReadStep ==
  ASSUME Core, NEW p \in Procs, NEW fd \in Fds, NEW n \in Nat, sys_readv(p, fd, n)
  PROVE  Core'
<1> DEFINE g == ofile[p][fd]
           e == ftable[g].ep
<1>1. ofile[p][fd] # NULL
  BY DEF sys_readv, fileread, argfd
<1>2. /\ g \in FileSlots /\ ftable[g] \in File /\ ftable[g].off \in Nat
      /\ ftable[g].type = "ENTRY" => e \in Entries /\ entry[e].size \in Nat
  BY <1>1, OpenFile
<1> HIDE DEF g, e
<1>3. CASE ftable[g].type = "NULL"
  <2>1. Panic("fileread")
    BY <1>3 DEF sys_readv, fileread, g
  <2> QED
    BY <2>1, PanicStep
<1>4. CASE ftable[g].type = "ENTRY"
  <2> DEFINE n1 == IF ftable[g].off < entry[e].size /\ ~entry[e].dir
                     THEN Min({ftable[g].off + n, entry[e].size}) ELSE ftable[g].off
  <2>1. ftable' = [ftable EXCEPT ![g].off = n1] /\ Touch /\ UNCHANGED entry
    BY <1>2, <1>4 DEF sys_readv, fileread, g, e
  <2>2. n1 \in Nat
    <3>1. ftable[g].off + n \in Nat /\ entry[e].size \in Nat
      BY <1>2, <1>4
    <3>2. Min({ftable[g].off + n, entry[e].size}) \in Nat
      BY ONLY <3>1, MinOfTwo
    <3> QED
      BY <1>2, <3>2
  <2> HIDE DEF n1
  <2> QED
    BY ONLY Core, <1>2, <2>1, <2>2, OffStep
<1>5. CASE ftable[g].type \notin {"NULL", "ENTRY"}
  <2>1. Quiet
    BY <1>5 DEF sys_readv, fileread, g
  <2> QED
    BY <2>1, CoreStutter DEF Quiet
<1> QED
  BY <1>3, <1>4, <1>5

LEMMA WriteStep ==
  ASSUME Core, NEW p \in Procs, NEW fd \in Fds, NEW n \in Nat, sys_writev(p, fd, n)
  PROVE  Core'
<1> DEFINE g == ofile[p][fd]
           e == ftable[g].ep
<1>1. ofile[p][fd] # NULL
  BY DEF sys_writev, filewrite, argfd
<1>2. /\ g \in FileSlots /\ ftable[g] \in File /\ ftable[g].off \in Nat
      /\ ftable[g].type = "ENTRY" => e \in Entries /\ entry[e].size \in Nat
  BY <1>1, OpenFile
<1> HIDE DEF g, e
<1>3. CASE ftable[g].type = "ENTRY" /\ ftable[g].off <= entry[e].size
  <2> DEFINE n1 == ftable[g].off + n
             n2 == Max({entry[e].size, n1})
  <2>1. ftable' = [ftable EXCEPT ![g].off = n1] /\ Touch
    BY <1>2, <1>3 DEF sys_writev, filewrite, g, e
  <2>2. entry' = [entry EXCEPT ![e].size = n2]
    BY <1>2, <1>3 DEF sys_writev, filewrite, g, e
  <2>3. n1 \in Nat /\ n2 \in Nat
    BY <1>2, <1>3, MaxOfTwo
  <2>4. ftable \in [FileSlots -> File]
    BY DEF Core, FilesTypeOK
  <2> HIDE DEF n1, n2
  <2>5. ftable' \in [FileSlots -> File] /\ \A f \in FileSlots : Alike(ftable'[f], ftable[f])
    BY <1>2, <2>1, <2>3, <2>4, OffMoves
  <2> QED
    BY <1>2, <1>3, <2>1, <2>2, <2>3, <2>5, SizeStep
<1>4. CASE ~(ftable[g].type = "ENTRY" /\ ftable[g].off <= entry[e].size)
  <2>1. Quiet
    BY <1>4 DEF sys_writev, filewrite, g, e
  <2> QED
    BY <2>1, CoreStutter DEF Quiet
<1> QED
  BY <1>3, <1>4

LEMMA SeekStep ==
  ASSUME Core, NEW p \in Procs, NEW fd \in Fds, NEW n \in Nat, NEW whence \in {"SET", "CUR", "END"},
         sys_lseek(p, fd, n, whence)
  PROVE  Core'
<1> DEFINE g == ofile[p][fd]
           n1 == SeekTo(ftable[g], n, whence)
<1>1. ofile[p][fd] # NULL
  BY DEF sys_lseek, argfd
<1>2. /\ g \in FileSlots /\ ftable[g] \in File /\ ftable[g].off \in Nat
      /\ ftable[g].type = "ENTRY" => ftable[g].ep \in Entries /\ entry[ftable[g].ep].size \in Nat
  BY <1>1, OpenFile
<1>3. n1 \in Nat
  <2>1. whence # "END" \/ ftable[g].type = "ENTRY"
    BY DEF sys_lseek
  <2> HIDE DEF g
  <2> QED
    BY <1>2, <2>1 DEF SeekTo
<1>4. ftable' = [ftable EXCEPT ![g].off = n1] /\ Touch /\ UNCHANGED entry
  BY DEF sys_lseek
<1> HIDE DEF g, n1
<1> QED
  BY <1>2, <1>3, <1>4, OffStep

LEMMA PreadStep ==
  ASSUME Core, NEW p \in Procs, NEW fd \in Fds, NEW offset \in Nat, NEW n \in Nat,
         sys_pread(p, fd, offset, n)
  PROVE  Core'
<1> DEFINE g == ofile[p][fd]
           e == ftable[g].ep
           n1 == IF ftable[g].readable /\ offset < entry[e].size /\ ~entry[e].dir
                   THEN Min({offset + n, entry[e].size}) ELSE offset
<1>1. ofile[p][fd] # NULL /\ ftable[g].type = "ENTRY"
  BY DEF sys_pread, argfd
<1>2. g \in FileSlots /\ e \in Entries /\ entry[e].size \in Nat
  BY <1>1, OpenFile
<1>3. ftable' = [ftable EXCEPT ![g].off = n1] /\ Touch /\ UNCHANGED entry
  BY DEF sys_pread
<1> HIDE DEF g, e
<1>4. n1 \in Nat
  <2>1. offset + n \in Nat
    OBVIOUS
  <2>2. Min({offset + n, entry[e].size}) \in Nat
    BY ONLY <1>2, <2>1, MinOfTwo
  <2> QED
    BY <2>2
<1> HIDE DEF n1
<1> QED
  BY <1>2, <1>3, <1>4, OffStep

LEMMA GetdentsStep ==
  ASSUME Core, NEW p \in Procs, NEW fd \in Fds, sys_getdents64(p, fd)
  PROVE  Core'
<1> DEFINE g == ofile[p][fd]
           n1 == ftable[g].off + 1
<1>1. ofile[p][fd] # NULL
  BY DEF sys_getdents64, argfd
<1>2. g \in FileSlots /\ ftable[g].off \in Nat
  BY <1>1, OpenFile
<1>3. ftable \in [FileSlots -> File]
  BY DEF Core, FilesTypeOK
<1>4. ftable' = [ftable EXCEPT ![g].off = n1] /\ Touch /\ UNCHANGED entry
  BY <1>2, <1>3 DEF sys_getdents64
<1>5. n1 \in Nat
  BY <1>2
<1> HIDE DEF g, n1
<1> QED
  BY <1>2, <1>4, <1>5, OffStep

LEMMA FtruncateStep ==
  ASSUME Core, NEW p \in Procs, NEW fd \in Fds, NEW len \in Nat, sys_ftruncate(p, fd, len)
  PROVE  Core'
<1>1. PICK e \in Entries \cup {NULL} :
        IF e = NULL THEN Panic("null")
        ELSE entry' = [entry EXCEPT ![e].size = len] /\ Touch /\ UNCHANGED ftable
  BY DEF sys_ftruncate
<1>2. CASE e = NULL
  BY <1>1, <1>2, PanicStep
<1>3. CASE e # NULL
  <2>1. ftable' \in [FileSlots -> File] /\ \A f \in FileSlots : Alike(ftable'[f], ftable[f])
    BY <1>1, <1>3 DEF Core, FilesTypeOK, Alike
  <2> QED
    BY <1>1, <1>3, <2>1, SizeStep
<1> QED
  BY <1>2, <1>3

\* Two offsets move.
LEMMA TwoOffsMove ==
  ASSUME NEW ft \in [FileSlots -> File], NEW g \in FileSlots, NEW h \in FileSlots, g # h,
         NEW n \in Nat
  PROVE  /\ [ft EXCEPT ![g].off = @ + n, ![h].off = @ + n] \in [FileSlots -> File]
         /\ \A f \in FileSlots :
              Alike([ft EXCEPT ![g].off = @ + n, ![h].off = @ + n][f], ft[f])
<1> DEFINE ft1 == [ft EXCEPT ![g].off = ft[g].off + n]
           ft2 == [ft1 EXCEPT ![h].off = ft1[h].off + n]
<1>1. ft[g].off + n \in Nat
  BY DEF File
<1>2. ft1 \in [FileSlots -> File] /\ \A f \in FileSlots : Alike(ft1[f], ft[f])
  BY <1>1, OffMoves
<1>3. [ft EXCEPT ![g].off = @ + n, ![h].off = @ + n] = ft2
  OBVIOUS
<1> HIDE DEF ft1
<1>4. ft1[h].off + n \in Nat
  BY <1>2 DEF File
<1>5. ft2 \in [FileSlots -> File] /\ \A f \in FileSlots : Alike(ft2[f], ft1[f])
  BY <1>2, <1>4, OffMoves
<1> HIDE DEF ft2
<1> QED
  BY <1>2, <1>3, <1>5 DEF Alike

LEMMA CopyRangeStep ==
  ASSUME Core, NEW p \in Procs, NEW in \in Fds, NEW out \in Fds, NEW n \in Nat,
         sys_copy_file_range(p, in, out, n)
  PROVE  Core'
<1> DEFINE g == ofile[p][in]
           h == ofile[p][out]
           e == ftable[h].ep
           n1 == Max({entry[e].size, ftable[h].off + n})
<1>1. ofile[p][in] # NULL /\ ofile[p][out] # NULL /\ g # h /\ ftable[h].type = "ENTRY"
  BY DEF sys_copy_file_range, argfd
<1>2. /\ g \in FileSlots /\ h \in FileSlots /\ e \in Entries
      /\ entry[e].size \in Nat /\ ftable[h].off \in Nat
  BY <1>1, OpenFile
<1>3. ftable' = [ftable EXCEPT ![g].off = @ + n, ![h].off = @ + n] /\ Touch
  BY DEF sys_copy_file_range
<1>4. entry \in [Entries -> [ref : Nat, dir : BOOLEAN, size : Nat]] /\ ftable \in [FileSlots -> File]
  BY DEF Core, FilesTypeOK
<1>5. entry' = [entry EXCEPT ![e].size = n1]
  BY <1>2, <1>4 DEF sys_copy_file_range
<1> HIDE DEF g, h, e
<1>6. n1 \in Nat
  BY <1>2, MaxOfTwo
<1> HIDE DEF n1
<1>7. ftable' \in [FileSlots -> File] /\ \A f \in FileSlots : Alike(ftable'[f], ftable[f])
  BY ONLY <1>1, <1>2, <1>3, <1>4, n \in Nat, TwoOffsMove
<1> QED
  BY <1>2, <1>3, <1>5, <1>6, <1>7, SizeStep

\* What file_send() moves is a number of bytes.
LEMMA GotNat ==
  ASSUME NEW n \in Nat, NEW b, NEW size, NEW off \in Nat, ~b => size \in Nat
  PROVE  (IF b THEN 0 ELSE Max({0, Min({n, size - off})})) \in Nat
<1> SUFFICES ASSUME ~b, size \in Nat PROVE Max({0, Min({n, size - off})}) \in Nat
  OBVIOUS
<1> DEFINE m == size - off
<1>1. m \in Int
  OBVIOUS
<1> HIDE DEF m
<1>2. \E y \in {n, m} : \A z \in {n, m} : y <= z
  BY <1>1
<1>3. Min({n, m}) \in {n, m}
  BY <1>2 DEF Min
<1> DEFINE k == Min({n, m})
<1>4. k \in Int
  BY <1>1, <1>3
<1> HIDE DEF k
<1>5. \E y \in {0, k} : \A z \in {0, k} : y >= z
  BY <1>4
<1>6. Max({0, k}) \in {0, k} /\ Max({0, k}) >= 0
  BY <1>4, <1>5 DEF Max
<1>7. Max({0, k}) \in Nat
  BY <1>4, <1>6
<1> QED
  BY <1>7 DEF k, m

LEMMA SendfileStep ==
  ASSUME Core, NEW p \in Procs, NEW in \in Fds, NEW out \in Fds, NEW n \in Nat,
         sys_sendfile(p, out, in, n)
  PROVE  Core'
<1> DEFINE g == ofile[p][in]
           h == ofile[p][out]
           d == ftable[g].ep
           e == ftable[h].ep
           got == IF ftable[g].type # "ENTRY" \/ entry[d].dir THEN 0
                  ELSE Max({0, Min({n, entry[d].size - ftable[g].off})})
           n1 == Max({entry[e].size, ftable[h].off + got})
<1>1. ofile[p][in] # NULL /\ ofile[p][out] # NULL /\ g # h /\ got > 0
  BY DEF sys_sendfile, argfd
<1>2. /\ g \in FileSlots /\ h \in FileSlots /\ ftable[h].off \in Nat /\ ftable[g].off \in Nat
      /\ ftable[g].type = "ENTRY" => d \in Entries /\ entry[d].size \in Nat
      /\ ftable[h].type = "ENTRY" => e \in Entries /\ entry[e].size \in Nat
  BY <1>1, OpenFile
<1>3. entry \in [Entries -> [ref : Nat, dir : BOOLEAN, size : Nat]] /\ ftable \in [FileSlots -> File]
  BY DEF Core, FilesTypeOK
<1>4. CASE ftable[h].type = "ENTRY" /\ ftable[h].off <= entry[e].size
  <2>1. ftable' = [ftable EXCEPT ![g].off = @ + got, ![h].off = @ + got]
    BY <1>4 DEF sys_sendfile
  <2>2. entry' = [entry EXCEPT ![e].size = Max({@, ftable[h].off + got})] /\ Touch
    BY <1>4 DEF sys_sendfile
  <2>3. got \in Nat
    BY <1>1, <1>2, GotNat
  <2> HIDE DEF got
  <2>4. entry' = [entry EXCEPT ![e].size = n1]
    BY <1>2, <1>3, <1>4, <2>2
  <2> HIDE DEF g, h, e
  <2>5. n1 \in Nat
    BY <1>2, <1>4, <2>3, MaxOfTwo
  <2> HIDE DEF n1
  <2>6. ftable' \in [FileSlots -> File] /\ \A f \in FileSlots : Alike(ftable'[f], ftable[f])
    BY ONLY <1>1, <1>2, <1>3, <2>1, <2>3, TwoOffsMove
  <2> QED
    BY <1>2, <1>4, <2>2, <2>4, <2>5, <2>6, SizeStep
<1>5. CASE ~(ftable[h].type = "ENTRY" /\ ftable[h].off <= entry[e].size)
  <2> DEFINE n2 == ftable[g].off + got
  <2>1. ftable' = [ftable EXCEPT ![g].off = @ + got] /\ UNCHANGED entry /\ Touch
    BY <1>5 DEF sys_sendfile
  <2>2. got \in Nat
    BY <1>1, <1>2, GotNat
  <2> HIDE DEF got
  <2>3. ftable' = [ftable EXCEPT ![g].off = n2]
    BY <1>2, <1>3, <2>1
  <2>4. n2 \in Nat
    BY <1>2, <2>2
  <2> HIDE DEF n2, g
  <2> QED
    BY <1>2, <2>1, <2>3, <2>4, OffStep
<1> QED
  BY <1>4, <1>5

LEMMA PrlimitStep ==
  ASSUME Core, NEW p \in Procs, sys_prlimit64(p)
  PROVE  Core'
<1>1. UNCHANGED <<ofile, execClose, cwd, alive, call, pipe, lostFile, lostEntry, openatFd>>
  BY DEF sys_prlimit64, ghosts
<1>2. FilesTypeOK'
  BY DEF Core, FilesTypeOK, sys_prlimit64, ghosts
<1>3. QuietFrame
  BY <1>1 DEF QuietFrame, Alike, sys_prlimit64
<1> QED
  BY <1>2, <1>3, QuietStep

LEMMA MkdirStep ==
  ASSUME Core, NEW p \in Procs, NEW x \in Names, sys_mkdirat(p, x)
  PROVE  Core'
<1>1. UNCHANGED <<procVars, ftable, pipe, panicked, ghosts>>
  BY DEF sys_mkdirat
<1>2. PICK e \in Nodes : link' = [link EXCEPT ![x] = e] /\ entry' = [entry EXCEPT ![e].dir = TRUE]
  BY DEF sys_mkdirat, FreeNodes
<1>3. entry \in [Entries -> [ref : Nat, dir : BOOLEAN, size : Nat]] /\ e \in Entries
  BY DEF Core, FilesTypeOK, Entries
<1>4. /\ entry' \in [Entries -> [ref : Nat, dir : BOOLEAN, size : Nat]]
      /\ \A d \in Entries : entry'[d].ref = entry[d].ref
  BY <1>2, <1>3
<1>5. link' \in [Names -> Nodes \cup {NULL}]
  BY <1>2 DEF Core, FilesTypeOK
<1>6. FilesTypeOK'
  BY <1>1, <1>4, <1>5, QuietTypes DEF Core, FilesTypeOK, procVars, ghosts
<1>7. QuietFrame
  BY <1>1, <1>4 DEF QuietFrame, Alike, procVars, ghosts
<1> QED
  BY <1>6, <1>7, QuietStep

LEMMA RemoveStep ==
  ASSUME Core, NEW p \in Procs, NEW x \in Names, sys_remove(p, x)
  PROVE  Core'
<1>1. UNCHANGED <<procVars, ftable, pipe, panicked, ghosts>>
  BY DEF sys_remove
<1>2. entry \in [Entries -> [ref : Nat, dir : BOOLEAN, size : Nat]] /\ link[x] \in Entries
  BY DEF Core, FilesTypeOK, Entries, sys_remove
<1>3. entry' = [entry EXCEPT ![link[x]].size = IF entry[link[x]].ref = 0 THEN 0 ELSE @]
  BY DEF sys_remove
<1>4. /\ entry' \in [Entries -> [ref : Nat, dir : BOOLEAN, size : Nat]]
      /\ \A d \in Entries : entry'[d].ref = entry[d].ref
  BY <1>2, <1>3
<1>5. link' \in [Names -> Nodes \cup {NULL}]
  BY DEF Core, FilesTypeOK, sys_remove
<1>6. FilesTypeOK'
  BY <1>1, <1>4, <1>5, QuietTypes DEF Core, FilesTypeOK, procVars, ghosts
<1>7. QuietFrame
  BY <1>1, <1>4 DEF QuietFrame, Alike, procVars, ghosts
<1> QED
  BY <1>6, <1>7, QuietStep

-----------------------------------------------------------------------------
(* dup(), dup3() and fcntl() *)

\* The descriptor fd of p gets the file g; the file b that it had, if any, is lost,
\* and openat() did not return it.
LEMMA DupStep ==
  ASSUME Core, NEW p \in alive, NEW fd \in Fds, NEW g \in FileSlots, ofile[p][fd] # g,
         ofile' = [ofile EXCEPT ![p][fd] = g], filedup(g),
         lostFile' = IF ofile[p][fd] = NULL THEN lostFile
                     ELSE [lostFile EXCEPT ![ofile[p][fd]] = @ + 1],
         execClose' \in [Procs -> [Fds -> BOOLEAN]],
         \A q \in Procs, x \in Fds :
            q # p \/ x # fd \/ ofile[q][x] # NULL => execClose'[q][x] = execClose[q][x],
         openatFd' = [openatFd EXCEPT ![p] = @ \ {fd}],
         UNCHANGED <<filelimit, cwd, alive, call, pipe, link, entry, lostEntry>>
  PROVE  Core'
<1>0. p \in Procs /\ ofile \in [Procs -> [Fds -> FileSlots \cup {NULL}]]
      /\ ftable \in [FileSlots -> File] /\ lostFile \in [FileSlots -> Nat]
  BY DEF Core, FilesTypeOK
<1> DEFINE b == ofile[p][fd]
<1>1. b \in FileSlots \cup {NULL} /\ NULL \notin FileSlots
  BY <1>0, Finite
<1>2. /\ ofile' \in [Procs -> [Fds -> FileSlots \cup {NULL}]]
      /\ \A q \in Procs, x \in Fds : ofile'[q][x] = IF q = p /\ x = fd THEN g ELSE ofile[q][x]
  BY <1>0
<1>3. /\ ftable' \in [FileSlots -> File]
      /\ \A f \in FileSlots : /\ ftable'[f].ref = ftable[f].ref + (IF f = g THEN 1 ELSE 0)
                              /\ ftable'[f].type = ftable[f].type /\ ftable'[f].pipe = ftable[f].pipe
                              /\ ftable'[f].ep = ftable[f].ep
                              /\ ftable'[f].writable = ftable[f].writable
  <2>1. ftable' = [ftable EXCEPT ![g].ref = @ + 1]
    BY DEF filedup
  <2>2. ftable[g].ref + 1 \in Nat
    BY <1>0 DEF File
  <2>3. ftable' = [ftable EXCEPT ![g].ref = ftable[g].ref + 1]
    BY <1>0, <2>1
  <2>4. ftable' \in [FileSlots -> File] /\ \A f \in FileSlots : f # g => ftable'[f] = ftable[f]
    BY <1>0, <2>2, <2>3, RefMoves
  <2>5. ftable'[g] = [ftable[g] EXCEPT !.ref = ftable[g].ref + 1] /\ ftable[g] \in File
    BY <1>0, <2>3
  <2>6. /\ ftable'[g].ref = ftable[g].ref + 1
        /\ ftable'[g].type = ftable[g].type /\ ftable'[g].pipe = ftable[g].pipe
        /\ ftable'[g].ep = ftable[g].ep /\ ftable'[g].writable = ftable[g].writable
    BY <2>5 DEF File
  <2>7. \A f \in FileSlots : ftable[f].ref \in Nat
    BY <1>0 DEF File
  <2> QED
    BY <2>4, <2>6, <2>7
<1>4. /\ lostFile' \in [FileSlots -> Nat]
      /\ \A f \in FileSlots : lostFile'[f] = lostFile[f] + (IF f = b THEN 1 ELSE 0)
  BY <1>0, <1>1
<1>12. /\ openatFd' \in [Procs -> SUBSET Fds]
       /\ \A q \in Procs : openatFd'[q] = IF q = p THEN openatFd[q] \ {fd} ELSE openatFd[q]
  <2>1. openatFd \in [Procs -> SUBSET Fds]
    BY DEF Core, FilesTypeOK
  <2> QED
    BY <1>0, <2>1
<1>5. FilesTypeOK'
  <2>1. FilesTypeOK
    BY DEF Core
  <2> QED
    BY <1>2, <1>3, <1>4, <1>12, <2>1 DEF FilesTypeOK
<1>6. HeldByLiving'
  <2>1. HeldByLiving
    BY DEF Core
  <2> QED
    BY <1>2, <1>12, <2>1 DEF HeldByLiving
<1>7. SlotsSound'
  <2>1. \A f \in FileSlots : ftable[f].ref \in Nat
    BY <1>0 DEF File
  <2> QED
    BY <1>3, <2>1 DEF Core, SlotsSound
<1>9. FileCounts'
  <2> SUFFICES ASSUME NEW f \in FileSlots
               PROVE  ftable'[f].ref = Cardinality(UsersIn(ofile', f)) + lostFile'[f]
    BY DEF FileCounts
  <2>1. /\ Cardinality(UsersIn(ofile, f)) \in Nat /\ Cardinality(UsersIn(ofile', f)) \in Nat
        /\ Hit(ofile[p][fd], f) \in Nat /\ Hit(g, f) \in Nat
        /\ Cardinality(UsersIn(ofile', f))
             = Cardinality(UsersIn(ofile, f)) - Hit(ofile[p][fd], f) + Hit(g, f)
    <3>1. SetOne(ofile, ofile', p, fd, ofile[p][fd], g) /\ p \in Procs
      BY <1>0, SetOneIs
    <3> QED
      BY ONLY <3>1, fd \in Fds, UsersSet
  <2>2. ftable[f].ref = Cardinality(UsersIn(ofile, f)) + lostFile[f] /\ lostFile[f] \in Nat
    BY <1>0 DEF Core, FileCounts
  <2>3. /\ ftable'[f].ref = ftable[f].ref + (IF f = g THEN 1 ELSE 0)
        /\ lostFile'[f] = lostFile[f] + (IF f = ofile[p][fd] THEN 1 ELSE 0)
    BY <1>3, <1>4
  <2> QED
    BY ONLY <2>1, <2>2, <2>3 DEF Hit
<1>10. EntryCounts'
  <2>1. NodeIn(ftable') = NodeIn(ftable)
    BY <1>3 DEF NodeIn
  <2> QED
    BY <2>1 DEF Core, EntryCounts
<1>11. PipeEnds' /\ OneEnd'
  <2>1. \A f \in FileSlots : \A pg \in Pages, w \in BOOLEAN :
           IsEnd(ftable[f]', pg, w) <=> IsEnd(ftable[f], pg, w)
    BY <1>3 DEF IsEnd
  <2> QED
    BY <2>1, EndsKept DEF Core
<1>8. OpenatUnmarked'
  <2>1. OpenatUnmarked /\ openatFd \in [Procs -> SUBSET Fds]
    BY DEF Core, FilesTypeOK
  <2>2. TypesKept
    BY <1>3 DEF TypesKept
  <2>3. \A q \in Procs : openatFd'[q] \subseteq openatFd[q]
    BY <1>12
  <2>4. \A q \in Procs : \A y \in openatFd'[q] :
           ofile'[q][y] = ofile[q][y] /\ execClose'[q][y] = execClose[q][y]
    BY <1>2, <1>12, <2>1
  <2> QED
    BY <1>5, <1>9, <2>2, <2>3, <2>4, OpenatKept
<1> QED
  BY <1>5, <1>6, <1>7, <1>8, <1>9, <1>10, <1>11 DEF Core

\* openat() did not return a descriptor that is free.
LEMMA FreeNotOpenat ==
  ASSUME Core, NEW p \in Procs, NEW fd \in Fds, ofile[p][fd] = NULL
  PROVE  openatFd = [openatFd EXCEPT ![p] = @ \ {fd}]
<1>1. openatFd \in [Procs -> SUBSET Fds] /\ fd \notin openatFd[p]
  BY DEF Core, FilesTypeOK, OpenatUnmarked
<1> QED
  BY <1>1

\* The free descriptor that fdalloc() finds.
LEMMA FreeFdsAre ==
  ASSUME Core, NEW p \in Procs, NEW start \in Nat
  PROVE  FreeFds(p, start) \subseteq Fds /\ \A fd \in FreeFds(p, start) : ofile[p][fd] = NULL
<1>1. Limit(p) \in Nat /\ Limit(p) <= NOFILE
  <2>1. filelimit[p] \in {NOFILE, LowLimit}
    BY DEF Core, FilesTypeOK
  <2> QED
    BY <2>1, Finite DEF Limit
<1> QED
  BY <1>1, Finite DEF FreeFds, Fds

LEMMA SysDupStep ==
  ASSUME Core, NEW p \in Procs, NEW old \in Fds, NEW fd \in Fds, sys_dup(p, old, fd)
  PROVE  Core'
<1>1. ofile[p][old] \in FileSlots /\ p \in alive
  BY OpenFile DEF sys_dup, argfd, Running
<1>2. ofile[p][fd] = NULL /\ NULL \notin FileSlots
  BY FreeFdsAre, Finite DEF sys_dup, fdalloc
<1>3. execClose' \in [Procs -> [Fds -> BOOLEAN]] /\ execClose' = execClose
  BY DEF Core, FilesTypeOK, sys_dup
<1>4. /\ ofile' = [ofile EXCEPT ![p][fd] = ofile[p][old]] /\ filedup(ofile[p][old])
      /\ UNCHANGED <<filelimit, cwd, alive, call, pipe, link, entry, lostEntry>>
      /\ lostFile' = lostFile /\ openatFd' = openatFd
  BY DEF sys_dup, ghosts
<1>5. ofile[p][fd] # ofile[p][old]
  BY <1>1, <1>2
<1>6. openatFd' = [openatFd EXCEPT ![p] = @ \ {fd}]
  BY <1>2, <1>4, FreeNotOpenat
<1> QED
  BY <1>1, <1>2, <1>3, <1>4, <1>5, <1>6, DupStep

LEMMA SysDup3Step ==
  ASSUME Core, NEW p \in Procs, NEW old \in Fds, NEW fd \in Fds, sys_dup3(p, old, fd)
  PROVE  Core'
<1>1. ofile[p][old] \in FileSlots /\ p \in alive
  BY OpenFile DEF sys_dup3, argfd, Running
<1>2. lostFile' = IF ofile[p][fd] = NULL THEN lostFile
                  ELSE [lostFile EXCEPT ![ofile[p][fd]] = @ + 1]
  BY DEF sys_dup3
<1>3. execClose' \in [Procs -> [Fds -> BOOLEAN]] /\ execClose' = execClose
  BY DEF Core, FilesTypeOK, sys_dup3
<1>4. /\ ofile' = [ofile EXCEPT ![p][fd] = ofile[p][old]] /\ filedup(ofile[p][old])
      /\ UNCHANGED <<filelimit, cwd, alive, call, pipe, link, entry, lostEntry>>
      /\ openatFd' = [openatFd EXCEPT ![p] = @ \ {fd}] /\ ofile[p][fd] # ofile[p][old]
  BY DEF sys_dup3
<1> QED
  BY <1>1, <1>2, <1>3, <1>4, DupStep

LEMMA DupfdStep ==
  ASSUME Core, NEW p \in Procs, NEW old \in Fds, NEW fd \in Fds, NEW start \in Fds,
         NEW cloexec \in BOOLEAN, fcntl_DUPFD(p, old, start, fd, cloexec)
  PROVE  Core'
<1>1. ofile[p][old] \in FileSlots /\ p \in alive
  BY OpenFile DEF fcntl_DUPFD, argfd, Running
<1>2. ofile[p][fd] = NULL /\ NULL \notin FileSlots
  BY FreeFdsAre, Finite DEF fcntl_DUPFD, fdalloc, Fds
<1>3. /\ execClose' \in [Procs -> [Fds -> BOOLEAN]]
      /\ \A q \in Procs, x \in Fds : q # p \/ x # fd => execClose'[q][x] = execClose[q][x]
  <2>1. execClose \in [Procs -> [Fds -> BOOLEAN]]
    BY DEF Core, FilesTypeOK
  <2>2. execClose' = [execClose EXCEPT ![p][fd] = cloexec \/ @]
    BY DEF fcntl_DUPFD
  <2> QED
    BY <2>1, <2>2
<1>4. /\ ofile' = [ofile EXCEPT ![p][fd] = ofile[p][old]] /\ filedup(ofile[p][old])
      /\ UNCHANGED <<filelimit, cwd, alive, call, pipe, link, entry, lostEntry>>
      /\ lostFile' = lostFile /\ openatFd' = openatFd
  BY DEF fcntl_DUPFD, ghosts
<1>5. ofile[p][fd] # ofile[p][old]
  BY <1>1, <1>2
<1>6. \A q \in Procs, x \in Fds :
         q # p \/ x # fd \/ ofile[q][x] # NULL => execClose'[q][x] = execClose[q][x]
  BY <1>2, <1>3
<1>7. openatFd' = [openatFd EXCEPT ![p] = @ \ {fd}]
  BY <1>2, <1>4, FreeNotOpenat
<1> QED
  BY <1>1, <1>2, <1>3, <1>4, <1>5, <1>6, <1>7, DupStep

\* mmap(): a reference that no descriptor has.
LEMMA MmapStep ==
  ASSUME Core, NEW p \in Procs, NEW fd \in Fds, NEW offset \in Nat, sys_mmap(p, fd, offset)
  PROVE  Core'
<1> DEFINE g == ofile[p][fd]
<1>1. /\ ftable' = [ftable EXCEPT ![g].ref = @ + 1, ![g].off = offset]
      /\ lostFile' = [lostFile EXCEPT ![g] = @ + 1]
      /\ UNCHANGED <<ofile, execClose, filelimit, cwd, alive, call, pipe, link, entry, lostEntry,
                     openatFd>>
  BY DEF sys_mmap, procVars
<1>2. g \in FileSlots
  BY OpenFile DEF sys_mmap, argfd
<1>3. ftable \in [FileSlots -> File] /\ lostFile \in [FileSlots -> Nat]
  BY DEF Core, FilesTypeOK
<1> HIDE DEF g
<1>4. /\ ftable' \in [FileSlots -> File]
      /\ \A f \in FileSlots : /\ ftable'[f].ref = ftable[f].ref + Hit(g, f)
                              /\ ftable[f].ref \in Nat
                              /\ ftable'[f].type = ftable[f].type /\ ftable'[f].pipe = ftable[f].pipe
                              /\ ftable'[f].ep = ftable[f].ep
                              /\ ftable'[f].writable = ftable[f].writable
  <2>1. ftable[g] \in File /\ ftable[g].ref + 1 \in Nat
    BY <1>2, <1>3 DEF File
  <2>2. ftable'[g] = [ftable[g] EXCEPT !.ref = ftable[g].ref + 1, !.off = offset]
    BY <1>1, <1>2, <1>3
  <2>3. ftable'[g] \in File
    BY <2>1, <2>2 DEF File
  <2>4. \A f \in FileSlots : f # g => ftable'[f] = ftable[f]
    BY <1>1, <1>3
  <2>5. ftable' = [f \in FileSlots |-> ftable'[f]]
    BY <1>1, <1>3
  <2>6. ftable' \in [FileSlots -> File]
    BY <1>3, <2>3, <2>4, <2>5
  <2>7. /\ ftable'[g].ref = ftable[g].ref + 1
        /\ ftable'[g].type = ftable[g].type /\ ftable'[g].pipe = ftable[g].pipe
        /\ ftable'[g].ep = ftable[g].ep /\ ftable'[g].writable = ftable[g].writable
    BY <2>1, <2>2 DEF File
  <2>8. \A f \in FileSlots : ftable[f].ref \in Nat
    BY <1>3 DEF File
  <2> QED
    BY <2>4, <2>6, <2>7, <2>8 DEF Hit
<1>5. /\ lostFile' \in [FileSlots -> Nat]
      /\ \A f \in FileSlots : lostFile'[f] = lostFile[f] + Hit(g, f)
  BY <1>1, <1>2, <1>3 DEF Hit
<1>6. FilesTypeOK' /\ HeldByLiving'
  <2>1. FilesTypeOK /\ HeldByLiving
    BY DEF Core
  <2>2. FilesTypeOK'
    BY <1>1, <1>4, <1>5, <2>1 DEF FilesTypeOK
  <2> QED
    BY <1>1, <2>1, <2>2 DEF HeldByLiving
<1>7. SlotsSound'
  <2>1. \A f \in FileSlots : ftable'[f].ref = 0 => ftable[f].ref = 0
    BY <1>4 DEF Hit
  <2> QED
    BY <1>4, <2>1 DEF Core, SlotsSound
<1>8. FileCounts'
  <2> SUFFICES ASSUME NEW f \in FileSlots
               PROVE  ftable'[f].ref = Cardinality(UsersIn(ofile, f)) + lostFile'[f]
    BY <1>1 DEF FileCounts
  <2>1. ftable[f].ref = Cardinality(UsersIn(ofile, f)) + lostFile[f] /\ lostFile[f] \in Nat
    BY <1>3 DEF Core, FileCounts
  <2>2. Cardinality(UsersIn(ofile, f)) \in Nat
    BY Finite, UsersRow DEF Agree
  <2>3. Hit(g, f) \in Nat
    BY DEF Hit
  <2> QED
    BY <1>4, <1>5, <2>1, <2>2, <2>3
<1>9. EntryCounts'
  <2>1. NodeIn(ftable') = NodeIn(ftable)
    BY <1>4 DEF NodeIn
  <2> QED
    BY <1>1, <2>1 DEF Core, EntryCounts
<1>10. PipeEnds' /\ OneEnd'
  <2>1. \A f \in FileSlots : \A pg \in Pages, w \in BOOLEAN :
           IsEnd(ftable[f]', pg, w) <=> IsEnd(ftable[f], pg, w)
    BY <1>4 DEF IsEnd
  <2> QED
    BY <1>1, <2>1, EndsKept DEF Core
<1>11. OpenatUnmarked'
  <2>1. TypesKept
    BY <1>4 DEF TypesKept
  <2> QED
    BY <1>1, <1>6, <1>8, <2>1, OpenatKept
<1> QED
  BY <1>6, <1>7, <1>8, <1>9, <1>10, <1>11 DEF Core

LEMMA SetfdStep ==
  ASSUME Core, NEW p \in Procs, NEW fd \in Fds, NEW arg \in BOOLEAN, fcntl_SETFD(p, fd, arg)
  PROVE  Core'
<1>1. /\ execClose' \in [Procs -> [Fds -> BOOLEAN]]
      /\ \A q \in Procs, x \in Fds : q # p \/ x # fd => execClose'[q][x] = execClose[q][x]
  BY DEF Core, FilesTypeOK, fcntl_SETFD
<1>2. /\ openatFd' \in [Procs -> SUBSET Fds]
      /\ \A q \in Procs : openatFd'[q] = IF q = p THEN openatFd[p] \ {fd} ELSE openatFd[q]
  BY DEF Core, FilesTypeOK, fcntl_SETFD
<1>3. UNCHANGED <<ofile, filelimit, cwd, alive, call, ftable, pipe, link, entry, lostFile, lostEntry>>
  BY DEF fcntl_SETFD
<1>4. FilesTypeOK' /\ HeldByLiving'
  <2>1. FilesTypeOK /\ HeldByLiving
    BY DEF Core
  <2>2. FilesTypeOK'
    BY <1>1, <1>2, <1>3, <2>1 DEF FilesTypeOK
  <2>3. HeldByLiving'
    BY <1>2, <1>3, <2>1 DEF HeldByLiving
  <2> QED
    BY <2>2, <2>3
<1>5. OpenatUnmarked'
  <2>1. OpenatUnmarked /\ openatFd \in [Procs -> SUBSET Fds]
    BY DEF Core, FilesTypeOK
  <2>2. TypesKept /\ FileCounts'
    BY <1>3 DEF TypesKept, Core, FileCounts
  <2>3. \A q \in Procs : openatFd'[q] \subseteq openatFd[q]
    BY <1>2
  <2>4. \A q \in Procs : \A y \in openatFd'[q] :
           ofile'[q][y] = ofile[q][y] /\ execClose'[q][y] = execClose[q][y]
    BY <1>1, <1>2, <1>3, <2>1
  <2> QED
    BY <1>3, <1>4, <2>2, <2>3, <2>4, OpenatKept
<1>6. SlotsSound' /\ FileCounts' /\ EntryCounts'
  BY <1>3 DEF Core, SlotsSound, FileCounts, EntryCounts
<1>7. PipeEnds' /\ OneEnd'
  BY <1>3, EndsKept DEF Core
<1> QED
  BY <1>4, <1>5, <1>6, <1>7 DEF Core

-----------------------------------------------------------------------------
(* Holding and putting entries *)

EntryRec == [ref : Nat, dir : BOOLEAN, size : Nat]

\* The working directory of one process changes.
LEMMA CwdMoves ==
  ASSUME NEW f, NEW g, NEW p \in Procs, Agree(Procs \ {p}, f, g), NEW e
  PROVE  /\ Count(Procs, f, e) \in Nat /\ Count(Procs, g, e) \in Nat
         /\ Hit(f[p], e) \in Nat /\ Hit(g[p], e) \in Nat /\ Hit(f[p], e) <= Count(Procs, f, e)
         /\ Count(Procs, g, e) = Count(Procs, f, e) - Hit(f[p], e) + Hit(g[p], e)
<1>0. IsFiniteSet(Procs)
  BY Finite
<1>1. /\ Count(Procs, f, e) \in Nat /\ Count(Procs, g, e) \in Nat
      /\ Count(Procs, f, e) = 0 <=> \A x \in Procs : f[x] # e
  BY <1>0, CountType
<1>2. \A x \in Procs \ {p} : g[x] = f[x]
  BY DEF Agree
<1>3. Count(Procs, g, e) = Count(Procs, f, e) - (IF f[p] = e THEN 1 ELSE 0) + (IF g[p] = e THEN 1 ELSE 0)
  BY <1>0, <1>2, CountExcept
<1> QED
  BY <1>1, <1>3 DEF Hit

\* The entry in one slot changes.
LEMMA NodeMoves ==
  ASSUME NEW f, NEW g, NEW p \in FileSlots, Agree(FileSlots \ {p}, f, g), NEW e
  PROVE  /\ Count(FileSlots, f, e) \in Nat /\ Count(FileSlots, g, e) \in Nat
         /\ Hit(f[p], e) \in Nat /\ Hit(g[p], e) \in Nat /\ Hit(f[p], e) <= Count(FileSlots, f, e)
         /\ Count(FileSlots, g, e) = Count(FileSlots, f, e) - Hit(f[p], e) + Hit(g[p], e)
<1>0. IsFiniteSet(FileSlots)
  BY Finite
<1>1. /\ Count(FileSlots, f, e) \in Nat /\ Count(FileSlots, g, e) \in Nat
      /\ Count(FileSlots, f, e) = 0 <=> \A x \in FileSlots : f[x] # e
  BY <1>0, CountType
<1>2. \A x \in FileSlots \ {p} : g[x] = f[x]
  BY DEF Agree
<1>3. Count(FileSlots, g, e) = Count(FileSlots, f, e) - (IF f[p] = e THEN 1 ELSE 0) + (IF g[p] = e THEN 1 ELSE 0)
  BY <1>0, <1>2, CountExcept
<1> QED
  BY <1>1, <1>3 DEF Hit

\* Holding the entry d.
LEMMA HoldIs ==
  ASSUME NEW en \in [Entries -> EntryRec], NEW d \in Entries, NEW e \in Entries
  PROVE  /\ [en EXCEPT ![d].ref = @ + 1] \in [Entries -> EntryRec]
         /\ [en EXCEPT ![d].ref = @ + 1][e].ref \in Nat /\ en[e].ref \in Nat /\ Hit(d, e) \in Nat
         /\ [en EXCEPT ![d].ref = @ + 1][e].ref = en[e].ref + Hit(d, e)
<1>1. [en EXCEPT ![d].ref = @ + 1] \in [Entries -> EntryRec] /\ en[e].ref \in Nat
  BY DEF EntryRec
<1>2. [en EXCEPT ![d].ref = @ + 1][e].ref = en[e].ref + Hit(d, e) /\ Hit(d, e) \in Nat
  BY DEF Hit, EntryRec
<1> QED
  BY <1>1, <1>2

\* Putting n references to d.
LEMMA PutIs ==
  ASSUME NEW en \in [Entries -> EntryRec], NEW d \in Entries, NEW n \in Nat, n <= en[d].ref
  PROVE  /\ Put(en, d, n) \in [Entries -> EntryRec]
         /\ Put(en, d, n)[d].ref = en[d].ref - n
         /\ \A e \in Entries : e # d => Put(en, d, n)[e] = en[e]
<1> DEFINE left == en[d].ref - n
           gone == left = 0 /\ d \in Nodes /\ \A x \in Names : link[x] # d
           s == IF gone THEN 0 ELSE en[d].size
<1>1. left \in Nat /\ s \in Nat
  BY DEF EntryRec
<1>2. Put(en, d, n) = [en EXCEPT ![d].ref = left, ![d].size = s]
  BY DEF Put
<1> HIDE DEF left, s
<1>3. [en EXCEPT ![d].ref = left, ![d].size = s] \in [Entries -> EntryRec]
  BY <1>1 DEF EntryRec
<1> QED
  BY <1>1, <1>2, <1>3 DEF left, EntryRec

\* Putting one reference.
LEMMA PutOne ==
  ASSUME NEW en \in [Entries -> EntryRec], NEW d \in Entries, 1 <= en[d].ref, NEW e \in Entries
  PROVE  /\ Put(en, d, 1) \in [Entries -> EntryRec]
         /\ Put(en, d, 1)[e].ref \in Nat /\ en[e].ref \in Nat /\ Hit(d, e) \in Nat
         /\ Put(en, d, 1)[e].ref = en[e].ref - Hit(d, e)
<1>1. Put(en, d, 1) \in [Entries -> EntryRec] /\ Put(en, d, 1)[d].ref = en[d].ref - 1
  BY PutIs
<1>2. e # d => Put(en, d, 1)[e] = en[e]
  BY PutIs
<1>3. Put(en, d, 1)[e].ref \in Nat /\ en[e].ref \in Nat
  BY <1>1 DEF EntryRec
<1> QED
  BY <1>1, <1>2, <1>3 DEF Hit

\* Files, their descriptors and their pipe ends are as before.
LEMMA FileSideKept ==
  ASSUME Core, UNCHANGED <<ofile, ftable, lostFile, pipe>>
  PROVE  SlotsSound' /\ FileCounts' /\ PipeEnds' /\ OneEnd'
<1>1. SlotsSound' /\ FileCounts'
  BY DEF Core, SlotsSound, FileCounts
<1>2. PipeEnds' /\ OneEnd'
  BY EndsKept DEF Core
<1> QED
  BY <1>1, <1>2

\* The numbers in an entry's count.
LEMMA EntryNumbers ==
  ASSUME Core, NEW e \in Entries
  PROVE  /\ entry \in [Entries -> EntryRec] /\ entry[e].ref \in Nat /\ lostEntry[e] \in Nat
         /\ Count(FileSlots, NodeIn(ftable), e) \in Nat /\ Count(Procs, cwd, e) \in Nat
         /\ entry[e].ref = Count(FileSlots, NodeIn(ftable), e) + Count(Procs, cwd, e) + lostEntry[e]
<1>1. entry \in [Entries -> EntryRec] /\ lostEntry[e] \in Nat
  BY DEF Core, FilesTypeOK, EntryRec
<1>2. IsFiniteSet(FileSlots) /\ IsFiniteSet(Procs)
  BY Finite
<1>3. Count(FileSlots, NodeIn(ftable), e) \in Nat /\ Count(Procs, cwd, e) \in Nat
  BY ONLY <1>2, CountType
<1> QED
  BY <1>1, <1>3 DEF Core, EntryCounts, EntryRec

\* The working directory of a living process is held.
LEMMA CwdHeld ==
  ASSUME Core, NEW p \in alive
  PROVE  p \in Procs /\ cwd[p] \in Entries /\ 1 <= entry[cwd[p]].ref
<1>1. p \in Procs /\ cwd[p] \in Entries
  BY DEF Core, FilesTypeOK, HeldByLiving
<1> DEFINE d == cwd[p]
<1>2. Count(Procs, cwd, d) # 0
  <2>1. IsFiniteSet(Procs)
    BY Finite
  <2>2. Count(Procs, cwd, d) = 0 <=> \A q \in Procs : cwd[q] # d
    BY <2>1, CountType
  <2> QED
    BY <1>1, <2>2
<1>3. d \in Entries
  BY <1>1
<1> HIDE DEF d
<1>4. 1 <= entry[d].ref
  BY <1>2, <1>3, EntryNumbers
<1> QED
  BY <1>1, <1>4 DEF d

\* The entry that a name finds.
LEMMA FindIs ==
  ASSUME Core, NEW x \in Names \cup {Root}, Find(x) # NULL
  PROVE  Find(x) \in Entries
  BY DEF Core, FilesTypeOK, Find, Entries

LEMMA ChdirStep ==
  ASSUME Core, NEW p \in Procs, NEW x \in Names \cup {Root}, sys_chdir(p, x)
  PROVE  Core'
<1> DEFINE d == Find(x)
           c == cwd[p]
           held == [entry EXCEPT ![d].ref = @ + 1]
<1>1. p \in alive /\ d \in Entries
  BY FindIs DEF sys_chdir, Running
<1>2. c \in Entries /\ 1 <= entry[c].ref
  BY <1>1, CwdHeld
<1>3. /\ entry' = Put(held, c, 1) /\ cwd' = [cwd EXCEPT ![p] = d]
      /\ UNCHANGED <<ofile, execClose, filelimit, alive, call, ftable, pipe, link, lostFile,
                     lostEntry, openatFd>>
  BY DEF sys_chdir, ghosts
<1>4. cwd \in [Procs -> Entries \cup {NULL}] /\ cwd' \in [Procs -> Entries \cup {NULL}]
  BY <1>1, <1>3 DEF Core, FilesTypeOK
<1> HIDE DEF d
<1>5. entry \in [Entries -> EntryRec]
  BY <1>2, EntryNumbers
<1>6. held \in [Entries -> EntryRec] /\ 1 <= held[c].ref
  <2>1. /\ held \in [Entries -> EntryRec] /\ held[c].ref = entry[c].ref + Hit(d, c)
        /\ entry[c].ref \in Nat /\ Hit(d, c) \in Nat
    BY <1>1, <1>2, <1>5, HoldIs
  <2> HIDE DEF held, c
  <2> QED
    BY <1>2, <2>1
<1>7. FilesTypeOK'
  <2>1. entry' \in [Entries -> EntryRec]
    BY <1>2, <1>3, <1>6, PutOne
  <2> QED
    <3>1. FilesTypeOK
      BY DEF Core
    <3>2. UNCHANGED <<ofile, execClose, filelimit, alive, call, ftable, pipe, link, lostFile,
                      lostEntry, openatFd>>
      BY <1>3
    <3> QED
      BY ONLY <1>4, <2>1, <3>1, <3>2 DEF FilesTypeOK, EntryRec
<1>8. HeldByLiving'
  BY <1>1, <1>3, <1>4, Finite DEF Core, HeldByLiving
<1>9. OpenatUnmarked'
  BY <1>3, <1>7, OpenatSame
<1>10. SlotsSound' /\ FileCounts' /\ PipeEnds' /\ OneEnd'
  BY <1>3, FileSideKept
<1>11. EntryCounts'
  <2> SUFFICES ASSUME NEW e \in Entries
               PROVE  entry'[e].ref = Count(FileSlots, NodeIn(ftable), e) + Count(Procs, cwd', e)
                                        + lostEntry[e]
    BY <1>3 DEF EntryCounts
  <2>1. /\ held[e].ref \in Nat /\ entry[e].ref \in Nat /\ Hit(d, e) \in Nat
        /\ held[e].ref = entry[e].ref + Hit(d, e)
    BY <1>1, <1>5, HoldIs
  <2>2. /\ entry'[e].ref \in Nat /\ Hit(c, e) \in Nat
        /\ entry'[e].ref = held[e].ref - Hit(c, e)
    BY <1>2, <1>3, <1>6, PutOne
  <2>3. /\ Count(Procs, cwd, e) \in Nat /\ Count(Procs, cwd', e) \in Nat
        /\ Count(Procs, cwd', e) = Count(Procs, cwd, e) - Hit(c, e) + Hit(d, e)
    <3>1. Agree(Procs \ {p}, cwd, cwd') /\ cwd'[p] = d /\ cwd[p] = c /\ IsFiniteSet(Procs)
      BY <1>3, <1>4, Finite DEF Agree
    <3>2. /\ Count(Procs, cwd, e) \in Nat /\ Count(Procs, cwd', e) \in Nat
          /\ Hit(cwd[p], e) \in Nat /\ Hit(cwd'[p], e) \in Nat /\ Hit(cwd[p], e) <= Count(Procs, cwd, e)
          /\ Count(Procs, cwd', e) = Count(Procs, cwd, e) - Hit(cwd[p], e) + Hit(cwd'[p], e)
      BY ONLY <3>1, p \in Procs, CwdMoves
    <3> QED
      BY <3>1, <3>2
  <2> HIDE DEF held, c
  <2> QED
    BY <2>1, <2>2, <2>3, EntryNumbers
<1> QED
  BY <1>7, <1>8, <1>9, <1>10, <1>11 DEF Core

\* sys_faccessat(), sys_unlinkat() of a test suite's path, sys_fstatat() of /dev/null.
LEMMA ForgetStep ==
  ASSUME Core, NEW p \in Procs, NEW d \in Entries, Forget(p, d)
  PROVE  Core'
<1>1. d \in Entries
  OBVIOUS
<1>2. /\ entry' = [entry EXCEPT ![d].ref = @ + 1] /\ lostEntry' = [lostEntry EXCEPT ![d] = @ + 1]
      /\ UNCHANGED <<ofile, execClose, filelimit, cwd, alive, call, ftable, pipe, link, lostFile,
                     openatFd>>
  BY DEF Forget, procVars
<1>3. entry \in [Entries -> EntryRec] /\ lostEntry \in [Entries -> Nat]
  BY DEF Core, FilesTypeOK, EntryRec
<1>4. FilesTypeOK'
  <2>1. entry' \in [Entries -> EntryRec] /\ lostEntry' \in [Entries -> Nat]
    BY <1>1, <1>2, <1>3, HoldIs
  <2> QED
    BY <1>2, <2>1 DEF Core, FilesTypeOK, EntryRec
<1>5. HeldByLiving' /\ OpenatUnmarked'
  BY <1>2, <1>4, OpenatSame DEF Core, HeldByLiving
<1>6. SlotsSound' /\ FileCounts' /\ PipeEnds' /\ OneEnd'
  BY <1>2, FileSideKept
<1>7. EntryCounts'
  <2> SUFFICES ASSUME NEW e \in Entries
               PROVE  entry'[e].ref = Count(FileSlots, NodeIn(ftable), e) + Count(Procs, cwd, e)
                                        + lostEntry'[e]
    BY <1>2 DEF EntryCounts
  <2>1. /\ entry'[e].ref \in Nat /\ entry[e].ref \in Nat /\ Hit(d, e) \in Nat
        /\ entry'[e].ref = entry[e].ref + Hit(d, e)
    BY <1>1, <1>2, <1>3, HoldIs
  <2>2. lostEntry'[e] = lostEntry[e] + Hit(d, e)
    BY <1>1, <1>2, <1>3 DEF Hit
  <2> QED
    BY <2>1, <2>2, EntryNumbers
<1> QED
  BY <1>4, <1>5, <1>6, <1>7 DEF Core

LEMMA ForgettingStep ==
  ASSUME Core, NEW p \in Procs, NEW x \in Names \cup {Root},
         sys_faccessat(p, x) \/ sys_fstatat(p, x) \/ (x \in Names /\ sys_unlinkat(p, x))
  PROVE  Core'
<1>1. CASE sys_faccessat(p, x) \/ sys_fstatat(p, x)
  <2>1. Forget(p, Find(x)) /\ Find(x) # NULL
    BY <1>1 DEF sys_faccessat, sys_fstatat, Forget
  <2> QED
    BY <2>1, FindIs, ForgetStep
<1>2. CASE x \in Names /\ sys_unlinkat(p, x)
  <2>1. CASE sys_remove(p, x)
    BY <1>2, <2>1, RemoveStep
  <2>2. CASE Forget(p, link[x])
    <3>1. link[x] \in Entries
      BY <1>2, <2>2 DEF Core, FilesTypeOK, Entries, Forget
    <3> QED
      BY <2>2, <3>1, ForgetStep
  <2> QED
    BY <1>2, <2>1, <2>2 DEF sys_unlinkat
<1> QED
  BY <1>1, <1>2

-----------------------------------------------------------------------------
(* open(), openat() and the devices *)

CallsOK ==
  /\ \A p \in Procs : \/ call[p] \in {<<>>, <<"out">>, <<"append">>}
                      \/ \E fd0, fd1 \in Fds : call[p] = <<"pipe", fd0, fd1>>
  /\ call = [p \in Procs |-> call[p]]

\* The least free slot is free.
LEMMA LeastSlot ==
  ASSUME Core, FreeSlots # {}
  PROVE  Min(FreeSlots) \in FileSlots /\ ftable[Min(FreeSlots)].ref = 0
<1>1. FreeSlots \subseteq Nat
  BY Finite DEF FreeSlots, FileSlots
<1>2. Min(FreeSlots) \in FreeSlots
  BY <1>1, MinLeast
<1> QED
  BY <1>2 DEF FreeSlots

\* The least free descriptor is free.
LEMMA LeastFd ==
  ASSUME Core, NEW p \in Procs, FreeFds(p, 0) # {}
  PROVE  Min(FreeFds(p, 0)) \in Fds /\ ofile[p][Min(FreeFds(p, 0))] = NULL
<1>1. FreeFds(p, 0) \subseteq Fds /\ \A fd \in FreeFds(p, 0) : ofile[p][fd] = NULL
  BY FreeFdsAre
<1>2. FreeFds(p, 0) \subseteq Nat
  BY <1>1, Finite DEF Fds
<1>3. Min(FreeFds(p, 0)) \in FreeFds(p, 0)
  BY <1>2, MinLeast
<1> QED
  BY <1>1, <1>3

\* A free descriptor of p gets the free slot f, for a file that is no pipe.
LEMMA InstallStep ==
  ASSUME Core, NEW p \in alive, NEW fd \in Fds, ofile[p][fd] = NULL,
         NEW f \in FileSlots, ftable[f].ref = 0,
         NEW file \in File, file.ref = 1, file.type \notin {"NONE", "PIPE"},
         file.type = "ENTRY" => file.ep # NULL,
         ofile' = [ofile EXCEPT ![p][fd] = f], ftable' = [ftable EXCEPT ![f] = file],
         UNCHANGED <<pipe, lostFile>>
  PROVE  /\ ofile' \in [Procs -> [Fds -> FileSlots \cup {NULL}]] /\ ftable' \in [FileSlots -> File]
         /\ \A q \in Procs, y \in Fds : ofile'[q][y] = IF q = p /\ y = fd THEN f ELSE ofile[q][y]
         /\ SlotsSound' /\ FileCounts' /\ PipeEnds' /\ OneEnd' /\ TypesKept
<1>0. p \in Procs /\ ofile \in [Procs -> [Fds -> FileSlots \cup {NULL}]]
      /\ ftable \in [FileSlots -> File] /\ lostFile \in [FileSlots -> Nat]
  BY DEF Core, FilesTypeOK
<1>1. /\ ofile' \in [Procs -> [Fds -> FileSlots \cup {NULL}]]
      /\ \A q \in Procs, y \in Fds : ofile'[q][y] = IF q = p /\ y = fd THEN f ELSE ofile[q][y]
  BY <1>0
<1>2. /\ ftable' \in [FileSlots -> File] /\ ftable'[f] = file
      /\ \A h \in FileSlots : h # f => ftable'[h] = ftable[h]
  BY <1>0
<1>3. ftable[f].type = "NONE"
  BY DEF Core, SlotsSound
<1>4. SlotsSound'
  BY <1>2 DEF Core, SlotsSound
<1>5. PipeEnds' /\ OneEnd'
  <2>1. \A h \in FileSlots : \A pg \in Pages, w \in BOOLEAN :
           IsEnd(ftable[h]', pg, w) <=> IsEnd(ftable[h], pg, w)
    BY <1>2, <1>3 DEF IsEnd
  <2> QED
    BY <2>1, EndsKept DEF Core
<1>6. FileCounts'
  <2> SUFFICES ASSUME NEW h \in FileSlots
               PROVE  ftable'[h].ref = Cardinality(UsersIn(ofile', h)) + lostFile[h]
    BY DEF FileCounts
  <2>1. /\ Cardinality(UsersIn(ofile, h)) \in Nat /\ Cardinality(UsersIn(ofile', h)) \in Nat
        /\ Hit(ofile[p][fd], h) \in Nat /\ Hit(f, h) \in Nat
        /\ Cardinality(UsersIn(ofile', h))
             = Cardinality(UsersIn(ofile, h)) - Hit(ofile[p][fd], h) + Hit(f, h)
    <3>1. SetOne(ofile, ofile', p, fd, ofile[p][fd], f) /\ p \in Procs
      BY <1>0, SetOneIs
    <3> QED
      BY ONLY <3>1, fd \in Fds, UsersSet
  <2>2. Hit(ofile[p][fd], h) = 0 /\ (h = f => Hit(f, h) = 1) /\ (h # f => Hit(f, h) = 0)
    BY Finite DEF Hit
  <2>3. ftable[h].ref = Cardinality(UsersIn(ofile, h)) + lostFile[h] /\ lostFile[h] \in Nat
    BY <1>0 DEF Core, FileCounts
  <2>4. (h = f => ftable[h].ref = 0 /\ ftable'[h].ref = 1) /\ (h # f => ftable'[h].ref = ftable[h].ref)
    BY <1>2
  <2> QED
    <3> DEFINE n == Cardinality(UsersIn(ofile, h))
               m == Cardinality(UsersIn(ofile', h))
    <3>1. n \in Nat /\ m = n + Hit(f, h) /\ Hit(f, h) \in Nat /\ ftable[h].ref = n + lostFile[h] /\ lostFile[h] \in Nat
      BY <2>1, <2>2, <2>3
    <3> HIDE DEF n, m
    <3>2. CASE h = f
      <4>1. n = 0 /\ lostFile[h] = 0 /\ m = 1
        BY ONLY <3>1, <2>2, <2>4, <3>2
      <4> QED
        BY ONLY <4>1, <2>4, <3>2 DEF m
    <3>3. CASE h # f
      BY ONLY <3>1, <2>2, <2>4, <3>3 DEF m
    <3> QED
      BY <3>2, <3>3
<1>7. TypesKept
  BY <1>2 DEF TypesKept
<1> QED
  BY <1>1, <1>2, <1>4, <1>5, <1>6, <1>7

\* What the descriptors of p are after open(), whatever is opened.
OneMore(p) ==
  \A q \in Procs, y \in Fds :
    IF q = p /\ CanOpen(p) /\ y = Min(FreeFds(p, 0)) THEN ofile'[q][y] # NULL
    ELSE ofile'[q][y] = ofile[q][y]

LEMMA DeviceStep ==
  ASSUME Core, NEW p \in Procs, NEW type \in {"DEVICE", "NULL"}, NEW flags, OpenDevice(p, type, flags),
         \/ openatFd' = openatFd
         \/ type = "NULL" /\ openatFd' = [openatFd EXCEPT ![p] = @ \cup {Min(FreeFds(p, 0))}]
  PROVE  Core'
<1>1. /\ p \in alive /\ CanOpen(p) /\ call[p] = <<>>
      /\ UNCHANGED <<execClose, filelimit, cwd, alive, call, pipe, link, entry, lostFile, lostEntry>>
  BY DEF OpenDevice, Running
<1> DEFINE fd == Min(FreeFds(p, 0))
           f == Min(FreeSlots)
           file == [ftable[f] EXCEPT !.type = type, !.ref = 1, !.ep = NULL, !.off = 0,
                      !.readable = type = "NULL" \/ "O_WRONLY" \notin flags,
                      !.writable = type = "NULL" \/ flags \cap {"O_WRONLY", "O_RDWR"} # {}]
<1>2. ofile' = [ofile EXCEPT ![p][fd] = f] /\ ftable' = [ftable EXCEPT ![f] = file]
  BY DEF OpenDevice, Install
<1>3. f \in FileSlots /\ ftable[f].ref = 0 /\ fd \in Fds /\ ofile[p][fd] = NULL
  BY <1>1, LeastSlot, LeastFd DEF CanOpen
<1>11. openatFd' = openatFd \/ (type = "NULL" /\ openatFd' = [openatFd EXCEPT ![p] = @ \cup {fd}])
  OBVIOUS
<1> HIDE DEF f, fd
<1>12. /\ openatFd' \in [Procs -> SUBSET Fds]
       /\ \A q \in Procs : \A y \in openatFd'[q] :
             y \in openatFd[q] \/ (type = "NULL" /\ q = p /\ y = fd)
       /\ \A q \in Procs \ {p} : openatFd'[q] = openatFd[q]
  <2>1. openatFd \in [Procs -> SUBSET Fds]
    BY DEF Core, FilesTypeOK
  <2> QED
    BY <1>3, <1>11, <2>1
<1>4. ftable[f] \in File
  BY <1>3 DEF Core, FilesTypeOK
<1>5. file \in File /\ file.ref = 1 /\ file.type = type
  BY <1>4 DEF File
<1> HIDE DEF file
<1>6. /\ ofile' \in [Procs -> [Fds -> FileSlots \cup {NULL}]] /\ ftable' \in [FileSlots -> File]
      /\ \A q \in Procs, y \in Fds : ofile'[q][y] = IF q = p /\ y = fd THEN f ELSE ofile[q][y]
      /\ SlotsSound' /\ FileCounts' /\ PipeEnds' /\ OneEnd' /\ TypesKept
  BY <1>1, <1>2, <1>3, <1>5, InstallStep
<1>7. FilesTypeOK'
  <2>1. FilesTypeOK
    BY DEF Core
  <2> QED
    BY ONLY <1>1, <1>6, <1>12, <2>1 DEF FilesTypeOK
<1>8. HeldByLiving'
  <2>1. HeldByLiving
    BY DEF Core
  <2>2. \A q \in Procs \ alive : openatFd'[q] = openatFd[q] /\ \A y \in Fds : ofile'[q][y] = ofile[q][y]
    BY <1>1, <1>6, <1>12
  <2>3. UNCHANGED <<cwd, alive>>
    BY <1>1
  <2> QED
    BY ONLY <2>1, <2>2, <2>3 DEF HeldByLiving
<1>9. OpenatUnmarked'
  <2> SUFFICES ASSUME NEW q \in Procs, NEW y \in openatFd'[q]
               PROVE  /\ ofile'[q][y] # NULL
                      /\ execClose'[q][y] => ftable'[ofile'[q][y]].type = "NULL"
                      /\ \A fd0, fd1 \in Fds : call'[q] = <<"pipe", fd0, fd1>> => y \notin {fd0, fd1}
    BY DEF OpenatUnmarked
  <2>1. CASE type = "NULL" /\ q = p /\ y = fd
    <3>1. ofile'[q][y] = f /\ f # NULL
      BY <1>3, <1>6, <2>1, Finite
    <3>2. ftable'[f] = file
      BY <1>2, <1>3 DEF Core, FilesTypeOK
    <3>3. \A fd0, fd1 \in Fds : <<>> # <<"pipe", fd0, fd1>>
      OBVIOUS
    <3> QED
      BY <1>1, <1>5, <2>1, <3>1, <3>2, <3>3
  <2>2. CASE y \in openatFd[q]
    <3>1. y \in Fds /\ ofile[q][y] # NULL
      BY <2>2 DEF Core, FilesTypeOK, OpenatUnmarked
    <3>2. ofile'[q][y] = ofile[q][y]
      BY <1>3, <1>6, <3>1
    <3> QED
      BY <1>1, <1>6, <1>7, <2>2, <3>1, <3>2, KeptOne
  <2> QED
    BY <1>12, <2>1, <2>2
<1>10. EntryCounts'
  <2>1. NodeIn(ftable') = NodeIn(ftable)
    <3>1. ftable[f].type = "NONE" /\ ftable \in [FileSlots -> File]
      BY <1>3 DEF Core, SlotsSound, FilesTypeOK
    <3>2. \A h \in FileSlots : /\ ftable'[h].type = "ENTRY" <=> ftable[h].type = "ENTRY"
                               /\ ftable[h].type = "ENTRY" => ftable'[h].ep = ftable[h].ep
      BY <1>2, <1>3, <1>5, <3>1
    <3> QED
      BY <3>2 DEF NodeIn
  <2> QED
    BY <1>1, <2>1 DEF Core, EntryCounts
<1> QED
  BY <1>6, <1>7, <1>8, <1>9, <1>10 DEF Core

\* All that open() does to files, descriptors and entries.
LEMMA OpenEntryStep ==
  ASSUME Core, NEW p \in alive, NEW x \in Names \cup {Root}, NEW e \in Entries,
         x = Root \/ e \in Nodes, NEW flags, OpenEntry(p, x, e, flags),
         UNCHANGED <<filelimit, cwd, alive, pipe, lostFile, lostEntry>>,
         execClose' \in [Procs -> [Fds -> BOOLEAN]], CallsOK', openatFd' \in [Procs -> SUBSET Fds],
         \A q \in Procs \ alive : openatFd'[q] = {}
  PROVE  /\ FilesTypeOK' /\ HeldByLiving' /\ SlotsSound' /\ FileCounts' /\ EntryCounts'
         /\ PipeEnds' /\ OneEnd' /\ OneMore(p) /\ TypesKept
<1> DEFINE held == [entry EXCEPT ![e].ref = @ + 1, ![e].dir = IF Find(x) = NULL THEN FALSE ELSE @]
           size == IF "O_TRUNC" \in flags /\ ~held[e].dir THEN 0 ELSE entry[e].size
<1>0. p \in Procs /\ entry \in [Entries -> EntryRec] /\ link \in [Names -> Nodes \cup {NULL}]
  BY DEF Core, FilesTypeOK, EntryRec
<1>1. link' \in [Names -> Nodes \cup {NULL}]
  <2>1. link' = IF x = Root THEN link ELSE [link EXCEPT ![x] = e]
    BY DEF OpenEntry
  <2> QED
    BY <1>0, <2>1
<1>2. held \in [Entries -> EntryRec] /\ size \in Nat
  <2> DEFINE b == IF Find(x) = NULL THEN FALSE ELSE entry[e].dir
  <2>0. entry[e].dir \in BOOLEAN /\ entry[e].ref \in Nat /\ entry[e].size \in Nat
    BY <1>0 DEF EntryRec
  <2>1. b \in BOOLEAN /\ entry[e].ref + 1 \in Nat /\ entry[e].size \in Nat
    <3>1. b \in BOOLEAN
      BY ONLY <2>0, Zenon
    <3> HIDE DEF b
    <3>2. entry[e].ref + 1 \in Nat
      BY <2>0
    <3> QED
      BY <2>0, <3>1, <3>2
  <2>2. held = [entry EXCEPT ![e].ref = entry[e].ref + 1, ![e].dir = b]
    BY <1>0
  <2>3. size \in Nat
    BY <2>1
  <2> HIDE DEF b, held
  <2>4. held \in [Entries -> EntryRec]
    BY <1>0, <2>1, <2>2 DEF EntryRec
  <2> QED
    BY <2>3, <2>4
<1>3. \A d \in Entries : /\ held[d].ref \in Nat /\ entry[d].ref \in Nat /\ Hit(e, d) \in Nat
                         /\ held[d].ref = entry[d].ref + Hit(e, d)
  <2> SUFFICES ASSUME NEW d \in Entries
               PROVE  /\ held[d].ref \in Nat /\ entry[d].ref \in Nat /\ Hit(e, d) \in Nat
                      /\ held[d].ref = entry[d].ref + Hit(e, d)
    OBVIOUS
  <2>1. entry[d].ref \in Nat /\ held[e].ref = entry[e].ref + 1
    BY <1>0 DEF EntryRec
  <2>2. d # e => held[d] = entry[d]
    BY <1>0
  <2> HIDE DEF held
  <2>3. CASE d = e
    BY <2>1, <2>3 DEF Hit
  <2>4. CASE d # e
    BY <2>1, <2>2, <2>4 DEF Hit
  <2> QED
    BY <2>3, <2>4
<1>4. CASE ~ CanOpen(p)
  <2>1. entry' = Put(held, e, 1) /\ UNCHANGED <<ofile, ftable>>
    BY <1>4 DEF OpenEntry
  <2> HIDE DEF held
  <2>2. 1 <= held[e].ref
    <3>1. held[e].ref = entry[e].ref + Hit(e, e) /\ entry[e].ref \in Nat
      BY <1>3
    <3>2. Hit(e, e) = 1
      BY DEF Hit
    <3> QED
      BY <3>1, <3>2
  <2>3. /\ entry' \in [Entries -> EntryRec]
        /\ \A d \in Entries : entry'[d].ref = entry[d].ref
    <3>1. ASSUME NEW d \in Entries
          PROVE  /\ entry' \in [Entries -> EntryRec] /\ entry'[d].ref \in Nat /\ Hit(e, d) \in Nat
                 /\ entry'[d].ref = held[d].ref - Hit(e, d)
      BY <1>2, <2>1, <2>2, PutOne
    <3> QED
      BY <1>3, <3>1
  <2>4. SlotsSound' /\ FileCounts' /\ PipeEnds' /\ OneEnd'
    BY <2>1, FileSideKept
  <2>5. FilesTypeOK'
    <3>1. FilesTypeOK
      BY DEF Core
    <3>2. UNCHANGED <<filelimit, cwd, alive, pipe, lostFile, lostEntry, ofile, ftable>>
      BY <2>1
    <3> QED
      BY <1>1, <2>3, <3>1, <3>2 DEF FilesTypeOK, CallsOK, EntryRec
  <2>6. HeldByLiving'
    BY <2>1 DEF Core, HeldByLiving
  <2>7. EntryCounts'
    BY <2>1, <2>3 DEF Core, EntryCounts
  <2>8. OneMore(p)
    BY <1>4, <2>1 DEF OneMore
  <2>9. TypesKept
    BY <2>1 DEF TypesKept
  <2> QED
    BY <2>4, <2>5, <2>6, <2>7, <2>8, <2>9
<1>5. CASE CanOpen(p)
  <2> DEFINE fd == Min(FreeFds(p, 0))
             f == Min(FreeSlots)
             file == [ftable[f] EXCEPT !.type = "ENTRY", !.ref = 1, !.ep = e,
                          !.off = IF "O_APPEND" \in flags THEN size ELSE 0,
                          !.readable = "O_WRONLY" \notin flags,
                          !.writable = flags \cap {"O_WRONLY", "O_RDWR"} # {}]
  <2>1. entry' = [held EXCEPT ![e].size = size]
    BY <1>5 DEF OpenEntry
  <2>2. ofile' = [ofile EXCEPT ![p][fd] = f] /\ ftable' = [ftable EXCEPT ![f] = file]
    BY <1>5 DEF OpenEntry, Install
  <2>3. f \in FileSlots /\ ftable[f].ref = 0 /\ fd \in Fds /\ ofile[p][fd] = NULL
    BY <1>0, <1>5, LeastSlot, LeastFd DEF CanOpen
  <2>4. entry' \in [Entries -> EntryRec] /\ \A d \in Entries : entry'[d].ref = held[d].ref
    <3> HIDE DEF held, size
    <3> QED
      BY <1>2, <2>1, SizeMoves DEF EntryRec
  <2> HIDE DEF f, fd, size, held
  <2>5. ftable[f] \in File
    BY <2>3 DEF Core, FilesTypeOK
  <2>6. file \in File /\ file.ref = 1 /\ file.type = "ENTRY" /\ file.ep = e /\ e # NULL
    BY <1>2, <2>5, Finite DEF File
  <2> HIDE DEF file
  <2>7. /\ ofile' \in [Procs -> [Fds -> FileSlots \cup {NULL}]] /\ ftable' \in [FileSlots -> File]
        /\ \A q \in Procs, y \in Fds : ofile'[q][y] = IF q = p /\ y = fd THEN f ELSE ofile[q][y]
        /\ SlotsSound' /\ FileCounts' /\ PipeEnds' /\ OneEnd' /\ TypesKept
    BY <2>2, <2>3, <2>6, InstallStep
  <2>8. FilesTypeOK'
    <3>1. FilesTypeOK
      BY DEF Core
    <3> QED
      BY <1>1, <2>4, <2>7, <3>1 DEF FilesTypeOK, CallsOK, EntryRec
  <2>9. HeldByLiving'
    <3>1. HeldByLiving
      BY DEF Core
    <3>2. \A q \in Procs \ alive : \A y \in Fds : ofile'[q][y] = ofile[q][y]
      BY <2>7
    <3> QED
      BY ONLY <3>1, <3>2, UNCHANGED <<cwd, alive>>, \A q \in Procs \ alive : openatFd'[q] = {}
         DEF HeldByLiving
  <2>10. OneMore(p)
    <3>1. NULL # f
      BY <2>3, Finite
    <3> QED
      BY <2>7, <3>1, <1>5 DEF OneMore, fd
  <2>11. EntryCounts'
    <3> SUFFICES ASSUME NEW d \in Entries
                 PROVE  entry'[d].ref = Count(FileSlots, NodeIn(ftable'), d) + Count(Procs, cwd, d)
                                          + lostEntry[d]
      BY DEF EntryCounts
    <3>1. ftable[f].type = "NONE" /\ ftable \in [FileSlots -> File]
      BY <2>3 DEF Core, SlotsSound, FilesTypeOK
    <3>2. /\ Agree(FileSlots \ {f}, NodeIn(ftable), NodeIn(ftable'))
          /\ NodeIn(ftable)[f] = NULL /\ NodeIn(ftable')[f] = e
      <4>1. \A h \in FileSlots \ {f} : ftable'[h] = ftable[h]
        BY <2>2, <3>1
      <4>2. ftable'[f] = file
        BY <2>2, <2>3, <3>1
      <4>3. \A h \in FileSlots \ {f} : NodeIn(ftable')[h] = NodeIn(ftable)[h]
        BY <4>1 DEF NodeIn
      <4> QED
        BY <2>3, <2>6, <3>1, <4>2, <4>3 DEF NodeIn, Agree
    <3>3. /\ Count(FileSlots, NodeIn(ftable), d) \in Nat /\ Count(FileSlots, NodeIn(ftable'), d) \in Nat
          /\ Hit(NULL, d) \in Nat /\ Hit(e, d) \in Nat
          /\ Count(FileSlots, NodeIn(ftable'), d)
               = Count(FileSlots, NodeIn(ftable), d) - Hit(NULL, d) + Hit(e, d)
      <4> DEFINE n == NodeIn(ftable)
                 m == NodeIn(ftable')
      <4>1. Agree(FileSlots \ {f}, n, m) /\ n[f] = NULL /\ m[f] = e
        BY <3>2
      <4> HIDE DEF n, m
      <4>2. /\ Count(FileSlots, n, d) \in Nat /\ Count(FileSlots, m, d) \in Nat
            /\ Hit(n[f], d) \in Nat /\ Hit(m[f], d) \in Nat
            /\ Count(FileSlots, m, d) = Count(FileSlots, n, d) - Hit(n[f], d) + Hit(m[f], d)
        BY ONLY <2>3, <4>1, NodeMoves
      <4> QED
        BY <4>1, <4>2 DEF n, m
    <3>4. Hit(NULL, d) = 0
      BY Finite DEF Hit
    <3> QED
      BY <1>3, <2>4, <3>3, <3>4, EntryNumbers
  <2> QED
    BY <2>7, <2>8, <2>9, <2>10, <2>11
<1> QED
  BY <1>4, <1>5

\* The entry that is opened.
LEMMA TargetIs ==
  ASSUME Core, NEW x \in Names \cup {Root}, NEW flags, Target(x, flags) # NULL
  PROVE  Target(x, flags) \in Entries /\ (x = Root \/ Target(x, flags) \in Nodes)
<1>1. CASE Find(x) = NULL /\ "O_CREATE" \in flags /\ FreeNodes # {}
  <2>1. Target(x, flags) \in FreeNodes
    BY <1>1 DEF Target
  <2> QED
    BY <2>1 DEF FreeNodes, Entries
<1>2. CASE ~(Find(x) = NULL /\ "O_CREATE" \in flags /\ FreeNodes # {})
  <2>1. Target(x, flags) = Find(x)
    BY <1>2 DEF Target
  <2> QED
    BY <2>1 DEF Find, Core, FilesTypeOK, Entries
<1> QED
  BY <1>1, <1>2

\* open() leaves the descriptors alone that openat() returned before.
LEMMA OneMoreKeeps ==
  ASSUME Core, NEW p \in Procs, OneMore(p)
  PROVE  \A q \in Procs : \A y \in openatFd[q] : ofile'[q][y] = ofile[q][y]
<1> SUFFICES ASSUME NEW q \in Procs, NEW y \in openatFd[q]
             PROVE  ofile'[q][y] = ofile[q][y]
  OBVIOUS
<1>1. y \in Fds /\ ofile[q][y] # NULL
  BY DEF Core, FilesTypeOK, OpenatUnmarked
<1>2. CanOpen(p) => ofile[p][Min(FreeFds(p, 0))] = NULL
  BY LeastFd DEF CanOpen
<1> QED
  BY <1>1, <1>2 DEF OneMore

LEMMA OpenStep ==
  ASSUME Core, NEW p \in Procs, NEW x \in Names \cup {Root}, NEW flags, sys_open(p, x, flags)
  PROVE  Core'
<1> DEFINE e == Target(x, flags)
<1>1. /\ p \in alive /\ e # NULL /\ OpenEntry(p, x, e, flags)
      /\ UNCHANGED <<execClose, filelimit, cwd, alive, call, pipe, lostFile, lostEntry, openatFd>>
  BY DEF sys_open, Running, ghosts
<1>2. e \in Entries /\ (x = Root \/ e \in Nodes)
  BY <1>1, TargetIs
<1> HIDE DEF e
<1>3. FilesTypeOK /\ HeldByLiving
  BY DEF Core
<1>4. /\ execClose' \in [Procs -> [Fds -> BOOLEAN]] /\ openatFd' \in [Procs -> SUBSET Fds]
      /\ \A q \in Procs \ alive : openatFd'[q] = {}
  BY <1>1, <1>3 DEF FilesTypeOK, HeldByLiving
<1>5. CallsOK'
  BY <1>1, <1>3 DEF FilesTypeOK, CallsOK
<1>6. /\ FilesTypeOK' /\ HeldByLiving' /\ SlotsSound' /\ FileCounts' /\ EntryCounts'
      /\ PipeEnds' /\ OneEnd' /\ OneMore(p) /\ TypesKept
  BY <1>1, <1>2, <1>4, <1>5, OpenEntryStep
<1>7. OpenatUnmarked'
  <2>1. OpenatUnmarked /\ openatFd \in [Procs -> SUBSET Fds]
    BY <1>3 DEF Core, FilesTypeOK
  <2>2. \A q \in Procs : \A y \in openatFd[q] : ofile'[q][y] = ofile[q][y]
    BY <1>6, <2>1, OneMoreKeeps
  <2> QED
    BY <1>1, <1>6, <2>2, OpenatKept
<1> QED
  BY <1>6, <1>7 DEF Core

LEMMA OpenatStep ==
  ASSUME Core, NEW p \in Procs, NEW dirfd, NEW x \in Names \cup {Root}, NEW flags,
         sys_openat(p, dirfd, x, flags)
  PROVE  Core'
<1> DEFINE made == flags \cup (IF x \in OnDemand THEN {"O_CREATE"} ELSE {})
           e == Target(x, made)
           n == Min(FreeFds(p, 0))
<1>1. /\ p \in alive /\ e # NULL /\ OpenEntry(p, x, e, flags \cup {"O_RDWR"})
      /\ UNCHANGED <<filelimit, cwd, alive, call, pipe, lostFile, lostEntry>>
  BY DEF sys_openat, Running
<1>2. e \in Entries /\ (x = Root \/ e \in Nodes)
  BY <1>1, TargetIs
<1>3. FilesTypeOK /\ HeldByLiving
  BY DEF Core
<1>4. /\ execClose' = IF CanOpen(p) THEN [execClose EXCEPT ![p][n] = FALSE] ELSE execClose
      /\ openatFd' = [openatFd EXCEPT ![p] = IF CanOpen(p) THEN @ \cup {n} ELSE @]
  BY DEF sys_openat, ClearMark
<1>5. CanOpen(p) => n \in Fds /\ ofile[p][n] = NULL
  BY LeastFd DEF CanOpen
<1> HIDE DEF e, n, made
<1>6. /\ execClose' \in [Procs -> [Fds -> BOOLEAN]]
      /\ \A q \in Procs, y \in Fds :
           IF CanOpen(p) /\ q = p /\ y = n THEN ~execClose'[q][y]
           ELSE execClose'[q][y] = execClose[q][y]
  <2>1. execClose \in [Procs -> [Fds -> BOOLEAN]]
    BY <1>3 DEF FilesTypeOK
  <2>2. CASE CanOpen(p)
    BY <1>4, <1>5, <2>1, <2>2
  <2>3. CASE ~ CanOpen(p)
    BY <1>4, <2>1, <2>3
  <2> QED
    BY <2>2, <2>3
<1>7. /\ openatFd' \in [Procs -> SUBSET Fds]
      /\ \A q \in Procs : \A y \in openatFd'[q] :
            y \in Fds /\ (y \in openatFd[q] \/ (CanOpen(p) /\ q = p /\ y = n))
      /\ \A q \in Procs \ {p} : openatFd'[q] = openatFd[q]
  <2>1. openatFd \in [Procs -> SUBSET Fds]
    BY <1>3 DEF FilesTypeOK
  <2> QED
    BY <1>4, <1>5, <2>1
<1>8. \A q \in Procs \ alive : openatFd'[q] = {}
  BY <1>1, <1>3, <1>7 DEF HeldByLiving
<1>9. CallsOK'
  BY <1>1, <1>3 DEF FilesTypeOK, CallsOK
<1>10. /\ FilesTypeOK' /\ HeldByLiving' /\ SlotsSound' /\ FileCounts' /\ EntryCounts'
       /\ PipeEnds' /\ OneEnd' /\ OneMore(p) /\ TypesKept
  BY <1>1, <1>2, <1>6, <1>7, <1>8, <1>9, OpenEntryStep
<1>11. OpenatUnmarked'
  <2> SUFFICES ASSUME NEW q \in Procs, NEW y \in openatFd'[q]
               PROVE  /\ ofile'[q][y] # NULL
                      /\ execClose'[q][y] => ftable'[ofile'[q][y]].type = "NULL"
                      /\ \A fd0, fd1 \in Fds : call'[q] = <<"pipe", fd0, fd1>> => y \notin {fd0, fd1}
    BY DEF OpenatUnmarked
  <2>1. CASE CanOpen(p) /\ q = p /\ y = n
    <3>1. ofile'[q][y] # NULL /\ ~execClose'[q][y]
      BY <1>5, <1>6, <1>10, <2>1 DEF OneMore, n
    <3>2. call[p] = <<>>
      BY DEF sys_openat, Running
    <3>3. \A fd0, fd1 \in Fds : <<>> # <<"pipe", fd0, fd1>>
      OBVIOUS
    <3> QED
      BY <1>1, <2>1, <3>1, <3>2, <3>3
  <2>2. CASE ~(CanOpen(p) /\ q = p /\ y = n)
    <3>1. y \in openatFd[q] /\ y \in Fds
      BY <1>7, <2>2
    <3>2. ofile'[q][y] = ofile[q][y]
      BY <1>10, <3>1, OneMoreKeeps
    <3>3. execClose'[q][y] = execClose[q][y]
      BY <1>6, <2>2, <3>1
    <3> QED
      BY <1>1, <1>10, <3>1, <3>2, <3>3, KeptOne
  <2> QED
    BY <2>1, <2>2
<1> QED
  BY <1>10, <1>11 DEF Core

\* The redirection of exec(): its descriptor was free, so openat() has not returned it.
LEMMA RedirectStep ==
  ASSUME Core, NEW p \in Procs, NEW x \in Names, exec_redirect(p, x)
  PROVE  Core'
<1> DEFINE flags == {"O_WRONLY", "O_CREATE"} \cup (IF call[p][1] = "append" THEN {"O_APPEND"} ELSE {})
           e == Target(x, flags)
<1>1. /\ p \in alive /\ call' = [call EXCEPT ![p] = <<>>]
      /\ UNCHANGED <<filelimit, cwd, alive, pipe, lostFile, lostEntry, openatFd>>
  BY DEF exec_redirect, ghosts
<1>2. FilesTypeOK /\ HeldByLiving
  BY DEF Core
<1>3. CallsOK' /\ \A q \in Procs : call'[q] = call[q] \/ call'[q] \in {<<>>, <<"out">>, <<"append">>}
  <2>1. /\ call = [q \in Procs |-> call[q]]
        /\ \A q \in Procs : \/ call[q] \in {<<>>, <<"out">>, <<"append">>}
                            \/ \E fd0, fd1 \in Fds : call[q] = <<"pipe", fd0, fd1>>
    BY <1>2 DEF FilesTypeOK
  <2>2. /\ call' = [q \in Procs |-> call'[q]]
        /\ \A q \in Procs : call'[q] = IF q = p THEN <<>> ELSE call[q]
    BY <1>1, <2>1
  <2> QED
    BY <2>1, <2>2 DEF CallsOK
<1>4. /\ openatFd \in [Procs -> SUBSET Fds] /\ openatFd' \in [Procs -> SUBSET Fds]
      /\ \A q \in Procs \ alive : openatFd'[q] = {}
  BY <1>1, <1>2 DEF FilesTypeOK, HeldByLiving
<1>5. CASE e # NULL /\ ~(Find(x) # NULL /\ entry[e].dir)
  <2>1. /\ OpenEntry(p, x, e, flags)
        /\ execClose' = IF CanOpen(p) /\ Min(FreeFds(p, 0)) = 1
                        THEN [execClose EXCEPT ![p][1] = TRUE] ELSE execClose
    BY <1>5 DEF exec_redirect
  <2>2. x \in Names \cup {Root} /\ e \in Entries /\ (x = Root \/ e \in Nodes)
    BY <1>5, TargetIs
  <2> HIDE DEF e, flags
  <2>3. /\ execClose' \in [Procs -> [Fds -> BOOLEAN]]
        /\ \A q \in Procs, y \in Fds :
             ~(q = p /\ ofile[p][y] = NULL) => execClose'[q][y] = execClose[q][y]
    <3>1. execClose \in [Procs -> [Fds -> BOOLEAN]] /\ 1 \in Fds
      BY <1>2, Finite DEF FilesTypeOK
    <3>2. CASE CanOpen(p) /\ Min(FreeFds(p, 0)) = 1
      <4>1. ofile[p][1] = NULL
        BY <3>2, LeastFd DEF CanOpen
      <4> QED
        BY <2>1, <3>1, <3>2, <4>1
    <3>3. CASE ~(CanOpen(p) /\ Min(FreeFds(p, 0)) = 1)
      BY <2>1, <3>1, <3>3
    <3> QED
      BY <3>2, <3>3
  <2>4. /\ FilesTypeOK' /\ HeldByLiving' /\ SlotsSound' /\ FileCounts' /\ EntryCounts'
        /\ PipeEnds' /\ OneEnd' /\ OneMore(p) /\ TypesKept
    BY <1>1, <1>3, <1>4, <2>1, <2>2, <2>3, OpenEntryStep
  <2>5. OpenatUnmarked'
    <3>1. OpenatUnmarked
      BY DEF Core
    <3>2. \A q \in Procs : \A y \in openatFd'[q] :
             ofile'[q][y] = ofile[q][y] /\ execClose'[q][y] = execClose[q][y]
      <4>1. \A q \in Procs : \A y \in openatFd[q] : ofile'[q][y] = ofile[q][y]
        BY <2>4, OneMoreKeeps
      <4> QED
        BY <1>1, <1>4, <2>3, <3>1, <4>1 DEF OpenatUnmarked
    <3>3. \A q \in Procs : openatFd'[q] \subseteq openatFd[q]
      BY <1>1
    <3> QED
      BY <1>3, <2>4, <3>2, <3>3, OpenatKept
  <2> QED
    BY <2>4, <2>5 DEF Core
<1>6. CASE ~(e # NULL /\ ~(Find(x) # NULL /\ entry[e].dir))
  <2>1. UNCHANGED <<ofile, ftable, link, entry, execClose>>
    BY <1>6 DEF exec_redirect
  <2> HIDE DEF e, flags
  <2>2. FilesTypeOK'
    BY <1>1, <1>2, <1>3, <2>1 DEF FilesTypeOK, CallsOK
  <2>3. HeldByLiving' /\ EntryCounts'
    BY <1>1, <2>1 DEF Core, HeldByLiving, EntryCounts
  <2>4. SlotsSound' /\ FileCounts' /\ PipeEnds' /\ OneEnd'
    BY <1>1, <2>1, FileSideKept
  <2>5. OpenatUnmarked'
    <3>1. \A q \in Procs : \A y \in openatFd'[q] :
             ofile'[q][y] = ofile[q][y] /\ execClose'[q][y] = execClose[q][y]
      BY <2>1
    <3>2. \A q \in Procs : openatFd'[q] \subseteq openatFd[q]
      BY <1>1
    <3>3. TypesKept
      BY <2>1 DEF TypesKept
    <3> QED
      BY <1>3, <2>2, <2>4, <3>1, <3>2, <3>3, OpenatKept
  <2> QED
    BY <2>2, <2>3, <2>4, <2>5 DEF Core
<1> QED
  BY <1>5, <1>6

-----------------------------------------------------------------------------
(* Closing: close(), exec(), exit() and a pipe() that fails *)

\* The slots of S are emptied.
LEMMA NodeDrop ==
  ASSUME NEW S \in SUBSET FileSlots, NEW f, NEW g, Agree(FileSlots \ S, f, g),
         NEW e, \A x \in S : g[x] # e
  PROVE  /\ Count(S, f, e) \in Nat /\ Count(FileSlots, f, e) \in Nat
         /\ Count(FileSlots, g, e) \in Nat /\ Count(S, f, e) <= Count(FileSlots, f, e)
         /\ Count(FileSlots, g, e) = Count(FileSlots, f, e) - Count(S, f, e)
<1>1. IsFiniteSet(FileSlots) /\ IsFiniteSet(S) /\ S \subseteq FileSlots
  BY Finite, FS_Subset
<1>2. Count(S, g, e) = 0
  BY <1>1, CountType
<1>3. Count(FileSlots, f, e) \in Nat /\ Count(FileSlots, g, e) \in Nat
  BY <1>1, CountType
<1>4. /\ Count(S, f, e) \in Nat /\ Count(S, f, e) <= Count(FileSlots, f, e)
      /\ Count(FileSlots, g, e) = Count(FileSlots, f, e) - Count(S, f, e)
  BY <1>1, <1>2, CountDrop
<1> QED
  BY <1>3, <1>4

\* p loses the descriptors fds, and the files they referred to those references.
LEMMA DropStep ==
  ASSUME Core, NEW p \in Procs, NEW fds \in SUBSET Fds, Loses(ofile, ofile', p, fds),
         ftable' = fileclose(Refs(p, fds)), pipe' = pipeclose(Closed(Refs(p, fds))),
         lostFile' = lostFile
  PROVE  /\ ftable' \in [FileSlots -> File]
         /\ pipe' \in [Pages -> [readopen : BOOLEAN, writeopen : BOOLEAN]]
         /\ SlotsSound' /\ FileCounts' /\ PipeEnds' /\ OneEnd' /\ TypesKept
<1> DEFINE drop == Refs(p, fds)
           shut == Closed(drop)
<1>0. ftable \in [FileSlots -> File] /\ lostFile \in [FileSlots -> Nat]
  BY DEF Core, FilesTypeOK
<1>1. \A f \in FileSlots : drop[f] = Gone(ofile, p, fds, f)
  BY DEF Refs, Gone, Count
<1> HIDE DEF drop
<1>2. ASSUME NEW f \in FileSlots
      PROVE  /\ drop[f] \in Nat /\ ftable[f].ref \in Nat /\ lostFile[f] \in Nat
             /\ Cardinality(UsersIn(ofile, f)) \in Nat /\ Cardinality(UsersIn(ofile', f)) \in Nat
             /\ drop[f] <= Cardinality(UsersIn(ofile, f))
             /\ Cardinality(UsersIn(ofile', f)) = Cardinality(UsersIn(ofile, f)) - drop[f]
             /\ ftable[f].ref = Cardinality(UsersIn(ofile, f)) + lostFile[f]
  <2>1. /\ Gone(ofile, p, fds, f) \in Nat /\ Cardinality(UsersIn(ofile, f)) \in Nat
        /\ Cardinality(UsersIn(ofile', f)) \in Nat
        /\ Gone(ofile, p, fds, f) <= Cardinality(UsersIn(ofile, f))
        /\ Cardinality(UsersIn(ofile', f)) = Cardinality(UsersIn(ofile, f)) - Gone(ofile, p, fds, f)
    BY UsersDrop
  <2>2. ftable[f].ref = Cardinality(UsersIn(ofile, f)) + lostFile[f]
    BY DEF Core, FileCounts
  <2>3. ftable[f].ref \in Nat /\ lostFile[f] \in Nat
    BY <1>0 DEF File
  <2> QED
    BY <1>1, <2>1, <2>2, <2>3
<1>3. ASSUME NEW f \in FileSlots, f \in shut
      PROVE  /\ ftable'[f] = NoFile /\ ftable'[f].ref = 0 /\ ftable'[f].type = "NONE"
             /\ drop[f] > 0 /\ ftable[f].ref = drop[f]
  <2>1. drop[f] > 0 /\ ftable[f].ref = drop[f]
    BY <1>3 DEF Closed
  <2>2. ftable'[f] = NoFile
    BY <1>3 DEF fileclose, drop
  <2>3. NoFile.ref = 0 /\ NoFile.type = "NONE"
    BY DEF NoFile
  <2> QED
    BY ONLY <2>1, <2>2, <2>3
<1>13. ASSUME NEW f \in FileSlots, f \notin shut
      PROVE  drop[f] = 0 \/ ftable[f].ref # drop[f]
  BY <1>2, <1>13 DEF Closed
<1>10. shut \subseteq FileSlots
  BY DEF Closed
<1> HIDE DEF shut
<1>4. ASSUME NEW f \in FileSlots, f \notin shut
      PROVE  /\ ftable'[f] \in File /\ ftable'[f].ref = ftable[f].ref - drop[f]
             /\ ftable'[f].type = ftable[f].type /\ ftable'[f].pipe = ftable[f].pipe
             /\ ftable'[f].ep = ftable[f].ep /\ ftable'[f].writable = ftable[f].writable
  <2>1. ftable[f] \in File /\ ftable'[f] = [ftable[f] EXCEPT !.ref = @ - drop[f]]
    BY <1>0, <1>4 DEF fileclose, shut, drop
  <2>2. ftable[f].ref - drop[f] \in Nat
    BY <1>2
  <2> QED
    BY <2>1, <2>2 DEF File
<1>5. ftable' \in [FileSlots -> File]
  <2>1. NoFile \in File
    BY DEF NoFile, File
  <2>2. ftable' = [f \in FileSlots |-> ftable'[f]]
    BY DEF fileclose
  <2>3. \A f \in FileSlots : ftable'[f] \in File
    BY <1>3, <1>4, <2>1
  <2> QED
    BY ONLY <2>2, <2>3
<1>6. SlotsSound'
  <2> SUFFICES ASSUME NEW f \in FileSlots
               PROVE  /\ ftable'[f].ref = 0 => ftable'[f].type = "NONE"
                      /\ ftable'[f].type = "ENTRY" => ftable'[f].ep # NULL
                      /\ ftable'[f].type = "PIPE" => ftable'[f].pipe # NULL
    BY DEF SlotsSound
  <2>1. CASE f \in shut
    BY <1>3, <2>1
  <2>2. CASE f \notin shut
    <3>1. ftable[f].ref - drop[f] = 0 => ftable[f].ref = 0
      <4>1. drop[f] \in Nat /\ ftable[f].ref \in Nat
        BY <1>2
      <4>2. drop[f] = 0 \/ ftable[f].ref # drop[f]
        BY <1>13, <2>2
      <4> QED
        BY ONLY <4>1, <4>2
    <3> QED
      BY <1>4, <2>2, <3>1 DEF Core, SlotsSound
  <2> QED
    BY <2>1, <2>2
<1>7. FileCounts'
  <2> SUFFICES ASSUME NEW f \in FileSlots
               PROVE  ftable'[f].ref = Cardinality(UsersIn(ofile', f)) + lostFile[f]
    BY DEF FileCounts
  <2>1. CASE f \in shut
    <3>1. ftable'[f].ref = 0 /\ ftable[f].ref = drop[f]
      BY <1>3, <2>1
    <3> QED
      BY <1>2, <3>1
  <2>2. CASE f \notin shut
    <3>1. ftable'[f].ref = ftable[f].ref - drop[f]
      BY <1>4, <2>2
    <3> QED
      BY <1>2, <3>1
  <2> QED
    BY <2>1, <2>2
<1>8. \A f \in FileSlots : \A pg \in Pages, w \in BOOLEAN :
         IsEnd(ftable'[f], pg, w) <=> f \notin shut /\ IsEnd(ftable[f], pg, w)
  <2> SUFFICES ASSUME NEW f \in FileSlots, NEW pg \in Pages, NEW w \in BOOLEAN
               PROVE  IsEnd(ftable'[f], pg, w) <=> f \notin shut /\ IsEnd(ftable[f], pg, w)
    OBVIOUS
  <2>1. CASE f \in shut
    BY <1>3, <2>1 DEF IsEnd
  <2>2. CASE f \notin shut
    BY <1>4, <2>2 DEF IsEnd
  <2> QED
    BY <2>1, <2>2
<1>9. OneEnd'
  BY <1>8 DEF Core, OneEnd
<1>11. /\ pipe' \in [Pages -> [readopen : BOOLEAN, writeopen : BOOLEAN]]
       /\ \A pg \in Pages :
            /\ pipe'[pg].readopen <=> pipe[pg].readopen /\ ~\E f \in shut : IsEnd(ftable[f], pg, FALSE)
            /\ pipe'[pg].writeopen <=> pipe[pg].writeopen /\ ~\E f \in shut : IsEnd(ftable[f], pg, TRUE)
  <2>1. pipe' = pipeclose(shut)
    BY DEF drop, shut
  <2> SUFFICES ASSUME NEW pg \in Pages
               PROVE  /\ pipe'[pg] \in [readopen : BOOLEAN, writeopen : BOOLEAN]
                      /\ pipe'[pg].readopen <=> /\ pipe[pg].readopen
                                               /\ ~\E f \in shut : IsEnd(ftable[f], pg, FALSE)
                      /\ pipe'[pg].writeopen <=> /\ pipe[pg].writeopen
                                                /\ ~\E f \in shut : IsEnd(ftable[f], pg, TRUE)
    <3>1. pipe' = [pg \in Pages |-> pipe'[pg]]
      BY <2>1 DEF pipeclose
    <3> QED
      BY <3>1
  <2> DEFINE R == pipe[pg].readopen /\ ~\E f \in shut : ftable[f].type = "PIPE"
                            /\ ftable[f].pipe = pg /\ ~ftable[f].writable
             W == pipe[pg].writeopen /\ ~\E f \in shut : ftable[f].type = "PIPE"
                            /\ ftable[f].pipe = pg /\ ftable[f].writable
  <2>2. pipe'[pg] = [readopen |-> R, writeopen |-> W]
    BY <2>1 DEF pipeclose
  <2>3. R \in BOOLEAN /\ W \in BOOLEAN
    OBVIOUS
  <2>4. /\ R <=> pipe[pg].readopen /\ ~\E f \in shut : IsEnd(ftable[f], pg, FALSE)
        /\ W <=> pipe[pg].writeopen /\ ~\E f \in shut : IsEnd(ftable[f], pg, TRUE)
    BY DEF IsEnd
  <2> HIDE DEF R, W
  <2>5. /\ pipe'[pg] \in [readopen : BOOLEAN, writeopen : BOOLEAN]
        /\ pipe'[pg].readopen = R /\ pipe'[pg].writeopen = W
    BY <2>2, <2>3
  <2> QED
    BY <2>4, <2>5, Zenon
<1>12. PipeEnds'
  <2> SUFFICES ASSUME NEW pg \in Pages
               PROVE  /\ pipe'[pg].readopen <=> \E f \in FileSlots : IsEnd(ftable'[f], pg, FALSE)
                      /\ pipe'[pg].writeopen <=> \E f \in FileSlots : IsEnd(ftable'[f], pg, TRUE)
    BY Zenon DEF PipeEnds
  <2>1. /\ pipe[pg].readopen <=> \E f \in FileSlots : IsEnd(ftable[f], pg, FALSE)
        /\ pipe[pg].writeopen <=> \E f \in FileSlots : IsEnd(ftable[f], pg, TRUE)
    BY DEF Core, PipeEnds
  <2>2. ASSUME NEW w \in BOOLEAN
        PROVE  (\E f \in FileSlots : IsEnd(ftable'[f], pg, w))
                 <=> /\ \E f \in FileSlots : IsEnd(ftable[f], pg, w)
                     /\ ~\E f \in shut : IsEnd(ftable[f], pg, w)
    <3> QED
      BY <1>8, <1>10 DEF Core, OneEnd
  <2>3. /\ pipe'[pg].readopen <=> \E f \in FileSlots : IsEnd(ftable'[f], pg, FALSE)
        /\ pipe'[pg].writeopen <=> \E f \in FileSlots : IsEnd(ftable'[f], pg, TRUE)
    BY <1>11, <2>1, <2>2, Zenon
  <2> QED
    BY <2>3
<1>14. TypesKept
  BY <1>3, <1>4 DEF TypesKept
<1> QED
  BY <1>5, <1>6, <1>7, <1>9, <1>11, <1>12, <1>14

\* The entries of the closed files are put as often as files named them.
LEMMA CloseEntriesIs ==
  ASSUME Core, NEW p \in Procs, NEW fds \in SUBSET Fds, ftable' = fileclose(Refs(p, fds)),
         NEW e \in Entries
  PROVE  LET en == CloseEntries(entry, Closed(Refs(p, fds)))
         IN  /\ en \in [Entries -> EntryRec] /\ en[e].ref \in Nat /\ entry[e].ref \in Nat
             /\ Count(FileSlots, NodeIn(ftable), e) \in Nat
             /\ Count(FileSlots, NodeIn(ftable'), e) \in Nat
             /\ en[e].ref = entry[e].ref - Count(FileSlots, NodeIn(ftable), e)
                              + Count(FileSlots, NodeIn(ftable'), e)
<1> DEFINE drop == Refs(p, fds)
           shut == Closed(drop)
           n == NodeIn(ftable)
           m == NodeIn(ftable')
           en == CloseEntries(entry, shut)
           refs(d) == Cardinality({f \in shut : ftable[f].type = "ENTRY" /\ ftable[f].ep = d})
<1>1. shut \in SUBSET FileSlots
  BY DEF Closed
<1>2. \A f \in FileSlots : IF f \in shut THEN ftable'[f].type = "NONE"
                           ELSE ftable'[f].type = ftable[f].type /\ ftable'[f].ep = ftable[f].ep
  <2> SUFFICES ASSUME NEW f \in FileSlots
               PROVE  IF f \in shut THEN ftable'[f].type = "NONE"
                      ELSE ftable'[f].type = ftable[f].type /\ ftable'[f].ep = ftable[f].ep
    OBVIOUS
  <2>1. ftable[f] \in File
    BY DEF Core, FilesTypeOK
  <2>2. ftable'[f] = IF f \in shut THEN NoFile ELSE [ftable[f] EXCEPT !.ref = @ - drop[f]]
    BY DEF fileclose
  <2> HIDE DEF shut, drop
  <2>3. CASE f \in shut
    BY <2>2, <2>3 DEF NoFile
  <2>4. CASE f \notin shut
    BY <2>1, <2>2, <2>4 DEF File
  <2> QED
    BY <2>3, <2>4
<1>3. en = [d \in Entries |-> Put(entry, d, refs(d))[d]]
  BY DEF CloseEntries
<1> HIDE DEF shut, en
<1>4. Agree(FileSlots \ shut, n, m) /\ \A f \in shut : m[f] = NULL
  BY <1>1, <1>2 DEF NodeIn, Agree
<1>5. ASSUME NEW d \in Entries
      PROVE  refs(d) = Count(shut, n, d)
  <2>1. d # NULL
    BY Finite
  <2>2. {f \in shut : ftable[f].type = "ENTRY" /\ ftable[f].ep = d} = {f \in shut : n[f] = d}
    BY <1>1, <2>1 DEF NodeIn
  <2> QED
    BY <2>2 DEF Count
<1> HIDE DEF refs, n, m
<1>6. ASSUME NEW d \in Entries
      PROVE  /\ Count(shut, n, d) \in Nat /\ Count(FileSlots, n, d) \in Nat
             /\ Count(FileSlots, m, d) \in Nat /\ Count(shut, n, d) <= Count(FileSlots, n, d)
             /\ Count(FileSlots, m, d) = Count(FileSlots, n, d) - Count(shut, n, d)
  <2>1. Agree(FileSlots \ shut, n, m) /\ \A f \in shut : m[f] # d
    BY <1>4, Finite
  <2> QED
    BY ONLY <1>1, <2>1, NodeDrop
<1>7. ASSUME NEW d \in Entries
      PROVE  /\ entry \in [Entries -> EntryRec] /\ entry[d].ref \in Nat /\ refs(d) \in Nat
             /\ refs(d) <= entry[d].ref
  <2>1. /\ entry \in [Entries -> EntryRec] /\ entry[d].ref \in Nat /\ lostEntry[d] \in Nat
        /\ Count(Procs, cwd, d) \in Nat
        /\ entry[d].ref = Count(FileSlots, n, d) + Count(Procs, cwd, d) + lostEntry[d]
    BY EntryNumbers DEF n
  <2>2. /\ Count(shut, n, d) \in Nat /\ Count(FileSlots, n, d) \in Nat
        /\ Count(shut, n, d) <= Count(FileSlots, n, d)
    BY <1>6
  <2> QED
    BY <1>5, <2>1, <2>2
<1>8. ASSUME NEW d \in Entries
      PROVE  en[d] \in EntryRec /\ en[d].ref = entry[d].ref - refs(d)
  <2>1. /\ Put(entry, d, refs(d)) \in [Entries -> EntryRec]
        /\ Put(entry, d, refs(d))[d].ref = entry[d].ref - refs(d)
    BY <1>7, PutIs
  <2> QED
    BY <1>3, <2>1
<1>9. en \in [Entries -> EntryRec]
  BY <1>3, <1>8
<1>10. /\ en[e].ref = entry[e].ref - Count(shut, n, e) /\ en[e].ref \in Nat
       /\ entry[e].ref \in Nat
  BY <1>5, <1>7, <1>8 DEF EntryRec
<1>11. en[e].ref = entry[e].ref - Count(FileSlots, n, e) + Count(FileSlots, m, e)
  BY <1>6, <1>10
<1> QED
  BY <1>6, <1>9, <1>10, <1>11 DEF en, shut, drop, n, m

\* p loses descriptors, and keeps its working directory.
LEMMA CloseStep ==
  ASSUME Core, NEW p \in Procs, NEW fds \in SUBSET Fds, Drop(Refs(p, fds)),
         ofile' \in [Procs -> [Fds -> FileSlots \cup {NULL}]], Loses(ofile, ofile', p, fds),
         execClose' \in [Procs -> [Fds -> BOOLEAN]], CallsOK',
         \A q \in Procs : openatFd'[q] \subseteq openatFd[q],
         \A q \in Procs : \A y \in openatFd'[q] :
            ofile'[q][y] = ofile[q][y] /\ execClose'[q][y] = execClose[q][y],
         \A q \in Procs : call'[q] = call[q] \/ call'[q] \in {<<>>, <<"out">>, <<"append">>},
         openatFd' \in [Procs -> SUBSET Fds], \A q \in Procs \ alive : openatFd'[q] = {},
         UNCHANGED <<filelimit, cwd, alive, link, lostFile, lostEntry>>
  PROVE  Core'
<1>1. /\ ftable' = fileclose(Refs(p, fds)) /\ pipe' = pipeclose(Closed(Refs(p, fds)))
      /\ entry' = CloseEntries(entry, Closed(Refs(p, fds)))
  BY DEF Drop
<1>2. /\ ftable' \in [FileSlots -> File]
      /\ pipe' \in [Pages -> [readopen : BOOLEAN, writeopen : BOOLEAN]]
      /\ SlotsSound' /\ FileCounts' /\ PipeEnds' /\ OneEnd' /\ TypesKept
  BY <1>1, DropStep
<1>3. ASSUME NEW e \in Entries
      PROVE  /\ entry' \in [Entries -> EntryRec] /\ entry'[e].ref \in Nat /\ entry[e].ref \in Nat
             /\ Count(FileSlots, NodeIn(ftable), e) \in Nat
             /\ Count(FileSlots, NodeIn(ftable'), e) \in Nat
             /\ entry'[e].ref = entry[e].ref - Count(FileSlots, NodeIn(ftable), e)
                                 + Count(FileSlots, NodeIn(ftable'), e)
  BY <1>1, CloseEntriesIs
<1>4. FilesTypeOK'
  <2>1. FilesTypeOK
    BY DEF Core
  <2>2. entry' \in [Entries -> EntryRec]
    BY <1>3, Finite
  <2> QED
    BY <1>2, <2>1, <2>2 DEF FilesTypeOK, CallsOK, EntryRec
<1>5. HeldByLiving'
  <2>1. HeldByLiving
    BY DEF Core
  <2>2. \A q \in Procs, fd \in Fds : ofile'[q][fd] = ofile[q][fd] \/ ofile'[q][fd] = NULL
    BY DEF Loses, Agree
  <2> QED
    BY ONLY <2>1, <2>2, UNCHANGED <<cwd, alive>>, \A q \in Procs \ alive : openatFd'[q] = {}
       DEF HeldByLiving
<1>6. EntryCounts'
  <2> SUFFICES ASSUME NEW e \in Entries
               PROVE  entry'[e].ref = Count(FileSlots, NodeIn(ftable'), e) + Count(Procs, cwd, e)
                                        + lostEntry[e]
    BY DEF EntryCounts
  <2>1. /\ entry[e].ref \in Nat /\ lostEntry[e] \in Nat /\ Count(Procs, cwd, e) \in Nat
        /\ entry[e].ref = Count(FileSlots, NodeIn(ftable), e) + Count(Procs, cwd, e) + lostEntry[e]
    BY EntryNumbers
  <2>2. /\ entry'[e].ref \in Nat /\ Count(FileSlots, NodeIn(ftable), e) \in Nat
        /\ Count(FileSlots, NodeIn(ftable'), e) \in Nat
        /\ entry'[e].ref = entry[e].ref - Count(FileSlots, NodeIn(ftable), e)
                             + Count(FileSlots, NodeIn(ftable'), e)
    BY <1>3
  <2> QED
    BY ONLY <2>1, <2>2
<1>7. OpenatUnmarked'
  BY <1>2, <1>4, OpenatKept
<1> QED
  BY <1>2, <1>4, <1>5, <1>6, <1>7 DEF Core

LEMMA SysCloseStep ==
  ASSUME Core, NEW p \in Procs, NEW fd \in Fds, sys_close(p, fd)
  PROVE  Core'
<1>0. FilesTypeOK /\ HeldByLiving /\ OpenatUnmarked
  BY DEF Core
<1>1. /\ ofile' = [ofile EXCEPT ![p][fd] = NULL] /\ Drop(Refs(p, {fd}))
      /\ openatFd' = [openatFd EXCEPT ![p] = @ \ {fd}]
      /\ UNCHANGED <<execClose, filelimit, cwd, alive, call, link, lostFile, lostEntry>>
  BY DEF sys_close
<1>2. /\ ofile' \in [Procs -> [Fds -> FileSlots \cup {NULL}]] /\ Loses(ofile, ofile', p, {fd})
      /\ \A q \in Procs, y \in Fds : ofile'[q][y] = IF q = p /\ y = fd THEN NULL ELSE ofile[q][y]
  <2>1. ofile \in [Procs -> [Fds -> FileSlots \cup {NULL}]]
    BY <1>0 DEF FilesTypeOK
  <2> QED
    BY <1>1, <2>1 DEF Loses, Agree
<1>3. /\ openatFd \in [Procs -> SUBSET Fds] /\ openatFd' \in [Procs -> SUBSET Fds]
      /\ \A q \in Procs : openatFd'[q] = IF q = p THEN openatFd[q] \ {fd} ELSE openatFd[q]
      /\ \A q \in Procs \ alive : openatFd'[q] = {}
  BY <1>0, <1>1 DEF FilesTypeOK, HeldByLiving
<1>4. execClose' \in [Procs -> [Fds -> BOOLEAN]] /\ CallsOK'
  BY <1>0, <1>1 DEF FilesTypeOK, CallsOK
<1>5. /\ \A q \in Procs : openatFd'[q] \subseteq openatFd[q]
      /\ \A q \in Procs : \A y \in openatFd'[q] :
            ofile'[q][y] = ofile[q][y] /\ execClose'[q][y] = execClose[q][y]
  BY <1>1, <1>2, <1>3
<1>6. {fd} \in SUBSET Fds
  OBVIOUS
<1> QED
  BY <1>1, <1>2, <1>3, <1>4, <1>5, <1>6, CloseStep

LEMMA CopyoutStep ==
  ASSUME Core, NEW p \in Procs, NEW ok \in BOOLEAN, pipe_copyout(p, ok)
  PROVE  Core'
<1>0. FilesTypeOK /\ HeldByLiving /\ OpenatUnmarked
  BY DEF Core
<1> DEFINE fds == IF ok THEN {} ELSE {call[p][2], call[p][3]}
<1>1. /\ call[p] # <<>> /\ call[p][1] = "pipe" /\ call' = [call EXCEPT ![p] = <<>>]
      /\ ofile' = [ofile EXCEPT ![p] = [fd \in Fds |-> IF fd \in fds THEN NULL ELSE @[fd]]]
      /\ Drop(Refs(p, fds))
      /\ UNCHANGED <<execClose, filelimit, cwd, alive, link, lostFile, lostEntry, openatFd>>
  BY DEF pipe_copyout, ghosts
<1>2. PICK fd0 \in Fds, fd1 \in Fds : call[p] = <<"pipe", fd0, fd1>>
  <2>1. call[p] \notin {<<>>, <<"out">>, <<"append">>}
    BY <1>1
  <2> QED
    BY <1>0, <2>1 DEF FilesTypeOK
<1>3. fds \in SUBSET Fds /\ fds \subseteq {fd0, fd1}
  BY <1>2
<1> HIDE DEF fds
<1>4. /\ ofile' \in [Procs -> [Fds -> FileSlots \cup {NULL}]] /\ Loses(ofile, ofile', p, fds)
      /\ \A q \in Procs, y \in Fds :
           ofile'[q][y] = IF q = p /\ y \in fds THEN NULL ELSE ofile[q][y]
  <2>1. ofile \in [Procs -> [Fds -> FileSlots \cup {NULL}]]
    BY <1>0 DEF FilesTypeOK
  <2>2. /\ ofile' \in [Procs -> [Fds -> FileSlots \cup {NULL}]]
        /\ \A q \in Procs, y \in Fds :
             ofile'[q][y] = IF q = p /\ y \in fds THEN NULL ELSE ofile[q][y]
    BY <1>1, <2>1
  <2>3. \A q \in Procs \ {p} : ofile'[q] = ofile[q]
    BY <1>1, <2>1
  <2> QED
    BY <1>3, <2>2, <2>3 DEF Loses, Agree
<1>5. CallsOK' /\ \A q \in Procs : call'[q] = call[q] \/ call'[q] \in {<<>>, <<"out">>, <<"append">>}
  <2>1. /\ call = [q \in Procs |-> call[q]]
        /\ \A q \in Procs : \/ call[q] \in {<<>>, <<"out">>, <<"append">>}
                            \/ \E a, b \in Fds : call[q] = <<"pipe", a, b>>
    BY <1>0 DEF FilesTypeOK
  <2>2. /\ call' = [q \in Procs |-> call'[q]]
        /\ \A q \in Procs : call'[q] = IF q = p THEN <<>> ELSE call[q]
    BY <1>1, <2>1
  <2> QED
    BY <2>1, <2>2 DEF CallsOK
<1>6. /\ openatFd \in [Procs -> SUBSET Fds] /\ openatFd' \in [Procs -> SUBSET Fds]
      /\ \A q \in Procs \ alive : openatFd'[q] = {}
      /\ execClose' \in [Procs -> [Fds -> BOOLEAN]]
  BY <1>0, <1>1 DEF FilesTypeOK, HeldByLiving
<1>7. /\ \A q \in Procs : openatFd'[q] \subseteq openatFd[q]
      /\ \A q \in Procs : \A y \in openatFd'[q] :
            ofile'[q][y] = ofile[q][y] /\ execClose'[q][y] = execClose[q][y]
  <2>1. \A q \in Procs : openatFd'[q] \subseteq openatFd[q]
    BY <1>1
  <2>2. ASSUME NEW q \in Procs, NEW y \in openatFd'[q]
        PROVE  ofile'[q][y] = ofile[q][y] /\ execClose'[q][y] = execClose[q][y]
    <3>1. y \in openatFd[q] /\ y \in Fds
      BY <1>1, <1>6
    <3>2. q = p => y \notin {fd0, fd1}
      BY <1>0, <1>2, <3>1 DEF OpenatUnmarked
    <3> QED
      BY <1>1, <1>3, <1>4, <3>1, <3>2
  <2> QED
    BY <2>1, <2>2
<1> QED
  BY <1>1, <1>3, <1>4, <1>5, <1>6, <1>7, CloseStep

LEMMA ExecStep ==
  ASSUME Core, NEW p \in Procs, NEW redirection \in {"no", "out", "append"}, exec(p, redirection)
  PROVE  Core'
<1>0. FilesTypeOK /\ HeldByLiving /\ OpenatUnmarked
  BY DEF Core
<1> DEFINE marked == {fd \in 0 .. Limit(p) - 1 : ofile[p][fd] # NULL /\ execClose[p][fd]}
           out == IF redirection = "no" THEN {} ELSE {1}
           fds == marked \cup out
<1>1. CASE out # {} /\ (1 \in marked \/ ofile[p][1] = NULL)
  <2>1. Panic("null")
    BY <1>1 DEF exec
  <2> QED
    BY <2>1, PanicStep
<1>2. CASE ~(out # {} /\ (1 \in marked \/ ofile[p][1] = NULL))
  <2>1. /\ ofile' = [ofile EXCEPT ![p] = [fd \in Fds |-> IF fd \in fds THEN NULL ELSE @[fd]]]
        /\ execClose' = [execClose EXCEPT ![p] = [fd \in Fds |-> fd \notin marked /\ @[fd]]]
        /\ Drop(Refs(p, fds)) /\ openatFd' = [openatFd EXCEPT ![p] = @ \ fds]
        /\ call' = [call EXCEPT ![p] = IF out = {} THEN <<>> ELSE <<redirection>>]
        /\ UNCHANGED <<filelimit, cwd, alive, link, lostFile, lostEntry>>
    BY <1>2 DEF exec
  <2>2. fds \in SUBSET Fds
    <3>1. Limit(p) \in Nat /\ Limit(p) <= NOFILE
      <4>1. filelimit[p] \in {NOFILE, LowLimit}
        BY <1>0 DEF FilesTypeOK
      <4> QED
        BY <4>1, Finite DEF Limit
    <3>2. marked \subseteq Fds
      BY <3>1, Finite DEF Fds
    <3>3. out \subseteq Fds
      BY Finite
    <3> QED
      BY <3>2, <3>3
  <2>3. CallsOK' /\ \A q \in Procs : call'[q] = call[q] \/ call'[q] \in {<<>>, <<"out">>, <<"append">>}
    <3>1. /\ call = [q \in Procs |-> call[q]]
          /\ \A q \in Procs : \/ call[q] \in {<<>>, <<"out">>, <<"append">>}
                              \/ \E a, b \in Fds : call[q] = <<"pipe", a, b>>
      BY <1>0 DEF FilesTypeOK
    <3> DEFINE c == IF out = {} THEN <<>> ELSE <<redirection>>
    <3>2. c \in {<<>>, <<"out">>, <<"append">>}
      OBVIOUS
    <3>3. call' = [call EXCEPT ![p] = c]
      BY <2>1
    <3> HIDE DEF c
    <3>4. /\ call' = [q \in Procs |-> call'[q]]
          /\ \A q \in Procs : call'[q] = IF q = p THEN c ELSE call[q]
      BY <3>1, <3>3
    <3> QED
      BY <3>1, <3>2, <3>4 DEF CallsOK
  <2> HIDE DEF fds, marked, out
  <2>4. /\ ofile' \in [Procs -> [Fds -> FileSlots \cup {NULL}]] /\ Loses(ofile, ofile', p, fds)
        /\ \A q \in Procs, y \in Fds :
             ofile'[q][y] = IF q = p /\ y \in fds THEN NULL ELSE ofile[q][y]
    <3>1. ofile \in [Procs -> [Fds -> FileSlots \cup {NULL}]]
      BY <1>0 DEF FilesTypeOK
    <3>2. /\ ofile' \in [Procs -> [Fds -> FileSlots \cup {NULL}]]
          /\ \A q \in Procs, y \in Fds :
               ofile'[q][y] = IF q = p /\ y \in fds THEN NULL ELSE ofile[q][y]
      BY <2>1, <3>1
    <3>3. \A q \in Procs \ {p} : ofile'[q] = ofile[q]
      BY <2>1, <3>1
    <3> QED
      BY <2>2, <3>2, <3>3 DEF Loses, Agree
  <2>5. /\ execClose' \in [Procs -> [Fds -> BOOLEAN]]
        /\ \A q \in Procs, y \in Fds : ~(q = p /\ y \in fds) => execClose'[q][y] = execClose[q][y]
    <3>1. execClose \in [Procs -> [Fds -> BOOLEAN]]
      BY <1>0 DEF FilesTypeOK
    <3>2. \A y \in Fds : y \notin fds => y \notin marked
      BY DEF fds
    <3>3. /\ execClose' \in [Procs -> [Fds -> BOOLEAN]]
          /\ \A q \in Procs \ {p} : execClose'[q] = execClose[q]
          /\ \A y \in Fds : execClose'[p][y] = (y \notin marked /\ execClose[p][y])
      BY <2>1, <3>1
    <3>4. \A y \in Fds : y \notin marked => execClose'[p][y] = execClose[p][y]
      <4>1. \A y \in Fds : execClose[p][y] \in BOOLEAN
        BY <3>1
      <4> QED
        BY <3>3, <4>1, Zenon
    <3> QED
      BY <3>2, <3>3, <3>4
  <2>6. /\ openatFd \in [Procs -> SUBSET Fds] /\ openatFd' \in [Procs -> SUBSET Fds]
        /\ \A q \in Procs : openatFd'[q] = IF q = p THEN openatFd[q] \ fds ELSE openatFd[q]
        /\ \A q \in Procs \ alive : openatFd'[q] = {}
    BY <1>0, <2>1 DEF FilesTypeOK, HeldByLiving
  <2>7. /\ \A q \in Procs : openatFd'[q] \subseteq openatFd[q]
        /\ \A q \in Procs : \A y \in openatFd'[q] :
              ofile'[q][y] = ofile[q][y] /\ execClose'[q][y] = execClose[q][y]
    <3>1. \A q \in Procs : \A y \in openatFd'[q] : y \in Fds /\ ~(q = p /\ y \in fds)
      BY <2>6
    <3> QED
      BY <2>4, <2>5, <2>6, <3>1
  <2> QED
    BY <2>1, <2>2, <2>3, <2>4, <2>5, <2>6, <2>7, CloseStep
<1> QED
  BY <1>1, <1>2

LEMMA ExitStep ==
  ASSUME Core, NEW p \in Procs, exit(p)
  PROVE  Core'
<1>0. FilesTypeOK /\ HeldByLiving /\ OpenatUnmarked
  BY DEF Core
<1> DEFINE c == cwd[p]
           drop == Refs(p, Fds)
           en == CloseEntries(entry, Closed(drop))
<1>1. /\ p \in alive /\ alive' = alive \ {p} /\ ofile' = [ofile EXCEPT ![p] = [fd \in Fds |-> NULL]]
      /\ ftable' = fileclose(drop) /\ pipe' = pipeclose(Closed(drop)) /\ entry' = Put(en, c, 1)
      /\ cwd' = [cwd EXCEPT ![p] = NULL]
      /\ execClose' = [execClose EXCEPT ![p] = [fd \in Fds |-> FALSE]]
      /\ filelimit' = [filelimit EXCEPT ![p] = NOFILE] /\ openatFd' = [openatFd EXCEPT ![p] = {}]
      /\ UNCHANGED <<call, link, lostFile, lostEntry>>
  BY DEF exit, Running
<1>2. c \in Entries
  BY <1>1, CwdHeld
<1>3. /\ ofile' \in [Procs -> [Fds -> FileSlots \cup {NULL}]] /\ Loses(ofile, ofile', p, Fds)
      /\ \A q \in Procs \ {p} : ofile'[q] = ofile[q]
      /\ \A fd \in Fds : ofile'[p][fd] = NULL
  <2>1. ofile \in [Procs -> [Fds -> FileSlots \cup {NULL}]]
    BY <1>0 DEF FilesTypeOK
  <2> QED
    BY <1>1, <2>1 DEF Loses, Agree
<1>4. Fds \in SUBSET Fds
  OBVIOUS
<1>5. /\ ftable' \in [FileSlots -> File]
      /\ pipe' \in [Pages -> [readopen : BOOLEAN, writeopen : BOOLEAN]]
      /\ SlotsSound' /\ FileCounts' /\ PipeEnds' /\ OneEnd' /\ TypesKept
  BY <1>1, <1>3, <1>4, DropStep
<1>6. ASSUME NEW e \in Entries
      PROVE  /\ en \in [Entries -> EntryRec] /\ en[e].ref \in Nat /\ entry[e].ref \in Nat
             /\ Count(FileSlots, NodeIn(ftable), e) \in Nat
             /\ Count(FileSlots, NodeIn(ftable'), e) \in Nat
             /\ en[e].ref = entry[e].ref - Count(FileSlots, NodeIn(ftable), e)
                              + Count(FileSlots, NodeIn(ftable'), e)
  BY <1>1, <1>4, CloseEntriesIs
<1>7. cwd \in [Procs -> Entries \cup {NULL}] /\ cwd' \in [Procs -> Entries \cup {NULL}]
  BY <1>0, <1>1 DEF FilesTypeOK
<1>8. ASSUME NEW e \in Entries
      PROVE  /\ Count(Procs, cwd, e) \in Nat /\ Count(Procs, cwd', e) \in Nat
             /\ Hit(c, e) \in Nat /\ Hit(c, e) <= Count(Procs, cwd, e)
             /\ Count(Procs, cwd', e) = Count(Procs, cwd, e) - Hit(c, e)
  <2>1. Agree(Procs \ {p}, cwd, cwd') /\ cwd'[p] = NULL
    BY <1>1, <1>7 DEF Agree
  <2>2. /\ Count(Procs, cwd, e) \in Nat /\ Count(Procs, cwd', e) \in Nat
        /\ Hit(cwd[p], e) \in Nat /\ Hit(cwd'[p], e) \in Nat /\ Hit(cwd[p], e) <= Count(Procs, cwd, e)
        /\ Count(Procs, cwd', e) = Count(Procs, cwd, e) - Hit(cwd[p], e) + Hit(cwd'[p], e)
    BY ONLY <2>1, p \in Procs, CwdMoves
  <2>3. Hit(cwd'[p], e) = 0
    BY <2>1, Finite DEF Hit
  <2> QED
    BY <2>2, <2>3
<1> HIDE DEF c, en, drop
<1>9. 1 <= en[c].ref
  <2>1. Hit(c, c) = 1
    BY DEF Hit
  <2> QED
    BY <1>2, <1>6, <1>8, <2>1, EntryNumbers
<1>10. ASSUME NEW e \in Entries
       PROVE  /\ entry' \in [Entries -> EntryRec] /\ entry'[e].ref \in Nat
              /\ entry'[e].ref = en[e].ref - Hit(c, e)
  BY <1>1, <1>2, <1>6, <1>9, PutOne
<1>11. FilesTypeOK'
  <2>1. entry' \in [Entries -> EntryRec]
    BY <1>2, <1>10
  <2>2. /\ execClose' \in [Procs -> [Fds -> BOOLEAN]] /\ filelimit' \in [Procs -> {NOFILE, LowLimit}]
        /\ alive' \subseteq Procs /\ openatFd' \in [Procs -> SUBSET Fds]
        /\ UNCHANGED <<call, link, lostFile, lostEntry>>
    BY <1>0, <1>1 DEF FilesTypeOK
  <2> QED
    BY <1>0, <1>3, <1>5, <1>7, <2>1, <2>2 DEF FilesTypeOK, EntryRec
<1>12. HeldByLiving'
  <2>1. /\ \A q \in Procs \ {p} : openatFd'[q] = openatFd[q] /\ cwd'[q] = cwd[q]
        /\ openatFd'[p] = {} /\ cwd'[p] = NULL
    BY <1>0, <1>1, <1>7 DEF FilesTypeOK
  <2> QED
    BY <1>0, <1>1, <1>3, <2>1 DEF HeldByLiving
<1>13. OpenatUnmarked'
  <2>1. \A q \in Procs \ {p} : openatFd'[q] = openatFd[q] /\ execClose'[q] = execClose[q]
    BY <1>0, <1>1 DEF FilesTypeOK
  <2>2. openatFd'[p] = {}
    BY <1>0, <1>1 DEF FilesTypeOK
  <2>3. \A q \in Procs : openatFd'[q] \subseteq openatFd[q]
    BY <2>1, <2>2
  <2>4. \A q \in Procs : \A y \in openatFd'[q] :
           ofile'[q][y] = ofile[q][y] /\ execClose'[q][y] = execClose[q][y]
    BY <1>3, <2>1, <2>2
  <2> QED
    BY <1>1, <1>5, <1>11, <2>3, <2>4, OpenatKept
<1>14. EntryCounts'
  <2> SUFFICES ASSUME NEW e \in Entries
               PROVE  entry'[e].ref = Count(FileSlots, NodeIn(ftable'), e) + Count(Procs, cwd', e)
                                        + lostEntry[e]
    BY <1>1 DEF EntryCounts
  <2>1. /\ entry[e].ref \in Nat /\ lostEntry[e] \in Nat
        /\ Count(FileSlots, NodeIn(ftable), e) \in Nat /\ Count(Procs, cwd, e) \in Nat
        /\ entry[e].ref = Count(FileSlots, NodeIn(ftable), e) + Count(Procs, cwd, e) + lostEntry[e]
    BY EntryNumbers
  <2>2. /\ en[e].ref \in Nat /\ Count(FileSlots, NodeIn(ftable'), e) \in Nat
        /\ en[e].ref = entry[e].ref - Count(FileSlots, NodeIn(ftable), e)
                         + Count(FileSlots, NodeIn(ftable'), e)
    BY <1>6
  <2>3. /\ Count(Procs, cwd', e) \in Nat /\ Hit(c, e) \in Nat
        /\ Count(Procs, cwd', e) = Count(Procs, cwd, e) - Hit(c, e)
    BY <1>8
  <2>4. entry'[e].ref = en[e].ref - Hit(c, e) /\ entry'[e].ref \in Nat
    BY <1>10
  <2> QED
    BY ONLY <2>1, <2>2, <2>3, <2>4
<1> QED
  BY <1>5, <1>11, <1>12, <1>13, <1>14 DEF Core

-----------------------------------------------------------------------------
(* fork() *)

\* q, which had no descriptors, gets those of p.
Copies(o, u, p, q) ==
  Agree(Procs \ {q}, o, u) /\ u[q] = o[p] /\ \A fd \in Fds : o[q][fd] = NULL

\* Only the descriptors of p change.
OnlyRow(o, u, p) == Agree(Procs \ {p}, o, u)

LEMMA UsersRowGone ==
  ASSUME NEW o, NEW u, NEW p \in Procs, OnlyRow(o, u, p), NEW f
  PROVE  /\ Cardinality(UsersIn(o, f)) \in Nat /\ Cardinality(UsersIn(u, f)) \in Nat
         /\ Gone(o, p, Fds, f) \in Nat /\ Gone(u, p, Fds, f) \in Nat
         /\ Gone(o, p, Fds, f) <= Cardinality(UsersIn(o, f))
         /\ Cardinality(UsersIn(u, f))
              = Cardinality(UsersIn(o, f)) - Gone(o, p, Fds, f) + Gone(u, p, Fds, f)
  BY UsersRow DEF OnlyRow, Gone

LEMMA UsersCopy ==
  ASSUME NEW o, NEW u, NEW p \in Procs, NEW q \in Procs, Copies(o, u, p, q), NEW f \in FileSlots
  PROVE  /\ Gone(o, p, Fds, f) \in Nat /\ Cardinality(UsersIn(o, f)) \in Nat
         /\ Cardinality(UsersIn(u, f)) \in Nat
         /\ Gone(o, p, Fds, f) <= Cardinality(UsersIn(o, f))
         /\ Cardinality(UsersIn(u, f)) = Cardinality(UsersIn(o, f)) + Gone(o, p, Fds, f)
<1>1. OnlyRow(o, u, q) /\ OnlyRow(o, o, p)
  BY DEF Copies, OnlyRow, Agree
<1>2. /\ Cardinality(UsersIn(o, f)) \in Nat /\ Cardinality(UsersIn(u, f)) \in Nat
      /\ Gone(o, q, Fds, f) \in Nat /\ Gone(u, q, Fds, f) \in Nat
      /\ Gone(o, q, Fds, f) <= Cardinality(UsersIn(o, f))
      /\ Cardinality(UsersIn(u, f))
           = Cardinality(UsersIn(o, f)) - Gone(o, q, Fds, f) + Gone(u, q, Fds, f)
  BY ONLY <1>1, q \in Procs, UsersRowGone
<1>3. Gone(o, q, Fds, f) = 0
  <2> DEFINE r == o[q]
  <2>1. IsFiniteSet(Fds) /\ \A fd \in Fds : r[fd] # f
    BY Finite DEF Copies
  <2> HIDE DEF r
  <2>2. Count(Fds, r, f) = 0
    BY ONLY <2>1, CountType
  <2> QED
    BY <2>2 DEF r, Gone
<1>4. Gone(u, q, Fds, f) = Gone(o, p, Fds, f)
  BY DEF Gone, Copies
<1>5. Gone(o, p, Fds, f) <= Cardinality(UsersIn(o, f))
  BY ONLY <1>1, p \in Procs, UsersRowGone
<1> QED
  BY ONLY <1>2, <1>3, <1>4, <1>5

LEMMA ForkStep ==
  ASSUME Core, NEW p \in Procs, NEW q \in Procs, fork(p, q)
  PROVE  Core'
<1>0. FilesTypeOK /\ HeldByLiving /\ OpenatUnmarked
  BY DEF Core
<1> DEFINE c == cwd[p]
           n == Refs(p, Fds)
<1>1. /\ p \in alive /\ q \notin alive /\ alive' = alive \cup {q} /\ ofile' = [ofile EXCEPT ![q] = ofile[p]]
      /\ ftable' = [f \in FileSlots |-> [ftable[f] EXCEPT !.ref = @ + n[f]]]
      /\ cwd' = [cwd EXCEPT ![q] = c] /\ entry' = [entry EXCEPT ![c].ref = @ + 1]
      /\ UNCHANGED <<execClose, filelimit, call, pipe, link, lostFile, lostEntry, openatFd>>
  BY DEF fork, Running, ghosts
<1>2. c \in Entries
  BY <1>1, CwdHeld
<1>3. /\ ofile' \in [Procs -> [Fds -> FileSlots \cup {NULL}]] /\ Copies(ofile, ofile', p, q)
      /\ \A r \in Procs \ {q} : ofile'[r] = ofile[r]
  <2>1. ofile \in [Procs -> [Fds -> FileSlots \cup {NULL}]]
    BY <1>0 DEF FilesTypeOK
  <2>2. \A fd \in Fds : ofile[q][fd] = NULL
    BY <1>0, <1>1 DEF HeldByLiving
  <2> QED
    BY <1>1, <2>1, <2>2 DEF Copies, Agree
<1>4. ASSUME NEW f \in FileSlots
      PROVE  /\ n[f] \in Nat /\ Cardinality(UsersIn(ofile, f)) \in Nat
             /\ Cardinality(UsersIn(ofile', f)) \in Nat
             /\ Cardinality(UsersIn(ofile', f)) = Cardinality(UsersIn(ofile, f)) + n[f]
  <2>1. n[f] = Gone(ofile, p, Fds, f)
    BY DEF Refs, Gone, Count
  <2>2. /\ Gone(ofile, p, Fds, f) \in Nat /\ Cardinality(UsersIn(ofile, f)) \in Nat
        /\ Cardinality(UsersIn(ofile', f)) \in Nat
        /\ Cardinality(UsersIn(ofile', f)) = Cardinality(UsersIn(ofile, f)) + Gone(ofile, p, Fds, f)
    BY <1>3, UsersCopy
  <2> QED
    BY <2>1, <2>2
<1> HIDE DEF n
<1>5. ASSUME NEW f \in FileSlots
      PROVE  /\ ftable'[f] \in File /\ ftable'[f].ref = ftable[f].ref + n[f] /\ ftable[f].ref \in Nat
             /\ ftable'[f].type = ftable[f].type /\ ftable'[f].pipe = ftable[f].pipe
             /\ ftable'[f].ep = ftable[f].ep /\ ftable'[f].writable = ftable[f].writable
  <2>1. ftable[f] \in File /\ ftable'[f] = [ftable[f] EXCEPT !.ref = @ + n[f]]
    BY <1>0, <1>1 DEF FilesTypeOK
  <2>2. ftable[f].ref + n[f] \in Nat /\ ftable[f].ref \in Nat
    BY <1>4, <2>1 DEF File
  <2> QED
    BY <2>1, <2>2 DEF File
<1>6. ftable' \in [FileSlots -> File]
  <2>1. ftable' = [f \in FileSlots |-> ftable'[f]]
    BY <1>1
  <2> QED
    BY <1>5, <2>1
<1>7. SlotsSound'
  <2> SUFFICES ASSUME NEW f \in FileSlots
               PROVE  /\ ftable'[f].ref = 0 => ftable'[f].type = "NONE"
                      /\ ftable'[f].type = "ENTRY" => ftable'[f].ep # NULL
                      /\ ftable'[f].type = "PIPE" => ftable'[f].pipe # NULL
    BY DEF SlotsSound
  <2>1. ftable'[f].ref = 0 => ftable[f].ref = 0
    BY <1>4, <1>5
  <2> QED
    BY <1>5, <2>1 DEF Core, SlotsSound
<1>8. FileCounts'
  <2> SUFFICES ASSUME NEW f \in FileSlots
               PROVE  ftable'[f].ref = Cardinality(UsersIn(ofile', f)) + lostFile[f]
    BY <1>1 DEF FileCounts
  <2>1. ftable[f].ref = Cardinality(UsersIn(ofile, f)) + lostFile[f] /\ lostFile[f] \in Nat
    BY <1>0 DEF Core, FileCounts, FilesTypeOK
  <2> QED
    BY <1>4, <1>5, <2>1
<1>9. PipeEnds' /\ OneEnd'
  <2>1. \A f \in FileSlots : \A pg \in Pages, w \in BOOLEAN :
           IsEnd(ftable[f]', pg, w) <=> IsEnd(ftable[f], pg, w)
    BY <1>5 DEF IsEnd
  <2> QED
    BY <1>1, <2>1, EndsKept DEF Core
<1>10. /\ cwd \in [Procs -> Entries \cup {NULL}] /\ cwd' \in [Procs -> Entries \cup {NULL}]
       /\ cwd[q] = NULL /\ cwd'[q] = c /\ openatFd[q] = {}
  BY <1>0, <1>1, <1>2 DEF FilesTypeOK, HeldByLiving
<1>11. ASSUME NEW e \in Entries
       PROVE  /\ entry' \in [Entries -> EntryRec] /\ entry'[e].ref \in Nat /\ entry[e].ref \in Nat
              /\ Hit(c, e) \in Nat /\ entry'[e].ref = entry[e].ref + Hit(c, e)
  <2>1. entry \in [Entries -> EntryRec]
    BY <1>0 DEF FilesTypeOK, EntryRec
  <2> HIDE DEF c
  <2> QED
    BY <1>1, <1>2, <2>1, HoldIs
<1>12. FilesTypeOK'
  <2>1. entry' \in [Entries -> EntryRec] /\ alive' \subseteq Procs
    BY <1>0, <1>1, <1>2, <1>11 DEF FilesTypeOK
  <2>2. UNCHANGED <<execClose, filelimit, call, pipe, link, lostFile, lostEntry, openatFd>>
    BY <1>1
  <2> QED
    BY ONLY <1>0, <1>3, <1>6, <1>10, <2>1, <2>2 DEF FilesTypeOK, EntryRec
<1>13. HeldByLiving'
  <2>1. \A r \in Procs \ {q} : cwd'[r] = cwd[r] /\ ofile'[r] = ofile[r]
    BY <1>1, <1>3, <1>10
  <2>2. cwd'[q] # NULL
    BY <1>2, <1>10, Finite
  <2> QED
    BY <1>0, <1>1, <2>1, <2>2 DEF HeldByLiving
<1>14. OpenatUnmarked'
  <2>1. \A r \in Procs : openatFd'[r] \subseteq openatFd[r]
    BY <1>1
  <2>2. \A r \in Procs : \A y \in openatFd'[r] :
           ofile'[r][y] = ofile[r][y] /\ execClose'[r][y] = execClose[r][y]
    BY <1>1, <1>3, <1>10
  <2>3. TypesKept
    BY <1>5 DEF TypesKept
  <2> QED
    BY <1>1, <1>8, <1>12, <2>1, <2>2, <2>3, OpenatKept
<1>15. EntryCounts'
  <2> SUFFICES ASSUME NEW e \in Entries
               PROVE  entry'[e].ref = Count(FileSlots, NodeIn(ftable'), e) + Count(Procs, cwd', e)
                                        + lostEntry[e]
    BY <1>1 DEF EntryCounts
  <2>1. NodeIn(ftable') = NodeIn(ftable)
    BY <1>5 DEF NodeIn
  <2>0. Agree(Procs \ {q}, cwd, cwd')
    BY <1>1, <1>10 DEF Agree
  <2>2. Hit(cwd[q], e) = 0 /\ Hit(cwd'[q], e) = Hit(c, e)
    BY <1>10, Finite DEF Hit
  <2>3. /\ Count(Procs, cwd, e) \in Nat /\ Count(Procs, cwd', e) \in Nat
        /\ Hit(cwd[q], e) \in Nat /\ Hit(cwd'[q], e) \in Nat /\ Hit(cwd[q], e) <= Count(Procs, cwd, e)
        /\ Count(Procs, cwd', e) = Count(Procs, cwd, e) - Hit(cwd[q], e) + Hit(cwd'[q], e)
    BY ONLY <2>0, q \in Procs, CwdMoves
  <2> HIDE DEF c
  <2>4. Count(Procs, cwd', e) = Count(Procs, cwd, e) + Hit(c, e)
    BY <1>11, <2>2, <2>3
  <2> QED
    BY <1>11, <2>1, <2>3, <2>4, EntryNumbers
<1> QED
  BY <1>7, <1>8, <1>9, <1>12, <1>13, <1>14, <1>15 DEF Core

-----------------------------------------------------------------------------
(* pipe() *)

\* A set with two numbers has a least one, and a least one of the others.
LEMMA TwoLeast ==
  ASSUME NEW S, S \subseteq Nat, IsFiniteSet(S), Cardinality(S) >= 2
  PROVE  Min(S) \in S /\ Min(S \ {Min(S)}) \in S /\ Min(S \ {Min(S)}) # Min(S)
<1>1. S # {}
  <2>1. Cardinality({}) = 0
    BY FS_EmptySet
  <2> QED
    BY <2>1
<1>2. Min(S) \in S
  BY <1>1, MinLeast
<1> DEFINE m == Min(S)
<1> HIDE DEF m
<1>3. Cardinality(S \ {m}) = Cardinality(S) - 1
  BY <1>2, FS_RemoveElement DEF m
<1>4. S \ {m} # {}
  <2>1. Cardinality({}) = 0 /\ Cardinality(S) \in Nat
    BY FS_EmptySet, FS_CardinalityType
  <2> QED
    BY <1>3, <2>1
<1>5. Min(S \ {m}) \in S \ {m}
  BY <1>4, MinLeast
<1> QED
  BY <1>2, <1>5 DEF m

LEMMA PipeStep ==
  ASSUME Core, NEW p \in Procs, sys_pipe2(p)
  PROVE  Core'
<1>0. /\ FilesTypeOK /\ HeldByLiving /\ OpenatUnmarked /\ ftable \in [FileSlots -> File]
      /\ ofile \in [Procs -> [Fds -> FileSlots \cup {NULL}]] /\ lostFile \in [FileSlots -> Nat]
  BY DEF Core, FilesTypeOK
<1> DEFINE pg == CHOOSE pg0 \in FreePages : TRUE
           rf == Min(FreeSlots)
           wf == Min(FreeSlots \ {rf})
           fd0 == Min(FreeFds(p, 0))
           fd1 == Min(FreeFds(p, 0) \ {fd0})
           end(f, w) == [ftable[f] EXCEPT !.type = "PIPE", !.ref = 1, !.pipe = pg,
                                          !.readable = ~w, !.writable = w]
           rend == end(rf, FALSE)
           wend == end(wf, TRUE)
<1>1. /\ p \in alive /\ Cardinality(FreeSlots) >= 2 /\ Cardinality(FreeFds(p, 0)) >= 2
      /\ FreePages # {}
      /\ pipe' = [pipe EXCEPT ![pg] = [readopen |-> TRUE, writeopen |-> TRUE]]
      /\ ftable' = [ftable EXCEPT ![rf] = rend, ![wf] = wend]
      /\ ofile' = [ofile EXCEPT ![p][fd0] = rf, ![p][fd1] = wf]
      /\ call' = [call EXCEPT ![p] = <<"pipe", fd0, fd1>>]
      /\ UNCHANGED <<execClose, filelimit, cwd, alive, link, entry, lostFile, lostEntry, openatFd>>
  BY DEF sys_pipe2, Running, ghosts
<1>2. pg \in Pages /\ ~pipe[pg].readopen /\ ~pipe[pg].writeopen
  <2>1. pg \in FreePages
    BY <1>1
  <2> HIDE DEF pg
  <2> QED
    BY <2>1 DEF FreePages
<1>3. rf \in FreeSlots /\ wf \in FreeSlots /\ rf # wf
  <2>1. FreeSlots \subseteq FileSlots /\ IsFiniteSet(FileSlots) /\ FileSlots \subseteq Nat
    BY Finite DEF FreeSlots, FileSlots
  <2>2. FreeSlots \subseteq Nat /\ IsFiniteSet(FreeSlots)
    BY <2>1, FS_Subset
  <2> QED
    BY <1>1, <2>2, TwoLeast
<1>4. fd0 \in FreeFds(p, 0) /\ fd1 \in FreeFds(p, 0) /\ fd0 # fd1
  <2>1. FreeFds(p, 0) \subseteq Fds /\ IsFiniteSet(Fds) /\ Fds \subseteq Nat
    BY FreeFdsAre, Finite DEF Fds
  <2>2. FreeFds(p, 0) \subseteq Nat /\ IsFiniteSet(FreeFds(p, 0))
    BY <2>1, FS_Subset
  <2> QED
    BY <1>1, <2>2, TwoLeast
<1> HIDE DEF pg, rf, wf, fd0, fd1
<1>5. /\ rf \in FileSlots /\ wf \in FileSlots /\ ftable[rf].ref = 0 /\ ftable[wf].ref = 0
      /\ ftable[rf].type = "NONE" /\ ftable[wf].type = "NONE"
  BY <1>3 DEF FreeSlots, Core, SlotsSound
<1>6. fd0 \in Fds /\ fd1 \in Fds /\ ofile[p][fd0] = NULL /\ ofile[p][fd1] = NULL
  BY <1>4, FreeFdsAre
<1>7. /\ rend \in File /\ rend.type = "PIPE" /\ rend.ref = 1 /\ rend.pipe = pg /\ rend.writable = FALSE
      /\ wend \in File /\ wend.type = "PIPE" /\ wend.ref = 1 /\ wend.pipe = pg /\ wend.writable = TRUE
  <2>1. ftable[rf] \in File /\ ftable[wf] \in File
    BY <1>0, <1>5
  <2>2. /\ rend \in File /\ rend.type = "PIPE" /\ rend.ref = 1 /\ rend.pipe = pg
        /\ rend.writable = FALSE
    BY <1>2, <2>1 DEF File
  <2>3. /\ wend \in File /\ wend.type = "PIPE" /\ wend.ref = 1 /\ wend.pipe = pg
        /\ wend.writable = TRUE
    BY <1>2, <2>1 DEF File
  <2> QED
    BY <2>2, <2>3
<1> HIDE DEF rend, wend
<1>8. /\ ftable' \in [FileSlots -> File] /\ ftable'[rf] = rend /\ ftable'[wf] = wend
      /\ \A f \in FileSlots \ {rf, wf} : ftable'[f] = ftable[f]
  BY <1>0, <1>1, <1>3, <1>5, <1>7
<1>9. /\ ofile' \in [Procs -> [Fds -> FileSlots \cup {NULL}]]
      /\ \A q \in Procs \ {p} : ofile'[q] = ofile[q]
      /\ \A y \in Fds \ {fd0, fd1} : ofile'[p][y] = ofile[p][y]
      /\ ofile'[p][fd0] = rf /\ ofile'[p][fd1] = wf
  BY <1>0, <1>1, <1>4, <1>5, <1>6
<1>10. /\ call' = [q \in Procs |-> call'[q]]
       /\ \A q \in Procs : call'[q] = IF q = p THEN <<"pipe", fd0, fd1>> ELSE call[q]
  <2>1. call = [q \in Procs |-> call[q]]
    BY <1>0 DEF FilesTypeOK
  <2> QED
    BY <1>1, <2>1
<1>11. /\ pipe' \in [Pages -> [readopen : BOOLEAN, writeopen : BOOLEAN]]
       /\ pipe'[pg].readopen /\ pipe'[pg].writeopen
       /\ \A g \in Pages : g # pg => pipe'[g] = pipe[g]
  <2>1. pipe \in [Pages -> [readopen : BOOLEAN, writeopen : BOOLEAN]]
    BY <1>0 DEF FilesTypeOK
  <2> QED
    BY <1>1, <1>2, <2>1
<1>12. FilesTypeOK'
  <2>1. \A q \in Procs : \/ call'[q] \in {<<>>, <<"out">>, <<"append">>}
                         \/ \E a, b \in Fds : call'[q] = <<"pipe", a, b>>
    BY <1>0, <1>6, <1>10 DEF FilesTypeOK
  <2>2. UNCHANGED <<execClose, filelimit, cwd, alive, link, entry, lostFile, lostEntry, openatFd>>
    BY <1>1
  <2> QED
    BY ONLY <1>0, <1>8, <1>9, <1>10, <1>11, <2>1, <2>2 DEF FilesTypeOK
<1>13. HeldByLiving'
  BY <1>0, <1>1, <1>9 DEF HeldByLiving
<1>14. SlotsSound'
  <2>1. NULL \notin Pages
    BY Finite
  <2> QED
    BY <1>2, <1>7, <1>8, <2>1 DEF Core, SlotsSound
<1>16. FileCounts'
  <2> DEFINE o1 == [ofile EXCEPT ![p][fd0] = rf]
  <2>1. SetOne(ofile, o1, p, fd0, NULL, rf)
    BY <1>0, <1>6 DEF SetOne, Agree
  <2>2. SetOne(o1, ofile', p, fd1, NULL, wf)
    BY <1>0, <1>1, <1>4, <1>6, <1>9 DEF SetOne, Agree
  <2> HIDE DEF o1
  <2> SUFFICES ASSUME NEW f \in FileSlots
               PROVE  ftable'[f].ref = Cardinality(UsersIn(ofile', f)) + lostFile[f]
    BY <1>1 DEF FileCounts
  <2>3. /\ Cardinality(UsersIn(ofile, f)) \in Nat /\ Cardinality(UsersIn(o1, f)) \in Nat
        /\ Hit(NULL, f) \in Nat /\ Hit(rf, f) \in Nat
        /\ Cardinality(UsersIn(o1, f)) = Cardinality(UsersIn(ofile, f)) - Hit(NULL, f) + Hit(rf, f)
    BY ONLY <1>6, <2>1, p \in Procs, UsersSet
  <2>4. /\ Cardinality(UsersIn(o1, f)) \in Nat /\ Cardinality(UsersIn(ofile', f)) \in Nat
        /\ Hit(NULL, f) \in Nat /\ Hit(wf, f) \in Nat
        /\ Cardinality(UsersIn(ofile', f)) = Cardinality(UsersIn(o1, f)) - Hit(NULL, f) + Hit(wf, f)
    BY ONLY <1>6, <2>2, p \in Procs, UsersSet
  <2>5. Hit(NULL, f) = 0
    BY Finite DEF Hit
  <2>6. ftable[f].ref = Cardinality(UsersIn(ofile, f)) + lostFile[f] /\ lostFile[f] \in Nat
    BY <1>0 DEF Core, FileCounts
  <2>7. CASE f = rf
    <3>1. Hit(rf, f) = 1 /\ Hit(wf, f) = 0 /\ ftable[f].ref = 0 /\ ftable'[f].ref = 1
      BY <1>3, <1>5, <1>7, <1>8, <2>7 DEF Hit
    <3> QED
      BY ONLY <2>3, <2>4, <2>5, <2>6, <3>1
  <2>8. CASE f = wf
    <3>1. Hit(rf, f) = 0 /\ Hit(wf, f) = 1 /\ ftable[f].ref = 0 /\ ftable'[f].ref = 1
      BY <1>3, <1>5, <1>7, <1>8, <2>8 DEF Hit
    <3> QED
      BY ONLY <2>3, <2>4, <2>5, <2>6, <3>1
  <2>9. CASE f \notin {rf, wf}
    <3>1. Hit(rf, f) = 0 /\ Hit(wf, f) = 0 /\ ftable'[f].ref = ftable[f].ref
      BY <1>8, <2>9 DEF Hit
    <3> QED
      BY ONLY <2>3, <2>4, <2>5, <2>6, <3>1
  <2> QED
    BY <2>7, <2>8, <2>9
<1>15. OpenatUnmarked'
  <2> SUFFICES ASSUME NEW q \in Procs, NEW y \in openatFd[q]
               PROVE  /\ ofile'[q][y] # NULL
                      /\ execClose'[q][y] => ftable'[ofile'[q][y]].type = "NULL"
                      /\ \A a, b \in Fds : call'[q] = <<"pipe", a, b>> => y \notin {a, b}
    BY <1>1 DEF OpenatUnmarked
  <2>1. y \in Fds /\ ofile[q][y] # NULL
    BY <1>0 DEF OpenatUnmarked, FilesTypeOK
  <2>2. q = p => y \notin {fd0, fd1}
    BY <1>6, <2>1
  <2>3. ofile'[q][y] = ofile[q][y] /\ execClose'[q][y] = execClose[q][y]
    BY <1>1, <1>9, <2>1, <2>2
  <2>4. TypesKept
    BY <1>5, <1>8 DEF TypesKept
  <2>5. /\ ofile'[q][y] # NULL
        /\ execClose'[q][y] => ftable'[ofile'[q][y]].type = "NULL"
        /\ \A a, b \in Fds : call[q] = <<"pipe", a, b>> => y \notin {a, b}
    BY <1>12, <1>16, <2>3, <2>4, KeptOne
  <2>6. \A a, b \in Fds : call'[q] = <<"pipe", a, b>> => y \notin {a, b}
    BY <1>10, <2>2, <2>5
  <2> QED
    BY <2>5, <2>6
<1>17. EntryCounts'
  <2>1. \A f \in FileSlots : /\ ftable'[f].type = "ENTRY" <=> ftable[f].type = "ENTRY"
                             /\ ftable[f].type = "ENTRY" => ftable'[f].ep = ftable[f].ep
    BY <1>5, <1>7, <1>8
  <2>2. NodeIn(ftable') = NodeIn(ftable)
    BY <2>1 DEF NodeIn
  <2> QED
    BY <1>1, <2>2 DEF Core, EntryCounts
<1>18. \A f \in FileSlots : \A g \in Pages, w \in BOOLEAN :
          IsEnd(ftable'[f], g, w) <=> \/ IsEnd(ftable[f], g, w)
                                      \/ g = pg /\ f = rf /\ ~w
                                      \/ g = pg /\ f = wf /\ w
  <2> SUFFICES ASSUME NEW f \in FileSlots, NEW g \in Pages, NEW w \in BOOLEAN
               PROVE  IsEnd(ftable'[f], g, w) <=> \/ IsEnd(ftable[f], g, w)
                                                  \/ g = pg /\ f = rf /\ ~w
                                                  \/ g = pg /\ f = wf /\ w
    OBVIOUS
  <2>1. CASE f = rf
    BY <1>3, <1>5, <1>7, <1>8, <2>1 DEF IsEnd
  <2>2. CASE f = wf
    BY <1>3, <1>5, <1>7, <1>8, <2>2 DEF IsEnd
  <2>3. CASE f \notin {rf, wf}
    BY <1>8, <2>3
  <2> QED
    BY <2>1, <2>2, <2>3
<1>19. \A f \in FileSlots, w \in BOOLEAN : ~IsEnd(ftable[f], pg, w)
  BY <1>2 DEF Core, PipeEnds
<1>20. OneEnd'
  BY <1>18, <1>19 DEF Core, OneEnd
<1>21. PipeEnds'
  <2> SUFFICES ASSUME NEW g \in Pages
               PROVE  /\ pipe'[g].readopen <=> \E f \in FileSlots : IsEnd(ftable'[f], g, FALSE)
                      /\ pipe'[g].writeopen <=> \E f \in FileSlots : IsEnd(ftable'[f], g, TRUE)
    BY Zenon DEF PipeEnds
  <2>1. /\ pipe[g].readopen <=> \E f \in FileSlots : IsEnd(ftable[f], g, FALSE)
        /\ pipe[g].writeopen <=> \E f \in FileSlots : IsEnd(ftable[f], g, TRUE)
    BY DEF Core, PipeEnds
  <2>2. CASE g = pg
    BY <1>5, <1>11, <1>18, <2>2
  <2>3. CASE g # pg
    <3>1. pipe'[g] = pipe[g]
      BY <1>11, <2>3
    <3>2. \A f \in FileSlots, w \in BOOLEAN : IsEnd(ftable'[f], g, w) <=> IsEnd(ftable[f], g, w)
      BY <1>18, <2>3
    <3> QED
      BY ONLY <2>1, <3>1, <3>2, Zenon
  <2> QED
    BY <2>2, <2>3
<1> QED
  BY <1>12, <1>13, <1>14, <1>15, <1>16, <1>17, <1>20, <1>21 DEF Core

-----------------------------------------------------------------------------
(* Every step, and the theorems *)

LEMMA DescriptorCallsStep ==
  ASSUME Core, NEW p \in Procs, DescriptorCalls(p)
  PROVE  Core'
<1>1. PICK fd \in Fds :
        \/ sys_close(p, fd) \/ (\E arg \in BOOLEAN : fcntl_SETFD(p, fd, arg))
        \/ sys_readv(p, fd, 1) \/ sys_writev(p, fd, 1)
        \/ (\E whence \in {"SET", "CUR", "END"} : sys_lseek(p, fd, 1, whence))
        \/ sys_pread(p, fd, 0, 1) \/ sys_getdents64(p, fd) \/ sys_mmap(p, fd, 0)
        \/ sys_ftruncate(p, fd, 0)
  BY Zenon DEF DescriptorCalls
<1>2. 0 \in Nat /\ 1 \in Nat
  OBVIOUS
<1> QED
  BY <1>1, <1>2, SysCloseStep, SetfdStep, ReadStep, WriteStep, SeekStep, PreadStep,
     GetdentsStep, MmapStep, FtruncateStep

LEMMA CopyingCallsStep ==
  ASSUME Core, NEW p \in Procs, CopyingCalls(p)
  PROVE  Core'
<1>1. PICK fd \in Fds, old \in Fds :
        \/ sys_dup(p, old, fd) \/ sys_dup3(p, old, fd)
        \/ (\E start \in Fds, cloexec \in BOOLEAN : fcntl_DUPFD(p, old, start, fd, cloexec))
        \/ sys_sendfile(p, fd, old, 1) \/ sys_copy_file_range(p, old, fd, 1)
  BY Zenon DEF CopyingCalls
<1>2. 1 \in Nat
  OBVIOUS
<1> QED
  BY <1>1, <1>2, SysDupStep, SysDup3Step, DupfdStep, SendfileStep, CopyRangeStep

LEMMA PathsAre ==
  ASSUME workload \in Workloads
  PROVE  Paths[workload] \subseteq Names \cup {Root}
  BY FilesAssumption

LEMMA OpeningCallsStep ==
  ASSUME Core, workload \in Workloads, NEW p \in Procs, OpeningCalls(p)
  PROVE  Core'
<1>1. PICK flags \in Openflags :
        \/ sys_dev(p, flags)
        \/ \E x \in Names \cup {Root} : sys_open(p, x, flags) \/ sys_openat(p, NULL, x, flags)
  <2>1. PICK flags \in Openflags :
          \/ sys_dev(p, flags)
          \/ \E x \in Paths[workload] : sys_open(p, x, flags) \/ sys_openat(p, NULL, x, flags)
    BY Zenon DEF OpeningCalls
  <2>2. Paths[workload] \subseteq Names \cup {Root}
    BY PathsAre
  <2> QED
    BY <2>1, <2>2
<1>2. sys_dev(p, flags) => OpenDevice(p, "DEVICE", flags) /\ openatFd' = openatFd
  BY DEF sys_dev
<1> QED
  BY <1>1, <1>2, DeviceStep, OpenStep, OpenatStep

LEMMA PathCallsStep ==
  ASSUME Core, workload \in Workloads, NEW p \in Procs, PathCalls(p)
  PROVE  Core'
<1>1. \/ (\E dirfd \in Fds : openat_panic(p, dirfd))
      \/ \E x \in Names \cup {Root} :
            \/ sys_chdir(p, x) \/ sys_faccessat(p, x) \/ sys_fstatat(p, x)
            \/ x \in Names /\ (sys_mkdirat(p, x) \/ sys_remove(p, x) \/ sys_unlinkat(p, x))
  <2>1. \/ (\E dirfd \in Fds : openat_panic(p, dirfd))
        \/ \E x \in Paths[workload] :
              \/ sys_chdir(p, x) \/ sys_faccessat(p, x) \/ sys_fstatat(p, x)
              \/ x \in Names /\ (sys_mkdirat(p, x) \/ sys_remove(p, x) \/ sys_unlinkat(p, x))
    BY Zenon DEF PathCalls
  <2>2. Paths[workload] \subseteq Names \cup {Root}
    BY PathsAre
  <2> QED
    BY <2>1, <2>2
<1>2. (\E dirfd \in Fds : openat_panic(p, dirfd)) => Panic("eunlock")
  BY DEF openat_panic
<1>3. ASSUME NEW x \in Names \cup {Root},
             \/ sys_chdir(p, x) \/ sys_faccessat(p, x) \/ sys_fstatat(p, x)
             \/ x \in Names /\ (sys_mkdirat(p, x) \/ sys_remove(p, x) \/ sys_unlinkat(p, x))
      PROVE  Core'
  <2>1. CASE sys_chdir(p, x)
    BY <2>1, ChdirStep
  <2>2. CASE sys_faccessat(p, x) \/ sys_fstatat(p, x) \/ (x \in Names /\ sys_unlinkat(p, x))
    BY <2>2, ForgettingStep
  <2>3. CASE x \in Names /\ (sys_mkdirat(p, x) \/ sys_remove(p, x))
    BY <2>3, MkdirStep, RemoveStep
  <2> QED
    BY <1>3, <2>1, <2>2, <2>3
<1> QED
  BY <1>1, <1>2, <1>3, PanicStep

\* The mix of calls of a behaviour stays the same.
Mix == workload \in Workloads

LEMMA MixNext == Mix /\ [FilesNext]_fileVars => Mix'
<1>1. FilesNext => UNCHANGED workload
  BY Zenon DEF FilesNext, DescriptorCalls, CopyingCalls, OpeningCalls, PathCalls, Load
<1> QED
  BY <1>1 DEF Mix, fileVars

LEMMA CoreNext == Core /\ Mix /\ [FilesNext]_fileVars => Core'
<1> SUFFICES ASSUME Core, Mix, [FilesNext]_fileVars PROVE Core'
  OBVIOUS
<1>1. CASE UNCHANGED fileVars
  BY <1>1, CoreStutter DEF fileVars
<1>2. CASE FilesNext
  <2>1. PICK p \in Procs :
          \/ DescriptorCalls(p) \/ CopyingCalls(p) \/ OpeningCalls(p) \/ PathCalls(p)
          \/ openat_null(p) \/ sys_pipe2(p) \/ (\E ok \in BOOLEAN : pipe_copyout(p, ok))
          \/ sys_prlimit64(p) \/ (\E q \in Procs : fork(p, q)) \/ exit(p)
          \/ (\E r \in {"no", "out", "append"} : exec(p, r))
          \/ (\E x \in Paths["exec"] \ {Root} : exec_redirect(p, x))
    BY <1>2, Zenon DEF FilesNext
  <2>2. openat_null(p) => Core'
    BY DeviceStep DEF openat_null
  <2>3. workload \in Workloads /\ Paths["exec"] \ {Root} \subseteq Names
    BY FilesAssumption DEF Mix, Workloads
  <2> QED
    BY <2>1, <2>2, <2>3, DescriptorCallsStep, CopyingCallsStep, OpeningCallsStep, PathCallsStep,
       PipeStep, CopyoutStep, PrlimitStep, ForkStep, ExitStep, ExecStep, RedirectStep
<1> QED
  BY <1>1, <1>2

\* The inductive invariant of the file layer holds in every reachable state, of
\* all the calls of file.c, sysfile.c, mmap(), fork(), exec() and exit() in any
\* order: every reference is a descriptor's, an open file's, a working
\* directory's or one of those that the calls FileRefExact and EntryRefExact
\* name leave behind.
THEOREM FilesInvariance == FilesSpec => []FilesInv
<1>1. Core => FilesInv
  BY CoreSame
<1>2. FilesInit => Mix
  BY DEF FilesInit, Mix
<1> QED
  BY CoreInit, CoreNext, MixNext, <1>1, <1>2, PTL DEF FilesSpec

\* f->ref is exact and so are the pipe ends: fileclose(), filedup(), fork(),
\* exec(), exit() and the undoing of a failed pipe() balance; what sys_dup3()
\* overwrites and what mmap() takes is all that stays.
THEOREM FileRefExactAlways == FilesSpec => []FileRefExact
<1>1. FilesInv => FileRefExact
  BY DEF FilesInv
<1> QED
  BY FilesInvariance, <1>1, PTL

\* entry->ref is exact: every open file and every working directory has put or
\* will put its entry once; what sys_faccessat(), sys_unlinkat() below
\* /tmp/testsuite- and sys_fstatat() below /dev/null look up is all that stays.
THEOREM EntryRefExactAlways == FilesSpec => []EntryRefExact
<1>1. FilesInv => EntryRefExact
  BY DEF FilesInv
<1> QED
  BY FilesInvariance, <1>1, PTL

\* exec() closes no descriptor that sys_openat() returned and nobody marked or
\* overwrote, unless it is one of /dev/null.
THEOREM OpenatSurvivesExecAlways == FilesSpec => []OpenatSurvivesExec
<1>1. FilesInv => OpenatSurvivesExec
  BY DEF FilesInv, OpenatUnmarked, OpenatSurvivesExec, FilesTypeOK
<1> QED
  BY FilesInvariance, <1>1, PTL

=============================================================================
