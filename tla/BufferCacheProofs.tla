------------------------- MODULE BufferCacheProofs -------------------------
(***************************************************************************)
(* Proofs about BufferCache, for any number of processes, buffers and      *)
(* blocks.                                                                 *)
(***************************************************************************)
EXTENDS BufferCache, FiniteSetTheorems, TLAPS

\* NBUF is a natural number.
LEMMA NBUFType == NBUF \in Nat
  BY SetsAssumption, FS_CardinalityType DEF NBUF

\* The processes that refer to a buffer are finitely many, and there are none
\* exactly when they number 0.
LEMMA RefsFinite ==
  ASSUME NEW b
  PROVE  /\ IsFiniteSet(Refs(b))
         /\ Cardinality(Refs(b)) \in Nat
         /\ Cardinality(Refs(b)) = 0 <=> Refs(b) = {}
<1>1. Refs(b) \subseteq Procs
  BY DEF Refs
<1>2. IsFiniteSet(Refs(b))
  BY <1>1, SetsAssumption, FS_Subset
<1> QED
  BY <1>2, FS_CardinalityType, FS_EmptySet

\* binit() establishes the invariant.
LEMMA InitIInv == Init => IInv
<1> SUFFICES ASSUME Init PROVE IInv
  OBVIOUS
<1> USE SetsAssumption, InitListAssumption DEF Init
<1>1. TypeOK
  BY DEF TypeOK, Locations, Using
<1>2. ListComplete
  BY DEF ListComplete
<1>3. RefcntExact
  <2> SUFFICES ASSUME NEW b \in Bufs PROVE refcnt[b] = Cardinality(Refs(b))
    BY DEF RefcntExact
  <2>1. Refs(b) = {}
    BY DEF Refs
  <2> QED
    BY <2>1, RefsFinite
<1>4. OneBufferPerBlock /\ HolderOwns /\ NoLostWakeup
  BY DEF OneBufferPerBlock, HolderOwns, NoLostWakeup, Using
<1>5. RefWhileInside /\ ValidInUse /\ ValidHasBlock /\ PanicOnlyWhenFull
  BY DEF RefWhileInside, ValidInUse, ValidHasBlock, PanicOnlyWhenFull
<1> QED
  BY <1>1, <1>2, <1>3, <1>4, <1>5 DEF IInv

\* A step that changes no reference keeps the counts exact.
LEMMA SameRefs ==
  ASSUME RefcntExact, UNCHANGED <<refcnt, buf>>
  PROVE  RefcntExact'
  BY DEF RefcntExact, Refs

\* bget() makes process p one more that refers to buffer b.
LEMMA AddRef ==
  ASSUME RefcntExact, TypeOK, NEW p \in Procs, NEW b \in Bufs,
         buf[p] = NoBuf,
         buf' = [buf EXCEPT ![p] = b],
         refcnt' = [refcnt EXCEPT ![b] = @ + 1]
  PROVE  RefcntExact'
<1> SUFFICES ASSUME NEW c \in Bufs PROVE refcnt'[c] = Cardinality(Refs(c)')
  BY DEF RefcntExact
<1>1. CASE c = b
  <2>1. Refs(b)' = Refs(b) \cup {p} /\ p \notin Refs(b)
    BY SetsAssumption DEF Refs, TypeOK
  <2>2. Cardinality(Refs(b)') = Cardinality(Refs(b)) + 1
    BY <2>1, RefsFinite, FS_AddElement
  <2> QED
    BY <1>1, <2>2 DEF RefcntExact, TypeOK
<1>2. CASE c # b
  <2>1. Refs(c)' = Refs(c)
    BY <1>2, SetsAssumption DEF Refs, TypeOK
  <2> QED
    BY <1>2, <2>1 DEF RefcntExact, TypeOK
<1> QED
  BY <1>1, <1>2

\* brelse() takes process p's reference to its buffer away.
LEMMA DropRef ==
  ASSUME RefcntExact, TypeOK, NEW p \in Procs, NEW b \in Bufs, buf[p] = b,
         buf' = [buf EXCEPT ![p] = NoBuf],
         refcnt' = [refcnt EXCEPT ![b] = @ - 1]
  PROVE  RefcntExact' /\ refcnt[b] > 0
<1>1. Refs(b)' = Refs(b) \ {p} /\ p \in Refs(b)
  BY SetsAssumption DEF Refs, TypeOK
<1>2. Cardinality(Refs(b)') = Cardinality(Refs(b)) - 1
  BY <1>1, RefsFinite, FS_RemoveElement
<1>3. Cardinality(Refs(b)) > 0
  BY <1>1, RefsFinite
<1>4. ASSUME NEW c \in Bufs PROVE refcnt'[c] = Cardinality(Refs(c)')
  <2>1. CASE c = b
    BY <2>1, <1>2 DEF RefcntExact, TypeOK
  <2>2. CASE c # b
    <3>1. Refs(c)' = Refs(c)
      BY <2>2, SetsAssumption DEF Refs, TypeOK
    <3> QED
      BY <2>2, <3>1 DEF RefcntExact, TypeOK
  <2> QED
    BY <2>1, <2>2
<1> QED
  BY <1>3, <1>4 DEF RefcntExact

\* Unlinking a buffer and inserting it after head permutes the list.
LEMMA MoveToHeadPermutes ==
  ASSUME TypeOK, ListComplete, NEW b \in Bufs, list' = MoveToHead(b)
  PROVE  list' \in [1..NBUF -> Bufs] /\ ListComplete'
<1> USE NBUFType
<1> DEFINE at == CHOOSE i \in 1..NBUF : list[i] = b
<1>1. at \in 1..NBUF /\ list[at] = b
  BY DEF ListComplete
<1>2. list' = [i \in 1..NBUF |-> IF i = 1 THEN b
                                 ELSE IF i <= at THEN list[i - 1] ELSE list[i]]
  BY DEF MoveToHead
<1> HIDE DEF at
<1>3. list' \in [1..NBUF -> Bufs]
  BY <1>1, <1>2 DEF TypeOK
<1>4. ASSUME NEW c \in Bufs PROVE \E i \in 1..NBUF : list'[i] = c
  <2>1. PICK i \in 1..NBUF : list[i] = c
    BY DEF ListComplete
  <2>2. CASE i = at
    <3>1. 1 \in 1..NBUF /\ list'[1] = c
      BY <1>1, <1>2, <2>1, <2>2
    <3> QED
      BY <3>1
  <2>3. CASE i < at
    <3>1. i + 1 \in 1..NBUF /\ list'[i + 1] = c
      BY <1>1, <1>2, <2>1, <2>3
    <3> QED
      BY <3>1
  <2>4. CASE i > at
    <3>1. list'[i] = c
      BY <1>1, <1>2, <2>1, <2>4
    <3> QED
      BY <3>1
  <2> QED
    BY <1>1, <2>2, <2>3, <2>4
<1>5. ASSUME NEW i \in 1..NBUF, NEW j \in 1..NBUF, list'[i] = list'[j]
      PROVE  i = j
  BY <1>1, <1>2, <1>5 DEF ListComplete
<1> QED
  BY <1>3, <1>4, <1>5 DEF ListComplete

\* Two processes that use buffers at the same time use different buffers,
\* which stand for different blocks.
LEMMA UsersApart ==
  ASSUME IInv, NEW p \in Procs, NEW q \in Procs, p # q,
         pc[p] \in Using, pc[q] \in Using
  PROVE  /\ buf[p] \in Bufs /\ buf[q] \in Bufs /\ buf[p] # buf[q]
         /\ block[buf[p]] \in Blocks /\ block[buf[q]] \in Blocks
         /\ block[buf[p]] # block[buf[q]]
<1>1. buf[p] # buf[q]
  BY DEF IInv, HolderOwns
<1>2. buf[p] # NoBuf /\ buf[q] # NoBuf
  BY DEF IInv, RefWhileInside, Using
<1>3. buf[p] \in Bufs /\ buf[q] \in Bufs
  BY <1>2 DEF IInv, TypeOK
<1>4. block[buf[p]] \in Blocks /\ block[buf[q]] \in Blocks
  BY <1>2 DEF IInv, RefWhileInside
<1> QED
  BY <1>1, <1>3, <1>4, SetsAssumption DEF IInv, OneBufferPerBlock

\* Every step preserves the invariant.
LEMMA NextIInv == IInv /\ [Next]_vars => IInv'
<1> SUFFICES ASSUME IInv, [Next]_vars PROVE IInv'
  OBVIOUS
<1> USE SetsAssumption
<1>a. TypeOK /\ ListComplete /\ OneBufferPerBlock /\ HolderOwns
  BY DEF IInv
<1>b. RefcntExact /\ NoLostWakeup /\ RefWhileInside /\ ValidInUse
  BY DEF IInv
<1>c. ValidHasBlock /\ PanicOnlyWhenFull
  BY DEF IInv
<1>1. ASSUME NEW p \in Procs, NEW k \in Blocks, BgetHit(p, k)
      PROVE  IInv'
  <2>1. PICK i \in Cached(k) :
          /\ refcnt' = [refcnt EXCEPT ![list[i]] = @ + 1]
          /\ buf' = [buf EXCEPT ![p] = list[i]]
    BY <1>1 DEF BgetHit
  <2>2. PICK b \in Bufs : b = list[i] /\ block[b] = k
    BY <1>a DEF Cached, TypeOK
  <2>3. /\ pc[p] = "idle" /\ pc' = [pc EXCEPT ![p] = "lock"]
        /\ UNCHANGED <<block, valid, data, list, owner, disk>>
        /\ ~Panicked
    BY <1>1 DEF BgetHit, At, Goto
  <2>4. buf[p] = NoBuf
    BY <1>b, <2>3 DEF RefWhileInside
  <2>5. TypeOK'
    BY <1>a, <2>1, <2>2, <2>3 DEF TypeOK, Locations
  <2>6. RefcntExact'
    BY <1>a, <1>b, <2>1, <2>2, <2>4, AddRef
  <2>7. ListComplete' /\ OneBufferPerBlock' /\ ValidHasBlock'
    BY <1>a, <1>c, <2>3 DEF ListComplete, OneBufferPerBlock, ValidHasBlock
  <2>8. HolderOwns'
    BY <1>a, <2>1, <2>2, <2>3 DEF HolderOwns, TypeOK, Using
  <2>9. NoLostWakeup' /\ RefWhileInside' /\ ValidInUse'
    BY <1>a, <1>b, <2>1, <2>2, <2>3
    DEF NoLostWakeup, RefWhileInside, ValidInUse, TypeOK
  <2>10. PanicOnlyWhenFull'
    BY <1>a, <2>3 DEF PanicOnlyWhenFull, Panicked, TypeOK
  <2> QED
    BY <2>5, <2>6, <2>7, <2>8, <2>9, <2>10 DEF IInv
<1>2. ASSUME NEW p \in Procs, NEW k \in Blocks, BgetRecycle(p, k)
      PROVE  IInv'
  <2>1. PICK i \in Unused :
          /\ block'  = [block EXCEPT ![list[i]] = k]
          /\ valid'  = [valid EXCEPT ![list[i]] = FALSE]
          /\ refcnt' = [refcnt EXCEPT ![list[i]] = 1]
          /\ buf'    = [buf EXCEPT ![p] = list[i]]
    BY <1>2 DEF BgetRecycle
  <2>2. PICK b \in Bufs : b = list[i] /\ refcnt[b] = 0
    BY <1>a DEF Unused, TypeOK
  <2>3. /\ pc[p] = "idle" /\ pc' = [pc EXCEPT ![p] = "lock"]
        /\ UNCHANGED <<data, list, owner, disk>>
        /\ ~Panicked /\ Cached(k) = {}
    BY <1>2 DEF BgetRecycle, At, Goto
  <2>4. buf[p] = NoBuf
    BY <1>b, <2>3 DEF RefWhileInside
  <2>5. \A q \in Procs : buf[q] # b
    <3>1. Refs(b) = {}
      BY <1>b, <2>2, RefsFinite DEF RefcntExact
    <3> QED
      BY <3>1 DEF Refs
  <2>6. \A c \in Bufs : block[c] # k
    BY <1>a, <2>3 DEF ListComplete, Cached
  <2>7. TypeOK'
    BY <1>a, <2>1, <2>2, <2>3 DEF TypeOK, Locations
  <2>8. RefcntExact'
    <3>1. refcnt' = [refcnt EXCEPT ![b] = @ + 1]
      BY <1>a, <2>1, <2>2 DEF TypeOK
    <3> QED
      BY <1>a, <1>b, <2>1, <2>2, <2>4, <3>1, AddRef
  <2>9. ListComplete'
    BY <1>a, <2>3 DEF ListComplete
  <2>10. OneBufferPerBlock' /\ ValidHasBlock'
    BY <1>a, <1>c, <2>1, <2>2, <2>6
    DEF OneBufferPerBlock, ValidHasBlock, TypeOK
  <2>11. HolderOwns'
    BY <1>a, <2>1, <2>2, <2>3, <2>5 DEF HolderOwns, TypeOK, Using
  <2>12. NoLostWakeup' /\ RefWhileInside' /\ ValidInUse'
    BY <1>a, <1>b, <2>1, <2>2, <2>3, <2>5
    DEF NoLostWakeup, RefWhileInside, ValidInUse, TypeOK
  <2>13. PanicOnlyWhenFull'
    BY <1>a, <2>3 DEF PanicOnlyWhenFull, Panicked, TypeOK
  <2> QED
    BY <2>7, <2>8, <2>9, <2>10, <2>11, <2>12, <2>13 DEF IInv
<1>3. ASSUME NEW p \in Procs, NEW k \in Blocks, BgetPanic(p, k)
      PROVE  IInv'
  <2>1. /\ pc[p] = "idle" /\ pc' = [pc EXCEPT ![p] = "panic"]
        /\ UNCHANGED <<cacheVars, disk, buf>>
        /\ ~Panicked /\ Unused = {}
    BY <1>3 DEF BgetPanic, At, Goto
  <2>2. PanicOnlyWhenFull'
    <3> SUFFICES ASSUME NEW q \in Procs, pc'[q] = "panic", NEW b \in Bufs
                 PROVE  \E r \in Procs \ {q} : buf'[r] = b
      BY DEF PanicOnlyWhenFull
    <3>1. q = p
      BY <1>a, <2>1 DEF Panicked, TypeOK
    <3>2. refcnt[b] # 0
      BY <1>a, <2>1 DEF ListComplete, Unused
    <3>a. Refs(b) # {}
      BY <1>b, <3>2, RefsFinite DEF RefcntExact
    <3>3. PICK r \in Procs : buf[r] = b
      BY <3>a DEF Refs
    <3>4. buf[p] = NoBuf
      BY <1>b, <2>1 DEF RefWhileInside
    <3> QED
      BY <2>1, <3>1, <3>3, <3>4
  <2>3. TypeOK' /\ ListComplete' /\ OneBufferPerBlock' /\ ValidHasBlock'
    BY <1>a, <1>c, <2>1
    DEF TypeOK, Locations, ListComplete, OneBufferPerBlock, ValidHasBlock,
        cacheVars
  <2>4. HolderOwns'
    BY <1>a, <2>1 DEF HolderOwns, TypeOK, Using, cacheVars
  <2>5. RefcntExact'
    BY <1>b, <2>1, SameRefs DEF cacheVars
  <2>6. NoLostWakeup' /\ RefWhileInside' /\ ValidInUse'
    BY <1>a, <1>b, <2>1
    DEF NoLostWakeup, RefWhileInside, ValidInUse, TypeOK, cacheVars
  <2> QED
    BY <2>2, <2>3, <2>4, <2>5, <2>6 DEF IInv
<1>4. ASSUME NEW p \in Procs, AcquireSleep(p)
      PROVE  IInv'
  <2>1. TypeOK' /\ ListComplete' /\ OneBufferPerBlock' /\ ValidHasBlock'
    BY <1>a, <1>b, <1>c, <1>4
    DEF AcquireSleep, At, Goto, cacheVars, TypeOK, Locations, Using, ListComplete,
        OneBufferPerBlock, ValidHasBlock, RefWhileInside
  <2>2. HolderOwns'
    BY <1>a, <1>b, <1>4
    DEF AcquireSleep, At, Goto, cacheVars, TypeOK, Using, HolderOwns,
        RefWhileInside
  <2>3. RefcntExact'
    BY <1>b, <1>4, SameRefs DEF AcquireSleep, cacheVars
  <2>4. NoLostWakeup' /\ RefWhileInside'
    BY <1>a, <1>b, <1>4
    DEF AcquireSleep, At, Goto, cacheVars, TypeOK, NoLostWakeup, RefWhileInside
  <2>5. ValidInUse'
    BY <1>a, <1>b, <1>4
    DEF AcquireSleep, At, Goto, cacheVars, TypeOK, Using, HolderOwns,
        RefWhileInside, ValidInUse, OneBufferPerBlock
  <2>6. PanicOnlyWhenFull'
    BY <1>a, <1>4
    DEF AcquireSleep, At, Goto, cacheVars, TypeOK, Panicked, PanicOnlyWhenFull
  <2> QED
    BY <2>1, <2>2, <2>3, <2>4, <2>5, <2>6 DEF IInv
<1>5. ASSUME NEW p \in Procs, SleepOnLock(p)
      PROVE  IInv'
  <2>1. TypeOK' /\ ListComplete' /\ OneBufferPerBlock' /\ ValidHasBlock'
    BY <1>a, <1>b, <1>c, <1>5
    DEF SleepOnLock, At, Goto, cacheVars, TypeOK, Locations, Using, ListComplete,
        OneBufferPerBlock, ValidHasBlock, RefWhileInside
  <2>2. HolderOwns'
    BY <1>a, <1>b, <1>5
    DEF SleepOnLock, At, Goto, cacheVars, TypeOK, Using, HolderOwns,
        RefWhileInside
  <2>3. RefcntExact'
    BY <1>b, <1>5, SameRefs DEF SleepOnLock, cacheVars
  <2>4. NoLostWakeup' /\ RefWhileInside'
    BY <1>a, <1>b, <1>5
    DEF SleepOnLock, At, Goto, cacheVars, TypeOK, NoLostWakeup, RefWhileInside
  <2>5. ValidInUse'
    BY <1>a, <1>b, <1>5
    DEF SleepOnLock, At, Goto, cacheVars, TypeOK, Using, HolderOwns,
        RefWhileInside, ValidInUse, OneBufferPerBlock
  <2>6. PanicOnlyWhenFull'
    BY <1>a, <1>5
    DEF SleepOnLock, At, Goto, cacheVars, TypeOK, Panicked, PanicOnlyWhenFull
  <2> QED
    BY <2>1, <2>2, <2>3, <2>4, <2>5, <2>6 DEF IInv
<1>6. ASSUME NEW p \in Procs, KillSleeper(p)
      PROVE  IInv'
  <2>1. TypeOK' /\ ListComplete' /\ OneBufferPerBlock' /\ ValidHasBlock'
    BY <1>a, <1>b, <1>c, <1>6
    DEF KillSleeper, At, Goto, cacheVars, TypeOK, Locations, Using, ListComplete,
        OneBufferPerBlock, ValidHasBlock, RefWhileInside
  <2>2. HolderOwns'
    BY <1>a, <1>b, <1>6
    DEF KillSleeper, At, Goto, cacheVars, TypeOK, Using, HolderOwns,
        RefWhileInside
  <2>3. RefcntExact'
    BY <1>b, <1>6, SameRefs DEF KillSleeper, cacheVars
  <2>4. NoLostWakeup' /\ RefWhileInside'
    BY <1>a, <1>b, <1>6
    DEF KillSleeper, At, Goto, cacheVars, TypeOK, NoLostWakeup, RefWhileInside
  <2>5. ValidInUse'
    BY <1>a, <1>b, <1>6
    DEF KillSleeper, At, Goto, cacheVars, TypeOK, Using, HolderOwns,
        RefWhileInside, ValidInUse, OneBufferPerBlock
  <2>6. PanicOnlyWhenFull'
    BY <1>a, <1>6
    DEF KillSleeper, At, Goto, cacheVars, TypeOK, Panicked, PanicOnlyWhenFull
  <2> QED
    BY <2>1, <2>2, <2>3, <2>4, <2>5, <2>6 DEF IInv
<1>7. ASSUME NEW p \in Procs, BreadValid(p)
      PROVE  IInv'
  <2>1. TypeOK' /\ ListComplete' /\ OneBufferPerBlock' /\ ValidHasBlock'
    BY <1>a, <1>b, <1>c, <1>7
    DEF BreadValid, At, Goto, cacheVars, TypeOK, Locations, Using, ListComplete,
        OneBufferPerBlock, ValidHasBlock, RefWhileInside
  <2>2. HolderOwns'
    BY <1>a, <1>b, <1>7
    DEF BreadValid, At, Goto, cacheVars, TypeOK, Using, HolderOwns,
        RefWhileInside
  <2>3. RefcntExact'
    BY <1>b, <1>7, SameRefs DEF BreadValid, cacheVars
  <2>4. NoLostWakeup' /\ RefWhileInside'
    BY <1>a, <1>b, <1>7
    DEF BreadValid, At, Goto, cacheVars, TypeOK, NoLostWakeup, RefWhileInside
  <2>5. ValidInUse'
    BY <1>a, <1>b, <1>7
    DEF BreadValid, At, Goto, cacheVars, TypeOK, Using, HolderOwns,
        RefWhileInside, ValidInUse, OneBufferPerBlock
  <2>6. PanicOnlyWhenFull'
    BY <1>a, <1>7
    DEF BreadValid, At, Goto, cacheVars, TypeOK, Panicked, PanicOnlyWhenFull
  <2> QED
    BY <2>1, <2>2, <2>3, <2>4, <2>5, <2>6 DEF IInv
<1>8. ASSUME NEW p \in Procs, DiskRead(p)
      PROVE  IInv'
  <2>1. TypeOK' /\ ListComplete' /\ OneBufferPerBlock' /\ ValidHasBlock'
    BY <1>a, <1>b, <1>c, <1>8
    DEF DiskRead, At, Goto, cacheVars, TypeOK, Locations, Using, ListComplete,
        OneBufferPerBlock, ValidHasBlock, RefWhileInside
  <2>2. HolderOwns'
    BY <1>a, <1>b, <1>8
    DEF DiskRead, At, Goto, cacheVars, TypeOK, Using, HolderOwns,
        RefWhileInside
  <2>3. RefcntExact'
    BY <1>b, <1>8, SameRefs DEF DiskRead, cacheVars
  <2>4. NoLostWakeup' /\ RefWhileInside'
    BY <1>a, <1>b, <1>8
    DEF DiskRead, At, Goto, cacheVars, TypeOK, NoLostWakeup, RefWhileInside
  <2>5. ValidInUse'
    <3>1. buf[p] \in Bufs /\ block[buf[p]] \in Blocks /\ pc[p] \in Using
      BY <1>a, <1>b, <1>8 DEF DiskRead, At, RefWhileInside, TypeOK, Using
    <3>2. \A q \in Procs \ {p} : pc[q] \in {"fill", "held", "dirty", "done"} =>
            /\ buf[q] \in Bufs /\ buf[q] # buf[p]
            /\ block[buf[q]] \in Blocks /\ block[buf[q]] # block[buf[p]]
      BY <3>1, UsersApart DEF Using
    <3> QED
      BY <1>a, <1>b, <1>8, <3>1, <3>2
      DEF DiskRead, At, Goto, cacheVars, TypeOK, ValidInUse
  <2>6. PanicOnlyWhenFull'
    BY <1>a, <1>8
    DEF DiskRead, At, Goto, cacheVars, TypeOK, Panicked, PanicOnlyWhenFull
  <2> QED
    BY <2>1, <2>2, <2>3, <2>4, <2>5, <2>6 DEF IInv
<1>9. ASSUME NEW p \in Procs, BreadFill(p)
      PROVE  IInv'
  <2>a. buf[p] \in Bufs /\ block[buf[p]] \in Blocks
    BY <1>a, <1>b, <1>9 DEF BreadFill, At, RefWhileInside, TypeOK
  <2>b. TypeOK' /\ ValidHasBlock'
    BY <1>a, <1>c, <1>9, <2>a
    DEF BreadFill, At, Goto, TypeOK, Locations, Using, ValidHasBlock
  <2>1. TypeOK' /\ ListComplete' /\ OneBufferPerBlock' /\ ValidHasBlock'
    BY <1>a, <1>9, <2>b DEF BreadFill, ListComplete, OneBufferPerBlock
  <2>2. HolderOwns'
    BY <1>a, <1>b, <1>9
    DEF BreadFill, At, Goto, cacheVars, TypeOK, Using, HolderOwns,
        RefWhileInside
  <2>3. RefcntExact'
    BY <1>b, <1>9, SameRefs DEF BreadFill, cacheVars
  <2>4. NoLostWakeup' /\ RefWhileInside'
    BY <1>a, <1>b, <1>9
    DEF BreadFill, At, Goto, cacheVars, TypeOK, NoLostWakeup, RefWhileInside
  <2>5. ValidInUse'
    <3>1. buf[p] \in Bufs /\ block[buf[p]] \in Blocks /\ pc[p] \in Using
      BY <1>a, <1>b, <1>9 DEF BreadFill, At, RefWhileInside, TypeOK, Using
    <3>2. \A q \in Procs \ {p} : pc[q] \in {"fill", "held", "dirty", "done"} =>
            /\ buf[q] \in Bufs /\ buf[q] # buf[p]
            /\ block[buf[q]] \in Blocks /\ block[buf[q]] # block[buf[p]]
      BY <3>1, UsersApart DEF Using
    <3> QED
      BY <1>a, <1>b, <1>9, <3>1, <3>2
      DEF BreadFill, At, Goto, cacheVars, TypeOK, ValidInUse
  <2>6. PanicOnlyWhenFull'
    BY <1>a, <1>9
    DEF BreadFill, At, Goto, cacheVars, TypeOK, Panicked, PanicOnlyWhenFull
  <2> QED
    BY <2>1, <2>2, <2>3, <2>4, <2>5, <2>6 DEF IInv
<1>10. ASSUME NEW p \in Procs, NEW v \in Values, Modify(p, v)
      PROVE  IInv'
  <2>1. TypeOK' /\ ListComplete' /\ OneBufferPerBlock' /\ ValidHasBlock'
    BY <1>a, <1>b, <1>c, <1>10
    DEF Modify, At, Goto, cacheVars, TypeOK, Locations, Using, ListComplete,
        OneBufferPerBlock, ValidHasBlock, RefWhileInside
  <2>2. HolderOwns'
    BY <1>a, <1>b, <1>10
    DEF Modify, At, Goto, cacheVars, TypeOK, Using, HolderOwns,
        RefWhileInside
  <2>3. RefcntExact'
    BY <1>b, <1>10, SameRefs DEF Modify, cacheVars
  <2>4. NoLostWakeup' /\ RefWhileInside'
    BY <1>a, <1>b, <1>10
    DEF Modify, At, Goto, cacheVars, TypeOK, NoLostWakeup, RefWhileInside
  <2>5. ValidInUse'
    <3>1. buf[p] \in Bufs /\ block[buf[p]] \in Blocks /\ pc[p] \in Using
      BY <1>a, <1>b, <1>10 DEF Modify, At, RefWhileInside, TypeOK, Using
    <3>2. \A q \in Procs \ {p} : pc[q] \in {"fill", "held", "dirty", "done"} =>
            /\ buf[q] \in Bufs /\ buf[q] # buf[p]
            /\ block[buf[q]] \in Blocks /\ block[buf[q]] # block[buf[p]]
      BY <3>1, UsersApart DEF Using
    <3> QED
      BY <1>a, <1>b, <1>10, <3>1, <3>2
      DEF Modify, At, Goto, cacheVars, TypeOK, ValidInUse
  <2>6. PanicOnlyWhenFull'
    BY <1>a, <1>10
    DEF Modify, At, Goto, cacheVars, TypeOK, Panicked, PanicOnlyWhenFull
  <2> QED
    BY <2>1, <2>2, <2>3, <2>4, <2>5, <2>6 DEF IInv
<1>11. ASSUME NEW p \in Procs, Bwrite(p)
      PROVE  IInv'
  <2>a. buf[p] \in Bufs /\ block[buf[p]] \in Blocks
    BY <1>a, <1>b, <1>11 DEF Bwrite, At, RefWhileInside, TypeOK
  <2>b. TypeOK'
    BY <1>a, <1>11, <2>a
    DEF Bwrite, At, Goto, cacheVars, TypeOK, Locations, Using
  <2>1. TypeOK' /\ ListComplete' /\ OneBufferPerBlock' /\ ValidHasBlock'
    BY <1>a, <1>c, <1>11, <2>b
    DEF Bwrite, cacheVars, ListComplete, OneBufferPerBlock, ValidHasBlock
  <2>2. HolderOwns'
    BY <1>a, <1>b, <1>11
    DEF Bwrite, At, Goto, cacheVars, TypeOK, Using, HolderOwns,
        RefWhileInside
  <2>3. RefcntExact'
    BY <1>b, <1>11, SameRefs DEF Bwrite, cacheVars
  <2>4. NoLostWakeup' /\ RefWhileInside'
    BY <1>a, <1>b, <1>11
    DEF Bwrite, At, Goto, cacheVars, TypeOK, NoLostWakeup, RefWhileInside
  <2>5. ValidInUse'
    <3>1. buf[p] \in Bufs /\ block[buf[p]] \in Blocks /\ pc[p] \in Using
      BY <1>a, <1>b, <1>11 DEF Bwrite, At, RefWhileInside, TypeOK, Using
    <3>2. \A q \in Procs \ {p} : pc[q] \in {"fill", "held", "dirty", "done"} =>
            /\ buf[q] \in Bufs /\ buf[q] # buf[p]
            /\ block[buf[q]] \in Blocks /\ block[buf[q]] # block[buf[p]]
      BY <3>1, UsersApart DEF Using
    <3> QED
      BY <1>a, <1>b, <1>11, <3>1, <3>2
      DEF Bwrite, At, Goto, cacheVars, TypeOK, ValidInUse
  <2>6. PanicOnlyWhenFull'
    BY <1>a, <1>11
    DEF Bwrite, At, Goto, cacheVars, TypeOK, Panicked, PanicOnlyWhenFull
  <2> QED
    BY <2>1, <2>2, <2>3, <2>4, <2>5, <2>6 DEF IInv
<1>12. ASSUME NEW p \in Procs, CopyinFault(p)
      PROVE  IInv'
  <2>1. TypeOK' /\ ListComplete' /\ OneBufferPerBlock' /\ ValidHasBlock'
    BY <1>a, <1>b, <1>c, <1>12
    DEF CopyinFault, At, Goto, cacheVars, TypeOK, Locations, Using, ListComplete,
        OneBufferPerBlock, ValidHasBlock, RefWhileInside
  <2>2. HolderOwns'
    BY <1>a, <1>b, <1>12
    DEF CopyinFault, At, Goto, cacheVars, TypeOK, Using, HolderOwns,
        RefWhileInside
  <2>3. RefcntExact'
    BY <1>b, <1>12, SameRefs DEF CopyinFault, cacheVars
  <2>4. NoLostWakeup' /\ RefWhileInside'
    BY <1>a, <1>b, <1>12
    DEF CopyinFault, At, Goto, cacheVars, TypeOK, NoLostWakeup, RefWhileInside
  <2>5. ValidInUse'
    BY <1>a, <1>b, <1>12
    DEF CopyinFault, At, Goto, cacheVars, TypeOK, Using, HolderOwns,
        RefWhileInside, ValidInUse, OneBufferPerBlock
  <2>6. PanicOnlyWhenFull'
    BY <1>a, <1>12
    DEF CopyinFault, At, Goto, cacheVars, TypeOK, Panicked, PanicOnlyWhenFull
  <2> QED
    BY <2>1, <2>2, <2>3, <2>4, <2>5, <2>6 DEF IInv
<1>13. ASSUME NEW p \in Procs, ReleaseSleep(p)
      PROVE  IInv'
  <2>a. buf[p] \in Bufs /\ block[buf[p]] \in Blocks
    BY <1>a, <1>b, <1>13 DEF ReleaseSleep, At, RefWhileInside, TypeOK
  <2>b. TypeOK'
    BY <1>a, <1>13, <2>a
    DEF ReleaseSleep, At, Goto, cacheVars, TypeOK, Locations, Using
  <2>1. TypeOK' /\ ListComplete' /\ OneBufferPerBlock' /\ ValidHasBlock'
    BY <1>a, <1>c, <1>13, <2>b
    DEF ReleaseSleep, cacheVars, ListComplete, OneBufferPerBlock, ValidHasBlock
  <2>2. HolderOwns'
    BY <1>a, <1>b, <1>13
    DEF ReleaseSleep, At, Goto, cacheVars, TypeOK, Using, HolderOwns,
        RefWhileInside
  <2>3. RefcntExact'
    BY <1>b, <1>13, SameRefs DEF ReleaseSleep, cacheVars
  <2>4. NoLostWakeup' /\ RefWhileInside'
    BY <1>a, <1>b, <1>13
    DEF ReleaseSleep, At, Goto, cacheVars, TypeOK, NoLostWakeup, RefWhileInside
  <2>5. ValidInUse'
    BY <1>a, <1>b, <1>13
    DEF ReleaseSleep, At, Goto, cacheVars, TypeOK, Using, HolderOwns,
        RefWhileInside, ValidInUse, OneBufferPerBlock
  <2>6. PanicOnlyWhenFull'
    BY <1>a, <1>13
    DEF ReleaseSleep, At, Goto, cacheVars, TypeOK, Panicked, PanicOnlyWhenFull
  <2> QED
    BY <2>1, <2>2, <2>3, <2>4, <2>5, <2>6 DEF IInv
<1>14. ASSUME NEW p \in Procs, BrelseUnref(p)
      PROVE  IInv'
  <2>1. PICK b \in Bufs : b = buf[p]
    BY <1>a, <1>b, <1>14 DEF BrelseUnref, At, TypeOK, RefWhileInside
  <2>2. /\ pc[p] = "unref" /\ pc' = [pc EXCEPT ![p] = "idle"]
        /\ refcnt' = [refcnt EXCEPT ![b] = @ - 1]
        /\ list' = IF refcnt[b] = 1 THEN MoveToHead(b) ELSE list
        /\ buf' = [buf EXCEPT ![p] = NoBuf]
        /\ UNCHANGED <<block, valid, data, owner, disk>>
        /\ ~Panicked
    BY <1>14, <2>1 DEF BrelseUnref, At, Goto
  <2>3. RefcntExact' /\ refcnt[b] > 0
    BY <1>a, <1>b, <2>1, <2>2, DropRef
  <2>4. list' \in [1..NBUF -> Bufs] /\ ListComplete'
    <3>1. CASE refcnt[b] = 1
      BY <1>a, <2>2, <3>1, MoveToHeadPermutes
    <3>2. CASE refcnt[b] # 1
      BY <1>a, <2>2, <3>2 DEF ListComplete, TypeOK
    <3> QED
      BY <3>1, <3>2
  <2>5. TypeOK'
    BY <1>a, <2>2, <2>3, <2>4 DEF TypeOK, Locations
  <2>6. OneBufferPerBlock' /\ ValidHasBlock'
    BY <1>a, <1>c, <2>2 DEF OneBufferPerBlock, ValidHasBlock
  <2>7. HolderOwns'
    BY <1>a, <2>2 DEF HolderOwns, TypeOK, Using
  <2>8. NoLostWakeup' /\ RefWhileInside' /\ ValidInUse'
    BY <1>a, <1>b, <2>2
    DEF NoLostWakeup, RefWhileInside, ValidInUse, TypeOK
  <2>9. PanicOnlyWhenFull'
    BY <1>a, <2>2 DEF PanicOnlyWhenFull, Panicked, TypeOK
  <2> QED
    BY <2>3, <2>4, <2>5, <2>6, <2>7, <2>8, <2>9 DEF IInv
<1>15. CASE UNCHANGED vars
  BY <1>a, <1>b, <1>c, <1>15
  DEF vars, IInv, TypeOK, ListComplete, OneBufferPerBlock, HolderOwns,
      RefcntExact, Refs, NoLostWakeup, RefWhileInside, ValidInUse,
      ValidHasBlock, PanicOnlyWhenFull
<1> QED
  BY <1>1, <1>2, <1>3, <1>4, <1>5, <1>6, <1>7, <1>8, <1>9, <1>10, <1>11, <1>12, <1>13, <1>14, <1>15 DEF Next, Step

\* The inductive invariant holds throughout every behaviour of the cache.
THEOREM Invariance == Spec => []IInv
  BY InitIInv, NextIInv, PTL DEF Spec

\* The variables keep their types.
THEOREM TypeCorrect == Spec => []TypeOK
<1>1. IInv => TypeOK
  BY DEF IInv
<1> QED
  BY <1>1, Invariance, PTL

\* No disk block is ever in two buffers.
THEOREM Uniqueness == Spec => []OneBufferPerBlock
<1>1. IInv => OneBufferPerBlock
  BY DEF IInv
<1> QED
  BY <1>1, Invariance, PTL

\* Only one process at a time uses a buffer.
THEOREM MutualExclusion == Spec => []HolderOwns
<1>1. IInv => HolderOwns
  BY DEF IInv
<1> QED
  BY <1>1, Invariance, PTL

\* Nobody sleeps on a sleep lock that is free.
THEOREM WakeupsReach == Spec => []NoLostWakeup
<1>1. IInv => NoLostWakeup
  BY DEF IInv
<1> QED
  BY <1>1, Invariance, PTL

\* With a buffer per process, bget() always finds one.
THEOREM BuffersSuffice == Spec => []NoPanic
<1>1. IInv => NoPanic
  <2> SUFFICES ASSUME IInv, Cardinality(Procs) <= NBUF,
                      NEW p \in Procs, pc[p] = "panic"
               PROVE  FALSE
    BY DEF NoPanic, Panicked
  <2> DEFINE Q == {q \in Procs \ {p} : buf[q] \in Bufs}
             f == [q \in Q |-> buf[q]]
  <2>1. f \in Surjection(Q, Bufs)
    <3>1. \A b \in Bufs : \E q \in Q : f[q] = b
      BY DEF IInv, PanicOnlyWhenFull
    <3> QED
      BY <3>1 DEF Surjection
  <2>2. /\ IsFiniteSet(Procs \ {p})
        /\ Cardinality(Procs \ {p}) = Cardinality(Procs) - 1
    BY SetsAssumption, FS_RemoveElement
  <2>3. IsFiniteSet(Q) /\ Cardinality(Q) <= Cardinality(Procs) - 1
    <3> Q \in SUBSET (Procs \ {p})
      OBVIOUS
    <3> HIDE DEF Q
    <3> QED
      BY <2>2, FS_Subset
  <2>4. NBUF <= Cardinality(Q)
    <3> HIDE DEF Q, f
    <3> QED
      BY <2>1, <2>3, FS_Surjection DEF NBUF
  <2>5. Cardinality(Procs) \in Nat /\ Cardinality(Q) \in Nat
    BY <2>3, SetsAssumption, FS_CardinalityType
  <2> HIDE DEF Q
  <2> QED
    BY <2>3, <2>4, <2>5, NBUFType
<1> QED
  BY <1>1, Invariance, PTL

\* bget() does not recycle a buffer that a process still refers to.
THEOREM IdentityStable == Spec => NotRecycledInUse
<1> DEFINE A == \A p \in Procs : buf[p] # NoBuf => block'[buf[p]] = block[buf[p]]
<1>1. IInv /\ [Next]_vars => [A]_vars
  <2> SUFFICES ASSUME IInv, Next, NEW p \in Procs, buf[p] # NoBuf
               PROVE  block'[buf[p]] = block[buf[p]]
    OBVIOUS
  <2>1. ASSUME NEW q \in Procs, NEW k \in Blocks, BgetRecycle(q, k)
        PROVE  block'[buf[p]] = block[buf[p]]
    <3>1. PICK i \in Unused : block' = [block EXCEPT ![list[i]] = k]
      BY <2>1 DEF BgetRecycle
    <3>2. list[i] \in Bufs /\ refcnt[list[i]] = 0
      BY DEF IInv, TypeOK, Unused
    <3>3. Refs(list[i]) = {}
      BY <3>2, RefsFinite DEF IInv, RefcntExact
    <3>4. buf[p] # list[i] /\ buf[p] \in Bufs
      BY <3>3 DEF Refs, IInv, TypeOK
    <3> QED
      BY <3>1, <3>4 DEF IInv, TypeOK
  <2>2. CASE UNCHANGED block
    BY <2>2
  <2> QED
    BY <2>1, <2>2
    DEF Next, Step, BgetHit, BgetPanic, AcquireSleep, SleepOnLock,
        KillSleeper, BreadValid, DiskRead, BreadFill, Modify, Bwrite,
        CopyinFault, ReleaseSleep, BrelseUnref, cacheVars
<1> QED
  BY <1>1, Invariance, PTL DEF Spec, NotRecycledInUse

-----------------------------------------------------------------------------
(* The contents of the cache, when no copy from user space fails half way. *)

\* Every step leaves valid buffers equal to the disk unless somebody is in the
\* middle of changing them.
LEMMA NextCoherent ==
  ASSUME ~CopyinFaults, IInv, CacheMatchesDisk, [Next]_vars
  PROVE  CacheMatchesDisk'
<1> USE SetsAssumption
<1>a. TypeOK /\ RefWhileInside /\ ValidInUse /\ HolderOwns /\ ValidHasBlock
  BY DEF IInv
<1> SUFFICES ASSUME NEW b \in Bufs, valid'[b],
                    \A q \in Procs : buf'[q] = b => pc'[q] # "dirty"
             PROVE  data'[b] = disk'[block'[b]]
  BY DEF CacheMatchesDisk
<1>1. ASSUME NEW p \in Procs, NEW k \in Blocks, BgetHit(p, k)
      PROVE  data'[b] = disk'[block'[b]]
  BY <1>a, <1>1
  DEF BgetHit, At, Goto, CacheMatchesDisk, TypeOK, RefWhileInside
<1>2. ASSUME NEW p \in Procs, NEW k \in Blocks, BgetRecycle(p, k)
      PROVE  data'[b] = disk'[block'[b]]
  BY <1>a, <1>2
  DEF BgetRecycle, At, Goto, CacheMatchesDisk, TypeOK, RefWhileInside, Unused
<1>3. ASSUME NEW p \in Procs, NEW v \in Values, Modify(p, v)
      PROVE  data'[b] = disk'[block'[b]]
  BY <1>a, <1>3
  DEF Modify, At, Goto, CacheMatchesDisk, TypeOK
<1>4. ASSUME NEW p \in Procs, DiskRead(p)
      PROVE  data'[b] = disk'[block'[b]]
  BY <1>a, <1>4
  DEF DiskRead, At, Goto, CacheMatchesDisk, TypeOK
<1>5. ASSUME NEW p \in Procs, BreadFill(p)
      PROVE  data'[b] = disk'[block'[b]]
  BY <1>a, <1>5
  DEF BreadFill, At, Goto, CacheMatchesDisk, TypeOK, ValidInUse
<1>6. ASSUME NEW p \in Procs, Bwrite(p)
      PROVE  data'[b] = disk'[block'[b]]
  <2>1. buf[p] \in Bufs /\ block[buf[p]] \in Blocks
    BY <1>a, <1>6 DEF Bwrite, At, RefWhileInside, TypeOK
  <2>2. CASE b = buf[p]
    BY <1>a, <1>6, <2>1, <2>2 DEF Bwrite, cacheVars, TypeOK
  <2>3. CASE b # buf[p]
    <3>1. block[b] \in Blocks /\ block[b] # block[buf[p]]
      BY <1>a, <1>6, <2>1, <2>3
      DEF Bwrite, cacheVars, IInv, OneBufferPerBlock, ValidHasBlock
    <3>2. data[b] = disk[block[b]]
      BY <1>a, <1>6, <2>3
      DEF Bwrite, At, Goto, cacheVars, CacheMatchesDisk, TypeOK
    <3> QED
      BY <1>a, <1>6, <2>1, <3>1, <3>2 DEF Bwrite, cacheVars, TypeOK
  <2> QED
    BY <2>2, <2>3
<1>7. ASSUME NEW p \in Procs,
             \/ AcquireSleep(p) \/ SleepOnLock(p) \/ KillSleeper(p)
             \/ BreadValid(p) \/ ReleaseSleep(p)
      PROVE  data'[b] = disk'[block'[b]]
  BY <1>a, <1>7
  DEF AcquireSleep, SleepOnLock, KillSleeper, BreadValid, ReleaseSleep, At,
      Goto, cacheVars, CacheMatchesDisk, TypeOK
<1>8. ASSUME NEW p \in Procs, BrelseUnref(p)
      PROVE  data'[b] = disk'[block'[b]]
  BY <1>a, <1>8 DEF BrelseUnref, At, Goto, CacheMatchesDisk, TypeOK
<1>9. ASSUME NEW p \in Procs, NEW k \in Blocks, BgetPanic(p, k)
      PROVE  data'[b] = disk'[block'[b]]
  BY <1>a, <1>9 DEF BgetPanic, At, Goto, cacheVars, CacheMatchesDisk, TypeOK
<1>10. CASE UNCHANGED vars
  BY <1>10 DEF vars, CacheMatchesDisk
<1> QED
  BY <1>1, <1>2, <1>3, <1>4, <1>5, <1>6, <1>7, <1>8, <1>9, <1>10
  DEF Next, Step, CopyinFault

\* A valid buffer that nobody is changing equals the disk: recycling it never
\* loses a write.
THEOREM Coherence == ~CopyinFaults => (Spec => []CacheMatchesDisk)
<1> SUFFICES ASSUME ~CopyinFaults PROVE Spec => []CacheMatchesDisk
  OBVIOUS
<1>1. Init => CacheMatchesDisk
  BY DEF Init, CacheMatchesDisk
<1>2. IInv /\ CacheMatchesDisk /\ [Next]_vars => CacheMatchesDisk'
  BY NextCoherent
<1> QED
  BY <1>1, <1>2, Invariance, PTL DEF Spec

-----------------------------------------------------------------------------
(* The cache implements BlockStore. *)

\* The refinement mapping in terms of the one buffer of a block.
ViewedIn(k) ==
  /\ \A b \in Bufs : block[b] = k =>
       /\ HolderOf(k) = owner[b]
       /\ ContentOf(k) = IF valid[b] THEN data[b] ELSE disk[k]
  /\ (\A b \in Bufs : block[b] # k) =>
       HolderOf(k) = NoProc /\ ContentOf(k) = disk[k]

Viewed == \A k \in Blocks : ViewedIn(k)

\* The mapping of a block is what its buffer holds, and the disk when the
\* block has no buffer.
LEMMA View == IInv => Viewed
<1> SUFFICES ASSUME IInv, NEW k \in Blocks
             PROVE  ViewedIn(k)
  BY DEF Viewed
<1>1. ASSUME NEW b \in Bufs, block[b] = k
      PROVE  /\ HolderOf(k) = owner[b]
             /\ ContentOf(k) = IF valid[b] THEN data[b] ELSE disk[k]
  <2>1. \A c \in Bufs : block[c] = k => c = b
    BY <1>1, SetsAssumption DEF IInv, OneBufferPerBlock
  <2>2. (CHOOSE c \in Bufs : block[c] = k) = b
    BY <1>1, <2>1
  <2>3. valid[b] => (CHOOSE c \in Bufs : block[c] = k /\ valid[c]) = b
    BY <1>1, <2>1
  <2> QED
    BY <1>1, <2>1, <2>2, <2>3 DEF HolderOf, ContentOf
<1>2. ASSUME \A b \in Bufs : block[b] # k
      PROVE  HolderOf(k) = NoProc /\ ContentOf(k) = disk[k]
  BY <1>2 DEF HolderOf, ContentOf
<1> QED
  BY <1>1, <1>2 DEF ViewedIn

\* The same after a step.
LEMMA ViewNext == IInv' => Viewed'
  BY View, PTL

\* A step that leaves the buffers, the disk and the locks alone leaves the
\* store alone.
LEMMA SameView ==
  ASSUME UNCHANGED <<block, valid, data, owner, disk>>
  PROVE  \A k \in Blocks : ContentOf(k)' = ContentOf(k) /\ HolderOf(k)' = HolderOf(k)
  BY DEF ContentOf, HolderOf

\* Recycling a buffer is invisible: its old block is on the disk, and its new
\* block was only there.
LEMMA RecycleInvisible ==
  ASSUME IInv, IInv', CacheMatchesDisk, NEW p \in Procs, NEW k \in Blocks,
         BgetRecycle(p, k)
  PROVE  \A j \in Blocks : ContentOf(j)' = ContentOf(j) /\ HolderOf(j)' = HolderOf(j)
<1> USE SetsAssumption
<1>1. PICK i \in Unused :
        /\ block' = [block EXCEPT ![list[i]] = k]
        /\ valid' = [valid EXCEPT ![list[i]] = FALSE]
  BY DEF BgetRecycle
<1>2. PICK b \in Bufs : b = list[i] /\ refcnt[b] = 0
  BY DEF IInv, Unused, TypeOK
<1>3. UNCHANGED <<data, owner, disk>> /\ Cached(k) = {}
  BY DEF BgetRecycle
<1>4. \A q \in Procs : buf[q] # b
  <2>1. Refs(b) = {}
    BY <1>2, RefsFinite DEF IInv, RefcntExact
  <2> QED
    BY <2>1 DEF Refs
<1>5. owner[b] = NoProc
  BY <1>4 DEF IInv, HolderOwns, TypeOK
<1>6. \A c \in Bufs : block[c] # k
  BY <1>3 DEF IInv, ListComplete, Cached
<1>7. valid[b] => data[b] = disk[block[b]]
  BY <1>4 DEF CacheMatchesDisk
<1>8. \A c \in Bufs : block'[c] = IF c = b THEN k ELSE block[c]
  BY <1>1, <1>2 DEF IInv, TypeOK
<1>9. \A c \in Bufs : valid'[c] = IF c = b THEN FALSE ELSE valid[c]
  BY <1>1, <1>2 DEF IInv, TypeOK
<1>10. \A j \in Blocks :
            /\ \A c \in Bufs : block'[c] = j =>
                 /\ HolderOf(j)' = owner'[c]
                 /\ ContentOf(j)' = IF valid'[c] THEN data'[c] ELSE disk'[j]
            /\ (\A c \in Bufs : block'[c] # j) =>
                 HolderOf(j)' = NoProc /\ ContentOf(j)' = disk'[j]
  BY ViewNext DEF Viewed, ViewedIn
<1> SUFFICES ASSUME NEW j \in Blocks
             PROVE  ContentOf(j)' = ContentOf(j) /\ HolderOf(j)' = HolderOf(j)
  OBVIOUS
<1>11. CASE j = k
  <2>1. ContentOf(j) = disk[j] /\ HolderOf(j) = NoProc
    BY <1>6, <1>11, View DEF Viewed, ViewedIn
  <2>2. ContentOf(j)' = disk'[j] /\ HolderOf(j)' = owner'[b]
    BY <1>8, <1>9, <1>10, <1>11
  <2> QED
    BY <1>3, <1>5, <2>1, <2>2
<1>12. CASE j # k /\ block[b] = j
  <2>1. ContentOf(j) = disk[j] /\ HolderOf(j) = NoProc
    BY <1>5, <1>7, <1>12, View DEF Viewed, ViewedIn
  <2>2. \A c \in Bufs : block'[c] # j
    BY <1>8, <1>12, SetsAssumption DEF IInv, OneBufferPerBlock
  <2>3. ContentOf(j)' = disk'[j] /\ HolderOf(j)' = NoProc
    BY <1>10, <2>2
  <2> QED
    BY <1>3, <2>1, <2>3
<1>13. CASE j # k /\ block[b] # j
  <2>1. CASE \E c \in Bufs : block[c] = j
    <3>1. PICK c \in Bufs : block[c] = j
      BY <2>1
    <3>2. block'[c] = j /\ valid'[c] = valid[c]
      BY <1>8, <1>9, <1>13, <3>1
    <3>3. /\ HolderOf(j) = owner[c]
          /\ ContentOf(j) = IF valid[c] THEN data[c] ELSE disk[j]
      BY <3>1, View DEF Viewed, ViewedIn
    <3>4. /\ HolderOf(j)' = owner'[c]
          /\ ContentOf(j)' = IF valid'[c] THEN data'[c] ELSE disk'[j]
      BY <1>10, <3>2
    <3> QED
      BY <1>3, <3>2, <3>3, <3>4
  <2>2. CASE \A c \in Bufs : block[c] # j
    <3>1. \A c \in Bufs : block'[c] # j
      BY <1>8, <1>13, <2>2
    <3> QED
      BY <1>3, <1>10, <2>2, <3>1, View DEF Viewed, ViewedIn
  <2> QED
    BY <2>1, <2>2
<1> QED
  BY <1>11, <1>12, <1>13

\* A step on one buffer changes no other block of the store.
LEMMA OneBlockStep ==
  ASSUME IInv, IInv', NEW b \in Bufs, NEW k \in Blocks, block[b] = k,
         block' = block,
         \A c \in Bufs : c # b => /\ valid'[c] = valid[c]
                                  /\ data'[c] = data[c]
                                  /\ owner'[c] = owner[c],
         \A j \in Blocks : j # k => disk'[j] = disk[j]
  PROVE  /\ \A j \in Blocks : j # k =>
              ContentOf(j)' = ContentOf(j) /\ HolderOf(j)' = HolderOf(j)
         /\ ContentOf(k) = IF valid[b] THEN data[b] ELSE disk[k]
         /\ ContentOf(k)' = IF valid'[b] THEN data'[b] ELSE disk'[k]
         /\ HolderOf(k) = owner[b]
         /\ HolderOf(k)' = owner'[b]
<1>1. Viewed /\ Viewed'
  BY View, ViewNext
<1>2. /\ ContentOf(k) = IF valid[b] THEN data[b] ELSE disk[k]
      /\ HolderOf(k) = owner[b]
  BY <1>1 DEF Viewed, ViewedIn
<1>3. /\ ContentOf(k)' = IF valid'[b] THEN data'[b] ELSE disk'[k]
      /\ HolderOf(k)' = owner'[b]
  BY <1>1 DEF Viewed, ViewedIn
<1>4. ASSUME NEW j \in Blocks, j # k
      PROVE  ContentOf(j)' = ContentOf(j) /\ HolderOf(j)' = HolderOf(j)
  <2>1. ViewedIn(j)
    BY <1>1 DEF Viewed
  <2>2. /\ \A c \in Bufs : block'[c] = j =>
             /\ HolderOf(j)' = owner'[c]
             /\ ContentOf(j)' = IF valid'[c] THEN data'[c] ELSE disk'[j]
        /\ (\A c \in Bufs : block'[c] # j) =>
             HolderOf(j)' = NoProc /\ ContentOf(j)' = disk'[j]
    BY <1>1 DEF Viewed, ViewedIn
  <2>3. CASE \E c \in Bufs : block[c] = j
    <3>1. PICK c \in Bufs : block[c] = j
      BY <2>3
    <3>2. c # b
      BY <1>4, <3>1
    <3> QED
      BY <1>4, <2>1, <2>2, <3>1, <3>2 DEF ViewedIn
  <2>4. CASE \A c \in Bufs : block[c] # j
    BY <1>4, <2>1, <2>2, <2>4 DEF ViewedIn
  <2> QED
    BY <2>3, <2>4
<1> QED
  BY <1>2, <1>3, <1>4

\* The steps of the cache as steps of the store: the sleep lock is taken and
\* freed, its holder stores into the block; nothing else can be seen.
LEMMA StoreStep ==
  ASSUME ~CopyinFaults, IInv, IInv', CacheMatchesDisk, [Next]_vars
  PROVE  [Store!Next]_(Store!vars)
<1> USE SetsAssumption
<1> DEFINE content == [k \in Blocks |-> ContentOf(k)]
           holder  == [k \in Blocks |-> HolderOf(k)]
<1>a. ASSUME \A k \in Blocks : ContentOf(k)' = ContentOf(k)
                            /\ HolderOf(k)' = HolderOf(k)
      PROVE  UNCHANGED Store!vars
  BY <1>a DEF Store!vars
<1>1. ASSUME UNCHANGED <<block, valid, data, owner, disk>>
      PROVE  UNCHANGED Store!vars
  BY <1>1, <1>a, SameView
<1>2. ASSUME NEW p \in Procs, NEW k \in Blocks, BgetRecycle(p, k)
      PROVE  UNCHANGED Store!vars
  BY <1>2, <1>a, RecycleInvisible
<1>3. ASSUME NEW p \in Procs,
             AcquireSleep(p) \/ DiskRead(p) \/ BreadFill(p) \/ Bwrite(p)
               \/ ReleaseSleep(p) \/ (\E v \in Values : Modify(p, v))
      PROVE  Store!Next \/ UNCHANGED Store!vars
  <2>1. PICK b \in Bufs : buf[p] = b
    BY <1>3 DEF IInv, TypeOK, RefWhileInside, AcquireSleep, DiskRead, BreadFill,
                Bwrite, ReleaseSleep, Modify, At
  <2>2. PICK k \in Blocks : block[b] = k
    BY <2>1 DEF IInv, RefWhileInside
  <2>3. block' = block
    BY <1>3 DEF AcquireSleep, DiskRead, BreadFill, Bwrite, ReleaseSleep, Modify,
                cacheVars
  <2>4. \A c \in Bufs : c # b => /\ valid'[c] = valid[c]
                                 /\ data'[c] = data[c]
                                 /\ owner'[c] = owner[c]
    BY <1>3, <2>1 DEF IInv, TypeOK, AcquireSleep, DiskRead, BreadFill, Bwrite,
                      ReleaseSleep, Modify, cacheVars
  <2>5. \A j \in Blocks : j # k => disk'[j] = disk[j]
    BY <1>3, <2>1, <2>2 DEF IInv, TypeOK, AcquireSleep, DiskRead, BreadFill,
                            Bwrite, ReleaseSleep, Modify, cacheVars
  <2>6. /\ \A j \in Blocks : j # k =>
             ContentOf(j)' = ContentOf(j) /\ HolderOf(j)' = HolderOf(j)
        /\ ContentOf(k) = IF valid[b] THEN data[b] ELSE disk[k]
        /\ ContentOf(k)' = IF valid'[b] THEN data'[b] ELSE disk'[k]
        /\ HolderOf(k) = owner[b]
        /\ HolderOf(k)' = owner'[b]
    BY <2>2, <2>3, <2>4, <2>5, OneBlockStep
  <2>7. CASE AcquireSleep(p)
    <3>1. owner[b] = NoProc /\ owner'[b] = p
      BY <2>1, <2>7 DEF AcquireSleep, IInv, TypeOK
    <3>2. valid' = valid /\ data' = data /\ disk' = disk
      BY <2>7 DEF AcquireSleep
    <3>3. ContentOf(k)' = ContentOf(k)
      BY <2>6, <3>2
    <3>4. content' = content
      BY <2>6, <3>3
    <3>5. holder' = [holder EXCEPT ![k] = p] /\ holder[k] = NoProc
      BY <2>6, <3>1
    <3>6. Store!Get(p, k)
      BY <3>4, <3>5 DEF Store!Get
    <3> QED
      BY <3>6 DEF Store!Next
  <2>8. CASE ReleaseSleep(p)
    <3>1. owner[b] = p /\ owner'[b] = NoProc
      BY <2>1, <2>8 DEF ReleaseSleep, IInv, TypeOK
    <3>2. valid' = valid /\ data' = data /\ disk' = disk
      BY <2>8 DEF ReleaseSleep
    <3>3. ContentOf(k)' = ContentOf(k)
      BY <2>6, <3>2
    <3>4. content' = content
      BY <2>6, <3>3
    <3>5. holder' = [holder EXCEPT ![k] = NoProc] /\ holder[k] = p
      BY <2>6, <3>1
    <3>6. Store!Put(p, k)
      BY <3>4, <3>5 DEF Store!Put
    <3> QED
      BY <3>6 DEF Store!Next
  <2>9. CASE \E v \in Values : Modify(p, v)
    <3>1. PICK v \in Values : Modify(p, v)
      BY <2>9
    <3>2. owner[b] = p /\ valid[b]
      BY <2>1, <3>1 DEF Modify, At, IInv, HolderOwns, ValidInUse, Using
    <3>3. data'[b] = v /\ valid' = valid /\ owner' = owner
      BY <2>1, <3>1 DEF Modify, IInv, TypeOK
    <3>4. ContentOf(k)' = v /\ HolderOf(k)' = HolderOf(k) /\ HolderOf(k) = p
      BY <2>6, <3>2, <3>3
    <3>5. holder' = holder /\ holder[k] = p
      BY <2>6, <3>4
    <3>6. content' = [content EXCEPT ![k] = v]
      BY <2>6, <3>4
    <3>7. Store!Update(p, k, v)
      BY <3>5, <3>6 DEF Store!Update
    <3> QED
      BY <3>7 DEF Store!Next
  <2>10. CASE DiskRead(p)
    <3>1. ~valid[b] /\ valid' = valid /\ disk' = disk /\ owner' = owner
      BY <2>1, <2>10 DEF DiskRead
    <3> QED
      BY <1>a, <2>6, <3>1
  <2>11. CASE BreadFill(p)
    <3>1. ~valid[b] /\ data[b] = disk[k]
      BY <2>1, <2>2, <2>11 DEF BreadFill, At, IInv, ValidInUse
    <3>2. valid'[b] /\ data' = data /\ owner' = owner
      BY <2>1, <2>11 DEF BreadFill, IInv, TypeOK
    <3> QED
      BY <1>a, <2>6, <3>1, <3>2
  <2>12. CASE Bwrite(p)
    <3>1. valid[b]
      BY <2>1, <2>12 DEF Bwrite, At, IInv, ValidInUse
    <3>2. valid' = valid /\ data' = data /\ owner' = owner
      BY <2>12 DEF Bwrite, cacheVars
    <3> QED
      BY <1>a, <2>6, <3>1, <3>2
  <2> QED
    BY <1>3, <2>7, <2>8, <2>9, <2>10, <2>11, <2>12
<1>4. ASSUME NEW p \in Procs, NEW k \in Blocks,
             BgetHit(p, k) \/ BgetPanic(p, k)
      PROVE  UNCHANGED Store!vars
  BY <1>1, <1>4 DEF BgetHit, BgetPanic, cacheVars
<1>5. ASSUME NEW p \in Procs,
             SleepOnLock(p) \/ KillSleeper(p) \/ BreadValid(p) \/ BrelseUnref(p)
      PROVE  UNCHANGED Store!vars
  BY <1>1, <1>5 DEF SleepOnLock, KillSleeper, BreadValid, BrelseUnref, cacheVars
<1>6. CASE UNCHANGED vars
  BY <1>1, <1>6 DEF vars
<1> QED
  BY <1>2, <1>3, <1>4, <1>5, <1>6 DEF Next, Step, CopyinFault

\* The cache implements BlockStore: with copies from user space that do not
\* fail, no recycling, no race for a buffer and no lock hand-over ever shows
\* a caller anything but the last value stored in the block.
THEOREM CacheIsStore == ~CopyinFaults => (Spec => StoreSpec)
<1> SUFFICES ASSUME ~CopyinFaults PROVE Spec => StoreSpec
  OBVIOUS
<1>1. Init => Store!Init
  <2> SUFFICES ASSUME Init PROVE Store!Init
    OBVIOUS
  <2>1. \A k \in Blocks : \A b \in Bufs : block[b] # k
    BY SetsAssumption DEF Init
  <2>2. \A k \in Blocks : ContentOf(k) = disk[k] /\ HolderOf(k) = NoProc
    BY <2>1 DEF ContentOf, HolderOf
  <2> QED
    BY <2>2 DEF Init, Store!Init
<1>2. IInv /\ IInv' /\ CacheMatchesDisk /\ [Next]_vars
        => [Store!Next]_(Store!vars)
  BY StoreStep
<1> QED
  BY <1>1, <1>2, Invariance, Coherence, PTL DEF Spec, StoreSpec, Store!Spec
=============================================================================
