-------------------------- MODULE EntryCacheProofs --------------------------
(***************************************************************************)
(* Proofs about EntryCache.tla, for any number of processes and slots, any *)
(* files and any system calls: while eget() leaves alone the entries that  *)
(* are in their last eput() (~PutRace), the reference counts are exact,    *)
(* parent pointers and names can be trusted, nothing is lost by an eput(), *)
(* and neither elock() nor eput() meets its panic.                         *)
(*                                                                         *)
(* The inductive step works with ep->ref as a sum of counts, one for each  *)
(* variable that can point to an entry: a step of a process changes few of *)
(* them, and by how much is a matter of arithmetic.  RefsCounted goes from *)
(* the sum back to the set that RefExact counts.                           *)
(***************************************************************************)
EXTENDS EntryCache, Arithmetic

\* eput(): the argument, while it still counts.
PutArg == [q \in Procs |-> IF pc[q] = "putcheck" THEN None ELSE pe[q]]

\* The directory of which an entry in use has a reference.
ChildOf == [t \in Slots |-> IF ref[t] > 0 /\ valid[t] # 0 THEN parent[t] ELSE None]

\* The references of an entry, variable by variable.
RefSum(e) ==
  Count(Procs, cur, e) + Count(Procs, ep, e) + Count(Procs, fd, e) + Count(Procs, PutArg, e)
    + Count(Procs, pp, e) + (IF e = Root THEN Cardinality(Procs) ELSE 0) + Count(Slots, ChildOf, e)

RefsAreSum == \A e \in Entries : ref[e] = RefSum(e)

\* Seven disjoint sets, told apart by the mark of their elements, have as many
\* elements as the sum says.
LEMMA SevenMarks ==
  ASSUME NEW A1, NEW A2, NEW A3, NEW A4, NEW A5, NEW A6, NEW A7,
         IsFiniteSet(A1), IsFiniteSet(A2), IsFiniteSet(A3), IsFiniteSet(A4), IsFiniteSet(A5),
         IsFiniteSet(A6), IsFiniteSet(A7)
  PROVE  Cardinality(Tagged(A1, "cur") \cup Tagged(A2, "ep") \cup Tagged(A3, "fd") \cup
                     Tagged(A4, "pe") \cup Tagged(A5, "pp") \cup Tagged(A6, "cwd") \cup
                     Tagged(A7, "child"))
         = Cardinality(A1) + Cardinality(A2) + Cardinality(A3) + Cardinality(A4) + Cardinality(A5)
             + Cardinality(A6) + Cardinality(A7)
<1> DEFINE U1 == Tagged(A1, "cur")
           U2 == U1 \cup Tagged(A2, "ep")
           U3 == U2 \cup Tagged(A3, "fd")
           U4 == U3 \cup Tagged(A4, "pe")
           U5 == U4 \cup Tagged(A5, "pp")
           U6 == U5 \cup Tagged(A6, "cwd")
           U7 == U6 \cup Tagged(A7, "child")
<1>1. IsFiniteSet(U1) /\ Cardinality(U1) = Cardinality(A1)
  BY TaggedCount
<1>2. /\ \A x \in U1 : x[2] # "ep"
      /\ \A x \in U2 : x[2] # "fd"
      /\ \A x \in U3 : x[2] # "pe"
      /\ \A x \in U4 : x[2] # "pp"
      /\ \A x \in U5 : x[2] # "cwd"
      /\ \A x \in U6 : x[2] # "child"
  BY DEF Tagged
<1>3. IsFiniteSet(U2) /\ Cardinality(U2) = Cardinality(U1) + Cardinality(A2)
  <2> HIDE DEF U1
  <2> QED BY <1>1, <1>2, TaggedApart
<1>4. IsFiniteSet(U3) /\ Cardinality(U3) = Cardinality(U2) + Cardinality(A3)
  <2> HIDE DEF U2
  <2> QED BY <1>3, <1>2, TaggedApart
<1>5. IsFiniteSet(U4) /\ Cardinality(U4) = Cardinality(U3) + Cardinality(A4)
  <2> HIDE DEF U3
  <2> QED BY <1>4, <1>2, TaggedApart
<1>6. IsFiniteSet(U5) /\ Cardinality(U5) = Cardinality(U4) + Cardinality(A5)
  <2> HIDE DEF U4
  <2> QED BY <1>5, <1>2, TaggedApart
<1>7. IsFiniteSet(U6) /\ Cardinality(U6) = Cardinality(U5) + Cardinality(A6)
  <2> HIDE DEF U5
  <2> QED BY <1>6, <1>2, TaggedApart
<1>8. IsFiniteSet(U7) /\ Cardinality(U7) = Cardinality(U6) + Cardinality(A7)
  <2> HIDE DEF U6
  <2> QED BY <1>7, <1>2, TaggedApart
<1>9. Cardinality(U7) = Cardinality(A1) + Cardinality(A2) + Cardinality(A3) + Cardinality(A4)
                          + Cardinality(A5) + Cardinality(A6) + Cardinality(A7)
  <2> HIDE DEF U1, U2, U3, U4, U5, U6, U7
  <2> QED BY <1>1, <1>3, <1>4, <1>5, <1>6, <1>7, <1>8
<1> QED
  BY <1>9

\* What Refs() counts is the sum of the variables that point to the entry.
LEMMA RefsCounted ==
  ASSUME EntryTypeOK
  PROVE  RefExact <=> RefsAreSum
<1> SUFFICES ASSUME NEW e \in Entries PROVE Cardinality(Refs(e)) = RefSum(e)
  BY DEF RefExact, RefsAreSum
<1> DEFINE A1 == {q \in Procs : cur[q] = e}
           A2 == {q \in Procs : ep[q] = e}
           A3 == {q \in Procs : fd[q] = e}
           A4 == {q \in Procs : pe[q] = e /\ pc[q] # "putcheck"}
           A5 == {q \in Procs : pp[q] = e}
           A6 == IF e = Root THEN Procs ELSE {}
           A7 == {t \in Slots : parent[t] = e /\ ref[t] > 0 /\ valid[t] # 0}
<1>1. /\ IsFiniteSet(A1) /\ IsFiniteSet(A2) /\ IsFiniteSet(A3) /\ IsFiniteSet(A4)
      /\ IsFiniteSet(A5) /\ IsFiniteSet(A6) /\ IsFiniteSet(A7)
  BY EntryAssumption, FS_Subset, FS_EmptySet
<1>2. Refs(e) = Tagged(A1, "cur") \cup Tagged(A2, "ep") \cup Tagged(A3, "fd") \cup
                Tagged(A4, "pe") \cup Tagged(A5, "pp") \cup Tagged(A6, "cwd") \cup
                Tagged(A7, "child")
  BY DEF Refs, Tagged
<1>3. Cardinality(Refs(e)) = Cardinality(A1) + Cardinality(A2) + Cardinality(A3) + Cardinality(A4)
                               + Cardinality(A5) + Cardinality(A6) + Cardinality(A7)
  <2> HIDE DEF A1, A2, A3, A4, A5, A6, A7
  <2> QED BY <1>1, <1>2, SevenMarks
<1>4. A4 = {q \in Procs : PutArg[q] = e}
  BY EntryAssumption DEF PutArg, EntryTypeOK
<1>5. A7 = {t \in Slots : ChildOf[t] = e}
  BY EntryAssumption DEF ChildOf, EntryTypeOK
<1>6. Cardinality(A6) = IF e = Root THEN Cardinality(Procs) ELSE 0
  BY FS_EmptySet
<1> QED
  BY <1>3, <1>4, <1>5, <1>6 DEF RefSum, Count

\* The inductive invariant with the references as a sum.
Inv ==
  /\ EntryTypeOK /\ ListLinked /\ RootStays /\ PointersUsed /\ WalkedSoFar
  /\ OnItsPath /\ LocksWhere /\ LocksWhose /\ LastPutAlone /\ PointersValid
  /\ EntryFilled /\ NotThereYet /\ StillEmpty /\ ParentsFirst
  /\ RefsAreSum /\ ParentIsParent /\ OneEntryPerFile

\* Process p refers to entry e.
RefersTo(q, e) ==
  cur[q] = e \/ ep[q] = e \/ fd[q] = e \/ pp[q] = e \/ (pe[q] = e /\ pc[q] # "putcheck")
PointsTo(q, e) == cur[q] = e \/ fd[q] = e \/ pp[q] = e
InUse(t) == ref[t] > 0 /\ valid[t] # 0

\* Whoever refers to an entry is counted.
Counted ==
  \A e \in Entries :
    /\ \A q \in Procs : RefersTo(q, e) => ref[e] >= 1
    /\ \A t \in Slots : InUse(t) /\ parent[t] = e => ref[e] >= 1

\* The argument of eput() with the last reference is nobody else's.
PutAlone ==
  \A p \in Procs : pc[p] \in Putting \ {"putcheck"} /\ ref[pe[p]] = 1 =>
    /\ pe[p] # Root
    /\ \A q \in Procs : /\ ~PointsTo(q, pe[p]) /\ ep[q] # pe[p]
                        /\ q # p /\ pc[q] # "putcheck" => pe[q] # pe[p]
    /\ \A t \in Slots : InUse(t) => parent[t] # pe[p]

\* An entry that is being filled in is nobody else's.
FillAlone ==
  \A p \in Procs : pc[p] \in {"scan", "emake"} =>
    /\ \A q \in Procs : /\ ~PointsTo(q, ep[p]) /\ (pc[q] # "putcheck" => pe[q] # ep[p])
                        /\ q # p => ep[q] # ep[p]
    /\ \A t \in Slots : InUse(t) => parent[t] # ep[p]

\* The terms of the sum, and that those with a 1 in them are positive.
Terms(e) ==
    /\ Count(Procs, cur, e) \in Nat /\ Count(Procs, ep, e) \in Nat /\ Count(Procs, fd, e) \in Nat
    /\ Count(Procs, PutArg, e) \in Nat /\ Count(Procs, pp, e) \in Nat
    /\ Count(Slots, ChildOf, e) \in Nat /\ Cardinality(Procs) \in Nat
    /\ \A q \in Procs : /\ cur[q] = e => Count(Procs, cur, e) >= 1
                        /\ ep[q] = e => Count(Procs, ep, e) >= 1
                        /\ fd[q] = e => Count(Procs, fd, e) >= 1
                        /\ pp[q] = e => Count(Procs, pp, e) >= 1
                        /\ pe[q] = e /\ pc[q] # "putcheck" => Count(Procs, PutArg, e) >= 1
                        /\ Cardinality(Procs) >= 1
    /\ \A t \in Slots : InUse(t) /\ parent[t] = e => Count(Slots, ChildOf, e) >= 1

\* The terms of the sum are numbers; a pointer to the entry makes its term
\* positive.
LEMMA TermsType ==
  ASSUME NEW e \in Entries
  PROVE  Terms(e)
<1> USE EntryAssumption
<1>1. /\ Count(Procs, cur, e) \in Nat /\ Count(Procs, ep, e) \in Nat /\ Count(Procs, fd, e) \in Nat
      /\ Count(Procs, PutArg, e) \in Nat /\ Count(Procs, pp, e) \in Nat
      /\ Count(Slots, ChildOf, e) \in Nat
  BY CountType
<1>2. /\ Count(Procs, cur, e) = 0 => \A q \in Procs : cur[q] # e
      /\ Count(Procs, ep, e) = 0 => \A q \in Procs : ep[q] # e
      /\ Count(Procs, fd, e) = 0 => \A q \in Procs : fd[q] # e
      /\ Count(Procs, pp, e) = 0 => \A q \in Procs : pp[q] # e
  BY CountType
<1>3. Count(Procs, PutArg, e) = 0 => \A q \in Procs : pc[q] # "putcheck" => pe[q] # e
  <2>1. Count(Procs, PutArg, e) = 0 => \A q \in Procs : PutArg[q] # e
    BY CountType
  <2> QED
    BY <2>1 DEF PutArg
<1>4. Count(Slots, ChildOf, e) = 0 => \A t \in Slots : InUse(t) => parent[t] # e
  <2>1. Count(Slots, ChildOf, e) = 0 => \A t \in Slots : ChildOf[t] # e
    BY CountType
  <2> QED
    BY <2>1 DEF ChildOf, InUse
<1>5. Cardinality(Procs) \in Nat /\ (Cardinality(Procs) = 0 => Procs = {})
  BY FS_CardinalityType, FS_EmptySet
<1> QED
  BY <1>1, <1>2, <1>3, <1>4, <1>5 DEF Terms

\* Whoever refers to an entry is counted in its ep->ref.
LEMMA InvCounted == Inv => Counted
<1> SUFFICES ASSUME Inv, NEW e \in Entries
             PROVE  /\ \A q \in Procs : RefersTo(q, e) => ref[e] >= 1
                    /\ \A t \in Slots : InUse(t) /\ parent[t] = e => ref[e] >= 1
  BY DEF Counted
<1>1. ref[e] = RefSum(e)
  BY DEF Inv, RefsAreSum
<1>2. Terms(e)
  BY TermsType
<1> QED
  BY <1>1, <1>2 DEF RefSum, Terms, RefersTo

\* "ref == 1 means no other process can have entry locked": the sum has one
\* term, and it is the argument of this eput().
LEMMA InvPutAlone == Inv => PutAlone
<1> SUFFICES ASSUME Inv, NEW p \in Procs, pc[p] \in Putting \ {"putcheck"}, ref[pe[p]] = 1
             PROVE  /\ pe[p] # Root
                    /\ \A q \in Procs : /\ ~PointsTo(q, pe[p]) /\ ep[q] # pe[p]
                                        /\ q # p /\ pc[q] # "putcheck" => pe[q] # pe[p]
                    /\ \A t \in Slots : InUse(t) => parent[t] # pe[p]
  BY DEF PutAlone
<1> USE EntryAssumption
<1> DEFINE e == pe[p]
<1>1. e \in Entries
  BY DEF Inv, PointersUsed, EntryTypeOK
<1>2. ref[e] = RefSum(e)
  BY <1>1 DEF Inv, RefsAreSum
<1>3. Terms(e)
  BY <1>1, TermsType
<1>4. pc[p] # "putcheck" /\ e = pe[p] /\ ref[e] = 1
  OBVIOUS
<1> HIDE DEF e
<1>7. Count(Procs, PutArg, e) >= 1 /\ Cardinality(Procs) >= 1
  BY <1>3, <1>4 DEF Terms
<1>8. /\ e # Root /\ Count(Procs, PutArg, e) = 1
      /\ Count(Procs, cur, e) = 0 /\ Count(Procs, ep, e) = 0 /\ Count(Procs, fd, e) = 0
      /\ Count(Procs, pp, e) = 0 /\ Count(Slots, ChildOf, e) = 0
  BY <1>2, <1>3, <1>4, <1>7 DEF RefSum, Terms
<1>5. /\ e # Root /\ Count(Procs, PutArg, e) = 1
      /\ \A q \in Procs : ~PointsTo(q, e) /\ ep[q] # e
      /\ \A t \in Slots : InUse(t) => parent[t] # e
  BY <1>3, <1>8 DEF Terms, PointsTo
<1>6. ASSUME NEW q \in Procs, q # p, pc[q] # "putcheck" PROVE pe[q] # e
  <2>1. PutArg[p] = e /\ (pe[q] = e => PutArg[q] = e)
    BY <1>4, <1>6 DEF PutArg
  <2> QED
    BY <1>5, <1>6, <2>1, CountOne
<1> QED
  BY <1>4, <1>5, <1>6

\* The entry that eget() has just recycled belongs to one process.
LEMMA InvFillAlone == Inv => FillAlone
<1> SUFFICES ASSUME Inv, NEW p \in Procs, pc[p] \in {"scan", "emake"}
             PROVE  /\ \A q \in Procs : /\ ~PointsTo(q, ep[p])
                                        /\ (pc[q] # "putcheck" => pe[q] # ep[p])
                                        /\ q # p => ep[q] # ep[p]
                    /\ \A t \in Slots : InUse(t) => parent[t] # ep[p]
  BY DEF FillAlone
<1> USE EntryAssumption
<1> DEFINE e == ep[p]
<1>1. e \in Entries /\ ref[e] = 1
  BY DEF Inv, PointersUsed, PointersValid, EntryTypeOK, Entries
<1>2. ref[e] = RefSum(e)
  BY <1>1 DEF Inv, RefsAreSum
<1>3. Terms(e)
  BY <1>1, TermsType
<1>4. e = ep[p]
  OBVIOUS
<1> HIDE DEF e
<1>5. /\ Count(Procs, ep, e) = 1
      /\ \A q \in Procs : ~PointsTo(q, e) /\ (pc[q] # "putcheck" => pe[q] # e)
      /\ \A t \in Slots : InUse(t) => parent[t] # e
  BY <1>1, <1>2, <1>3, <1>4 DEF RefSum, Terms, PointsTo
<1>6. ASSUME NEW q \in Procs, q # p PROVE ep[q] # e
  BY <1>4, <1>5, <1>6, CountOne
<1> QED
  BY <1>4, <1>5, <1>6

\* Paths and their names.
LEMMA SubSeqs ==
  ASSUME NEW g \in Paths
  PROVE  /\ g \in Seq(Names) /\ Len(g) \in 1..2 /\ g # <<>>
         /\ SubSeq(g, 1, 0) = <<>>
         /\ SubSeq(g, 1, Len(g)) = g
         /\ SubSeq(g, 1, 1) # <<>>
         /\ Append(SubSeq(g, 1, 0), g[1]) = SubSeq(g, 1, 1)
         /\ Len(g) = 2 => Append(SubSeq(g, 1, 1), g[2]) = SubSeq(g, 1, 2)
         /\ Append(Parent(g), g[Len(g)]) = g
         /\ Len(g) = 2 => Parent(g) = SubSeq(g, 1, 1) /\ Parent(g) \in Paths
         /\ Len(g) = 1 => Parent(g) = <<>>
<1>1. g \in Seq(Names) /\ Len(g) \in 1..2
  BY EntryAssumption
<1>2. Len(g) = 2 => Parent(g) \in Paths
  BY EntryAssumption
<1>3. g # <<>> /\ SubSeq(g, 1, 0) = <<>> /\ SubSeq(g, 1, Len(g)) = g
  BY <1>1
<1>4. Append(SubSeq(g, 1, 0), g[1]) = SubSeq(g, 1, 1) /\ Len(SubSeq(g, 1, 1)) = 1
  BY <1>1
<1>5. ASSUME Len(g) = 2
      PROVE  /\ Append(SubSeq(g, 1, 1), g[2]) = SubSeq(g, 1, 2)
             /\ Parent(g) = SubSeq(g, 1, 1)
             /\ Append(Parent(g), g[Len(g)]) = g
  BY <1>1, <1>5 DEF Parent
<1>6. ASSUME Len(g) = 1
      PROVE  Parent(g) = <<>> /\ Append(Parent(g), g[Len(g)]) = g
  BY <1>1, <1>6 DEF Parent
<1>7. Len(g) = 1 \/ Len(g) = 2
  BY <1>1
<1>8. SubSeq(g, 1, 1) # <<>>
  <2>1. Len(<<>>) = 0
    OBVIOUS
  <2>2. SubSeq(g, 1, 1) = <<>> => Len(SubSeq(g, 1, 1)) = Len(<<>>)
    BY Zenon
  <2>3. 0 # 1
    OBVIOUS
  <2> QED
    BY <1>4, <2>1, <2>2, <2>3, Zenon
<1> QED
  BY <1>1, <1>2, <1>3, <1>4, <1>5, <1>6, <1>7, <1>8

\* The directory, the last name and the depth of a path.
LEMMA Appends ==
  ASSUME NEW n \in Paths \cup {<<>>}, NEW x \in Names
  PROVE  /\ Parent(Append(n, x)) = n /\ Append(n, x)[Len(Append(n, x))] = x
         /\ Len(Append(n, x)) = Len(n) + 1
<1>1. n \in Seq(Names)
  <2>1. <<>> \in Seq(Names)
    OBVIOUS
  <2> QED
    BY <2>1, EntryAssumption
<1> QED
  BY <1>1 DEF Parent

\* What a process that walks asks the directory for.
Asking ==
  \A p \in Procs : Place(p) \in Walking =>
    /\ cur[p] \in Entries /\ goal[p] \in Paths
    /\ done[p] \in {0, 1} /\ done[p] + 1 <= Len(goal[p])
    /\ goal[p][done[p] + 1] \in Names
    /\ Child(p) = SubSeq(goal[p], 1, done[p] + 1)
    /\ Parent(Child(p)) = node[cur[p]] /\ Len(Child(p)) = Len(node[cur[p]]) + 1
    /\ Child(p)[Len(Child(p))] = goal[p][done[p] + 1]
    /\ AtParent(p) => Child(p) \in Paths
    /\ done[p] + 1 = Depth(p) => Child(p) \in Paths

\* A process that has found its file has an entry of the cache.
FoundSlot == \A p \in Procs : Place(p) \in Reached => cur[p] \in Slots

\* A valid entry is the only one of its file, and not its own parent.
Identity ==
  /\ \A e, f \in Entries : valid[e] = 1 /\ valid[f] = 1 /\ node[e] = node[f] => e = f
  /\ \A s \in Slots : valid[s] = 1 => parent[s] # s

\* eget() stops at the entry of the file that is asked for, and only there.
Matches ==
  \A p \in Procs : pc[p] \in {"look", "make", "scan", "alloc", "emake"} /\ valid[cur[p]] = 1 =>
    \A s \in Slots : s \in Matching(p) <=> (valid[s] = 1 /\ node[s] = Child(p))

\* The null pointer is no entry and no process.
LEMMA Nulls == None \notin Entries /\ None \notin Procs /\ Root \notin Slots
  BY EntryAssumption

\* What a process looks for is a path below the directory that it has locked.
LEMMA InvAsking == Inv => Asking
<1> SUFFICES ASSUME Inv, NEW p \in Procs, Place(p) \in Walking
             PROVE
    /\ cur[p] \in Entries /\ goal[p] \in Paths
    /\ done[p] \in {0, 1} /\ done[p] + 1 <= Len(goal[p])
    /\ goal[p][done[p] + 1] \in Names
    /\ Child(p) = SubSeq(goal[p], 1, done[p] + 1)
    /\ Parent(Child(p)) = node[cur[p]] /\ Len(Child(p)) = Len(node[cur[p]]) + 1
    /\ Child(p)[Len(Child(p))] = goal[p][done[p] + 1]
    /\ AtParent(p) => Child(p) \in Paths
    /\ done[p] + 1 = Depth(p) => Child(p) \in Paths
  BY DEF Asking
<1> USE Nulls
<1>1. cur[p] \in Entries /\ goal[p] \in Paths
  BY DEF Inv, EntryTypeOK, PointersUsed, WalkedSoFar
<1>2. goal[p] \in Seq(Names) /\ Len(goal[p]) \in 1..2
  BY <1>1, SubSeqs
<1>3. done[p] \in Nat /\ done[p] < Depth(p) /\ Depth(p) <= Len(goal[p])
  <2>1. done[p] \in Nat /\ done[p] < Depth(p)
    BY DEF Inv, EntryTypeOK, WalkedSoFar
  <2>2. Depth(p) <= Len(goal[p])
    BY <1>2 DEF Depth
  <2> QED
    BY <2>1, <2>2
<1>4. done[p] \in {0, 1} /\ done[p] + 1 <= Len(goal[p])
  <2>1. Depth(p) \in Int
    BY <1>2 DEF Depth
  <2>2. Len(goal[p]) \in 1..2
    BY <1>2
  <2>3. \A d \in Nat, m \in Int, n \in 1..2 : d < m /\ m <= n => d \in {0, 1} /\ d + 1 <= n
    OBVIOUS
  <2> QED
    BY ONLY <1>3, <2>1, <2>2, <2>3
<1>5. goal[p][done[p] + 1] \in Names
  BY <1>2, <1>4
<1>6. node[cur[p]] = SubSeq(goal[p], 1, done[p]) /\ node[cur[p]] \in Paths \cup {<<>>}
  BY <1>1 DEF Inv, EntryTypeOK, OnItsPath
<1>7. Child(p) = Append(node[cur[p]], goal[p][done[p] + 1])
  BY DEF Child
<1>8. Child(p) = SubSeq(goal[p], 1, done[p] + 1)
  <2>1. CASE done[p] = 0
    BY <1>1, <1>6, <1>7, <2>1, SubSeqs
  <2>2. CASE done[p] = 1
    <3>1. Len(goal[p]) \in 1..2 /\ 2 <= Len(goal[p])
      BY <1>2, <1>4, <2>2
    <3>2. Len(goal[p]) = 2
      BY ONLY <3>1
    <3> QED
      BY <1>1, <1>6, <1>7, <2>2, <3>2, SubSeqs
  <2> QED
    BY <1>4, <2>1, <2>2
<1>9. /\ Parent(Child(p)) = node[cur[p]] /\ Len(Child(p)) = Len(node[cur[p]]) + 1
      /\ Child(p)[Len(Child(p))] = goal[p][done[p] + 1]
  <2> DEFINE c == Append(node[cur[p]], goal[p][done[p] + 1])
  <2>1. /\ Parent(c) = node[cur[p]] /\ Len(c) = Len(node[cur[p]]) + 1
        /\ c[Len(c)] = goal[p][done[p] + 1]
    BY <1>5, <1>6, Appends
  <2> QED
    BY <1>7, <2>1, Zenon
<1>10. ASSUME done[p] + 1 = Depth(p) PROVE Child(p) \in Paths
  <2>1. CASE op[p] = "mkparent"
    <3>1. Len(goal[p]) = 2
      BY <2>1 DEF Inv, WalkedSoFar
    <3>2. Child(p) = SubSeq(goal[p], 1, 1)
      BY <1>8, <1>10, <2>1, <3>1 DEF Depth
    <3>3. SubSeq(goal[p], 1, 1) \in Paths
      BY <1>1, <3>1, SubSeqs
    <3> QED
      BY <3>2, <3>3, Zenon
  <2>2. CASE op[p] # "mkparent"
    <3>1. SubSeq(goal[p], 1, done[p] + 1) = SubSeq(goal[p], 1, Len(goal[p]))
      BY <1>10, <2>2 DEF Depth
    <3>2. SubSeq(goal[p], 1, done[p] + 1) = goal[p]
      BY <1>1, <3>1, SubSeqs
    <3> QED
      BY <1>1, <1>8, <3>2, Zenon
  <2> QED
    BY <2>1, <2>2
<1>11. AtParent(p) => done[p] + 1 = Depth(p)
  BY DEF AtParent
<1> QED
  BY <1>1, <1>4, <1>5, <1>8, <1>9, <1>10, <1>11

\* A process on a walk, or behind one, points to an entry.
LEMMA CurIsEntry ==
  ASSUME Inv, NEW p \in Procs, pc[p] \in Walking \cup Reached
  PROVE  cur[p] \in Entries /\ Place(p) = pc[p]
<1>1. pc[p] \notin Putting
  BY DEF Putting, LastPut, Walking, Reached
<1>2. Place(p) = pc[p]
  BY <1>1 DEF Place
<1>3. cur[p] # None
  BY <1>2 DEF Inv, PointersUsed
<1> QED
  BY <1>2, <1>3 DEF Inv, EntryTypeOK

\* A walk ends at a slot, never at the root.
LEMMA InvFoundSlot == Inv => FoundSlot
<1> SUFFICES ASSUME Inv, NEW p \in Procs, Place(p) \in Reached
             PROVE  cur[p] \in Slots
  BY DEF FoundSlot
<1> USE Nulls
<1>1. cur[p] \in Entries /\ goal[p] \in Paths /\ done[p] = Depth(p)
  BY DEF Inv, EntryTypeOK, PointersUsed, WalkedSoFar
<1>2. Len(goal[p]) \in 1..2 /\ (op[p] = "mkparent" => Len(goal[p]) = 2)
  BY <1>1, SubSeqs DEF Inv, WalkedSoFar
<1>3. SubSeq(goal[p], 1, done[p]) # <<>>
  <2>1. CASE done[p] = 1
    BY <1>1, <2>1, SubSeqs
  <2>2. CASE done[p] # 1
    <3>1. done[p] = Len(goal[p])
      BY <1>1, <1>2, <2>2 DEF Depth
    <3> QED
      BY <1>1, <3>1, SubSeqs
  <2> QED
    BY <2>1, <2>2
<1>4. node[cur[p]] = SubSeq(goal[p], 1, done[p]) /\ node[Root] = <<>>
  BY DEF Inv, OnItsPath, RootStays
<1>5. cur[p] # Root
  BY <1>3, <1>4
<1> QED
  BY <1>1, <1>5 DEF Entries

\* A cached entry is one of the files of the disk, below its directory.
LEMMA InvIdentity == Inv => Identity
<1> SUFFICES ASSUME Inv PROVE Identity
  OBVIOUS
<1> USE Nulls
<1>1. ASSUME NEW s \in Slots, valid[s] = 1
      PROVE  node[s] \in Paths /\ node[s] # <<>> /\ parent[s] # s
  <2>1. node[s] \in Paths
    BY <1>1 DEF Inv, EntryFilled
  <2>2. node[s] # <<>> /\ Len(node[s]) \in 1..2
    BY <2>1, SubSeqs
  <2>3. node[parent[s]] = Parent(node[s])
    BY <1>1 DEF Inv, ParentIsParent
  <2>4. Parent(node[s]) # node[s]
    <3>1. CASE Len(node[s]) = 1
      BY <2>1, <2>2, <3>1, SubSeqs
    <3>2. CASE Len(node[s]) = 2
      <4>1. node[s] \in Seq(Names) /\ Parent(node[s]) = SubSeq(node[s], 1, 1)
        BY <2>1, <3>2, SubSeqs
      <4>2. Len(Parent(node[s])) = 1
        BY <3>2, <4>1
      <4> QED
        BY <3>2, <4>2
    <3> QED
      BY <2>2, <3>1, <3>2
  <2> QED
    BY <2>1, <2>2, <2>3, <2>4
<1>2. ASSUME NEW e \in Entries, NEW f \in Entries, valid[e] = 1, valid[f] = 1, node[e] = node[f]
      PROVE  e = f
  BY <1>1, <1>2 DEF Inv, RootStays, OneEntryPerFile, Entries
<1> QED
  BY <1>1, <1>2 DEF Identity

\* eget() compares the parent and the last name: that is the whole path.
LEMMA InvMatches == Inv => Matches
<1> SUFFICES ASSUME Inv, NEW p \in Procs, pc[p] \in {"look", "make", "scan", "alloc", "emake"},
                    valid[cur[p]] = 1, NEW s \in Slots
             PROVE  s \in Matching(p) <=> (valid[s] = 1 /\ node[s] = Child(p))
  BY DEF Matches
<1> USE Nulls
<1>1. Place(p) \in Walking
  BY DEF Place, Walking, Putting, LastPut
<1>2. /\ cur[p] \in Entries /\ Parent(Child(p)) = node[cur[p]]
      /\ Child(p)[Len(Child(p))] = goal[p][done[p] + 1]
      /\ Child(p) = Append(node[cur[p]], goal[p][done[p] + 1])
  BY <1>1, InvAsking DEF Asking, Child
<1>3. ASSUME valid[s] = 1
      PROVE  /\ parent[s] \in Entries /\ valid[parent[s]] = 1 /\ node[parent[s]] = Parent(node[s])
             /\ Append(Parent(node[s]), node[s][Len(node[s])]) = node[s]
  <2>1. node[s] \in Paths
    BY <1>3 DEF Inv, EntryFilled
  <2> QED
    BY <1>3, <2>1, SubSeqs DEF Inv, ParentIsParent
<1>4. ASSUME s \in Matching(p) PROVE valid[s] = 1 /\ node[s] = Child(p)
  <2>1. valid[s] = 1 /\ parent[s] = cur[p] /\ node[s][Len(node[s])] = goal[p][done[p] + 1]
    BY <1>4 DEF Matching
  <2> QED
    BY <1>2, <1>3, <2>1
<1>5. ASSUME valid[s] = 1, node[s] = Child(p) PROVE s \in Matching(p)
  <2>1. parent[s] = cur[p]
    BY <1>2, <1>3, <1>5, InvIdentity DEF Identity
  <2> QED
    BY <1>2, <1>5, <2>1 DEF Matching
<1> QED
  BY <1>4, <1>5

One(a, b) == IF a = b THEN 1 ELSE 0

\* A step of process p changes no reference of another process.
OthersKeep(p) ==
  \A q \in Procs \ {p} : /\ cur'[q] = cur[q] /\ ep'[q] = ep[q] /\ fd'[q] = fd[q]
                         /\ PutArg'[q] = PutArg[q] /\ pp'[q] = pp[q]

\* What it adds to the references of e through the variables of p.
Moved(p, e) ==
  One(cur'[p], e) - One(cur[p], e) + One(ep'[p], e) - One(ep[p], e) + One(fd'[p], e) - One(fd[p], e)
    + One(PutArg'[p], e) - One(PutArg[p], e) + One(pp'[p], e) - One(pp[p], e)

\* A step of process p changes each term of the sum by what p picks up and
\* puts down.
LEMMA ProcCounts ==
  ASSUME NEW p \in Procs, OthersKeep(p), NEW e \in Entries
  PROVE  RefSum(e)' = RefSum(e) + Moved(p, e) + Count(Slots, ChildOf', e) - Count(Slots, ChildOf, e)
                      /\ RefSum(e) \in Nat /\ Moved(p, e) \in Int
                      /\ Count(Slots, ChildOf', e) \in Nat
                      /\ Count(Slots, ChildOf, e) \in Nat
<1>a. IsFiniteSet(Procs) /\ IsFiniteSet(Slots)
  BY EntryAssumption
<1>2. Count(Procs, cur', e) = Count(Procs, cur, e) - One(cur[p], e) + One(cur'[p], e)
  <2>1. \A x \in Procs \ {p} : cur'[x] = cur[x]
    BY DEF OthersKeep
  <2>2. Count(Procs, cur', e) = Count(Procs, cur, e) - (IF cur[p] = e THEN 1 ELSE 0)
                                  + (IF cur'[p] = e THEN 1 ELSE 0)
    BY ONLY <1>a, <2>1, CountExcept, p \in Procs
  <2> QED
    BY <2>2 DEF One
<1>3. Count(Procs, ep', e) = Count(Procs, ep, e) - One(ep[p], e) + One(ep'[p], e)
  <2>1. \A x \in Procs \ {p} : ep'[x] = ep[x]
    BY DEF OthersKeep
  <2>2. Count(Procs, ep', e) = Count(Procs, ep, e) - (IF ep[p] = e THEN 1 ELSE 0)
                                  + (IF ep'[p] = e THEN 1 ELSE 0)
    BY ONLY <1>a, <2>1, CountExcept, p \in Procs
  <2> QED
    BY <2>2 DEF One
<1>4. Count(Procs, fd', e) = Count(Procs, fd, e) - One(fd[p], e) + One(fd'[p], e)
  <2>1. \A x \in Procs \ {p} : fd'[x] = fd[x]
    BY DEF OthersKeep
  <2>2. Count(Procs, fd', e) = Count(Procs, fd, e) - (IF fd[p] = e THEN 1 ELSE 0)
                                  + (IF fd'[p] = e THEN 1 ELSE 0)
    BY ONLY <1>a, <2>1, CountExcept, p \in Procs
  <2> QED
    BY <2>2 DEF One
<1>5. Count(Procs, PutArg', e) = Count(Procs, PutArg, e) - One(PutArg[p], e) + One(PutArg'[p], e)
  <2>1. \A x \in Procs \ {p} : PutArg'[x] = PutArg[x]
    BY DEF OthersKeep
  <2>2. Count(Procs, PutArg', e) = Count(Procs, PutArg, e) - (IF PutArg[p] = e THEN 1 ELSE 0)
                                  + (IF PutArg'[p] = e THEN 1 ELSE 0)
    BY ONLY <1>a, <2>1, CountExcept, p \in Procs
  <2> QED
    BY <2>2 DEF One
<1>6. Count(Procs, pp', e) = Count(Procs, pp, e) - One(pp[p], e) + One(pp'[p], e)
  <2>1. \A x \in Procs \ {p} : pp'[x] = pp[x]
    BY DEF OthersKeep
  <2>2. Count(Procs, pp', e) = Count(Procs, pp, e) - (IF pp[p] = e THEN 1 ELSE 0)
                                  + (IF pp'[p] = e THEN 1 ELSE 0)
    BY ONLY <1>a, <2>1, CountExcept, p \in Procs
  <2> QED
    BY <2>2 DEF One
<1>7. Count(Slots, ChildOf', e) \in Nat
  BY <1>a, CountType
<1> DEFINE root == IF e = Root THEN Cardinality(Procs) ELSE 0
<1>8. /\ Count(Procs, cur, e) \in Nat /\ Count(Procs, ep, e) \in Nat /\ Count(Procs, fd, e) \in Nat
      /\ Count(Procs, PutArg, e) \in Nat /\ Count(Procs, pp, e) \in Nat
      /\ Count(Slots, ChildOf, e) \in Nat /\ root \in Nat
  BY TermsType DEF Terms
<1>9. \A a, b : One(a, b) \in Nat
  BY DEF One
<1>10. /\ RefSum(e) = Count(Procs, cur, e) + Count(Procs, ep, e) + Count(Procs, fd, e)
                      + Count(Procs, PutArg, e) + Count(Procs, pp, e) + root
                                + Count(Slots, ChildOf, e)
       /\ RefSum(e)' = Count(Procs, cur', e) + Count(Procs, ep', e) + Count(Procs, fd', e)
                      + Count(Procs, PutArg', e) + Count(Procs, pp', e) + root
                                + Count(Slots, ChildOf', e)
  BY DEF RefSum
<1>11. Moved(p, e) = One(cur'[p], e) - One(cur[p], e) + One(ep'[p], e) - One(ep[p], e)
                       + One(fd'[p], e) - One(fd[p], e) + One(PutArg'[p], e) - One(PutArg[p], e)
                       + One(pp'[p], e) - One(pp[p], e)
  BY DEF Moved
<1> HIDE DEF root
<1> QED
  BY ONLY <1>2, <1>3, <1>4, <1>5, <1>6, <1>7, <1>8, <1>9, <1>10, <1>11

\* A step in which no child takes or gives back a reference.
LEMMA RefMoves ==
  ASSUME RefsAreSum, NEW p \in Procs, OthersKeep(p), ChildOf' = ChildOf,
         \A e \in Entries : ref'[e] = ref[e] + Moved(p, e)
  PROVE  RefsAreSum'
<1> SUFFICES ASSUME NEW e \in Entries PROVE ref'[e] = RefSum(e)'
  BY DEF RefsAreSum
<1>1. ref[e] = RefSum(e) /\ ref'[e] = ref[e] + Moved(p, e)
  BY DEF RefsAreSum
<1>2. /\ RefSum(e)' = RefSum(e) + Moved(p, e) + Count(Slots, ChildOf, e) - Count(Slots, ChildOf, e)
      /\ RefSum(e) \in Nat /\ Moved(p, e) \in Int /\ Count(Slots, ChildOf, e) \in Nat
  BY ProcCounts
<1> QED
  BY ONLY <1>1, <1>2

\* A step in which child s does.
LEMMA RefMovesChild ==
  ASSUME RefsAreSum, NEW p \in Procs, OthersKeep(p), NEW s \in Slots,
         \A t \in Slots \ {s} : ChildOf'[t] = ChildOf[t],
         \A e \in Entries : ref'[e] = ref[e] + Moved(p, e) + One(ChildOf'[s], e)
                                      - One(ChildOf[s], e)
  PROVE  RefsAreSum'
<1> SUFFICES ASSUME NEW e \in Entries PROVE ref'[e] = RefSum(e)'
  BY DEF RefsAreSum
<1>1. /\ ref[e] = RefSum(e)
      /\ ref'[e] = ref[e] + Moved(p, e) + One(ChildOf'[s], e) - One(ChildOf[s], e)
  BY DEF RefsAreSum
<1>2. /\ RefSum(e)' = RefSum(e) + Moved(p, e) + Count(Slots, ChildOf', e) - Count(Slots, ChildOf, e)
      /\ RefSum(e) \in Nat /\ Moved(p, e) \in Int /\ Count(Slots, ChildOf', e) \in Nat
      /\ Count(Slots, ChildOf, e) \in Nat
  BY ProcCounts
<1>3. Count(Slots, ChildOf', e) = Count(Slots, ChildOf, e) - One(ChildOf[s], e)
                + One(ChildOf'[s], e)
  <2>1. IsFiniteSet(Slots)
    BY EntryAssumption
  <2>2. Count(Slots, ChildOf', e) = Count(Slots, ChildOf, e) - (IF ChildOf[s] = e THEN 1 ELSE 0)
                                      + (IF ChildOf'[s] = e THEN 1 ELSE 0)
    BY ONLY <2>1, s \in Slots, \A t \in Slots \ {s} : ChildOf'[t] = ChildOf[t], CountExcept
  <2> QED
    BY <2>2 DEF One
<1>4. \A a, b : One(a, b) \in Nat
  BY DEF One
<1> QED
  BY ONLY <1>1, <1>2, <1>3, <1>4

\* A step that moves no pointer and no count keeps the sum.
LEMMA RefsSame ==
  ASSUME RefsAreSum, UNCHANGED <<cur, ep, fd, pp, ref>>, PutArg' = PutArg, ChildOf' = ChildOf
  PROVE  RefsAreSum'
  BY DEF RefsAreSum, RefSum

-----------------------------------------------------------------------------
(* Filling in an entry, moving it to the front, and starting a walk *)

\* What dirlookup() and ealloc() do when they fill in an entry.
Filled(p, c) ==
  /\ pc[p] \in {"scan", "emake"} /\ c \in BOOLEAN /\ Child(p) \in Paths
  /\ Fill(p, c) /\ Goto(p, "leave")
  /\ disk' \in [Paths -> {"absent", "empty", "full"}]
  /\ \A g \in Paths : g # Child(p) => disk'[g] = disk[g]
  /\ disk'[Child(p)] = IF c THEN "full" ELSE "empty"
  /\ UNCHANGED <<dirty, owner, list, callVars, putVars>>

\* Filling in a recycled entry keeps all but the references, the locks and the
\* places of the processes: the directory is locked, and nothing in the cache
\* answers to that name.
LEMMA FillInv ==
  ASSUME Inv, Counted, PutAlone, FillAlone, Asking, Identity, Matches,
         NEW p \in Procs, NEW c, Filled(p, c)
  PROVE  /\ EntryTypeOK' /\ RootStays' /\ OnItsPath' /\ LastPutAlone' /\ PointersValid'
         /\ EntryFilled' /\ NotThereYet' /\ StillEmpty' /\ ParentsFirst' /\ ParentIsParent'
         /\ OneEntryPerFile'
<1> USE Nulls
<1> DEFINE s == ep[p]
           d == cur[p]
<1>a. /\ pc[p] \in {"scan", "emake"} /\ s \in Slots /\ d \in Entries /\ s \in Entries
      /\ valid[s] = 0 /\ ref[s] = 1 /\ valid[d] = 1 /\ owner[d] = p /\ Matching(p) = {}
  <2>1. pc[p] \in {"scan", "emake"}
    BY DEF Filled
  <2>2. s \in Slots /\ s \in Entries
    BY <2>1 DEF Inv, EntryTypeOK, PointersUsed, Entries
  <2>3. d \in Entries
    BY <2>1, CurIsEntry DEF Walking
  <2>4. valid[s] = 0 /\ ref[s] = 1 /\ valid[d] = 1 /\ owner[d] = p /\ Matching(p) = {}
    BY <2>1 DEF Inv, PointersValid, LocksWhere, Locking, NotThereYet
  <2> QED
    BY <2>1, <2>2, <2>3, <2>4
<1>b. /\ c \in BOOLEAN /\ Child(p) \in Paths
      /\ node'   = [node EXCEPT ![s] = Child(p)]
      /\ parent' = [parent EXCEPT ![s] = d]
      /\ valid'  = [valid EXCEPT ![s] = 1]
      /\ clus'   = [clus EXCEPT ![s] = c]
      /\ ref'    = [ref EXCEPT ![d] = @ + 1]
      /\ pc' = [pc EXCEPT ![p] = "leave"]
      /\ UNCHANGED <<dirty, owner, list, op, goal, done, cur, ep, fd, pe, pp, ret>>
  BY DEF Filled, Fill, Goto, callVars, putVars
<1>c. /\ disk' \in [Paths -> {"absent", "empty", "full"}]
      /\ \A g \in Paths : g # Child(p) => disk'[g] = disk[g]
      /\ disk'[Child(p)] = IF c THEN "full" ELSE "empty"
  BY DEF Filled
<1>d. s # d /\ s # Root
  BY <1>a DEF FillAlone, PointsTo
<1>e. \A q \in Procs : /\ cur[q] # s /\ fd[q] # s /\ pp[q] # s /\ pe[q] # s
                       /\ q # p => ep[q] # s
  BY <1>a DEF FillAlone, PointsTo, Inv, LastPutAlone
<1>f. \A t \in Slots : valid[t] = 1 => node[t] # Child(p) /\ parent[t] # s /\ t # s
  BY <1>a DEF Matches, Inv, ParentIsParent
<1>g. ref[d] >= 1 /\ \A q \in Procs : pc[q] \in LastPut => pe[q] # d
  BY <1>a DEF Counted, RefersTo, PutAlone, PointsTo, Inv, LastPutAlone, Putting, LastPut
<1>h. Parent(Child(p)) = node[d] /\ Child(p) = Append(node[d], goal[p][done[p] + 1])
  BY <1>a DEF Asking, Place, Putting, LastPut, Walking, Child
<1>i. \A q \in Procs : pc[q] \in Locking /\ cur[q] = d => q = p
  BY <1>a DEF Inv, LocksWhere
<1> HIDE DEF s, d
<1>EntryTypeOK. EntryTypeOK'
  <2>1. /\ ref' \in [Entries -> Nat] /\ valid' \in [Entries -> {-1, 0, 1}]
        /\ clus' \in [Entries -> BOOLEAN]
    BY <1>a, <1>b DEF Inv, EntryTypeOK
  <2>2. node' \in [Entries -> Paths \cup {<<>>}] /\ parent' \in [Entries -> Entries \cup {None}]
    BY <1>a, <1>b DEF Inv, EntryTypeOK
  <2>3. pc' \in [Procs -> Places]
    BY <1>b DEF Inv, EntryTypeOK, Places, Walking
  <2> QED
    BY <1>b, <1>c, <2>1, <2>2, <2>3 DEF Inv, EntryTypeOK
<1>RootStays. RootStays'
  BY <1>a, <1>b, <1>d DEF Inv, EntryTypeOK, RootStays, Entries
<1>j. \A q \in Procs : /\ q # p => pc'[q] = pc[q]
                       /\ pc'[p] = "leave"
                       /\ cur[q] # None =>
                            valid'[cur[q]] = valid[cur[q]] /\ node'[cur[q]] = node[cur[q]]
  BY <1>a, <1>b, <1>e DEF Inv, EntryTypeOK
<1>OnItsPath. OnItsPath'
  <2> SUFFICES ASSUME NEW q \in Procs
               PROVE  /\ Place(q)' \in Walking \cup Reached =>
                           node'[cur[q]] = SubSeq(goal[q], 1, done[q])
                      /\ pc'[q] = "leave" /\ ep[q] # None => node'[ep[q]] = Child(q)'
    BY <1>b DEF OnItsPath
  <2>1. Place(q)' \in Walking \cup Reached => Place(q) \in Walking \cup Reached /\ cur[q] # None
    BY <1>a, <1>b, <1>j DEF Place, Putting, LastPut, Walking, Inv, PointersUsed
  <2>2. Place(q)' \in Walking \cup Reached => node'[cur[q]] = SubSeq(goal[q], 1, done[q])
    BY <1>j, <2>1 DEF Inv, OnItsPath
  <2>3. CASE q = p
    <3>1. node'[s] = Child(p) /\ Child(p)' = Child(p)
      BY <1>a, <1>b, <1>d, <1>h DEF Inv, EntryTypeOK, Child, d
    <3> QED
      BY <2>2, <2>3, <3>1 DEF s
  <2>4. CASE q # p
    <3>1. pc'[q] = "leave" /\ ep[q] # None => /\ node'[ep[q]] = node[ep[q]] /\ cur[q] # None
                                              /\ node[ep[q]] = Child(q)
      <4> SUFFICES ASSUME pc'[q] = "leave", ep[q] # None
                   PROVE  node'[ep[q]] = node[ep[q]] /\ cur[q] # None /\ node[ep[q]] = Child(q)
        OBVIOUS
      <4>1. pc[q] = "leave" /\ ep[q] # s /\ ep[q] \in Slots
        BY <1>e, <1>j, <2>4 DEF Inv, EntryTypeOK
      <4>2. node[ep[q]] = Child(q)
        BY <4>1 DEF Inv, OnItsPath
      <4>3. node'[ep[q]] = node[ep[q]]
        BY <1>b, <4>1 DEF Inv, EntryTypeOK, Entries
      <4>4. cur[q] # None
        BY <4>1 DEF Inv, PointersUsed, Place, Putting, LastPut, Walking
      <4> QED
        BY <4>2, <4>3, <4>4
    <3>2. cur[q] # None => Child(q)' = Child(q)
      BY <1>b, <1>j DEF Child
    <3> QED
      BY <2>2, <3>1, <3>2
  <2> QED
    BY <2>3, <2>4
<1>LastPutAlone. LastPutAlone'
  <2> SUFFICES ASSUME NEW q \in Procs, pc'[q] \in LastPut
               PROVE  /\ pe[q] \in Slots
                      /\ pc'[q] # "putcheck" => ref'[pe[q]] = 1
                      /\ pc'[q] = "putcheck" => ref'[pe[q]] = 0
                      /\ pc'[q] = "putupdate" => valid'[pe[q]] = 1
                      /\ pc'[q] \in {"putunlock", "putdec"} =>
                           /\ valid'[pe[q]] = 1 => ~dirty[pe[q]]
                           /\ valid'[pe[q]] = -1 => ~clus'[pe[q]]
    BY <1>b DEF LastPutAlone, LastPut
  <2>1. q # p /\ pc[q] = pc'[q] /\ pe[q] \in Slots
    BY <1>j DEF LastPut, Inv, LastPutAlone
  <2>2. /\ ref'[pe[q]] = ref[pe[q]] /\ valid'[pe[q]] = valid[pe[q]] /\ clus'[pe[q]] = clus[pe[q]]
    BY <1>b, <1>e, <1>g, <2>1 DEF Inv, EntryTypeOK, Entries
  <2> QED
    BY <2>1, <2>2 DEF Inv, LastPutAlone
<1>PointersValid. PointersValid'
  <2> SUFFICES ASSUME NEW q \in Procs
               PROVE  /\ cur[q] # None => valid'[cur[q]] # 0
                      /\ fd[q] # None => valid'[fd[q]] # 0
                      /\ pc'[q] \in Putting \ {"putcheck"} => valid'[pe[q]] # 0
                      /\ pp[q] # None => valid'[pp[q]] # 0
                      /\ pc'[q] = "leave" /\ ep[q] # None => valid'[ep[q]] # 0
                      /\ pc'[q] \in {"scan", "emake"} => valid'[ep[q]] = 0 /\ ref'[ep[q]] = 1
    BY <1>b DEF PointersValid
  <2>1. \A e \in Entries : e # s => valid'[e] = valid[e]
    BY <1>b DEF Inv, EntryTypeOK
  <2>2. valid'[s] = 1
    BY <1>a, <1>b DEF Inv, EntryTypeOK
  <2>3. /\ cur[q] # None => valid'[cur[q]] # 0
        /\ fd[q] # None => valid'[fd[q]] # 0
        /\ pp[q] # None => valid'[pp[q]] # 0
    BY <1>e, <2>1 DEF Inv, EntryTypeOK, PointersValid
  <2>4. pc'[q] \in Putting \ {"putcheck"} => valid'[pe[q]] # 0
    <3> SUFFICES ASSUME pc'[q] \in Putting \ {"putcheck"} PROVE valid'[pe[q]] # 0
      OBVIOUS
    <3>1. pc[q] \in Putting \ {"putcheck"}
      BY <1>j DEF Putting, LastPut
    <3>2. pe[q] \in Entries /\ pe[q] # s
      BY <1>e, <3>1 DEF Inv, EntryTypeOK, PointersUsed
    <3> QED
      BY <2>1, <3>1, <3>2 DEF Inv, PointersValid
  <2>5. pc'[q] = "leave" /\ ep[q] # None => valid'[ep[q]] # 0
    BY <1>e, <1>j, <2>1, <2>2 DEF Inv, EntryTypeOK, PointersValid, Entries, s
  <2>6. pc'[q] \in {"scan", "emake"} => valid'[ep[q]] = 0 /\ ref'[ep[q]] = 1
    <3> SUFFICES ASSUME pc'[q] \in {"scan", "emake"}
                 PROVE  valid'[ep[q]] = 0 /\ ref'[ep[q]] = 1
      OBVIOUS
    <3>1. q # p /\ pc[q] \in {"scan", "emake"}
      BY <1>j
    <3>2. ep[q] \in Slots /\ ep[q] # s /\ ep[q] # d
      BY <1>e, <3>1 DEF Inv, EntryTypeOK, PointersUsed, FillAlone, PointsTo, d
    <3> QED
      BY <1>b, <2>1, <3>1, <3>2 DEF Inv, EntryTypeOK, PointersValid, Entries
  <2> QED
    BY <2>3, <2>4, <2>5, <2>6
<1>EntryFilled. EntryFilled'
  <2> SUFFICES ASSUME NEW t \in Slots
               PROVE  /\ valid'[t] # 0 => node'[t] \in Paths
                      /\ valid'[t] # 0 /\ ref'[t] > 0 =>
                           parent'[t] \in Entries /\ valid'[parent'[t]] # 0
                      /\ valid'[t] = 0 => ~dirty[t]
                      /\ valid'[t] = 1 => disk'[node'[t]] # "absent"
                      /\ valid'[t] = 1 /\ ~dirty[t] =>
                           disk'[node'[t]] = IF clus'[t] THEN "full" ELSE "empty"
                      /\ valid'[t] = 1 /\ ref'[t] = 0 => ~dirty[t]
                      /\ valid'[t] = -1 /\ ref'[t] = 0 => ~clus'[t]
    BY <1>b DEF EntryFilled
  <2>1. CASE t = s
    <3>1. /\ node'[t] = Child(p) /\ parent'[t] = d /\ valid'[t] = 1 /\ clus'[t] = c /\ ref'[t] = 1
          /\ valid'[d] = 1 /\ ~dirty[t]
      BY <1>a, <1>b, <1>d, <2>1 DEF Inv, EntryTypeOK, EntryFilled
    <3> QED
      BY <1>a, <1>b, <1>c, <3>1
  <2>2. CASE t # s
    <3>1. /\ node'[t] = node[t] /\ parent'[t] = parent[t] /\ valid'[t] = valid[t]
          /\ clus'[t] = clus[t]
          /\ ref[t] \in Nat /\ (ref'[t] = ref[t] \/ (ref[t] > 0 /\ ref'[t] > 0))
      BY <1>a, <1>b, <1>g, <2>2 DEF Inv, EntryTypeOK, Entries
    <3>2. valid[t] = 1 => disk'[node[t]] = disk[node[t]]
      BY <1>c, <1>f DEF Inv, EntryFilled
    <3>3. \A e \in Entries : valid[e] # 0 => valid'[e] # 0
      BY <1>a, <1>b DEF Inv, EntryTypeOK
    <3> QED
      BY <3>1, <3>2, <3>3 DEF Inv, EntryFilled
  <2> QED
    BY <2>1, <2>2
<1>NotThereYet. NotThereYet'
  <2> SUFFICES ASSUME NEW q \in Procs, pc'[q] \in {"scan", "alloc", "emake"}
               PROVE  valid'[cur[q]] = 1 /\ Matching(q)' = {}
    BY <1>b DEF NotThereYet
  <2>1. q # p /\ pc[q] \in {"scan", "alloc", "emake"} /\ cur[q] # None /\ cur[q] # d
    BY <1>i, <1>j DEF Locking, Inv, PointersUsed, Place, Putting, LastPut, Walking
  <2>2. valid'[cur[q]] = 1 /\ Matching(q) = {}
    BY <1>j, <2>1 DEF Inv, NotThereYet
  <2>3. ASSUME NEW t \in Slots, t \in Matching(q)' PROVE FALSE
    <3>1. valid'[t] = 1 /\ parent'[t] = cur[q] /\ node'[t][Len(node'[t])] = goal[q][done[q] + 1]
      BY <1>b, <2>3 DEF Matching
    <3>2. t # s
      BY <1>a, <1>b, <2>1, <3>1 DEF Inv, EntryTypeOK
    <3>3. valid[t] = 1 /\ parent[t] = cur[q] /\ node[t][Len(node[t])] = goal[q][done[q] + 1]
      BY <1>b, <3>1, <3>2 DEF Inv, EntryTypeOK, Entries
    <3> QED
      BY <2>2, <3>3 DEF Matching
  <2> QED
    BY <2>2, <2>3 DEF Matching
<1>StillEmpty. StillEmpty'
  <2> SUFFICES ASSUME NEW q \in Procs, pc'[q] = "rmdo", NotEmpty(cur[q])'
               PROVE  FALSE
    BY <1>b DEF StillEmpty, NotEmpty
  <2>1. q # p /\ pc[q] = "rmdo" /\ cur[q] \in Entries /\ cur[q] # d
    <3>1. q # p /\ pc[q] = "rmdo"
      BY <1>j
    <3>2. cur[q] \in Entries
      BY <3>1, CurIsEntry DEF Reached
    <3> QED
      BY <1>i, <3>1, <3>2 DEF Locking
  <2>2. PICK g \in Paths : /\ valid[cur[q]] = 1 /\ Len(g) > 1 /\ Parent(g) = node[cur[q]]
                           /\ disk'[g] # "absent"
    BY <1>b, <1>j, <2>1 DEF NotEmpty
  <2>3. g # Child(p)
    BY <1>a, <1>h, <2>1, <2>2 DEF Identity
  <2>4. disk[g] # "absent"
    BY <1>c, <2>2, <2>3
  <2> QED
    BY <2>1, <2>2, <2>4 DEF Inv, StillEmpty, NotEmpty
<1>ParentsFirst. ParentsFirst'
  <2> SUFFICES ASSUME NEW i \in 1..ENTRY_CACHE_NUM, NEW j \in 1..ENTRY_CACHE_NUM,
                      valid'[list[i]] = 1, parent'[list[i]] = list[j], Leaving(list[j])'
               PROVE  j < i
    BY <1>b DEF ParentsFirst
  <2>1. list[i] \in Slots /\ list[j] \in Slots
    BY DEF Inv, EntryTypeOK
  <2>2. Leaving(list[j]) /\ list[j] # d
    BY <1>a, <1>b, <1>g, <1>j, <2>1 DEF Leaving, LastPut, Inv, EntryTypeOK, Entries
  <2>3. list[i] # s
    BY <1>a, <1>b, <2>2 DEF Inv, EntryTypeOK
  <2>4. valid[list[i]] = 1 /\ parent[list[i]] = list[j]
    BY <1>b, <2>1, <2>3 DEF Inv, EntryTypeOK, Entries
  <2> QED
    BY <2>2, <2>4 DEF Inv, ParentsFirst
<1>ParentIsParent. ParentIsParent'
  <2> SUFFICES ASSUME NEW t \in Slots, valid'[t] = 1
               PROVE  /\ parent'[t] \in Entries /\ valid'[parent'[t]] = 1
                      /\ node'[parent'[t]] = Parent(node'[t])
    BY DEF ParentIsParent
  <2>1. CASE t = s
    <3>1. parent'[t] = d /\ node'[t] = Child(p) /\ valid'[d] = 1 /\ node'[d] = node[d]
      BY <1>a, <1>b, <1>d, <2>1 DEF Inv, EntryTypeOK
    <3> QED
      BY <1>a, <1>h, <3>1
  <2>2. CASE t # s
    <3>1. parent'[t] = parent[t] /\ node'[t] = node[t] /\ valid[t] = 1
      BY <1>b, <2>2 DEF Inv, EntryTypeOK, Entries
    <3>2. parent[t] \in Entries /\ parent[t] # s
      BY <1>f, <3>1 DEF Inv, ParentIsParent
    <3>3. valid'[parent[t]] = valid[parent[t]] /\ node'[parent[t]] = node[parent[t]]
      BY <1>b, <3>2 DEF Inv, EntryTypeOK
    <3> QED
      BY <3>1, <3>2, <3>3 DEF Inv, ParentIsParent
  <2> QED
    BY <2>1, <2>2
<1>OneEntryPerFile. OneEntryPerFile'
  <2> SUFFICES ASSUME NEW t \in Slots, NEW u \in Slots,
                      valid'[t] = 1, valid'[u] = 1, node'[t] = node'[u]
               PROVE  t = u
    BY DEF OneEntryPerFile
  <2>1. \A v \in Slots : /\ v # s => valid'[v] = valid[v] /\ node'[v] = node[v]
                         /\ v = s => node'[v] = Child(p)
    BY <1>a, <1>b DEF Inv, EntryTypeOK, Entries
  <2> QED
    BY <1>f, <2>1 DEF Inv, OneEntryPerFile
<1> QED
  BY <1>EntryTypeOK, <1>RootStays, <1>OnItsPath, <1>LastPutAlone, <1>PointersValid, <1>EntryFilled,
     <1>NotThereYet, <1>StillEmpty, <1>ParentsFirst, <1>ParentIsParent, <1>OneEntryPerFile

\* Moving an entry to the front keeps every slot linked once, and the others in
\* their order.
LEMMA ListMoved ==
  ASSUME Inv, NEW x \in Slots, list' = MoveToHead(x)
  PROVE  /\ list' \in [1..ENTRY_CACHE_NUM -> Slots] /\ ListLinked'
         /\ \A j \in 1..ENTRY_CACHE_NUM : list'[j] = x => j = 1
         /\ \A i, j \in 1..ENTRY_CACHE_NUM : list'[i] # x /\ list'[j] # x /\ i <= j =>
              \E m, n \in 1..ENTRY_CACHE_NUM : list[m] = list'[i] /\ list[n] = list'[j] /\ m <= n
<1> DEFINE N == ENTRY_CACHE_NUM
           at == CHOOSE i \in 1..N : list[i] = x
<1>n. N \in Nat
  BY EntryAssumption, FS_CardinalityType DEF ENTRY_CACHE_NUM
<1>1. at \in 1..N /\ list[at] = x
  BY DEF Inv, ListLinked
<1>2. list' = [i \in 1..N |-> IF i = 1 THEN x ELSE IF i <= at THEN list[i - 1] ELSE list[i]]
  BY DEF MoveToHead
<1>3. /\ list \in [1..N -> Slots]
      /\ \A s \in Slots : \E i \in 1..N : list[i] = s
      /\ \A i, j \in 1..N : list[i] = list[j] => i = j
  BY DEF Inv, EntryTypeOK, ListLinked
<1> HIDE DEF at, N
<1>4. list' \in [1..N -> Slots]
  BY <1>n, <1>1, <1>2, <1>3
<1>5. ASSUME NEW c \in Slots PROVE \E i \in 1..N : list'[i] = c
  <2>1. PICK i \in 1..N : list[i] = c
    BY <1>3
  <2>2. CASE i = at
    <3>1. 1 \in 1..N /\ list'[1] = c
      BY <1>n, <1>1, <1>2, <2>1, <2>2
    <3> QED
      BY <3>1
  <2>3. CASE i < at
    <3>1. i + 1 \in 1..N /\ list'[i + 1] = c
      BY <1>n, <1>1, <1>2, <2>1, <2>3
    <3> QED
      BY <3>1
  <2>4. CASE i > at
    <3>1. list'[i] = c
      BY <1>n, <1>1, <1>2, <2>1, <2>4
    <3> QED
      BY <3>1
  <2> QED
    BY <1>n, <1>1, <2>2, <2>3, <2>4
<1>6. ASSUME NEW i \in 1..N, NEW j \in 1..N, list'[i] = list'[j]
      PROVE  i = j
  BY <1>n, <1>1, <1>2, <1>3, <1>6
<1>7. \A j \in 1..N : list'[j] = x => j = 1
  BY <1>n, <1>1, <1>2, <1>3
<1>8. ASSUME NEW i \in 1..N, NEW j \in 1..N, list'[i] # x, list'[j] # x, i <= j
      PROVE  \E m, n \in 1..N : list[m] = list'[i] /\ list[n] = list'[j] /\ m <= n
  <2>1. i # 1 /\ j # 1
    BY <1>2, <1>8
  <2>2. CASE j <= at
    <3>1. /\ i - 1 \in 1..N /\ j - 1 \in 1..N /\ list[i - 1] = list'[i] /\ list[j - 1] = list'[j]
          /\ i - 1 <= j - 1
      BY <1>n, <1>1, <1>2, <1>8, <2>1, <2>2
    <3> QED
      BY <3>1
  <2>3. CASE i <= at /\ j > at
    <3>1. i - 1 \in 1..N /\ list[i - 1] = list'[i] /\ list[j] = list'[j] /\ i - 1 <= j
      BY <1>n, <1>1, <1>2, <1>8, <2>1, <2>3
    <3> QED
      BY <3>1
  <2>4. CASE i > at
    <3>1. list[i] = list'[i] /\ list[j] = list'[j]
      BY <1>n, <1>1, <1>2, <1>8, <2>1, <2>4
    <3> QED
      BY <1>8, <3>1
  <2> QED
    BY <1>n, <1>1, <2>2, <2>3, <2>4
<1> QED
  BY <1>4, <1>5, <1>6, <1>7, <1>8 DEF ListLinked, N

\* A walk starts with the root.
LEMMA WalkStarts ==
  ASSUME Inv, NEW p \in Procs, pc[p] \in {"user", "mkparent"}, NEW o, NEW g \in Paths,
         o \in {"open", "create", "mkdir", "remove", "mkparent"},
         o = "mkparent" => Len(g) = 2, StartWalk(p, o, g)
  PROVE  EntryTypeOK' /\ WalkedSoFar' /\ OnItsPath' /\ PointersValid'
<1> USE Nulls
<1>1. /\ ref'  = [ref EXCEPT ![Root] = @ + 1]
      /\ cur'  = [cur EXCEPT ![p] = Root]
      /\ done' = [done EXCEPT ![p] = 0]
      /\ op'   = [op EXCEPT ![p] = o]
      /\ goal' = [goal EXCEPT ![p] = g]
      /\ pc' = [pc EXCEPT ![p] = "walk"]
      /\ UNCHANGED <<node, parent, valid, dirty, clus, owner, list, disk,
                     ep, fd, pe, pp, ret>>
  BY DEF StartWalk, Goto, putVars
<1>2. Root \in Entries /\ node[Root] = <<>> /\ valid[Root] = 1
  BY DEF Entries, Inv, RootStays
<1>3. /\ cur'[p] = Root /\ done'[p] = 0 /\ op'[p] = o /\ goal'[p] = g /\ pc'[p] = "walk"
      /\ Place(p)' = "walk"
      /\ \A q \in Procs : q # p =>
           /\ cur'[q] = cur[q] /\ done'[q] = done[q] /\ op'[q] = op[q] /\ goal'[q] = goal[q]
           /\ pc'[q] = pc[q] /\ Place(q)' = Place(q)
  BY <1>1 DEF Inv, EntryTypeOK, Place, Putting, LastPut
<1>4. Len(g) \in 1..2 /\ SubSeq(g, 1, 0) = <<>>
  BY SubSeqs
<1>EntryTypeOK. EntryTypeOK'
  <2>1. ref' \in [Entries -> Nat]
    BY <1>1, <1>2 DEF Inv, EntryTypeOK
  <2>2. /\ cur' \in [Procs -> Entries \cup {None}] /\ done' \in [Procs -> Nat]
        /\ op' \in [Procs -> {"open", "create", "mkdir", "remove", "mkparent"}]
    BY <1>1, <1>2 DEF Inv, EntryTypeOK
  <2>3. goal' \in [Procs -> Paths \cup {<<>>}]
    BY <1>1 DEF Inv, EntryTypeOK
  <2>4. pc' \in [Procs -> Places]
    BY <1>1 DEF Inv, EntryTypeOK, Places, Walking
  <2> QED
    BY <1>1, <2>1, <2>2, <2>3, <2>4 DEF Inv, EntryTypeOK
<1>WalkedSoFar. WalkedSoFar'
  <2> SUFFICES ASSUME NEW q \in Procs
               PROVE  /\ Place(q)' \in Walking \cup Reached \cup {"mkparent"} => goal'[q] \in Paths
                      /\ op'[q] = "mkparent" \/ Place(q)' = "mkparent" => Len(goal'[q]) = 2
                      /\ Place(q)' \in Walking => done'[q] < Depth(q)'
                      /\ pc'[q] \in {"relock", "make", "alloc", "emake"} => AtParent(q)'
                      /\ Place(q)' \in Reached => done'[q] = Depth(q)'
    BY DEF WalkedSoFar
  <2>1. CASE q = p
    <3>1. 0 < Depth(p)'
      <4>1. Depth(p)' = IF o = "mkparent" THEN Len(g) - 1 ELSE Len(g)
        BY <1>3 DEF Depth
      <4>2. o = "mkparent" => Len(g) = 2
        OBVIOUS
      <4> QED
        <5>1. CASE o = "mkparent"
          <6>1. Len(g) = 2
            BY <4>2, <5>1
          <6>2. Depth(p)' = Len(g) - 1
            BY <4>1, <5>1
          <6>3. Depth(p)' = 2 - 1
            BY <6>1, <6>2, Zenon
          <6> QED
            BY ONLY <6>3
        <5>2. CASE o # "mkparent"
          BY <1>4, <4>1, <5>2
        <5> QED
          BY <5>1, <5>2
    <3> QED
      BY <1>3, <2>1, <3>1 DEF Reached
  <2>2. CASE q # p
    <3>1. Depth(q)' = Depth(q) /\ (AtParent(q)' <=> AtParent(q))
      BY <1>3, <2>2 DEF Depth, AtParent, Creating
    <3> QED
      BY <1>3, <2>2, <3>1 DEF Inv, WalkedSoFar
  <2> QED
    BY <2>1, <2>2
<1>OnItsPath. OnItsPath'
  <2> SUFFICES ASSUME NEW q \in Procs
               PROVE  /\ Place(q)' \in Walking \cup Reached =>
                           node[cur'[q]] = SubSeq(goal'[q], 1, done'[q])
                      /\ pc'[q] = "leave" /\ ep[q] # None => node[ep[q]] = Child(q)'
    BY <1>1 DEF OnItsPath
  <2>1. CASE q = p
    BY <1>2, <1>3, <1>4, <2>1
  <2>2. CASE q # p
    <3>1. Child(q)' = Child(q)
      BY <1>1, <1>3, <2>2 DEF Child
    <3> QED
      BY <1>3, <2>2, <3>1 DEF Inv, OnItsPath
  <2> QED
    BY <2>1, <2>2
<1>PointersValid. PointersValid'
  <2> SUFFICES ASSUME NEW q \in Procs
               PROVE  /\ cur'[q] # None => valid[cur'[q]] # 0
                      /\ fd[q] # None => valid[fd[q]] # 0
                      /\ pc'[q] \in Putting \ {"putcheck"} => valid[pe[q]] # 0
                      /\ pp[q] # None => valid[pp[q]] # 0
                      /\ pc'[q] = "leave" /\ ep[q] # None => valid[ep[q]] # 0
                      /\ pc'[q] \in {"scan", "emake"} => valid[ep[q]] = 0 /\ ref'[ep[q]] = 1
    BY <1>1 DEF PointersValid
  <2>1. CASE q = p
    BY <1>2, <1>3, <2>1 DEF Inv, PointersValid, Putting, LastPut
  <2>2. CASE q # p
    <3>1. pc[q] \in {"scan", "emake"} => ref'[ep[q]] = ref[ep[q]]
      BY <1>1 DEF Inv, PointersUsed, EntryTypeOK, Entries
    <3> QED
      BY <1>3, <2>2, <3>1 DEF Inv, PointersValid
  <2> QED
    BY <2>1, <2>2
<1> QED
  BY <1>EntryTypeOK, <1>WalkedSoFar, <1>OnItsPath, <1>PointersValid

-----------------------------------------------------------------------------
(* What a step leaves the other processes *)

Facts == Counted /\ PutAlone /\ FillAlone /\ Asking /\ FoundSlot /\ Identity /\ Matches

\* What a process has locked is an entry.
LEMMA LockedEntries ==
  ASSUME Inv, Facts, NEW q \in Procs
  PROVE  /\ pc[q] \in Locking => cur[q] \in Entries
         /\ pc[q] = "rmdo" => parent[cur[q]] \in Entries
         /\ pc[q] \in {"putwork", "putupdate", "putunlock"} => pe[q] \in Entries
         /\ pc[q] = "putupdate" => parent[pe[q]] \in Entries
  BY Nulls
  DEF Facts, Inv, EntryTypeOK, Locking, PointersUsed, Place, Putting, LastPut, Walking,
      Reached, EntryFilled, FoundSlot, LastPutAlone, PointersValid, Counted, RefersTo, Entries

\* A step of process p takes the other processes nowhere, and leaves them
\* their locks.
OthersStay(p) ==
  \A q \in Procs \ {p} :
    /\ pc'[q] = pc[q] /\ cur'[q] = cur[q] /\ pe'[q] = pe[q]
    /\ pc[q] = "rmdo" => parent'[cur[q]] = parent[cur[q]]
    /\ pc[q] = "putupdate" => parent'[pe[q]] = parent[pe[q]]
    /\ \A e \in Entries : owner[e] = q <=> owner'[e] = q

\* A lock is held by whoever is at a place that holds it, when this is so of
\* the process that steps.
LEMMA OthersLocksWhose ==
  ASSUME Inv, NEW p \in Procs, OthersStay(p), owner' \in [Entries -> Procs \cup {None}],
         \A e \in Entries : owner'[e] = p => Holds(p, e)'
  PROVE  LocksWhose'
<1> SUFFICES ASSUME NEW e \in Entries, owner'[e] # None PROVE Holds(owner[e], e)'
  BY DEF LocksWhose
<1>1. CASE owner'[e] = p
  BY <1>1
<1>2. CASE owner'[e] # p
  <2>1. PICK q \in Procs \ {p} : owner'[e] = q
    BY <1>2
  <2>2. owner[e] = q /\ q # None
    BY <2>1, Nulls DEF OthersStay
  <2>3. Holds(q, e)
    BY <2>2 DEF Inv, LocksWhose
  <2>4. Holds(q, e)'
    BY <2>3 DEF Holds, OthersStay
  <2> QED
    BY <2>1, <2>4
<1> QED
  BY <1>1, <1>2

\* A process at a place that holds a lock has it, when this is so of the process
\* that steps.
LEMMA OthersLocksWhere ==
  ASSUME Inv, Facts, NEW p \in Procs, OthersStay(p),
         pc'[p] \in Locking => owner'[cur'[p]] = p,
         pc'[p] = "rmdo" => owner'[parent'[cur'[p]]] = p,
         pc'[p] \in {"putwork", "putupdate", "putunlock"} => owner'[pe'[p]] = p,
         pc'[p] = "putupdate" => owner'[parent'[pe'[p]]] = p
  PROVE  LocksWhere'
<1> SUFFICES ASSUME NEW q \in Procs, q # p
             PROVE  /\ pc'[q] \in Locking => owner'[cur'[q]] = q
                    /\ pc'[q] = "rmdo" => owner'[parent'[cur'[q]]] = q
                    /\ pc'[q] \in {"putwork", "putupdate", "putunlock"} => owner'[pe'[q]] = q
                    /\ pc'[q] = "putupdate" => owner'[parent'[pe'[q]]] = q
  BY DEF LocksWhere
<1> QED
  BY LockedEntries DEF OthersStay, Inv, LocksWhere

-----------------------------------------------------------------------------
(* One lemma for each action: it keeps the invariant.  The comment says which *)
(* step of the code it is.                                                   *)

\* elock() of the next directory of the path keeps the invariant.
LEMMA WalkLockKeeps ==
  ASSUME Inv, Facts, NEW p \in Procs, WalkLock(p)
  PROVE  Inv'
<1> USE Nulls DEF Facts
<1>Effect. /\ pc[p] = "walk"
           /\ owner[cur[p]] = None /\ ref[cur[p]] >= 1
           /\ owner' = [owner EXCEPT ![cur[p]] = p]
           /\ pc' = [pc EXCEPT ![p] = "look"]
           /\ UNCHANGED <<node, parent, valid, dirty, clus, ref, list, disk, op, goal, done,
                cur, ep, fd, pe, pp, ret>>
  BY DEF WalkLock, At, Goto, CanLock, Lock, entryVars, callVars, putVars
<1>EntryTypeOK. EntryTypeOK'
  <2>1. owner' \in [Entries -> Procs \cup {None}]
    BY <1>Effect DEF Inv, EntryTypeOK, Entries
  <2>2. pc' \in [Procs -> Places]
    BY <1>Effect DEF Inv, EntryTypeOK, Places, Putting, LastPut, Walking, Reached
  <2> QED
    BY <1>Effect, <2>1, <2>2 DEF Inv, EntryTypeOK
<1>PointersUsed. PointersUsed'
  BY <1>Effect
  DEF Inv, PointersUsed, Place, Putting, LastPut, Walking, Reached, EntryTypeOK, Entries
<1>WalkedSoFar. WalkedSoFar'
  BY <1>Effect
  DEF Inv, WalkedSoFar, Place, Putting, LastPut, Walking, Reached, Depth, AtParent,
      Creating, EntryTypeOK, Entries
<1>OnItsPath. OnItsPath'
  BY <1>Effect
  DEF Inv, OnItsPath, Place, Putting, LastPut, Walking, Reached, Child, EntryTypeOK, Entries
<1>Others. OthersStay(p)
  BY <1>Effect DEF OthersStay, Inv, EntryTypeOK
<1>LocksWhere. LocksWhere'
  <2>a. cur[p] \in Entries
    BY <1>Effect, CurIsEntry DEF Walking, Reached
  <2>0. /\ pc'[p] = "look" /\ cur'[p] = cur[p] /\ cur[p] \in Entries
        /\ owner' = [owner EXCEPT ![cur[p]] = p]
    BY <1>Effect, <2>a DEF Inv, EntryTypeOK
  <2> QED
    BY <1>Others, <2>0, OthersLocksWhere DEF Locking, Inv, EntryTypeOK
<1>LocksWhose. LocksWhose'
  <2>1. ASSUME NEW e \in Entries, owner'[e] = p PROVE Holds(p, e)'
    <3>1. owner[e] = p => Holds(p, e)
      BY DEF Inv, LocksWhose
    <3> QED
      BY <1>Effect, <2>1, <3>1
      DEF Holds, Locking, Inv, EntryTypeOK, PointersUsed, Place, Putting, LastPut, Walking,
          Reached
  <2> QED
    BY <1>Others, <1>EntryTypeOK, <2>1, OthersLocksWhose DEF EntryTypeOK
<1>LastPutAlone. LastPutAlone'
  BY <1>Effect DEF Inv, LastPutAlone, LastPut, EntryTypeOK, Entries
<1>PointersValid. PointersValid'
  BY <1>Effect DEF Inv, PointersValid, Putting, LastPut, EntryTypeOK, Entries
<1>NotThereYet. NotThereYet'
  BY <1>Effect DEF Inv, NotThereYet, Matching, EntryTypeOK, Entries
<1>StillEmpty. StillEmpty'
  BY <1>Effect DEF Inv, StillEmpty, NotEmpty, EntryTypeOK, Entries
<1>ParentsFirst. ParentsFirst'
  BY <1>Effect DEF Inv, ParentsFirst, Leaving, LastPut, EntryTypeOK, Entries
<1>RefsAreSum. RefsAreSum'
  <2>1. UNCHANGED <<cur, ep, fd, pp, pe, ref, parent>> /\ ChildOf' = ChildOf
    BY <1>Effect DEF ChildOf
  <2>2. PutArg' = PutArg
    BY <1>Effect, <2>1 DEF PutArg, Inv, EntryTypeOK
  <2> QED
    BY <2>1, <2>2, RefsSame DEF Inv
<1>Same. ListLinked' /\ RootStays' /\ EntryFilled' /\ ParentIsParent' /\ OneEntryPerFile'
  BY <1>Effect DEF Inv, ListLinked, RootStays, EntryFilled, ParentIsParent, OneEntryPerFile
<1> QED
  BY <1>EntryTypeOK, <1>PointersUsed, <1>WalkedSoFar, <1>OnItsPath, <1>LocksWhere,
     <1>LocksWhose, <1>LastPutAlone, <1>PointersValid, <1>NotThereYet, <1>StillEmpty,
     <1>ParentsFirst, <1>RefsAreSum, <1>Same
  DEF Inv

\* Giving up at an entry that is no valid directory.
LEMMA LookFailsKeeps ==
  ASSUME Inv, Facts, NEW p \in Procs, LookFails(p)
  PROVE  Inv'
<1> USE Nulls DEF Facts
<1>Effect. /\ pc[p] \in {"look", "make"}
           /\ pc' = [pc EXCEPT ![p] = "leave"]
           /\ UNCHANGED <<node, parent, valid, dirty, clus, ref, owner, list, disk, op,
                goal, done, cur, ep, fd, pe, pp, ret>>
  BY DEF LookFails, At, Goto, entryVars, callVars, putVars
<1>EntryTypeOK. EntryTypeOK'
  BY <1>Effect DEF Inv, EntryTypeOK, Entries, Places, Putting, LastPut, Walking, Reached
<1>PointersUsed. PointersUsed'
  BY <1>Effect
  DEF Inv, PointersUsed, Place, Putting, LastPut, Walking, Reached, EntryTypeOK, Entries
<1>WalkedSoFar. WalkedSoFar'
  BY <1>Effect
  DEF Inv, WalkedSoFar, Place, Putting, LastPut, Walking, Reached, Depth, AtParent,
      Creating, EntryTypeOK, Entries
<1>OnItsPath. OnItsPath'
  BY <1>Effect
  DEF Inv, OnItsPath, Place, Putting, LastPut, Walking, Reached, Child, PointersUsed,
      EntryTypeOK, Entries
<1>LocksWhere. LocksWhere'
  BY <1>Effect DEF Inv, LocksWhere, Locking, EntryTypeOK, Entries
<1>Others. OthersStay(p)
  BY <1>Effect DEF OthersStay, Inv, EntryTypeOK
<1>LocksWhose. LocksWhose'
  <2>1. ASSUME NEW e \in Entries, owner'[e] = p PROVE Holds(p, e)'
    <3>1. owner[e] = p => Holds(p, e)
      BY DEF Inv, LocksWhose
    <3> QED
      BY <1>Effect, <2>1, <3>1
      DEF Holds, Locking, Inv, EntryTypeOK, PointersUsed, Place, Putting, LastPut, Walking,
          Reached
  <2> QED
    BY <1>Others, <1>EntryTypeOK, <2>1, OthersLocksWhose DEF EntryTypeOK
<1>LastPutAlone. LastPutAlone'
  BY <1>Effect DEF Inv, LastPutAlone, LastPut, EntryTypeOK, Entries
<1>PointersValid. PointersValid'
  BY <1>Effect
  DEF Inv, PointersValid, Putting, LastPut, PointersUsed, Place, Walking, Reached,
      EntryTypeOK, Entries
<1>NotThereYet. NotThereYet'
  BY <1>Effect DEF Inv, NotThereYet, Matching, EntryTypeOK, Entries
<1>StillEmpty. StillEmpty'
  BY <1>Effect DEF Inv, StillEmpty, NotEmpty, EntryTypeOK, Entries
<1>ParentsFirst. ParentsFirst'
  BY <1>Effect DEF Inv, ParentsFirst, Leaving, LastPut, EntryTypeOK, Entries
<1>RefsAreSum. RefsAreSum'
  <2>1. UNCHANGED <<cur, ep, fd, pp, pe, ref, parent>> /\ ChildOf' = ChildOf
    BY <1>Effect DEF ChildOf
  <2>2. PutArg' = PutArg
    BY <1>Effect, <2>1 DEF PutArg, Inv, EntryTypeOK
  <2> QED
    BY <2>1, <2>2, RefsSame DEF Inv
<1>Same. ListLinked' /\ RootStays' /\ EntryFilled' /\ ParentIsParent' /\ OneEntryPerFile'
  BY <1>Effect DEF Inv, ListLinked, RootStays, EntryFilled, ParentIsParent, OneEntryPerFile
<1> QED
  BY <1>EntryTypeOK, <1>PointersUsed, <1>WalkedSoFar, <1>OnItsPath, <1>LocksWhere,
     <1>LocksWhose, <1>LastPutAlone, <1>PointersValid, <1>NotThereYet, <1>StillEmpty,
     <1>ParentsFirst, <1>RefsAreSum, <1>Same
  DEF Inv

\* Leaving the lock of the parent directory that was asked for.
LEMMA LookParentKeeps ==
  ASSUME Inv, Facts, NEW p \in Procs, LookParent(p)
  PROVE  Inv'
<1> USE Nulls DEF Facts
<1>Effect. /\ pc[p] = "look" /\ AtParent(p)
           /\ owner' = [owner EXCEPT ![cur[p]] = None]
           /\ pc' = [pc EXCEPT ![p] = "relock"]
           /\ UNCHANGED <<node, parent, valid, dirty, clus, ref, list, disk, op, goal, done,
                cur, ep, fd, pe, pp, ret>>
  BY DEF LookParent, At, Goto, entryVars, callVars, putVars
<1>EntryTypeOK. EntryTypeOK'
  <2>1. owner' \in [Entries -> Procs \cup {None}]
    BY <1>Effect DEF Inv, EntryTypeOK, Entries
  <2>2. pc' \in [Procs -> Places]
    BY <1>Effect DEF Inv, EntryTypeOK, Places, Putting, LastPut, Walking, Reached
  <2> QED
    BY <1>Effect, <2>1, <2>2 DEF Inv, EntryTypeOK
<1>PointersUsed. PointersUsed'
  BY <1>Effect
  DEF Inv, PointersUsed, Place, Putting, LastPut, Walking, Reached, EntryTypeOK, Entries
<1>WalkedSoFar. WalkedSoFar'
  BY <1>Effect
  DEF Inv, WalkedSoFar, Place, Putting, LastPut, Walking, Reached, Depth, AtParent,
      Creating, EntryTypeOK, Entries
<1>OnItsPath. OnItsPath'
  BY <1>Effect
  DEF Inv, OnItsPath, Place, Putting, LastPut, Walking, Reached, Child, EntryTypeOK, Entries
<1>LocksWhere. LocksWhere'
  BY <1>Effect DEF Inv, LocksWhere, Locking, EntryTypeOK, Entries
<1>Others. OthersStay(p)
  BY <1>Effect DEF OthersStay, Inv, EntryTypeOK, LocksWhere, Locking
<1>LocksWhose. LocksWhose'
  <2>1. ASSUME NEW e \in Entries, owner'[e] = p PROVE Holds(p, e)'
    <3>1. owner[e] = p => Holds(p, e)
      BY DEF Inv, LocksWhose
    <3> QED
      BY <1>Effect, <2>1, <3>1
      DEF Holds, Locking, Inv, EntryTypeOK, PointersUsed, Place, Putting, LastPut, Walking,
          Reached
  <2> QED
    BY <1>Others, <1>EntryTypeOK, <2>1, OthersLocksWhose DEF EntryTypeOK
<1>LastPutAlone. LastPutAlone'
  BY <1>Effect DEF Inv, LastPutAlone, LastPut, EntryTypeOK, Entries
<1>PointersValid. PointersValid'
  BY <1>Effect DEF Inv, PointersValid, Putting, LastPut, EntryTypeOK, Entries
<1>NotThereYet. NotThereYet'
  BY <1>Effect DEF Inv, NotThereYet, Matching, EntryTypeOK, Entries
<1>StillEmpty. StillEmpty'
  BY <1>Effect DEF Inv, StillEmpty, NotEmpty, EntryTypeOK, Entries
<1>ParentsFirst. ParentsFirst'
  BY <1>Effect DEF Inv, ParentsFirst, Leaving, LastPut, EntryTypeOK, Entries
<1>RefsAreSum. RefsAreSum'
  <2>1. UNCHANGED <<cur, ep, fd, pp, pe, ref, parent>> /\ ChildOf' = ChildOf
    BY <1>Effect DEF ChildOf
  <2>2. PutArg' = PutArg
    BY <1>Effect, <2>1 DEF PutArg, Inv, EntryTypeOK
  <2> QED
    BY <2>1, <2>2, RefsSame DEF Inv
<1>Same. ListLinked' /\ RootStays' /\ EntryFilled' /\ ParentIsParent' /\ OneEntryPerFile'
  BY <1>Effect DEF Inv, ListLinked, RootStays, EntryFilled, ParentIsParent, OneEntryPerFile
<1> QED
  BY <1>EntryTypeOK, <1>PointersUsed, <1>WalkedSoFar, <1>OnItsPath, <1>LocksWhere,
     <1>LocksWhose, <1>LastPutAlone, <1>PointersValid, <1>NotThereYet, <1>StillEmpty,
     <1>ParentsFirst, <1>RefsAreSum, <1>Same
  DEF Inv

\* Taking the least recently used entry: no cached child points to it, for they
\* are linked behind it and would have been taken before.
LEMMA EgetRecycleKeeps ==
  ASSUME Inv, Facts, ~PutRace, NEW p \in Procs, EgetRecycle(p)
  PROVE  Inv'
<1> USE Nulls DEF Facts
<1>1. PICK i \in Unused :
       /\ \A j \in Unused : j <= i
       /\ Settled(list[i])
       /\ ref'   = [ref EXCEPT ![list[i]] = 1]
       /\ valid' = [valid EXCEPT ![list[i]] = 0]
       /\ dirty' = [dirty EXCEPT ![list[i]] = FALSE]
       /\ node'  = [node EXCEPT ![list[i]] = <<>>]
       /\ parent' = [parent EXCEPT ![list[i]] = None]
       /\ clus'  = [clus EXCEPT ![list[i]] = FALSE]
       /\ ep'    = [ep EXCEPT ![p] = list[i]]
  BY DEF EgetRecycle
<1> DEFINE s == list[i]
<1>2. s \in Slots /\ s \in Entries /\ ref[s] = 0 /\ i \in 1..ENTRY_CACHE_NUM
  BY DEF Unused, Inv, EntryTypeOK, Entries
<1>3. \A q \in Procs : pc[q] \in LastPut => pe[q] # s
  BY <1>1 DEF Settled
<1>Effect. /\ s \in Slots /\ s \in Entries /\ ref[s] = 0
           /\ \/ /\ pc[p] \in {"look", "make"} /\ valid[cur[p]] = 1 /\ Matching(p) = {}
                 /\ (pc[p] = "make" \/ ~AtParent(p)) /\ pc' = [pc EXCEPT ![p] = "scan"]
              \/ pc[p] = "alloc" /\ pc' = [pc EXCEPT ![p] = "emake"]
           /\ ref'   = [ref EXCEPT ![s] = 1]
           /\ valid' = [valid EXCEPT ![s] = 0]
           /\ dirty' = [dirty EXCEPT ![s] = FALSE]
           /\ node'  = [node EXCEPT ![s] = <<>>]
           /\ parent' = [parent EXCEPT ![s] = None]
           /\ clus'  = [clus EXCEPT ![s] = FALSE]
           /\ ep'    = [ep EXCEPT ![p] = s]
           /\ UNCHANGED <<owner, list, disk, op, goal, done, cur, fd, pe, pp, ret>>
  BY <1>1, <1>2 DEF EgetRecycle, Looking, At, Goto, putVars
<1>s. s = list[i]
  OBVIOUS
<1> HIDE DEF s
<1>EntryTypeOK. EntryTypeOK'
  <2>1. pc' \in [Procs -> Places]
    <3>1. "scan" \in Places /\ "emake" \in Places
      BY DEF Places, Walking
    <3>2. pc' = [pc EXCEPT ![p] = "scan"] \/ pc' = [pc EXCEPT ![p] = "emake"]
      BY <1>Effect
    <3> QED
      BY <3>1, <3>2 DEF Inv, EntryTypeOK
  <2>2. /\ ref' \in [Entries -> Nat] /\ valid' \in [Entries -> {-1, 0, 1}]
        /\ dirty' \in [Entries -> BOOLEAN] /\ clus' \in [Entries -> BOOLEAN]
        /\ ep' \in [Procs -> Slots \cup {None}]
    BY <1>Effect DEF Inv, EntryTypeOK
  <2>3. node' \in [Entries -> Paths \cup {<<>>}] /\ parent' \in [Entries -> Entries \cup {None}]
    BY <1>Effect DEF Inv, EntryTypeOK
  <2> QED
    BY <1>Effect, <2>1, <2>2, <2>3 DEF Inv, EntryTypeOK
<1>ParentIsParent. ParentIsParent'
  <2> SUFFICES ASSUME NEW t \in Slots, valid'[t] = 1
               PROVE  /\ parent'[t] \in Entries /\ valid'[parent'[t]] = 1
                      /\ node'[parent'[t]] = Parent(node'[t])
    BY DEF ParentIsParent
  <2>1. t # s /\ valid[t] = 1 /\ parent'[t] = parent[t] /\ node'[t] = node[t]
    BY <1>Effect DEF Inv, EntryTypeOK, Entries
  <2>2. parent[t] # s
    <3> SUFFICES ASSUME parent[t] = s PROVE FALSE
      OBVIOUS
    <3>1. PICK j \in 1..ENTRY_CACHE_NUM : list[j] = t
      BY DEF Inv, ListLinked
    <3>2. i < j
      BY <1>2, <1>s, <2>1, <3>1 DEF Inv, ParentsFirst, Leaving
    <3>3. ref[t] = 0
      <4>1. ref[t] \in Nat
        BY DEF Inv, EntryTypeOK, Entries
      <4>2. ~(ref[t] > 0)
        BY <1>2, <2>1 DEF Counted, InUse
      <4> QED
        BY ONLY <4>1, <4>2
    <3>4. j \in Unused
      BY <3>1, <3>3 DEF Unused
    <3>5. j <= i /\ i \in Int /\ j \in Int
      BY <1>1, <1>2, <3>4
    <3> QED
      BY ONLY <3>2, <3>5
  <2>3. parent[t] \in Entries /\ valid[parent[t]] = 1 /\ node[parent[t]] = Parent(node[t])
    BY <2>1 DEF Inv, ParentIsParent
  <2>4. valid'[parent[t]] = valid[parent[t]] /\ node'[parent[t]] = node[parent[t]]
    BY <1>Effect, <2>2, <2>3 DEF Inv, EntryTypeOK
  <2> QED
    BY <2>1, <2>3, <2>4
<1>RootStays. RootStays'
  BY <1>Effect, <1>3
  DEF Inv, RootStays, PointersUsed, Place, Putting, LastPut, Walking, Reached, EntryTypeOK,
      Entries
<1>PointersUsed. PointersUsed'
  BY <1>Effect, <1>3
  DEF Inv, PointersUsed, Place, Putting, LastPut, Walking, Reached, LocksWhere, Locking,
      EntryTypeOK, Entries
<1>WalkedSoFar. WalkedSoFar'
  BY <1>Effect, <1>3
  DEF Inv, WalkedSoFar, Place, Putting, LastPut, Walking, Reached, Depth, AtParent,
      Creating, EntryTypeOK, Entries, Unused
<1>OnItsPath. OnItsPath'
  BY <1>Effect, <1>3
  DEF Inv, OnItsPath, Place, Putting, LastPut, Walking, Reached, Child, PointersUsed,
      Counted, RefersTo, InUse, EntryTypeOK, Entries
<1>LocksWhere. LocksWhere'
  BY <1>Effect, <1>3
  DEF Inv, LocksWhere, Locking, PointersUsed, Place, Putting, LastPut, Walking, Reached,
      Counted, RefersTo, InUse, EntryTypeOK, Entries
<1>Others. OthersStay(p)
  BY <1>Effect, <1>3
  DEF OthersStay, Inv, EntryTypeOK, Counted, RefersTo, PointersUsed, Place, Putting, LastPut,
      Walking, Reached
<1>LocksWhose. LocksWhose'
  <2>1. ASSUME NEW e \in Entries, owner'[e] = p PROVE Holds(p, e)'
    <3>1. owner[e] = p => Holds(p, e)
      BY DEF Inv, LocksWhose
    <3> QED
      BY <1>Effect, <2>1, <3>1, <1>3
      DEF Holds, Locking, Inv, EntryTypeOK, PointersUsed, Place, Putting, LastPut, Walking,
          Reached
  <2> QED
    BY <1>Others, <1>EntryTypeOK, <2>1, OthersLocksWhose DEF EntryTypeOK
<1>LastPutAlone. LastPutAlone'
  BY <1>Effect, <1>3 DEF Inv, LastPutAlone, LastPut, EntryTypeOK, Entries
<1>PointersValid. PointersValid'
  BY <1>Effect, <1>3
  DEF Inv, PointersValid, Putting, LastPut, PointersUsed, Place, Walking, Reached, Counted,
      RefersTo, InUse, LastPutAlone, EntryTypeOK, Entries
<1>EntryFilled. EntryFilled'
  BY <1>Effect, <1>3
  DEF Inv, EntryFilled, PointersUsed, Place, Putting, LastPut, Walking, Reached, Counted,
      RefersTo, InUse, EntryTypeOK, Entries
<1>NotThereYet. NotThereYet'
  BY <1>Effect, <1>3
  DEF Inv, NotThereYet, Matching, PointersUsed, Place, Putting, LastPut, Walking, Reached,
      Counted, RefersTo, InUse, EntryTypeOK, Entries
<1>StillEmpty. StillEmpty'
  BY <1>Effect, <1>3
  DEF Inv, StillEmpty, NotEmpty, PointersUsed, Place, Putting, LastPut, Walking, Reached,
      LastPutAlone, PutAlone, PointsTo, InUse, EntryTypeOK, Entries
<1>ParentsFirst. ParentsFirst'
  BY <1>Effect, <1>3 DEF Inv, ParentsFirst, Leaving, LastPut, EntryTypeOK, Entries
<1>RefsAreSum. RefsAreSum'
  <2>1. PICK k \in Unused :
          /\ ref'   = [ref EXCEPT ![list[k]] = 1]
          /\ valid' = [valid EXCEPT ![list[k]] = 0]
          /\ parent' = [parent EXCEPT ![list[k]] = None]
          /\ ep'    = [ep EXCEPT ![p] = list[k]]
    BY DEF EgetRecycle
  <2>2. list[k] \in Slots /\ ref[list[k]] = 0
    BY DEF Unused, Inv, EntryTypeOK
  <2>3. /\ pc[p] \in {"look", "make", "alloc"} /\ pc'[p] \in {"scan", "emake"}
        /\ pc' = [pc EXCEPT ![p] = pc'[p]]
    BY <1>Effect, <1>3 DEF Inv, EntryTypeOK
  <2>4. UNCHANGED <<cur, fd, pp, pe>>
    BY <1>Effect, <1>3
  <2>5. OthersKeep(p)
    BY <2>1, <2>3, <2>4 DEF OthersKeep, PutArg, Inv, EntryTypeOK
  <2>6. ep[p] = None
    BY <2>3, Nulls DEF Inv, PointersUsed
  <2>7. ep'[p] = list[k] /\ PutArg'[p] = PutArg[p]
    BY <2>1, <2>3, <2>4 DEF PutArg, Inv, EntryTypeOK
  <2>8. ChildOf' = ChildOf
    BY <2>1, <2>2 DEF ChildOf, Inv, EntryTypeOK, Entries
  <2>9. \A e \in Entries : ref'[e] = ref[e] + Moved(p, e)
    BY <2>1, <2>2, <2>4, <2>6, <2>7, Nulls DEF Moved, One, Inv, EntryTypeOK
  <2> QED
    BY <2>5, <2>8, <2>9, RefMoves DEF Inv
<1>OneEntryPerFile. OneEntryPerFile'
  BY <1>Effect, <1>3 DEF Inv, OneEntryPerFile, EntryTypeOK, Entries
<1>Same. ListLinked'
  BY <1>Effect, <1>3 DEF Inv, ListLinked
<1> QED
  BY <1>EntryTypeOK, <1>ParentIsParent, <1>RootStays, <1>PointersUsed, <1>WalkedSoFar,
     <1>OnItsPath, <1>LocksWhere, <1>LocksWhose, <1>LastPutAlone, <1>PointersValid,
     <1>EntryFilled, <1>NotThereYet, <1>StillEmpty, <1>ParentsFirst, <1>RefsAreSum,
     <1>OneEntryPerFile, <1>Same
  DEF Inv

\* The panic of eget() when every entry is in use.
LEMMA EgetPanicKeeps ==
  ASSUME Inv, Facts, NEW p \in Procs, EgetPanic(p)
  PROVE  Inv'
<1> USE Nulls DEF Facts
<1>Effect. /\ pc[p] \in {"look", "make", "alloc"}
           /\ pc' = [pc EXCEPT ![p] = "panic"]
           /\ UNCHANGED <<node, parent, valid, dirty, clus, ref, owner, list, disk, op,
                goal, done, cur, ep, fd, pe, pp, ret>>
  BY DEF EgetPanic, At, Goto, Looking, entryVars, callVars, putVars
<1>EntryTypeOK. EntryTypeOK'
  BY <1>Effect DEF Inv, EntryTypeOK, Entries, Places, Putting, LastPut, Walking, Reached
<1>PointersUsed. PointersUsed'
  BY <1>Effect
  DEF Inv, PointersUsed, Place, Putting, LastPut, Walking, Reached, EntryTypeOK, Entries
<1>WalkedSoFar. WalkedSoFar'
  BY <1>Effect
  DEF Inv, WalkedSoFar, Place, Putting, LastPut, Walking, Reached, Depth, AtParent,
      Creating, EntryTypeOK, Entries, Unused
<1>OnItsPath. OnItsPath'
  BY <1>Effect
  DEF Inv, OnItsPath, Place, Putting, LastPut, Walking, Reached, Child, EntryTypeOK, Entries
<1>LocksWhere. LocksWhere'
  BY <1>Effect DEF Inv, LocksWhere, Locking, EntryTypeOK, Entries
<1>Others. OthersStay(p)
  BY <1>Effect DEF OthersStay, Inv, EntryTypeOK
<1>LocksWhose. LocksWhose'
  <2>1. ASSUME NEW e \in Entries, owner'[e] = p PROVE Holds(p, e)'
    <3>1. owner[e] = p => Holds(p, e)
      BY DEF Inv, LocksWhose
    <3> QED
      BY <1>Effect, <2>1, <3>1
      DEF Holds, Locking, Inv, EntryTypeOK, PointersUsed, Place, Putting, LastPut, Walking,
          Reached
  <2> QED
    BY <1>Others, <1>EntryTypeOK, <2>1, OthersLocksWhose DEF EntryTypeOK
<1>LastPutAlone. LastPutAlone'
  BY <1>Effect DEF Inv, LastPutAlone, LastPut, EntryTypeOK, Entries
<1>PointersValid. PointersValid'
  BY <1>Effect DEF Inv, PointersValid, Putting, LastPut, EntryTypeOK, Entries
<1>NotThereYet. NotThereYet'
  BY <1>Effect DEF Inv, NotThereYet, Matching, EntryTypeOK, Entries
<1>StillEmpty. StillEmpty'
  BY <1>Effect DEF Inv, StillEmpty, NotEmpty, EntryTypeOK, Entries
<1>ParentsFirst. ParentsFirst'
  BY <1>Effect DEF Inv, ParentsFirst, Leaving, LastPut, EntryTypeOK, Entries
<1>RefsAreSum. RefsAreSum'
  <2>1. UNCHANGED <<cur, ep, fd, pp, pe, ref, parent>> /\ ChildOf' = ChildOf
    BY <1>Effect DEF ChildOf
  <2>2. PutArg' = PutArg
    BY <1>Effect, <2>1 DEF PutArg, Inv, EntryTypeOK
  <2> QED
    BY <2>1, <2>2, RefsSame DEF Inv
<1>Same. ListLinked' /\ RootStays' /\ EntryFilled' /\ ParentIsParent' /\ OneEntryPerFile'
  BY <1>Effect DEF Inv, ListLinked, RootStays, EntryFilled, ParentIsParent, OneEntryPerFile
<1> QED
  BY <1>EntryTypeOK, <1>PointersUsed, <1>WalkedSoFar, <1>OnItsPath, <1>LocksWhere,
     <1>LocksWhose, <1>LastPutAlone, <1>PointersValid, <1>NotThereYet, <1>StillEmpty,
     <1>ParentsFirst, <1>RefsAreSum, <1>Same
  DEF Inv

\* dirlookup() that finds the name on the disk.
LEMMA ScanFoundKeeps ==
  ASSUME Inv, Facts, NEW p \in Procs, ScanFound(p)
  PROVE  Inv'
<1> USE Nulls DEF Facts
<1>Effect. /\ pc[p] = "scan" /\ Child(p) \in Paths /\ disk[Child(p)] # "absent"
           /\ node' = [node EXCEPT ![ep[p]] = Child(p)]
           /\ parent' = [parent EXCEPT ![ep[p]] = cur[p]]
           /\ valid' = [valid EXCEPT ![ep[p]] = 1]
           /\ clus' = [clus EXCEPT ![ep[p]] = (disk[Child(p)] = "full")]
           /\ ref' = [ref EXCEPT ![cur[p]] = @ + 1]
           /\ pc' = [pc EXCEPT ![p] = "leave"]
           /\ UNCHANGED <<dirty, owner, list, disk, op, goal, done, cur, ep, fd, pe, pp,
                ret>>
  BY DEF ScanFound, At, Goto, Fill, entryVars, callVars, putVars
<1>1. Filled(p, disk[Child(p)] = "full")
  <2>1. pc[p] = "scan" /\ Child(p) \in Paths /\ disk[Child(p)] \in {"empty", "full"}
    BY <1>Effect DEF Inv, EntryTypeOK
  <2> QED
    BY <2>1 DEF Filled, ScanFound, Inv, EntryTypeOK
<1>2. /\ EntryTypeOK' /\ RootStays' /\ OnItsPath' /\ LastPutAlone' /\ PointersValid'
      /\ EntryFilled' /\ NotThereYet' /\ StillEmpty' /\ ParentsFirst' /\ ParentIsParent'
      /\ OneEntryPerFile'
  BY <1>1, FillInv
<1>PointersUsed. PointersUsed'
  BY <1>Effect
  DEF Inv, PointersUsed, Place, Putting, LastPut, Walking, Reached, EntryTypeOK, Entries
<1>WalkedSoFar. WalkedSoFar'
  BY <1>Effect
  DEF Inv, WalkedSoFar, Place, Putting, LastPut, Walking, Reached, Depth, AtParent,
      Creating, EntryTypeOK, Entries
<1>LocksWhere. LocksWhere'
  BY <1>Effect
  DEF Inv, LocksWhere, Locking, PointersUsed, Place, Putting, LastPut, Walking, Reached,
      PointersValid, EntryTypeOK, Entries
<1>Others. OthersStay(p)
  BY <1>Effect
  DEF OthersStay, Inv, EntryTypeOK, FillAlone, PointsTo, LastPutAlone, PointersUsed,
      Putting, LastPut
<1>LocksWhose. LocksWhose'
  <2>1. ASSUME NEW e \in Entries, owner'[e] = p PROVE Holds(p, e)'
    <3>1. owner[e] = p => Holds(p, e)
      BY DEF Inv, LocksWhose
    <3> QED
      BY <1>Effect, <2>1, <3>1
      DEF Holds, Locking, Inv, EntryTypeOK, PointersUsed, Place, Putting, LastPut, Walking,
          Reached
  <2> QED
    BY <1>Others, <1>2, <2>1, OthersLocksWhose DEF EntryTypeOK
<1>RefsAreSum. RefsAreSum'
  <2>1. OthersKeep(p)
    BY <1>Effect DEF OthersKeep, PutArg, Inv, EntryTypeOK
  <2>2. /\ cur'[p] = cur[p]
        /\ ep'[p] = ep[p]
        /\ fd'[p] = fd[p]
        /\ PutArg'[p] = PutArg[p]
        /\ pp'[p] = pp[p]
    BY <1>Effect
    DEF PutArg, Inv, EntryTypeOK, PointersUsed, Place, Putting, LastPut, Walking, Reached,
        LastPutAlone
  <2>3. /\ ref' = [ref EXCEPT ![cur[p]] = @ + 1] /\ ref \in [Entries -> Nat]
        /\ cur[p] \in Entries \cup {None}
    BY <1>Effect DEF Inv, EntryTypeOK
  <2>4. ep[p] \in Slots
    BY <1>Effect
    DEF Inv, EntryTypeOK, PointersUsed, Place, Putting, LastPut, Walking, Reached,
        LastPutAlone
  <2>5. ChildOf[ep[p]] = None /\ ChildOf'[ep[p]] = cur[p]
    BY <1>Effect, <2>4
    DEF ChildOf, Inv, EntryTypeOK, Entries, PointersUsed, Place, Putting, LastPut, Walking,
        Reached, LastPutAlone, PointersValid
  <2>6. \A t \in Slots \ {ep[p]} : ChildOf'[t] = ChildOf[t]
    BY <1>Effect, <2>4
    DEF ChildOf, Inv, EntryTypeOK, Entries, PointersUsed, Place, Putting, LastPut, Walking,
        Reached, LastPutAlone, PointersValid, Counted, RefersTo
  <2>7. \A e \in Entries : ref'[e] = ref[e] + Moved(p, e) + One(ChildOf'[ep[p]], e)
                                     - One(ChildOf[ep[p]], e)
    BY <2>2, <2>3, <2>4, <2>5, Nulls DEF Moved, One, Entries
  <2> QED
    BY <2>1, <2>4, <2>6, <2>7, RefMovesChild DEF Inv
<1>Same. ListLinked'
  BY <1>Effect DEF Inv, ListLinked
<1> QED
  BY <1>2, <1>PointersUsed, <1>WalkedSoFar, <1>LocksWhere, <1>LocksWhose, <1>RefsAreSum,
     <1>Same
  DEF Inv

\* dirlookup() that does not find the name, and puts the entry that it took.
LEMMA ScanFailsKeeps ==
  ASSUME Inv, Facts, NEW p \in Procs, ScanFails(p)
  PROVE  Inv'
<1> USE Nulls DEF Facts
<1>Effect. /\ pc[p] = "scan"
           /\ ref' = [ref EXCEPT ![ep[p]] = @ - 1]
           /\ ep' = [ep EXCEPT ![p] = None]
           /\ pc' = [pc EXCEPT ![p] = IF AtParent(p) THEN "alloc" ELSE "leave"]
           /\ UNCHANGED <<node, parent, valid, dirty, clus, owner, list, disk, op, goal,
                done, cur, fd, pe, pp, ret>>
  BY DEF ScanFails, At, Goto, entryVars, callVars, putVars
<1>ParentsFirst. ParentsFirst'
  <2>1. /\ pc[p] = "scan" /\ ref' = [ref EXCEPT ![ep[p]] = @ - 1]
        /\ pc' = [pc EXCEPT ![p] = IF AtParent(p) THEN "alloc" ELSE "leave"]
        /\ UNCHANGED <<valid, parent, list, pe>>
    BY <1>Effect
  <2>2. \A q \in Procs : pc'[q] \in LastPut => pc[q] \in LastPut
    BY <2>1 DEF LastPut, Inv, EntryTypeOK
  <2>3. \A e \in Entries : e # ep[p] => (Leaving(e)' => Leaving(e))
    BY <2>1, <2>2 DEF Leaving, Inv, EntryTypeOK
  <2>4. \A t \in Slots : valid[t] = 1 => parent[t] # ep[p]
    BY <2>1 DEF Inv, PointersValid, ParentIsParent
  <2>5. \A j \in 1..ENTRY_CACHE_NUM : list[j] \in Slots /\ list[j] \in Entries
    BY DEF Inv, EntryTypeOK, Entries
  <2> QED
    BY <2>1, <2>3, <2>4, <2>5 DEF Inv, ParentsFirst
<1>EntryTypeOK. EntryTypeOK'
  BY <1>Effect
  DEF Inv, EntryTypeOK, PointersUsed, Place, Putting, LastPut, Walking, Reached,
      PointersValid, Entries, Places
<1>PointersUsed. PointersUsed'
  BY <1>Effect
  DEF Inv, PointersUsed, Place, Putting, LastPut, Walking, Reached, EntryTypeOK, Entries
<1>WalkedSoFar. WalkedSoFar'
  BY <1>Effect
  DEF Inv, WalkedSoFar, Place, Putting, LastPut, Walking, Reached, Depth, AtParent,
      Creating, EntryTypeOK, Entries
<1>OnItsPath. OnItsPath'
  BY <1>Effect
  DEF Inv, OnItsPath, Place, Putting, LastPut, Walking, Reached, Child, EntryTypeOK, Entries
<1>LocksWhere. LocksWhere'
  BY <1>Effect DEF Inv, LocksWhere, Locking, EntryTypeOK, Entries
<1>Others. OthersStay(p)
  BY <1>Effect DEF OthersStay, Inv, EntryTypeOK
<1>LocksWhose. LocksWhose'
  <2>1. ASSUME NEW e \in Entries, owner'[e] = p PROVE Holds(p, e)'
    <3>1. owner[e] = p => Holds(p, e)
      BY DEF Inv, LocksWhose
    <3> QED
      BY <1>Effect, <2>1, <3>1
      DEF Holds, Locking, Inv, EntryTypeOK, PointersUsed, Place, Putting, LastPut, Walking,
          Reached
  <2> QED
    BY <1>Others, <1>EntryTypeOK, <2>1, OthersLocksWhose DEF EntryTypeOK
<1>LastPutAlone. LastPutAlone'
  BY <1>Effect
  DEF Inv, LastPutAlone, LastPut, PointersUsed, Place, Putting, Walking, Reached,
      PointersValid, EntryTypeOK, Entries
<1>PointersValid. PointersValid'
  BY <1>Effect
  DEF Inv, PointersValid, Putting, LastPut, PointersUsed, Place, Walking, Reached,
      FillAlone, PointsTo, InUse, EntryTypeOK, Entries
<1>EntryFilled. EntryFilled'
  BY <1>Effect
  DEF Inv, EntryFilled, PointersUsed, Place, Putting, LastPut, Walking, Reached,
      PointersValid, EntryTypeOK, Entries
<1>NotThereYet. NotThereYet'
  BY <1>Effect DEF Inv, NotThereYet, Matching, EntryTypeOK, Entries
<1>StillEmpty. StillEmpty'
  BY <1>Effect DEF Inv, StillEmpty, NotEmpty, EntryTypeOK, Entries
<1>RefsAreSum. RefsAreSum'
  <2>1. OthersKeep(p)
    BY <1>Effect DEF OthersKeep, PutArg, Inv, EntryTypeOK
  <2>2. /\ cur'[p] = cur[p]
        /\ ep'[p] = None
        /\ fd'[p] = fd[p]
        /\ PutArg'[p] = PutArg[p]
        /\ pp'[p] = pp[p]
    BY <1>Effect
    DEF PutArg, Inv, EntryTypeOK, PointersUsed, Place, Putting, LastPut, Walking, Reached,
        LastPutAlone
  <2>3. /\ ref' = [ref EXCEPT ![ep[p]] = @ - 1] /\ ref \in [Entries -> Nat]
        /\ cur[p] \in Entries \cup {None}
    BY <1>Effect DEF Inv, EntryTypeOK
  <2>4. ChildOf' = ChildOf
    BY <1>Effect
    DEF ChildOf, Inv, EntryTypeOK, Entries, PointersUsed, Place, Putting, LastPut, Walking,
        Reached, LastPutAlone, PointersValid, FoundSlot, Counted, RefersTo
  <2>5. \A e \in Entries : ref'[e] = ref[e] + Moved(p, e)
    BY <2>2, <2>3, Nulls DEF Moved, One
  <2> QED
    BY <2>1, <2>4, <2>5, RefMoves DEF Inv
<1>Same. ListLinked' /\ RootStays' /\ ParentIsParent' /\ OneEntryPerFile'
  BY <1>Effect DEF Inv, ListLinked, RootStays, ParentIsParent, OneEntryPerFile
<1> QED
  BY <1>ParentsFirst, <1>EntryTypeOK, <1>PointersUsed, <1>WalkedSoFar, <1>OnItsPath,
     <1>LocksWhere, <1>LocksWhose, <1>LastPutAlone, <1>PointersValid, <1>EntryFilled,
     <1>NotThereYet, <1>StillEmpty, <1>RefsAreSum, <1>Same
  DEF Inv

\* Going on with the entry that was found.
LEMMA LeaveKeeps ==
  ASSUME Inv, Facts, NEW p \in Procs, Leave(p)
  PROVE  Inv'
<1> USE Nulls DEF Facts
<1>Effect. /\ pc[p] = "leave" /\ ep[p] # None
           /\ owner' = [owner EXCEPT ![cur[p]] = None]
           /\ pe' = [pe EXCEPT ![p] = cur[p]]
           /\ ret' = [ret EXCEPT ![p] = IF done[p] + 1 = Depth(p) THEN "found" ELSE "walk"]
           /\ pc' = [pc EXCEPT ![p] = "put"]
           /\ done' = [done EXCEPT ![p] = @ + 1]
           /\ cur' = [cur EXCEPT ![p] = ep[p]]
           /\ ep' = [ep EXCEPT ![p] = None]
           /\ UNCHANGED <<node, parent, valid, dirty, clus, ref, list, disk, op, goal, fd,
                pp>>
  BY DEF Leave, At, CallEput, Goto, entryVars, callVars, putVars
<1>OnItsPath. OnItsPath'
  <2>1. pc[p] = "leave" /\ ep[p] # None
    BY <1>Effect
  <2>2. /\ pc' = [pc EXCEPT ![p] = "put"]
        /\ done' = [done EXCEPT ![p] = @ + 1]
        /\ cur'  = [cur EXCEPT ![p] = ep[p]]
        /\ ep'   = [ep EXCEPT ![p] = None]
        /\ \A q \in Procs : q # p => ret'[q] = ret[q]
        /\ UNCHANGED <<node, goal>>
    BY <1>Effect DEF Inv, EntryTypeOK
  <2>3. node[ep[p]] = SubSeq(goal[p], 1, done[p] + 1)
    <3>1. node[ep[p]] = Child(p)
      BY <2>1 DEF Inv, OnItsPath
    <3>2. Place(p) \in Walking
      BY <2>1 DEF Place, Putting, LastPut, Walking
    <3> QED
      BY <3>1, <3>2 DEF Asking
  <2> SUFFICES ASSUME NEW q \in Procs
               PROVE  /\ Place(q)' \in Walking \cup Reached =>
                           node[cur'[q]] = SubSeq(goal[q], 1, done'[q])
                      /\ pc'[q] = "leave" /\ ep'[q] # None => node[ep'[q]] = Child(q)'
    BY <2>2 DEF OnItsPath
  <2>4. CASE q = p
    BY <2>2, <2>3, <2>4 DEF Inv, EntryTypeOK
  <2>5. CASE q # p
    <3>1. /\ pc'[q] = pc[q] /\ done'[q] = done[q] /\ cur'[q] = cur[q] /\ ep'[q] = ep[q]
          /\ ret'[q] = ret[q]
      BY <2>2, <2>5 DEF Inv, EntryTypeOK
    <3>2. Place(q)' = Place(q) /\ Child(q)' = Child(q)
      BY <2>2, <3>1 DEF Place, Child
    <3> QED
      BY <3>1, <3>2 DEF Inv, OnItsPath
  <2> QED
    BY <2>4, <2>5
<1>EntryTypeOK. EntryTypeOK'
  <2>1. owner' \in [Entries -> Procs \cup {None}]
    BY <1>Effect DEF Inv, EntryTypeOK, Entries
  <2>2. pc' \in [Procs -> Places]
    BY <1>Effect DEF Inv, EntryTypeOK, Places, Putting, LastPut, Walking, Reached
  <2>3. done' \in [Procs -> Nat]
    BY <1>Effect DEF Inv, EntryTypeOK
  <2>4. cur' \in [Procs -> Entries \cup {None}]
    BY <1>Effect DEF Inv, EntryTypeOK, Entries
  <2>5. ep' \in [Procs -> Slots \cup {None}]
    BY <1>Effect DEF Inv, EntryTypeOK
  <2>6. pe' \in [Procs -> Entries \cup {None}]
    BY <1>Effect DEF Inv, EntryTypeOK, Entries
  <2>7. ret' \in [Procs -> {"user", "walk", "found", "mkparent"}]
    BY <1>Effect DEF Inv, EntryTypeOK
  <2> QED
    BY <1>Effect, <2>1, <2>2, <2>3, <2>4, <2>5, <2>6, <2>7 DEF Inv, EntryTypeOK
<1>PointersUsed. PointersUsed'
  BY <1>Effect
  DEF Inv, PointersUsed, Place, Putting, LastPut, Walking, Reached, EntryTypeOK, Entries
<1>WalkedSoFar. WalkedSoFar'
  <2> SUFFICES ASSUME NEW q \in Procs
               PROVE  /\ Place(q)' \in Walking \cup Reached \cup {"mkparent"} => goal[q] \in Paths
                      /\ op[q] = "mkparent" \/ Place(q)' = "mkparent" => Len(goal[q]) = 2
                      /\ Place(q)' \in Walking => done'[q] < Depth(q)
                      /\ pc'[q] \in {"relock", "make", "alloc", "emake"} => AtParent(q)'
                      /\ Place(q)' \in Reached => done'[q] = Depth(q)
    BY <1>Effect DEF WalkedSoFar, Depth
  <2>1. CASE q = p
    <3>1. /\ goal[p] \in Paths /\ (op[p] = "mkparent" => Len(goal[p]) = 2)
          /\ done[p] \in Nat /\ done[p] < Depth(p)
      BY <1>Effect, CurIsEntry DEF Inv, EntryTypeOK, WalkedSoFar, Walking
    <3>2. /\ pc'[p] = "put" /\ done'[p] = done[p] + 1
          /\ Place(p)' = IF done[p] + 1 = Depth(p) THEN "found" ELSE "walk"
      BY <1>Effect DEF Inv, EntryTypeOK, Place, Putting
    <3>3. Depth(p) \in Int
      BY <3>1, SubSeqs DEF Depth
    <3>4. done[p] + 1 = Depth(p) \/ done[p] + 1 < Depth(p)
      BY ONLY <3>1, <3>3
    <3> QED
      BY <2>1, <3>1, <3>2, <3>4 DEF Walking, Reached
  <2>2. CASE q # p
    <3>1. /\ pc'[q] = pc[q] /\ Place(q)' = Place(q) /\ done'[q] = done[q]
          /\ (AtParent(q)' <=> AtParent(q))
      BY <1>Effect, <2>2 DEF Inv, EntryTypeOK, Place, AtParent, Creating, Depth
    <3> QED
      BY <3>1 DEF Inv, WalkedSoFar
  <2> QED
    BY <2>1, <2>2
<1>LocksWhere. LocksWhere'
  BY <1>Effect DEF Inv, LocksWhere, Locking, EntryTypeOK, Entries
<1>Others. OthersStay(p)
  BY <1>Effect DEF OthersStay, Inv, EntryTypeOK, LocksWhere, Locking
<1>LocksWhose. LocksWhose'
  <2>1. ASSUME NEW e \in Entries, owner'[e] = p PROVE Holds(p, e)'
    <3>1. owner[e] = p => Holds(p, e)
      BY DEF Inv, LocksWhose
    <3> QED
      BY <1>Effect, <2>1, <3>1
      DEF Holds, Locking, Inv, EntryTypeOK, PointersUsed, Place, Putting, LastPut, Walking,
          Reached
  <2> QED
    BY <1>Others, <1>EntryTypeOK, <2>1, OthersLocksWhose DEF EntryTypeOK
<1>LastPutAlone. LastPutAlone'
  BY <1>Effect DEF Inv, LastPutAlone, LastPut, EntryTypeOK, Entries
<1>PointersValid. PointersValid'
  BY <1>Effect
  DEF Inv, PointersValid, Putting, LastPut, PointersUsed, Place, Walking, Reached,
      EntryTypeOK, Entries
<1>NotThereYet. NotThereYet'
  BY <1>Effect DEF Inv, NotThereYet, Matching, EntryTypeOK, Entries
<1>StillEmpty. StillEmpty'
  BY <1>Effect DEF Inv, StillEmpty, NotEmpty, EntryTypeOK, Entries
<1>ParentsFirst. ParentsFirst'
  BY <1>Effect DEF Inv, ParentsFirst, Leaving, LastPut, EntryTypeOK, Entries
<1>RefsAreSum. RefsAreSum'
  <2>1. OthersKeep(p)
    BY <1>Effect DEF OthersKeep, PutArg, Inv, EntryTypeOK
  <2>2. /\ cur'[p] = ep[p]
        /\ ep'[p] = None
        /\ fd'[p] = fd[p]
        /\ PutArg[p] = None /\ PutArg'[p] = cur[p]
        /\ pp'[p] = pp[p]
    BY <1>Effect
    DEF PutArg, Inv, EntryTypeOK, PointersUsed, Place, Putting, LastPut, Walking, Reached,
        LastPutAlone
  <2>3. ref' = ref /\ ref \in [Entries -> Nat] /\ cur[p] \in Entries \cup {None}
    BY <1>Effect DEF Inv, EntryTypeOK
  <2>4. ChildOf' = ChildOf
    BY <1>Effect
    DEF ChildOf, Inv, EntryTypeOK, Entries, PointersUsed, Place, Putting, LastPut, Walking,
        Reached, LastPutAlone, PointersValid, FoundSlot, Counted, RefersTo
  <2>5. \A e \in Entries : ref'[e] = ref[e] + Moved(p, e)
    BY <2>2, <2>3, Nulls DEF Moved, One
  <2> QED
    BY <2>1, <2>4, <2>5, RefMoves DEF Inv
<1>Same. ListLinked' /\ RootStays' /\ EntryFilled' /\ ParentIsParent' /\ OneEntryPerFile'
  BY <1>Effect DEF Inv, ListLinked, RootStays, EntryFilled, ParentIsParent, OneEntryPerFile
<1> QED
  BY <1>OnItsPath, <1>EntryTypeOK, <1>PointersUsed, <1>WalkedSoFar, <1>LocksWhere,
     <1>LocksWhose, <1>LastPutAlone, <1>PointersValid, <1>NotThereYet, <1>StillEmpty,
     <1>ParentsFirst, <1>RefsAreSum, <1>Same
  DEF Inv

\* Giving up the walk.
LEMMA LeaveFailsKeeps ==
  ASSUME Inv, Facts, NEW p \in Procs, LeaveFails(p)
  PROVE  Inv'
<1> USE Nulls DEF Facts
<1>Effect. /\ pc[p] = "leave" /\ ep[p] = None
           /\ owner' = [owner EXCEPT ![cur[p]] = None]
           /\ pe' = [pe EXCEPT ![p] = cur[p]]
           /\ ret' = [ret EXCEPT ![p] = "user"]
           /\ pc' = [pc EXCEPT ![p] = "put"]
           /\ cur' = [cur EXCEPT ![p] = None]
           /\ op' = [op EXCEPT ![p] = "open"]
           /\ goal' = [goal EXCEPT ![p] = <<>>]
           /\ done' = [done EXCEPT ![p] = 0]
           /\ UNCHANGED <<node, parent, valid, dirty, clus, ref, list, disk, ep, fd, pp>>
  BY DEF LeaveFails, At, FinishWithEput, CallEput, Goto, entryVars, callVars, putVars
<1>EntryTypeOK. EntryTypeOK'
  <2>1. owner' \in [Entries -> Procs \cup {None}]
    BY <1>Effect DEF Inv, EntryTypeOK, Entries
  <2>2. pc' \in [Procs -> Places]
    BY <1>Effect DEF Inv, EntryTypeOK, Places, Putting, LastPut, Walking, Reached
  <2>3. op' \in [Procs -> {"open", "create", "mkdir", "remove", "mkparent"}]
    BY <1>Effect DEF Inv, EntryTypeOK
  <2>4. goal' \in [Procs -> Paths \cup {<<>>}]
    BY <1>Effect DEF Inv, EntryTypeOK
  <2>5. done' \in [Procs -> Nat]
    BY <1>Effect DEF Inv, EntryTypeOK
  <2>6. cur' \in [Procs -> Entries \cup {None}]
    BY <1>Effect DEF Inv, EntryTypeOK, Entries
  <2>7. pe' \in [Procs -> Entries \cup {None}]
    BY <1>Effect DEF Inv, EntryTypeOK, Entries
  <2>8. ret' \in [Procs -> {"user", "walk", "found", "mkparent"}]
    BY <1>Effect DEF Inv, EntryTypeOK
  <2> QED
    BY <1>Effect, <2>1, <2>2, <2>3, <2>4, <2>5, <2>6, <2>7, <2>8 DEF Inv, EntryTypeOK
<1>PointersUsed. PointersUsed'
  BY <1>Effect
  DEF Inv, PointersUsed, Place, Putting, LastPut, Walking, Reached, EntryTypeOK, Entries
<1>WalkedSoFar. WalkedSoFar'
  BY <1>Effect
  DEF Inv, WalkedSoFar, Place, Putting, LastPut, Walking, Reached, Depth, AtParent,
      Creating, EntryTypeOK, Entries, ParentMissing
<1>OnItsPath. OnItsPath'
  BY <1>Effect
  DEF Inv, OnItsPath, Place, Putting, LastPut, Walking, Reached, Child, EntryTypeOK, Entries
<1>LocksWhere. LocksWhere'
  BY <1>Effect DEF Inv, LocksWhere, Locking, EntryTypeOK, Entries
<1>Others. OthersStay(p)
  BY <1>Effect DEF OthersStay, Inv, EntryTypeOK, LocksWhere, Locking
<1>LocksWhose. LocksWhose'
  <2>1. ASSUME NEW e \in Entries, owner'[e] = p PROVE Holds(p, e)'
    <3>1. owner[e] = p => Holds(p, e)
      BY DEF Inv, LocksWhose
    <3> QED
      BY <1>Effect, <2>1, <3>1
      DEF Holds, Locking, Inv, EntryTypeOK, PointersUsed, Place, Putting, LastPut, Walking,
          Reached
  <2> QED
    BY <1>Others, <1>EntryTypeOK, <2>1, OthersLocksWhose DEF EntryTypeOK
<1>LastPutAlone. LastPutAlone'
  BY <1>Effect DEF Inv, LastPutAlone, LastPut, EntryTypeOK, Entries
<1>PointersValid. PointersValid'
  BY <1>Effect
  DEF Inv, PointersValid, Putting, LastPut, PointersUsed, Place, Walking, Reached,
      EntryTypeOK, Entries
<1>NotThereYet. NotThereYet'
  BY <1>Effect DEF Inv, NotThereYet, Matching, EntryTypeOK, Entries
<1>StillEmpty. StillEmpty'
  BY <1>Effect DEF Inv, StillEmpty, NotEmpty, EntryTypeOK, Entries
<1>ParentsFirst. ParentsFirst'
  BY <1>Effect DEF Inv, ParentsFirst, Leaving, LastPut, EntryTypeOK, Entries
<1>RefsAreSum. RefsAreSum'
  <2>1. OthersKeep(p)
    BY <1>Effect DEF OthersKeep, PutArg, Inv, EntryTypeOK
  <2>2. pe[p] = None
    BY <1>Effect DEF Inv, PointersUsed, Putting, LastPut
  <2>3. /\ cur'[p] = None /\ ep'[p] = ep[p] /\ fd'[p] = fd[p] /\ pp'[p] = pp[p]
        /\ pe'[p] = cur[p] /\ pc'[p] = "put"
    BY <1>Effect DEF Inv, EntryTypeOK
  <2>4. PutArg[p] = None /\ PutArg'[p] = cur[p]
    BY <1>Effect, <2>2, <2>3 DEF PutArg
  <2>5. ref' = ref /\ ref \in [Entries -> Nat] /\ ChildOf' = ChildOf
    BY <1>Effect DEF ChildOf, Inv, EntryTypeOK
  <2>6. \A e \in Entries : ref'[e] = ref[e] + Moved(p, e)
    BY <2>3, <2>4, <2>5 DEF Moved, One
  <2> QED
    BY <2>1, <2>5, <2>6, RefMoves DEF Inv
<1>Same. ListLinked' /\ RootStays' /\ EntryFilled' /\ ParentIsParent' /\ OneEntryPerFile'
  BY <1>Effect DEF Inv, ListLinked, RootStays, EntryFilled, ParentIsParent, OneEntryPerFile
<1> QED
  BY <1>EntryTypeOK, <1>PointersUsed, <1>WalkedSoFar, <1>OnItsPath, <1>LocksWhere,
     <1>LocksWhose, <1>LastPutAlone, <1>PointersValid, <1>NotThereYet, <1>StillEmpty,
     <1>ParentsFirst, <1>RefsAreSum, <1>Same
  DEF Inv

\* Giving the walk up in order to make the parent directory.
LEMMA LeaveForParentKeeps ==
  ASSUME Inv, Facts, NEW p \in Procs, LeaveForParent(p)
  PROVE  Inv'
<1> USE Nulls DEF Facts
<1>Effect. /\ pc[p] = "leave" /\ ep[p] = None /\ ParentMissing(p)
           /\ owner' = [owner EXCEPT ![cur[p]] = None]
           /\ pe' = [pe EXCEPT ![p] = cur[p]]
           /\ ret' = [ret EXCEPT ![p] = "mkparent"]
           /\ pc' = [pc EXCEPT ![p] = "put"]
           /\ cur' = [cur EXCEPT ![p] = None]
           /\ UNCHANGED <<node, parent, valid, dirty, clus, ref, list, disk, op, goal, done,
                ep, fd, pp>>
  BY DEF LeaveForParent, At, CallEput, Goto, entryVars, callVars, putVars
<1>WalkedSoFar. WalkedSoFar'
  <2>1. pc[p] = "leave" /\ ParentMissing(p)
    BY <1>Effect
  <2>2. /\ pc' = [pc EXCEPT ![p] = "put"]
        /\ ret' = [ret EXCEPT ![p] = "mkparent"]
        /\ UNCHANGED <<op, goal, done>>
    BY <1>Effect
  <2>3. goal[p] \in Paths /\ Len(goal[p]) = 2 /\ op[p] # "mkparent"
    <3>1. Place(p) \in Walking
      BY <2>1 DEF Place, Putting, LastPut, Walking
    <3>2. goal[p] \in Paths /\ done[p] \in {0, 1} /\ done[p] + 1 <= Len(goal[p])
      BY <3>1 DEF Asking
    <3>3. op[p] # "mkparent" /\ done[p] + 1 # Len(goal[p])
      BY <2>1 DEF ParentMissing, AtParent, Creating, Depth
    <3>4. Len(goal[p]) \in 1..2
      BY <3>2, SubSeqs
    <3>5. \A d \in {0, 1}, n \in 1..2 : d + 1 <= n /\ d + 1 # n => n = 2
      OBVIOUS
    <3> QED
      BY <3>2, <3>3, <3>4, <3>5
  <2> SUFFICES ASSUME NEW q \in Procs
               PROVE  /\ Place(q)' \in Walking \cup Reached \cup {"mkparent"} => goal[q] \in Paths
                      /\ op[q] = "mkparent" \/ Place(q)' = "mkparent" => Len(goal[q]) = 2
                      /\ Place(q)' \in Walking => done[q] < Depth(q)
                      /\ pc'[q] \in {"relock", "make", "alloc", "emake"} => AtParent(q)
                      /\ Place(q)' \in Reached => done[q] = Depth(q)
    BY <2>2 DEF WalkedSoFar, Depth, AtParent, Creating
  <2>4. CASE q = p
    <3>1. Place(q)' = "mkparent" /\ pc'[q] = "put"
      BY <2>2, <2>4 DEF Place, Putting, Inv, EntryTypeOK
    <3> QED
      BY <2>3, <2>4, <3>1 DEF Walking, Reached
  <2>5. CASE q # p
    <3>1. pc'[q] = pc[q] /\ Place(q)' = Place(q)
      BY <2>2, <2>5 DEF Place, Inv, EntryTypeOK
    <3> QED
      BY <3>1 DEF Inv, WalkedSoFar
  <2> QED
    BY <2>4, <2>5
<1>EntryTypeOK. EntryTypeOK'
  <2>1. owner' \in [Entries -> Procs \cup {None}]
    BY <1>Effect DEF Inv, EntryTypeOK, Entries
  <2>2. pc' \in [Procs -> Places]
    BY <1>Effect DEF Inv, EntryTypeOK, Places, Putting, LastPut, Walking, Reached
  <2>3. cur' \in [Procs -> Entries \cup {None}]
    BY <1>Effect DEF Inv, EntryTypeOK, Entries
  <2>4. pe' \in [Procs -> Entries \cup {None}]
    BY <1>Effect DEF Inv, EntryTypeOK, Entries
  <2>5. ret' \in [Procs -> {"user", "walk", "found", "mkparent"}]
    BY <1>Effect DEF Inv, EntryTypeOK
  <2> QED
    BY <1>Effect, <2>1, <2>2, <2>3, <2>4, <2>5 DEF Inv, EntryTypeOK
<1>PointersUsed. PointersUsed'
  BY <1>Effect
  DEF Inv, PointersUsed, Place, Putting, LastPut, Walking, Reached, EntryTypeOK, Entries
<1>OnItsPath. OnItsPath'
  BY <1>Effect
  DEF Inv, OnItsPath, Place, Putting, LastPut, Walking, Reached, Child, EntryTypeOK, Entries
<1>LocksWhere. LocksWhere'
  BY <1>Effect DEF Inv, LocksWhere, Locking, EntryTypeOK, Entries
<1>Others. OthersStay(p)
  BY <1>Effect DEF OthersStay, Inv, EntryTypeOK, LocksWhere, Locking
<1>LocksWhose. LocksWhose'
  <2>1. ASSUME NEW e \in Entries, owner'[e] = p PROVE Holds(p, e)'
    <3>1. owner[e] = p => Holds(p, e)
      BY DEF Inv, LocksWhose
    <3> QED
      BY <1>Effect, <2>1, <3>1
      DEF Holds, Locking, Inv, EntryTypeOK, PointersUsed, Place, Putting, LastPut, Walking,
          Reached
  <2> QED
    BY <1>Others, <1>EntryTypeOK, <2>1, OthersLocksWhose DEF EntryTypeOK
<1>LastPutAlone. LastPutAlone'
  BY <1>Effect DEF Inv, LastPutAlone, LastPut, EntryTypeOK, Entries
<1>PointersValid. PointersValid'
  BY <1>Effect
  DEF Inv, PointersValid, Putting, LastPut, PointersUsed, Place, Walking, Reached,
      EntryTypeOK, Entries
<1>NotThereYet. NotThereYet'
  BY <1>Effect DEF Inv, NotThereYet, Matching, EntryTypeOK, Entries
<1>StillEmpty. StillEmpty'
  BY <1>Effect DEF Inv, StillEmpty, NotEmpty, EntryTypeOK, Entries
<1>ParentsFirst. ParentsFirst'
  BY <1>Effect DEF Inv, ParentsFirst, Leaving, LastPut, EntryTypeOK, Entries
<1>RefsAreSum. RefsAreSum'
  <2>1. OthersKeep(p)
    BY <1>Effect DEF OthersKeep, PutArg, Inv, EntryTypeOK
  <2>2. pe[p] = None
    BY <1>Effect DEF Inv, PointersUsed, Putting, LastPut
  <2>3. /\ cur'[p] = None /\ ep'[p] = ep[p] /\ fd'[p] = fd[p] /\ pp'[p] = pp[p]
        /\ pe'[p] = cur[p] /\ pc'[p] = "put"
    BY <1>Effect DEF Inv, EntryTypeOK
  <2>4. PutArg[p] = None /\ PutArg'[p] = cur[p]
    BY <1>Effect, <2>2, <2>3 DEF PutArg
  <2>5. ref' = ref /\ ref \in [Entries -> Nat] /\ ChildOf' = ChildOf
    BY <1>Effect DEF ChildOf, Inv, EntryTypeOK
  <2>6. \A e \in Entries : ref'[e] = ref[e] + Moved(p, e)
    BY <2>3, <2>4, <2>5 DEF Moved, One
  <2> QED
    BY <2>1, <2>5, <2>6, RefMoves DEF Inv
<1>Same. ListLinked' /\ RootStays' /\ EntryFilled' /\ ParentIsParent' /\ OneEntryPerFile'
  BY <1>Effect DEF Inv, ListLinked, RootStays, EntryFilled, ParentIsParent, OneEntryPerFile
<1> QED
  BY <1>WalkedSoFar, <1>EntryTypeOK, <1>PointersUsed, <1>OnItsPath, <1>LocksWhere,
     <1>LocksWhose, <1>LastPutAlone, <1>PointersValid, <1>NotThereYet, <1>StillEmpty,
     <1>ParentsFirst, <1>RefsAreSum, <1>Same
  DEF Inv

\* The second walk of create(), which makes the parent directory.
LEMMA CreateParentKeeps ==
  ASSUME Inv, Facts, NEW p \in Procs, CreateParent(p)
  PROVE  Inv'
<1> USE Nulls DEF Facts
<1>Effect. /\ pc[p] = "mkparent"
           /\ ref' = [ref EXCEPT ![Root] = @ + 1]
           /\ cur' = [cur EXCEPT ![p] = Root]
           /\ done' = [done EXCEPT ![p] = 0]
           /\ op' = [op EXCEPT ![p] = "mkparent"]
           /\ goal' = [goal EXCEPT ![p] = goal[p]]
           /\ pc' = [pc EXCEPT ![p] = "walk"]
           /\ UNCHANGED <<node, parent, valid, dirty, clus, owner, list, disk, ep, fd, pe,
                pp, ret>>
  BY DEF CreateParent, At, StartWalk, Goto, entryVars, callVars, putVars
<1>1. /\ pc[p] = "mkparent" /\ goal[p] \in Paths /\ Len(goal[p]) = 2
      /\ StartWalk(p, "mkparent", goal[p])
  <2>1. pc[p] = "mkparent" /\ Place(p) = "mkparent"
    BY DEF CreateParent, At, Place, Putting, LastPut
  <2> QED
    BY <2>1 DEF Inv, WalkedSoFar, CreateParent
<1>2. EntryTypeOK' /\ WalkedSoFar' /\ OnItsPath' /\ PointersValid'
  BY <1>1, WalkStarts
<1>PointersUsed. PointersUsed'
  BY Nulls, SMT
  DEF Inv, PointersUsed, Place, Putting, LastPut, Walking, Reached, EntryTypeOK, Entries,
      CreateParent, At, StartWalk, Goto, vars, entryVars, callVars, putVars
<1>LocksWhere. LocksWhere'
  BY Nulls, SMT
  DEF Inv, LocksWhere, Locking, EntryTypeOK, Entries, CreateParent, At, StartWalk, Goto,
      vars, entryVars, callVars, putVars
<1>Others. OthersStay(p)
  BY <1>Effect DEF OthersStay, Inv, EntryTypeOK
<1>LocksWhose. LocksWhose'
  <2>1. ASSUME NEW e \in Entries, owner'[e] = p PROVE Holds(p, e)'
    <3>1. owner[e] = p => Holds(p, e)
      BY DEF Inv, LocksWhose
    <3> QED
      BY <1>Effect, <2>1, <3>1
      DEF Holds, Locking, Inv, EntryTypeOK, PointersUsed, Place, Putting, LastPut, Walking,
          Reached
  <2> QED
    BY <1>Others, <1>2, <2>1, OthersLocksWhose DEF EntryTypeOK
<1>LastPutAlone. LastPutAlone'
  BY Nulls, SMT
  DEF Inv, LastPutAlone, LastPut, EntryTypeOK, Entries, CreateParent, At, StartWalk, Goto,
      vars, entryVars, callVars, putVars
<1>EntryFilled. EntryFilled'
  BY Nulls, SMT
  DEF Inv, EntryFilled, EntryTypeOK, Entries, CreateParent, At, StartWalk, Goto, vars,
      entryVars, callVars, putVars
<1>NotThereYet. NotThereYet'
  BY Nulls, SMT
  DEF Inv, NotThereYet, Matching, EntryTypeOK, Entries, CreateParent, At, StartWalk, Goto,
      vars, entryVars, callVars, putVars
<1>StillEmpty. StillEmpty'
  BY Nulls, SMT
  DEF Inv, StillEmpty, NotEmpty, EntryTypeOK, Entries, CreateParent, At, StartWalk, Goto,
      vars, entryVars, callVars, putVars
<1>ParentsFirst. ParentsFirst'
  BY Nulls, SMT
  DEF Inv, ParentsFirst, Leaving, LastPut, EntryTypeOK, Entries, CreateParent, At,
      StartWalk, Goto, vars, entryVars, callVars, putVars
<1>RefsAreSum. RefsAreSum'
  <2>1. OthersKeep(p)
    BY DEF OthersKeep, PutArg, Inv, EntryTypeOK, CreateParent, At, StartWalk, Goto,
           entryVars, callVars, putVars
  <2>2. /\ cur[p] = None /\ cur'[p] = Root
        /\ ep'[p] = ep[p]
        /\ fd'[p] = fd[p]
        /\ PutArg'[p] = PutArg[p]
        /\ pp'[p] = pp[p]
    BY Nulls
    DEF PutArg, Inv, EntryTypeOK, PointersUsed, Place, Putting, LastPut, Walking, Reached,
        LastPutAlone, CreateParent, At, StartWalk, Goto, entryVars, callVars, putVars
  <2>3. /\ ref' = [ref EXCEPT ![Root] = @ + 1] /\ ref \in [Entries -> Nat]
        /\ cur[p] \in Entries \cup {None}
    BY DEF Inv, EntryTypeOK, CreateParent, At, StartWalk, Goto, entryVars, callVars, putVars
  <2>4. ChildOf' = ChildOf
    BY Nulls
    DEF ChildOf, Inv, EntryTypeOK, Entries, PointersUsed, Place, Putting, LastPut, Walking,
        Reached, LastPutAlone, PointersValid, FoundSlot, Counted, RefersTo, CreateParent, At,
        StartWalk, Goto, entryVars, callVars, putVars
  <2>5. \A e \in Entries : ref'[e] = ref[e] + Moved(p, e)
    BY <2>2, <2>3, Nulls DEF Moved, One
  <2> QED
    BY <2>1, <2>4, <2>5, RefMoves DEF Inv
<1>Same. ListLinked' /\ RootStays' /\ ParentIsParent' /\ OneEntryPerFile'
  BY DEF Inv, ListLinked, RootStays, ParentIsParent, OneEntryPerFile, CreateParent,
         StartWalk, entryVars, callVars, putVars
<1> QED
  BY <1>2, <1>PointersUsed, <1>LocksWhere, <1>LocksWhose, <1>LastPutAlone, <1>EntryFilled,
     <1>NotThereYet, <1>StillEmpty, <1>ParentsFirst, <1>RefsAreSum, <1>Same
  DEF Inv

\* elock() of the parent directory in create().
LEMMA CreateLockKeeps ==
  ASSUME Inv, Facts, NEW p \in Procs, CreateLock(p)
  PROVE  Inv'
<1> USE Nulls DEF Facts
<1>Effect. /\ pc[p] = "relock"
           /\ owner[cur[p]] = None /\ ref[cur[p]] >= 1
           /\ owner' = [owner EXCEPT ![cur[p]] = p]
           /\ pc' = [pc EXCEPT ![p] = "make"]
           /\ UNCHANGED <<node, parent, valid, dirty, clus, ref, list, disk, op, goal, done,
                cur, ep, fd, pe, pp, ret>>
  BY DEF CreateLock, At, Goto, CanLock, Lock, entryVars, callVars, putVars
<1>EntryTypeOK. EntryTypeOK'
  <2>1. owner' \in [Entries -> Procs \cup {None}]
    BY <1>Effect DEF Inv, EntryTypeOK, Entries
  <2>2. pc' \in [Procs -> Places]
    BY <1>Effect DEF Inv, EntryTypeOK, Places, Putting, LastPut, Walking, Reached
  <2> QED
    BY <1>Effect, <2>1, <2>2 DEF Inv, EntryTypeOK
<1>PointersUsed. PointersUsed'
  BY <1>Effect
  DEF Inv, PointersUsed, Place, Putting, LastPut, Walking, Reached, EntryTypeOK, Entries
<1>WalkedSoFar. WalkedSoFar'
  BY <1>Effect
  DEF Inv, WalkedSoFar, Place, Putting, LastPut, Walking, Reached, Depth, AtParent,
      Creating, EntryTypeOK, Entries
<1>OnItsPath. OnItsPath'
  BY <1>Effect
  DEF Inv, OnItsPath, Place, Putting, LastPut, Walking, Reached, Child, EntryTypeOK, Entries
<1>Others. OthersStay(p)
  BY <1>Effect DEF OthersStay, Inv, EntryTypeOK
<1>LocksWhere. LocksWhere'
  <2>a. cur[p] \in Entries
    BY <1>Effect, CurIsEntry DEF Walking, Reached
  <2>0. /\ pc'[p] = "make" /\ cur'[p] = cur[p] /\ cur[p] \in Entries
        /\ owner' = [owner EXCEPT ![cur[p]] = p]
    BY <1>Effect, <2>a DEF Inv, EntryTypeOK
  <2> QED
    BY <1>Others, <2>0, OthersLocksWhere DEF Locking, Inv, EntryTypeOK
<1>LocksWhose. LocksWhose'
  <2>1. ASSUME NEW e \in Entries, owner'[e] = p PROVE Holds(p, e)'
    <3>1. owner[e] = p => Holds(p, e)
      BY DEF Inv, LocksWhose
    <3> QED
      BY <1>Effect, <2>1, <3>1
      DEF Holds, Locking, Inv, EntryTypeOK, PointersUsed, Place, Putting, LastPut, Walking,
          Reached
  <2> QED
    BY <1>Others, <1>EntryTypeOK, <2>1, OthersLocksWhose DEF EntryTypeOK
<1>LastPutAlone. LastPutAlone'
  BY <1>Effect DEF Inv, LastPutAlone, LastPut, EntryTypeOK, Entries
<1>PointersValid. PointersValid'
  BY <1>Effect DEF Inv, PointersValid, Putting, LastPut, EntryTypeOK, Entries
<1>NotThereYet. NotThereYet'
  BY <1>Effect DEF Inv, NotThereYet, Matching, EntryTypeOK, Entries
<1>StillEmpty. StillEmpty'
  BY <1>Effect DEF Inv, StillEmpty, NotEmpty, EntryTypeOK, Entries
<1>ParentsFirst. ParentsFirst'
  BY <1>Effect DEF Inv, ParentsFirst, Leaving, LastPut, EntryTypeOK, Entries
<1>RefsAreSum. RefsAreSum'
  <2>1. UNCHANGED <<cur, ep, fd, pp, pe, ref, parent>> /\ ChildOf' = ChildOf
    BY <1>Effect DEF ChildOf
  <2>2. PutArg' = PutArg
    BY <1>Effect, <2>1 DEF PutArg, Inv, EntryTypeOK
  <2> QED
    BY <2>1, <2>2, RefsSame DEF Inv
<1>Same. ListLinked' /\ RootStays' /\ EntryFilled' /\ ParentIsParent' /\ OneEntryPerFile'
  BY <1>Effect DEF Inv, ListLinked, RootStays, EntryFilled, ParentIsParent, OneEntryPerFile
<1> QED
  BY <1>EntryTypeOK, <1>PointersUsed, <1>WalkedSoFar, <1>OnItsPath, <1>LocksWhere,
     <1>LocksWhose, <1>LastPutAlone, <1>PointersValid, <1>NotThereYet, <1>StillEmpty,
     <1>ParentsFirst, <1>RefsAreSum, <1>Same
  DEF Inv

\* emake(), which puts the new file on the disk and into the cache.
LEMMA EmakeKeeps ==
  ASSUME Inv, Facts, NEW p \in Procs, Emake(p)
  PROVE  Inv'
<1> USE Nulls DEF Facts
<1>Effect. /\ pc[p] = "emake"
           /\ node' = [node EXCEPT ![ep[p]] = Child(p)]
           /\ parent' = [parent EXCEPT ![ep[p]] = cur[p]]
           /\ valid' = [valid EXCEPT ![ep[p]] = 1]
           /\ clus' = [clus EXCEPT ![ep[p]] = (Child(p) \in Dirs)]
           /\ ref' = [ref EXCEPT ![cur[p]] = @ + 1]
           /\ disk' = [disk EXCEPT ![Child(p)] = IF Child(p) \in Dirs THEN "full" ELSE "empty"]
           /\ pc' = [pc EXCEPT ![p] = "leave"]
           /\ UNCHANGED <<dirty, owner, list, op, goal, done, cur, ep, fd, pe, pp, ret>>
  BY DEF Emake, At, Goto, Fill, entryVars, callVars, putVars
<1>1. Filled(p, Child(p) \in Dirs)
  <2>1. pc[p] = "emake"
    BY <1>Effect
  <2>2. AtParent(p) /\ Place(p) \in Walking
    BY <2>1 DEF Inv, WalkedSoFar, Place, Putting, LastPut, Walking
  <2>3. Child(p) \in Paths
    BY <2>2 DEF Asking
  <2>4. disk' = [disk EXCEPT ![Child(p)] = IF Child(p) \in Dirs THEN "full" ELSE "empty"]
    BY <1>Effect
  <2>5. disk \in [Paths -> {"absent", "empty", "full"}]
    BY DEF Inv, EntryTypeOK
  <2>6. /\ disk' \in [Paths -> {"absent", "empty", "full"}]
        /\ \A g \in Paths : g # Child(p) => disk'[g] = disk[g]
        /\ disk'[Child(p)] = IF Child(p) \in Dirs THEN "full" ELSE "empty"
    BY <2>3, <2>4, <2>5
  <2> QED
    BY <2>1, <2>3, <2>6 DEF Filled, Emake
<1>2. /\ EntryTypeOK' /\ RootStays' /\ OnItsPath' /\ LastPutAlone' /\ PointersValid'
      /\ EntryFilled' /\ NotThereYet' /\ StillEmpty' /\ ParentsFirst' /\ ParentIsParent'
      /\ OneEntryPerFile'
  BY <1>1, FillInv
<1>PointersUsed. PointersUsed'
  BY <1>Effect
  DEF Inv, PointersUsed, Place, Putting, LastPut, Walking, Reached, EntryTypeOK, Entries
<1>WalkedSoFar. WalkedSoFar'
  BY <1>Effect
  DEF Inv, WalkedSoFar, Place, Putting, LastPut, Walking, Reached, Depth, AtParent,
      Creating, EntryTypeOK, Entries
<1>LocksWhere. LocksWhere'
  BY <1>Effect
  DEF Inv, LocksWhere, Locking, PointersUsed, Place, Putting, LastPut, Walking, Reached,
      PointersValid, EntryTypeOK, Entries
<1>Others. OthersStay(p)
  BY <1>Effect
  DEF OthersStay, Inv, EntryTypeOK, FillAlone, PointsTo, LastPutAlone, PointersUsed,
      Putting, LastPut
<1>LocksWhose. LocksWhose'
  <2>1. ASSUME NEW e \in Entries, owner'[e] = p PROVE Holds(p, e)'
    <3>1. owner[e] = p => Holds(p, e)
      BY DEF Inv, LocksWhose
    <3> QED
      BY <1>Effect, <2>1, <3>1
      DEF Holds, Locking, Inv, EntryTypeOK, PointersUsed, Place, Putting, LastPut, Walking,
          Reached
  <2> QED
    BY <1>Others, <1>2, <2>1, OthersLocksWhose DEF EntryTypeOK
<1>RefsAreSum. RefsAreSum'
  <2>1. OthersKeep(p)
    BY <1>Effect DEF OthersKeep, PutArg, Inv, EntryTypeOK
  <2>2. /\ cur'[p] = cur[p]
        /\ ep'[p] = ep[p]
        /\ fd'[p] = fd[p]
        /\ PutArg'[p] = PutArg[p]
        /\ pp'[p] = pp[p]
    BY <1>Effect
    DEF PutArg, Inv, EntryTypeOK, PointersUsed, Place, Putting, LastPut, Walking, Reached,
        LastPutAlone
  <2>3. /\ ref' = [ref EXCEPT ![cur[p]] = @ + 1] /\ ref \in [Entries -> Nat]
        /\ cur[p] \in Entries \cup {None}
    BY <1>Effect DEF Inv, EntryTypeOK
  <2>4. ep[p] \in Slots
    BY <1>Effect
    DEF Inv, EntryTypeOK, PointersUsed, Place, Putting, LastPut, Walking, Reached,
        LastPutAlone
  <2>5. ChildOf[ep[p]] = None /\ ChildOf'[ep[p]] = cur[p]
    BY <1>Effect, <2>4
    DEF ChildOf, Inv, EntryTypeOK, Entries, PointersUsed, Place, Putting, LastPut, Walking,
        Reached, LastPutAlone, PointersValid
  <2>6. \A t \in Slots \ {ep[p]} : ChildOf'[t] = ChildOf[t]
    BY <1>Effect, <2>4
    DEF ChildOf, Inv, EntryTypeOK, Entries, PointersUsed, Place, Putting, LastPut, Walking,
        Reached, LastPutAlone, PointersValid, Counted, RefersTo
  <2>7. \A e \in Entries : ref'[e] = ref[e] + Moved(p, e) + One(ChildOf'[ep[p]], e)
                                     - One(ChildOf[ep[p]], e)
    BY <2>2, <2>3, <2>4, <2>5, Nulls DEF Moved, One, Entries
  <2> QED
    BY <2>1, <2>4, <2>6, <2>7, RefMovesChild DEF Inv
<1>Same. ListLinked'
  BY <1>Effect DEF Inv, ListLinked
<1> QED
  BY <1>2, <1>PointersUsed, <1>WalkedSoFar, <1>LocksWhere, <1>LocksWhose, <1>RefsAreSum,
     <1>Same
  DEF Inv

\* The end of the inner create().
LEMMA ParentMadeKeeps ==
  ASSUME Inv, Facts, NEW p \in Procs, ParentMade(p)
  PROVE  Inv'
<1> USE Nulls DEF Facts
<1>Effect. /\ pc[p] = "found" /\ op[p] = "mkparent"
           /\ owner[cur[p]] = None /\ ref[cur[p]] >= 1
           /\ owner' = [owner EXCEPT ![cur[p]] = p]
           /\ op' = [op EXCEPT ![p] = IF goal[p] \in Dirs THEN "mkdir" ELSE "create"]
           /\ pc' = [pc EXCEPT ![p] = "make"]
           /\ UNCHANGED <<node, parent, valid, dirty, clus, ref, list, disk, goal, done,
                cur, ep, fd, pe, pp, ret>>
  BY DEF ParentMade, At, Goto, CanLock, Lock, entryVars, callVars, putVars
<1>EntryTypeOK. EntryTypeOK'
  <2>1. owner' \in [Entries -> Procs \cup {None}]
    BY <1>Effect DEF Inv, EntryTypeOK, Entries
  <2>2. pc' \in [Procs -> Places]
    BY <1>Effect DEF Inv, EntryTypeOK, Places, Putting, LastPut, Walking, Reached
  <2>3. op' \in [Procs -> {"open", "create", "mkdir", "remove", "mkparent"}]
    BY <1>Effect DEF Inv, EntryTypeOK
  <2> QED
    BY <1>Effect, <2>1, <2>2, <2>3 DEF Inv, EntryTypeOK
<1>PointersUsed. PointersUsed'
  BY <1>Effect
  DEF Inv, PointersUsed, Place, Putting, LastPut, Walking, Reached, EntryTypeOK, Entries
<1>WalkedSoFar. WalkedSoFar'
  BY <1>Effect
  DEF Inv, WalkedSoFar, Place, Putting, LastPut, Walking, Reached, Depth, AtParent,
      Creating, EntryTypeOK, Entries
<1>OnItsPath. OnItsPath'
  BY <1>Effect
  DEF Inv, OnItsPath, Place, Putting, LastPut, Walking, Reached, Child, EntryTypeOK, Entries
<1>Others. OthersStay(p)
  BY <1>Effect DEF OthersStay, Inv, EntryTypeOK
<1>LocksWhere. LocksWhere'
  <2>a. cur[p] \in Entries
    BY <1>Effect, CurIsEntry DEF Walking, Reached
  <2>0. /\ pc'[p] = "make" /\ cur'[p] = cur[p] /\ cur[p] \in Entries
        /\ owner' = [owner EXCEPT ![cur[p]] = p]
    BY <1>Effect, <2>a DEF Inv, EntryTypeOK
  <2> QED
    BY <1>Others, <2>0, OthersLocksWhere DEF Locking, Inv, EntryTypeOK
<1>LocksWhose. LocksWhose'
  <2>1. ASSUME NEW e \in Entries, owner'[e] = p PROVE Holds(p, e)'
    <3>1. owner[e] = p => Holds(p, e)
      BY DEF Inv, LocksWhose
    <3> QED
      BY <1>Effect, <2>1, <3>1
      DEF Holds, Locking, Inv, EntryTypeOK, PointersUsed, Place, Putting, LastPut, Walking,
          Reached
  <2> QED
    BY <1>Others, <1>EntryTypeOK, <2>1, OthersLocksWhose DEF EntryTypeOK
<1>LastPutAlone. LastPutAlone'
  BY <1>Effect DEF Inv, LastPutAlone, LastPut, EntryTypeOK, Entries
<1>PointersValid. PointersValid'
  BY <1>Effect DEF Inv, PointersValid, Putting, LastPut, EntryTypeOK, Entries
<1>NotThereYet. NotThereYet'
  BY <1>Effect DEF Inv, NotThereYet, Matching, EntryTypeOK, Entries
<1>StillEmpty. StillEmpty'
  BY <1>Effect DEF Inv, StillEmpty, NotEmpty, EntryTypeOK, Entries
<1>ParentsFirst. ParentsFirst'
  BY <1>Effect DEF Inv, ParentsFirst, Leaving, LastPut, EntryTypeOK, Entries
<1>RefsAreSum. RefsAreSum'
  <2>1. UNCHANGED <<cur, ep, fd, pp, pe, ref, parent>> /\ ChildOf' = ChildOf
    BY <1>Effect DEF ChildOf
  <2>2. PutArg' = PutArg
    BY <1>Effect, <2>1 DEF PutArg, Inv, EntryTypeOK
  <2> QED
    BY <2>1, <2>2, RefsSame DEF Inv
<1>Same. ListLinked' /\ RootStays' /\ EntryFilled' /\ ParentIsParent' /\ OneEntryPerFile'
  BY <1>Effect DEF Inv, ListLinked, RootStays, EntryFilled, ParentIsParent, OneEntryPerFile
<1> QED
  BY <1>EntryTypeOK, <1>PointersUsed, <1>WalkedSoFar, <1>OnItsPath, <1>LocksWhere,
     <1>LocksWhose, <1>LastPutAlone, <1>PointersValid, <1>NotThereYet, <1>StillEmpty,
     <1>ParentsFirst, <1>RefsAreSum, <1>Same
  DEF Inv

\* The end of sys_mkdir().
LEMMA MkdirDoneKeeps ==
  ASSUME Inv, Facts, NEW p \in Procs, MkdirDone(p)
  PROVE  Inv'
<1> USE Nulls DEF Facts
<1>Effect. /\ pc[p] = "found"
           /\ owner[cur[p]] = None /\ ref[cur[p]] >= 1
           /\ pe' = [pe EXCEPT ![p] = cur[p]]
           /\ ret' = [ret EXCEPT ![p] = "user"]
           /\ pc' = [pc EXCEPT ![p] = "put"]
           /\ cur' = [cur EXCEPT ![p] = None]
           /\ op' = [op EXCEPT ![p] = "open"]
           /\ goal' = [goal EXCEPT ![p] = <<>>]
           /\ done' = [done EXCEPT ![p] = 0]
           /\ UNCHANGED <<node, parent, valid, dirty, clus, ref, owner, list, disk, ep, fd,
                pp>>
  BY DEF MkdirDone, At, CanLock, FinishWithEput, CallEput, Goto, entryVars, callVars,
         putVars
<1>EntryTypeOK. EntryTypeOK'
  BY <1>Effect DEF Inv, EntryTypeOK, Entries, Places, Putting, LastPut, Walking, Reached
<1>PointersUsed. PointersUsed'
  BY <1>Effect
  DEF Inv, PointersUsed, Place, Putting, LastPut, Walking, Reached, EntryTypeOK, Entries
<1>WalkedSoFar. WalkedSoFar'
  BY <1>Effect
  DEF Inv, WalkedSoFar, Place, Putting, LastPut, Walking, Reached, Depth, AtParent,
      Creating, EntryTypeOK, Entries
<1>OnItsPath. OnItsPath'
  BY <1>Effect
  DEF Inv, OnItsPath, Place, Putting, LastPut, Walking, Reached, Child, EntryTypeOK, Entries
<1>LocksWhere. LocksWhere'
  BY <1>Effect DEF Inv, LocksWhere, Locking, EntryTypeOK, Entries
<1>Others. OthersStay(p)
  BY <1>Effect DEF OthersStay, Inv, EntryTypeOK
<1>LocksWhose. LocksWhose'
  <2>1. ASSUME NEW e \in Entries, owner'[e] = p PROVE Holds(p, e)'
    <3>1. owner[e] = p => Holds(p, e)
      BY DEF Inv, LocksWhose
    <3> QED
      BY <1>Effect, <2>1, <3>1
      DEF Holds, Locking, Inv, EntryTypeOK, PointersUsed, Place, Putting, LastPut, Walking,
          Reached
  <2> QED
    BY <1>Others, <1>EntryTypeOK, <2>1, OthersLocksWhose DEF EntryTypeOK
<1>LastPutAlone. LastPutAlone'
  BY <1>Effect DEF Inv, LastPutAlone, LastPut, EntryTypeOK, Entries
<1>PointersValid. PointersValid'
  BY <1>Effect
  DEF Inv, PointersValid, Putting, LastPut, PointersUsed, Place, Walking, Reached,
      EntryTypeOK, Entries
<1>NotThereYet. NotThereYet'
  BY <1>Effect DEF Inv, NotThereYet, Matching, EntryTypeOK, Entries
<1>StillEmpty. StillEmpty'
  BY <1>Effect DEF Inv, StillEmpty, NotEmpty, EntryTypeOK, Entries
<1>ParentsFirst. ParentsFirst'
  BY <1>Effect DEF Inv, ParentsFirst, Leaving, LastPut, EntryTypeOK, Entries
<1>RefsAreSum. RefsAreSum'
  <2>1. OthersKeep(p)
    BY <1>Effect DEF OthersKeep, PutArg, Inv, EntryTypeOK
  <2>2. pe[p] = None
    BY <1>Effect DEF Inv, PointersUsed, Putting, LastPut
  <2>3. /\ cur'[p] = None /\ ep'[p] = ep[p] /\ fd'[p] = fd[p] /\ pp'[p] = pp[p]
        /\ pe'[p] = cur[p] /\ pc'[p] = "put"
    BY <1>Effect DEF Inv, EntryTypeOK
  <2>4. PutArg[p] = None /\ PutArg'[p] = cur[p]
    BY <1>Effect, <2>2, <2>3 DEF PutArg
  <2>5. ref' = ref /\ ref \in [Entries -> Nat] /\ ChildOf' = ChildOf
    BY <1>Effect DEF ChildOf, Inv, EntryTypeOK
  <2>6. \A e \in Entries : ref'[e] = ref[e] + Moved(p, e)
    BY <2>3, <2>4, <2>5 DEF Moved, One
  <2> QED
    BY <2>1, <2>5, <2>6, RefMoves DEF Inv
<1>Same. ListLinked' /\ RootStays' /\ EntryFilled' /\ ParentIsParent' /\ OneEntryPerFile'
  BY <1>Effect DEF Inv, ListLinked, RootStays, EntryFilled, ParentIsParent, OneEntryPerFile
<1> QED
  BY <1>EntryTypeOK, <1>PointersUsed, <1>WalkedSoFar, <1>OnItsPath, <1>LocksWhere,
     <1>LocksWhose, <1>LastPutAlone, <1>PointersValid, <1>NotThereYet, <1>StillEmpty,
     <1>ParentsFirst, <1>RefsAreSum, <1>Same
  DEF Inv

\* The failures of sys_openat() after the lookup.
LEMMA OpenFailsKeeps ==
  ASSUME Inv, Facts, NEW p \in Procs, OpenFails(p)
  PROVE  Inv'
<1> USE Nulls DEF Facts
<1>Effect. /\ pc[p] = "found"
           /\ owner[cur[p]] = None /\ ref[cur[p]] >= 1
           /\ pe' = [pe EXCEPT ![p] = cur[p]]
           /\ ret' = [ret EXCEPT ![p] = "user"]
           /\ pc' = [pc EXCEPT ![p] = "put"]
           /\ cur' = [cur EXCEPT ![p] = None]
           /\ op' = [op EXCEPT ![p] = "open"]
           /\ goal' = [goal EXCEPT ![p] = <<>>]
           /\ done' = [done EXCEPT ![p] = 0]
           /\ UNCHANGED <<node, parent, valid, dirty, clus, ref, owner, list, disk, ep, fd,
                pp>>
  BY DEF OpenFails, FinishWithEput, CallEput, Goto, Opening, At, CanLock, entryVars,
         callVars, putVars
<1>EntryTypeOK. EntryTypeOK'
  BY <1>Effect DEF Inv, EntryTypeOK, Entries, Places, Putting, LastPut, Walking, Reached
<1>PointersUsed. PointersUsed'
  BY <1>Effect
  DEF Inv, PointersUsed, Place, Putting, LastPut, Walking, Reached, EntryTypeOK, Entries
<1>WalkedSoFar. WalkedSoFar'
  BY <1>Effect
  DEF Inv, WalkedSoFar, Place, Putting, LastPut, Walking, Reached, Depth, AtParent,
      Creating, EntryTypeOK, Entries
<1>OnItsPath. OnItsPath'
  BY <1>Effect
  DEF Inv, OnItsPath, Place, Putting, LastPut, Walking, Reached, Child, EntryTypeOK, Entries
<1>LocksWhere. LocksWhere'
  BY <1>Effect DEF Inv, LocksWhere, Locking, EntryTypeOK, Entries
<1>Others. OthersStay(p)
  BY <1>Effect DEF OthersStay, Inv, EntryTypeOK
<1>LocksWhose. LocksWhose'
  <2>1. ASSUME NEW e \in Entries, owner'[e] = p PROVE Holds(p, e)'
    <3>1. owner[e] = p => Holds(p, e)
      BY DEF Inv, LocksWhose
    <3> QED
      BY <1>Effect, <2>1, <3>1
      DEF Holds, Locking, Inv, EntryTypeOK, PointersUsed, Place, Putting, LastPut, Walking,
          Reached
  <2> QED
    BY <1>Others, <1>EntryTypeOK, <2>1, OthersLocksWhose DEF EntryTypeOK
<1>LastPutAlone. LastPutAlone'
  BY <1>Effect DEF Inv, LastPutAlone, LastPut, EntryTypeOK, Entries
<1>PointersValid. PointersValid'
  BY <1>Effect
  DEF Inv, PointersValid, Putting, LastPut, PointersUsed, Place, Walking, Reached,
      EntryTypeOK, Entries
<1>NotThereYet. NotThereYet'
  BY <1>Effect DEF Inv, NotThereYet, Matching, EntryTypeOK, Entries
<1>StillEmpty. StillEmpty'
  BY <1>Effect DEF Inv, StillEmpty, NotEmpty, EntryTypeOK, Entries
<1>ParentsFirst. ParentsFirst'
  BY <1>Effect DEF Inv, ParentsFirst, Leaving, LastPut, EntryTypeOK, Entries
<1>RefsAreSum. RefsAreSum'
  <2>1. OthersKeep(p)
    BY <1>Effect DEF OthersKeep, PutArg, Inv, EntryTypeOK
  <2>2. pe[p] = None
    BY <1>Effect DEF Inv, PointersUsed, Putting, LastPut
  <2>3. /\ cur'[p] = None /\ ep'[p] = ep[p] /\ fd'[p] = fd[p] /\ pp'[p] = pp[p]
        /\ pe'[p] = cur[p] /\ pc'[p] = "put"
    BY <1>Effect DEF Inv, EntryTypeOK
  <2>4. PutArg[p] = None /\ PutArg'[p] = cur[p]
    BY <1>Effect, <2>2, <2>3 DEF PutArg
  <2>5. ref' = ref /\ ref \in [Entries -> Nat] /\ ChildOf' = ChildOf
    BY <1>Effect DEF ChildOf, Inv, EntryTypeOK
  <2>6. \A e \in Entries : ref'[e] = ref[e] + Moved(p, e)
    BY <2>3, <2>4, <2>5 DEF Moved, One
  <2> QED
    BY <2>1, <2>5, <2>6, RefMoves DEF Inv
<1>Same. ListLinked' /\ RootStays' /\ EntryFilled' /\ ParentIsParent' /\ OneEntryPerFile'
  BY <1>Effect DEF Inv, ListLinked, RootStays, EntryFilled, ParentIsParent, OneEntryPerFile
<1> QED
  BY <1>EntryTypeOK, <1>PointersUsed, <1>WalkedSoFar, <1>OnItsPath, <1>LocksWhere,
     <1>LocksWhose, <1>LastPutAlone, <1>PointersValid, <1>NotThereYet, <1>StillEmpty,
     <1>ParentsFirst, <1>RefsAreSum, <1>Same
  DEF Inv

\* ewrite() and eupdate() through an open file.
LEMMA WriteKeeps ==
  ASSUME Inv, Facts, NEW p \in Procs, Write(p)
  PROVE  Inv'
<1> USE Nulls DEF Facts
<1>Effect. /\ pc[p] = "user" /\ fd[p] # None
           /\ owner[fd[p]] = None /\ ref[fd[p]] >= 1
           /\ clus' = [clus EXCEPT ![fd[p]] = TRUE]
           /\ dirty' = [dirty EXCEPT ![fd[p]] = TRUE]
           /\ UNCHANGED <<node, parent, valid, ref, owner, list, disk, pc, op, goal, done,
                cur, ep, fd, pe, pp, ret>>
  BY DEF Write, At, CanLock, entryVars, callVars, putVars
<1>EntryTypeOK. EntryTypeOK'
  BY <1>Effect DEF Inv, EntryTypeOK, Entries, Places, Putting, LastPut, Walking, Reached
<1>LastPutAlone. LastPutAlone'
  BY <1>Effect
  DEF Inv, LastPutAlone, LastPut, PointersUsed, Place, Putting, Walking, Reached, PutAlone,
      PointsTo, InUse, EntryTypeOK, Entries
<1>EntryFilled. EntryFilled'
  BY <1>Effect
  DEF Inv, EntryFilled, PointersUsed, Place, Putting, LastPut, Walking, Reached,
      PointersValid, EntryTypeOK, Entries
<1>RefsAreSum. RefsAreSum'
  <2>1. UNCHANGED <<cur, ep, fd, pp, pe, ref, parent>> /\ ChildOf' = ChildOf
    BY <1>Effect DEF ChildOf
  <2>2. PutArg' = PutArg
    BY <1>Effect, <2>1 DEF PutArg, Inv, EntryTypeOK
  <2> QED
    BY <2>1, <2>2, RefsSame DEF Inv
<1>Same. /\ ListLinked' /\ RootStays' /\ PointersUsed' /\ WalkedSoFar' /\ OnItsPath' /\ LocksWhere'
         /\ LocksWhose' /\ PointersValid' /\ NotThereYet' /\ StillEmpty' /\ ParentsFirst'
         /\ ParentIsParent' /\ OneEntryPerFile'
  BY <1>Effect
  DEF Inv, ListLinked, RootStays, PointersUsed, Place, Putting, LastPut, Walking, Reached,
      WalkedSoFar, Depth, AtParent, Creating, OnItsPath, Child, LocksWhere, Locking,
      LocksWhose, Holds, PointersValid, NotThereYet, Matching, StillEmpty, NotEmpty,
      ParentsFirst, Leaving, ParentIsParent, OneEntryPerFile
<1> QED
  BY <1>EntryTypeOK, <1>LastPutAlone, <1>EntryFilled, <1>RefsAreSum, <1>Same DEF Inv

\* fileclose(), which puts the entry behind the open file.
LEMMA CloseKeeps ==
  ASSUME Inv, Facts, NEW p \in Procs, Close(p)
  PROVE  Inv'
<1> USE Nulls DEF Facts
<1>Effect. /\ pc[p] = "user" /\ fd[p] # None
           /\ pe' = [pe EXCEPT ![p] = fd[p]]
           /\ ret' = [ret EXCEPT ![p] = "user"]
           /\ pc' = [pc EXCEPT ![p] = "put"]
           /\ cur' = [cur EXCEPT ![p] = None]
           /\ op' = [op EXCEPT ![p] = "open"]
           /\ goal' = [goal EXCEPT ![p] = <<>>]
           /\ done' = [done EXCEPT ![p] = 0]
           /\ fd' = [fd EXCEPT ![p] = None]
           /\ UNCHANGED <<node, parent, valid, dirty, clus, ref, owner, list, disk, ep, pp>>
  BY DEF Close, At, FinishWithEput, CallEput, Goto, entryVars, callVars, putVars
<1>EntryTypeOK. EntryTypeOK'
  BY <1>Effect DEF Inv, EntryTypeOK, Entries, Places, Putting, LastPut, Walking, Reached
<1>PointersUsed. PointersUsed'
  BY <1>Effect
  DEF Inv, PointersUsed, Place, Putting, LastPut, Walking, Reached, EntryTypeOK, Entries
<1>WalkedSoFar. WalkedSoFar'
  BY <1>Effect
  DEF Inv, WalkedSoFar, Place, Putting, LastPut, Walking, Reached, Depth, AtParent,
      Creating, EntryTypeOK, Entries
<1>OnItsPath. OnItsPath'
  BY <1>Effect
  DEF Inv, OnItsPath, Place, Putting, LastPut, Walking, Reached, Child, EntryTypeOK, Entries
<1>LocksWhere. LocksWhere'
  BY <1>Effect DEF Inv, LocksWhere, Locking, EntryTypeOK, Entries
<1>Others. OthersStay(p)
  BY <1>Effect DEF OthersStay, Inv, EntryTypeOK
<1>LocksWhose. LocksWhose'
  <2>1. ASSUME NEW e \in Entries, owner'[e] = p PROVE Holds(p, e)'
    <3>1. owner[e] = p => Holds(p, e)
      BY DEF Inv, LocksWhose
    <3> QED
      BY <1>Effect, <2>1, <3>1
      DEF Holds, Locking, Inv, EntryTypeOK, PointersUsed, Place, Putting, LastPut, Walking,
          Reached
  <2> QED
    BY <1>Others, <1>EntryTypeOK, <2>1, OthersLocksWhose DEF EntryTypeOK
<1>LastPutAlone. LastPutAlone'
  BY <1>Effect DEF Inv, LastPutAlone, LastPut, EntryTypeOK, Entries
<1>PointersValid. PointersValid'
  BY <1>Effect DEF Inv, PointersValid, Putting, LastPut, EntryTypeOK, Entries
<1>NotThereYet. NotThereYet'
  BY <1>Effect DEF Inv, NotThereYet, Matching, EntryTypeOK, Entries
<1>StillEmpty. StillEmpty'
  BY <1>Effect DEF Inv, StillEmpty, NotEmpty, EntryTypeOK, Entries
<1>ParentsFirst. ParentsFirst'
  BY <1>Effect DEF Inv, ParentsFirst, Leaving, LastPut, EntryTypeOK, Entries
<1>RefsAreSum. RefsAreSum'
  <2>1. OthersKeep(p)
    BY <1>Effect DEF OthersKeep, PutArg, Inv, EntryTypeOK
  <2>2. /\ cur'[p] = cur[p]
        /\ ep'[p] = ep[p]
        /\ fd'[p] = None
        /\ PutArg[p] = None /\ PutArg'[p] = fd[p]
        /\ pp'[p] = pp[p]
    BY <1>Effect
    DEF PutArg, Inv, EntryTypeOK, PointersUsed, Place, Putting, LastPut, Walking, Reached,
        LastPutAlone
  <2>3. ref' = ref /\ ref \in [Entries -> Nat] /\ cur[p] \in Entries \cup {None}
    BY <1>Effect DEF Inv, EntryTypeOK
  <2>4. ChildOf' = ChildOf
    BY <1>Effect
    DEF ChildOf, Inv, EntryTypeOK, Entries, PointersUsed, Place, Putting, LastPut, Walking,
        Reached, LastPutAlone, PointersValid, FoundSlot, Counted, RefersTo
  <2>5. \A e \in Entries : ref'[e] = ref[e] + Moved(p, e)
    BY <2>2, <2>3, Nulls DEF Moved, One
  <2> QED
    BY <2>1, <2>4, <2>5, RefMoves DEF Inv
<1>Same. ListLinked' /\ RootStays' /\ EntryFilled' /\ ParentIsParent' /\ OneEntryPerFile'
  BY <1>Effect DEF Inv, ListLinked, RootStays, EntryFilled, ParentIsParent, OneEntryPerFile
<1> QED
  BY <1>EntryTypeOK, <1>PointersUsed, <1>WalkedSoFar, <1>OnItsPath, <1>LocksWhere,
     <1>LocksWhose, <1>LastPutAlone, <1>PointersValid, <1>NotThereYet, <1>StillEmpty,
     <1>ParentsFirst, <1>RefsAreSum, <1>Same
  DEF Inv

\* elock() of the file that is to be removed.
LEMMA RemoveLockKeeps ==
  ASSUME Inv, Facts, NEW p \in Procs, RemoveLock(p)
  PROVE  Inv'
<1> USE Nulls DEF Facts
<1>Effect. /\ pc[p] = "found"
           /\ owner[cur[p]] = None /\ ref[cur[p]] >= 1
           /\ owner' = [owner EXCEPT ![cur[p]] = p]
           /\ pc' = [pc EXCEPT ![p] = "rmlock"]
           /\ UNCHANGED <<node, parent, valid, dirty, clus, ref, list, disk, op, goal, done,
                cur, ep, fd, pe, pp, ret>>
  BY DEF RemoveLock, At, Goto, CanLock, Lock, entryVars, callVars, putVars
<1>EntryTypeOK. EntryTypeOK'
  <2>1. owner' \in [Entries -> Procs \cup {None}]
    BY <1>Effect DEF Inv, EntryTypeOK, Entries
  <2>2. pc' \in [Procs -> Places]
    BY <1>Effect DEF Inv, EntryTypeOK, Places, Putting, LastPut, Walking, Reached
  <2> QED
    BY <1>Effect, <2>1, <2>2 DEF Inv, EntryTypeOK
<1>PointersUsed. PointersUsed'
  BY <1>Effect
  DEF Inv, PointersUsed, Place, Putting, LastPut, Walking, Reached, EntryTypeOK, Entries
<1>WalkedSoFar. WalkedSoFar'
  BY <1>Effect
  DEF Inv, WalkedSoFar, Place, Putting, LastPut, Walking, Reached, Depth, AtParent,
      Creating, EntryTypeOK, Entries
<1>OnItsPath. OnItsPath'
  BY <1>Effect
  DEF Inv, OnItsPath, Place, Putting, LastPut, Walking, Reached, Child, EntryTypeOK, Entries
<1>Others. OthersStay(p)
  BY <1>Effect DEF OthersStay, Inv, EntryTypeOK
<1>LocksWhere. LocksWhere'
  <2>a. cur[p] \in Entries
    BY <1>Effect, CurIsEntry DEF Walking, Reached
  <2>0. /\ pc'[p] = "rmlock" /\ cur'[p] = cur[p] /\ cur[p] \in Entries
        /\ owner' = [owner EXCEPT ![cur[p]] = p]
    BY <1>Effect, <2>a DEF Inv, EntryTypeOK
  <2> QED
    BY <1>Others, <2>0, OthersLocksWhere DEF Locking, Inv, EntryTypeOK
<1>LocksWhose. LocksWhose'
  <2>1. ASSUME NEW e \in Entries, owner'[e] = p PROVE Holds(p, e)'
    <3>1. owner[e] = p => Holds(p, e)
      BY DEF Inv, LocksWhose
    <3> QED
      BY <1>Effect, <2>1, <3>1
      DEF Holds, Locking, Inv, EntryTypeOK, PointersUsed, Place, Putting, LastPut, Walking,
          Reached
  <2> QED
    BY <1>Others, <1>EntryTypeOK, <2>1, OthersLocksWhose DEF EntryTypeOK
<1>LastPutAlone. LastPutAlone'
  BY <1>Effect DEF Inv, LastPutAlone, LastPut, EntryTypeOK, Entries
<1>PointersValid. PointersValid'
  BY <1>Effect DEF Inv, PointersValid, Putting, LastPut, EntryTypeOK, Entries
<1>NotThereYet. NotThereYet'
  BY <1>Effect DEF Inv, NotThereYet, Matching, EntryTypeOK, Entries
<1>StillEmpty. StillEmpty'
  BY <1>Effect DEF Inv, StillEmpty, NotEmpty, EntryTypeOK, Entries
<1>ParentsFirst. ParentsFirst'
  BY <1>Effect DEF Inv, ParentsFirst, Leaving, LastPut, EntryTypeOK, Entries
<1>RefsAreSum. RefsAreSum'
  <2>1. UNCHANGED <<cur, ep, fd, pp, pe, ref, parent>> /\ ChildOf' = ChildOf
    BY <1>Effect DEF ChildOf
  <2>2. PutArg' = PutArg
    BY <1>Effect, <2>1 DEF PutArg, Inv, EntryTypeOK
  <2> QED
    BY <2>1, <2>2, RefsSame DEF Inv
<1>Same. ListLinked' /\ RootStays' /\ EntryFilled' /\ ParentIsParent' /\ OneEntryPerFile'
  BY <1>Effect DEF Inv, ListLinked, RootStays, EntryFilled, ParentIsParent, OneEntryPerFile
<1> QED
  BY <1>EntryTypeOK, <1>PointersUsed, <1>WalkedSoFar, <1>OnItsPath, <1>LocksWhere,
     <1>LocksWhose, <1>LastPutAlone, <1>PointersValid, <1>NotThereYet, <1>StillEmpty,
     <1>ParentsFirst, <1>RefsAreSum, <1>Same
  DEF Inv

\* Leaving a directory that is not empty.
LEMMA RemoveNotEmptyKeeps ==
  ASSUME Inv, Facts, NEW p \in Procs, RemoveNotEmpty(p)
  PROVE  Inv'
<1> USE Nulls DEF Facts
<1>Effect. /\ pc[p] = "rmlock"
           /\ owner' = [owner EXCEPT ![cur[p]] = None]
           /\ pe' = [pe EXCEPT ![p] = cur[p]]
           /\ ret' = [ret EXCEPT ![p] = "user"]
           /\ pc' = [pc EXCEPT ![p] = "put"]
           /\ cur' = [cur EXCEPT ![p] = None]
           /\ op' = [op EXCEPT ![p] = "open"]
           /\ goal' = [goal EXCEPT ![p] = <<>>]
           /\ done' = [done EXCEPT ![p] = 0]
           /\ UNCHANGED <<node, parent, valid, dirty, clus, ref, list, disk, ep, fd, pp>>
  BY DEF RemoveNotEmpty, At, FinishWithEput, CallEput, Goto, entryVars, callVars, putVars
<1>EntryTypeOK. EntryTypeOK'
  <2>1. owner' \in [Entries -> Procs \cup {None}]
    BY <1>Effect DEF Inv, EntryTypeOK, Entries
  <2>2. pc' \in [Procs -> Places]
    BY <1>Effect DEF Inv, EntryTypeOK, Places, Putting, LastPut, Walking, Reached
  <2>3. op' \in [Procs -> {"open", "create", "mkdir", "remove", "mkparent"}]
    BY <1>Effect DEF Inv, EntryTypeOK
  <2>4. goal' \in [Procs -> Paths \cup {<<>>}]
    BY <1>Effect DEF Inv, EntryTypeOK
  <2>5. done' \in [Procs -> Nat]
    BY <1>Effect DEF Inv, EntryTypeOK
  <2>6. cur' \in [Procs -> Entries \cup {None}]
    BY <1>Effect DEF Inv, EntryTypeOK, Entries
  <2>7. pe' \in [Procs -> Entries \cup {None}]
    BY <1>Effect DEF Inv, EntryTypeOK, Entries
  <2>8. ret' \in [Procs -> {"user", "walk", "found", "mkparent"}]
    BY <1>Effect DEF Inv, EntryTypeOK
  <2> QED
    BY <1>Effect, <2>1, <2>2, <2>3, <2>4, <2>5, <2>6, <2>7, <2>8 DEF Inv, EntryTypeOK
<1>PointersUsed. PointersUsed'
  BY <1>Effect
  DEF Inv, PointersUsed, Place, Putting, LastPut, Walking, Reached, EntryTypeOK, Entries
<1>WalkedSoFar. WalkedSoFar'
  BY <1>Effect
  DEF Inv, WalkedSoFar, Place, Putting, LastPut, Walking, Reached, Depth, AtParent,
      Creating, EntryTypeOK, Entries
<1>OnItsPath. OnItsPath'
  BY <1>Effect
  DEF Inv, OnItsPath, Place, Putting, LastPut, Walking, Reached, Child, EntryTypeOK, Entries
<1>LocksWhere. LocksWhere'
  BY <1>Effect DEF Inv, LocksWhere, Locking, EntryTypeOK, Entries
<1>Others. OthersStay(p)
  BY <1>Effect DEF OthersStay, Inv, EntryTypeOK, LocksWhere, Locking
<1>LocksWhose. LocksWhose'
  <2>1. ASSUME NEW e \in Entries, owner'[e] = p PROVE Holds(p, e)'
    <3>1. owner[e] = p => Holds(p, e)
      BY DEF Inv, LocksWhose
    <3> QED
      BY <1>Effect, <2>1, <3>1
      DEF Holds, Locking, Inv, EntryTypeOK, PointersUsed, Place, Putting, LastPut, Walking,
          Reached
  <2> QED
    BY <1>Others, <1>EntryTypeOK, <2>1, OthersLocksWhose DEF EntryTypeOK
<1>LastPutAlone. LastPutAlone'
  BY <1>Effect DEF Inv, LastPutAlone, LastPut, EntryTypeOK, Entries
<1>PointersValid. PointersValid'
  BY <1>Effect
  DEF Inv, PointersValid, Putting, LastPut, PointersUsed, Place, Walking, Reached,
      EntryTypeOK, Entries
<1>NotThereYet. NotThereYet'
  BY <1>Effect DEF Inv, NotThereYet, Matching, EntryTypeOK, Entries
<1>StillEmpty. StillEmpty'
  BY <1>Effect DEF Inv, StillEmpty, NotEmpty, EntryTypeOK, Entries
<1>ParentsFirst. ParentsFirst'
  BY <1>Effect DEF Inv, ParentsFirst, Leaving, LastPut, EntryTypeOK, Entries
<1>RefsAreSum. RefsAreSum'
  <2>1. OthersKeep(p)
    BY <1>Effect DEF OthersKeep, PutArg, Inv, EntryTypeOK
  <2>2. pe[p] = None
    BY <1>Effect DEF Inv, PointersUsed, Putting, LastPut
  <2>3. /\ cur'[p] = None /\ ep'[p] = ep[p] /\ fd'[p] = fd[p] /\ pp'[p] = pp[p]
        /\ pe'[p] = cur[p] /\ pc'[p] = "put"
    BY <1>Effect DEF Inv, EntryTypeOK
  <2>4. PutArg[p] = None /\ PutArg'[p] = cur[p]
    BY <1>Effect, <2>2, <2>3 DEF PutArg
  <2>5. ref' = ref /\ ref \in [Entries -> Nat] /\ ChildOf' = ChildOf
    BY <1>Effect DEF ChildOf, Inv, EntryTypeOK
  <2>6. \A e \in Entries : ref'[e] = ref[e] + Moved(p, e)
    BY <2>3, <2>4, <2>5 DEF Moved, One
  <2> QED
    BY <2>1, <2>5, <2>6, RefMoves DEF Inv
<1>Same. ListLinked' /\ RootStays' /\ EntryFilled' /\ ParentIsParent' /\ OneEntryPerFile'
  BY <1>Effect DEF Inv, ListLinked, RootStays, EntryFilled, ParentIsParent, OneEntryPerFile
<1> QED
  BY <1>EntryTypeOK, <1>PointersUsed, <1>WalkedSoFar, <1>OnItsPath, <1>LocksWhere,
     <1>LocksWhose, <1>LastPutAlone, <1>PointersValid, <1>NotThereYet, <1>StillEmpty,
     <1>ParentsFirst, <1>RefsAreSum, <1>Same
  DEF Inv

\* elock() of the parent of a file that is to be removed.
LEMMA RemoveLockParentKeeps ==
  ASSUME Inv, Facts, NEW p \in Procs, RemoveLockParent(p)
  PROVE  Inv'
<1> USE Nulls DEF Facts
<1>Effect. /\ pc[p] = "rmlock" /\ ~NotEmpty(cur[p])
           /\ owner[parent[cur[p]]] = None /\ ref[parent[cur[p]]] >= 1
           /\ owner' = [owner EXCEPT ![parent[cur[p]]] = p]
           /\ pc' = [pc EXCEPT ![p] = "rmdo"]
           /\ UNCHANGED <<node, parent, valid, dirty, clus, ref, list, disk, op, goal, done,
                cur, ep, fd, pe, pp, ret>>
  BY DEF RemoveLockParent, At, Goto, CanLock, Lock, entryVars, callVars, putVars
<1>EntryTypeOK. EntryTypeOK'
  <2>1. owner' \in [Entries -> Procs \cup {None}]
    BY <1>Effect DEF Inv, EntryTypeOK, Entries
  <2>2. pc' \in [Procs -> Places]
    BY <1>Effect DEF Inv, EntryTypeOK, Places, Putting, LastPut, Walking, Reached
  <2> QED
    BY <1>Effect, <2>1, <2>2 DEF Inv, EntryTypeOK
<1>PointersUsed. PointersUsed'
  BY <1>Effect
  DEF Inv, PointersUsed, Place, Putting, LastPut, Walking, Reached, EntryTypeOK, Entries
<1>WalkedSoFar. WalkedSoFar'
  BY <1>Effect
  DEF Inv, WalkedSoFar, Place, Putting, LastPut, Walking, Reached, Depth, AtParent,
      Creating, EntryTypeOK, Entries
<1>OnItsPath. OnItsPath'
  BY <1>Effect
  DEF Inv, OnItsPath, Place, Putting, LastPut, Walking, Reached, Child, EntryTypeOK, Entries
<1>Others. OthersStay(p)
  BY <1>Effect DEF OthersStay, Inv, EntryTypeOK
<1>LocksWhere. LocksWhere'
  <2>a. cur[p] \in Slots /\ valid[cur[p]] # 0 /\ ref[cur[p]] >= 1 /\ owner[cur[p]] = p
    BY <1>Effect
    DEF Inv, EntryTypeOK, PointersUsed, Place, Putting, LastPut, Walking, Reached,
        FoundSlot, PointersValid, Counted, RefersTo, LocksWhere, Locking, Entries
  <2>b. parent[cur[p]] \in Entries
    BY <2>a DEF Inv, EntryTypeOK, EntryFilled, Entries
  <2>0. /\ pc'[p] = "rmdo" /\ cur'[p] = cur[p] /\ cur[p] \in Entries /\ owner[cur[p]] = p
        /\ parent[cur[p]] \in Entries /\ parent' = parent
        /\ owner' = [owner EXCEPT ![parent[cur[p]]] = p]
    BY <1>Effect, <2>a, <2>b DEF Inv, EntryTypeOK, Entries
  <2> QED
    BY <1>Others, <2>0, OthersLocksWhere DEF Locking, Inv, EntryTypeOK
<1>LocksWhose. LocksWhose'
  <2>1. ASSUME NEW e \in Entries, owner'[e] = p PROVE Holds(p, e)'
    <3>1. owner[e] = p => Holds(p, e)
      BY DEF Inv, LocksWhose
    <3> QED
      BY <1>Effect, <2>1, <3>1
      DEF Holds, Locking, Inv, EntryTypeOK, PointersUsed, Place, Putting, LastPut, Walking,
          Reached
  <2> QED
    BY <1>Others, <1>EntryTypeOK, <2>1, OthersLocksWhose DEF EntryTypeOK
<1>LastPutAlone. LastPutAlone'
  BY <1>Effect DEF Inv, LastPutAlone, LastPut, EntryTypeOK, Entries
<1>PointersValid. PointersValid'
  BY <1>Effect DEF Inv, PointersValid, Putting, LastPut, EntryTypeOK, Entries
<1>NotThereYet. NotThereYet'
  BY <1>Effect DEF Inv, NotThereYet, Matching, EntryTypeOK, Entries
<1>StillEmpty. StillEmpty'
  BY <1>Effect DEF Inv, StillEmpty, NotEmpty, EntryTypeOK, Entries
<1>ParentsFirst. ParentsFirst'
  BY <1>Effect DEF Inv, ParentsFirst, Leaving, LastPut, EntryTypeOK, Entries
<1>RefsAreSum. RefsAreSum'
  <2>1. UNCHANGED <<cur, ep, fd, pp, pe, ref, parent>> /\ ChildOf' = ChildOf
    BY <1>Effect DEF ChildOf
  <2>2. PutArg' = PutArg
    BY <1>Effect, <2>1 DEF PutArg, Inv, EntryTypeOK
  <2> QED
    BY <2>1, <2>2, RefsSame DEF Inv
<1>Same. ListLinked' /\ RootStays' /\ EntryFilled' /\ ParentIsParent' /\ OneEntryPerFile'
  BY <1>Effect DEF Inv, ListLinked, RootStays, EntryFilled, ParentIsParent, OneEntryPerFile
<1> QED
  BY <1>EntryTypeOK, <1>PointersUsed, <1>WalkedSoFar, <1>OnItsPath, <1>LocksWhere,
     <1>LocksWhose, <1>LastPutAlone, <1>PointersValid, <1>NotThereYet, <1>StillEmpty,
     <1>ParentsFirst, <1>RefsAreSum, <1>Same
  DEF Inv

\* eremove(): the entry stays in the cache, invalid, until its last eput().
LEMMA RemoveKeeps ==
  ASSUME Inv, Facts, NEW p \in Procs, Remove(p)
  PROVE  Inv'
<1> USE Nulls DEF Facts
<1>Effect. /\ pc[p] = "rmdo"
           /\ disk' = IF valid[cur[p]] = 1 THEN [disk EXCEPT ![node[cur[p]]] = "absent"] ELSE disk
           /\ valid' = [valid EXCEPT ![cur[p]] = -1]
           /\ owner' = [owner EXCEPT ![parent[cur[p]]] = None, ![cur[p]] = None]
           /\ pe' = [pe EXCEPT ![p] = cur[p]]
           /\ ret' = [ret EXCEPT ![p] = "user"]
           /\ pc' = [pc EXCEPT ![p] = "put"]
           /\ cur' = [cur EXCEPT ![p] = None]
           /\ op' = [op EXCEPT ![p] = "open"]
           /\ goal' = [goal EXCEPT ![p] = <<>>]
           /\ done' = [done EXCEPT ![p] = 0]
           /\ UNCHANGED <<node, parent, dirty, clus, ref, list, ep, fd, pp>>
  BY DEF Remove, At, FinishWithEput, CallEput, Goto, entryVars, callVars, putVars
<1> DEFINE e == cur[p]
<1>1. pc[p] = "rmdo"
  BY <1>Effect
<1>2. /\ disk'  = IF valid[e] = 1 THEN [disk EXCEPT ![node[e]] = "absent"] ELSE disk
      /\ valid' = [valid EXCEPT ![e] = -1]
      /\ UNCHANGED <<node, parent, dirty, clus, ref, list>>
  BY <1>Effect
<1>3. e \in Slots /\ e \in Entries /\ valid[e] # 0 /\ ref[e] >= 1
  <2>1. e \in Entries /\ Place(p) = "rmdo"
    BY <1>1, CurIsEntry DEF Reached
  <2>2. e \in Slots
    BY <2>1 DEF FoundSlot, Reached
  <2> QED
    BY <2>1, <2>2 DEF Inv, PointersValid, Counted, RefersTo
<1>4. ~NotEmpty(e)
  BY <1>1 DEF Inv, StillEmpty
<1> HIDE DEF e
<1>5. valid'[e] = -1 /\ \A t \in Entries : t # e => valid'[t] = valid[t]
  BY <1>2, <1>3 DEF Inv, EntryTypeOK
<1>RootStays. RootStays'
  BY <1>2, <1>3, <1>5 DEF Inv, RootStays, Entries
<1>EntryFilled. EntryFilled'
  <2> SUFFICES ASSUME NEW t \in Slots
               PROVE  /\ valid'[t] # 0 => node[t] \in Paths
                      /\ valid'[t] # 0 /\ ref[t] > 0 =>
                           parent[t] \in Entries /\ valid'[parent[t]] # 0
                      /\ valid'[t] = 0 => ~dirty[t]
                      /\ valid'[t] = 1 => disk'[node[t]] # "absent"
                      /\ valid'[t] = 1 /\ ~dirty[t] =>
                           disk'[node[t]] = IF clus[t] THEN "full" ELSE "empty"
                      /\ valid'[t] = 1 /\ ref[t] = 0 => ~dirty[t]
                      /\ valid'[t] = -1 /\ ref[t] = 0 => ~clus[t]
    BY <1>2 DEF EntryFilled
  <2>1. \A x \in Entries : valid[x] # 0 => valid'[x] # 0
    BY <1>5
  <2>2. valid'[t] # 0 => valid[t] # 0
    BY <1>3, <1>5 DEF Entries
  <2>3. valid'[t] = 1 => t # e /\ valid[t] = 1 /\ disk'[node[t]] = disk[node[t]]
    <3> SUFFICES ASSUME valid'[t] = 1 PROVE t # e /\ valid[t] = 1 /\ disk'[node[t]] = disk[node[t]]
      OBVIOUS
    <3>1. t # e /\ valid[t] = 1
      BY <1>5 DEF Entries
    <3>2. valid[e] = 1 => node[t] # node[e]
      BY <1>3, <3>1 DEF Inv, OneEntryPerFile
    <3>3. node[t] \in Paths
      BY <3>1 DEF Inv, EntryFilled
    <3> QED
      BY <1>2, <3>1, <3>2, <3>3 DEF Inv, EntryTypeOK
  <2>4. valid'[t] = -1 /\ ref[t] = 0 => valid[t] = -1
    BY <1>3, <1>5 DEF Entries
  <2>5. valid'[t] = 0 => valid[t] = 0
    BY <1>5 DEF Entries
  <2> QED
    BY <2>1, <2>2, <2>3, <2>4, <2>5 DEF Inv, EntryFilled
<1>ParentIsParent. ParentIsParent'
  <2> SUFFICES ASSUME NEW t \in Slots, valid'[t] = 1
               PROVE  /\ parent[t] \in Entries /\ valid'[parent[t]] = 1
                      /\ node[parent[t]] = Parent(node[t])
    BY <1>2 DEF ParentIsParent
  <2>1. valid[t] = 1
    BY <1>5 DEF Entries
  <2>2. parent[t] \in Entries /\ valid[parent[t]] = 1 /\ node[parent[t]] = Parent(node[t])
    BY <2>1 DEF Inv, ParentIsParent
  <2>3. parent[t] # e
    <3> SUFFICES ASSUME parent[t] = e PROVE FALSE
      OBVIOUS
    <3>1. node[t] \in Paths /\ disk[node[t]] # "absent" /\ node[e] \in Paths
      BY <1>3, <2>1 DEF Inv, EntryFilled
    <3>2. node[e] # <<>> /\ Len(node[t]) \in 1..2 /\ (Len(node[t]) = 1 => Parent(node[t]) = <<>>)
      BY <3>1, SubSeqs
    <3>3. Len(node[t]) > 1
      <4>1. Parent(node[t]) # <<>>
        BY <2>2, <3>2, Zenon
      <4>2. Len(node[t]) # 1
        BY <3>2, <4>1, Zenon
      <4> QED
        BY <3>2, <4>2
    <3> QED
      BY <1>4, <2>2, <3>1, <3>3 DEF NotEmpty
  <2> QED
    BY <1>5, <2>2, <2>3
<1>EntryTypeOK. EntryTypeOK'
  <2>1. valid' \in [Entries -> {-1, 0, 1}]
    BY <1>Effect DEF Inv, EntryTypeOK
  <2>2. owner' \in [Entries -> Procs \cup {None}]
    BY <1>Effect DEF Inv, EntryTypeOK, Entries
  <2>3. disk' \in [Paths -> {"absent", "empty", "full"}]
    BY <1>Effect DEF Inv, EntryTypeOK
  <2>4. pc' \in [Procs -> Places]
    BY <1>Effect DEF Inv, EntryTypeOK, Places, Putting, LastPut, Walking, Reached
  <2>5. op' \in [Procs -> {"open", "create", "mkdir", "remove", "mkparent"}]
    BY <1>Effect DEF Inv, EntryTypeOK
  <2>6. goal' \in [Procs -> Paths \cup {<<>>}]
    BY <1>Effect DEF Inv, EntryTypeOK
  <2>7. done' \in [Procs -> Nat]
    BY <1>Effect DEF Inv, EntryTypeOK
  <2>8. cur' \in [Procs -> Entries \cup {None}]
    BY <1>Effect DEF Inv, EntryTypeOK, Entries
  <2>9. pe' \in [Procs -> Entries \cup {None}]
    BY <1>Effect DEF Inv, EntryTypeOK, Entries
  <2>10. ret' \in [Procs -> {"user", "walk", "found", "mkparent"}]
    BY <1>Effect DEF Inv, EntryTypeOK
  <2> QED
    BY <1>Effect, <2>1, <2>2, <2>3, <2>4, <2>5, <2>6, <2>7, <2>8, <2>9, <2>10
    DEF Inv, EntryTypeOK
<1>PointersUsed. PointersUsed'
  BY <1>Effect
  DEF Inv, PointersUsed, Place, Putting, LastPut, Walking, Reached, EntryTypeOK, Entries
<1>WalkedSoFar. WalkedSoFar'
  BY <1>Effect
  DEF Inv, WalkedSoFar, Place, Putting, LastPut, Walking, Reached, Depth, AtParent,
      Creating, EntryTypeOK, Entries
<1>OnItsPath. OnItsPath'
  BY <1>Effect
  DEF Inv, OnItsPath, Place, Putting, LastPut, Walking, Reached, Child, EntryTypeOK, Entries
<1>Others. OthersStay(p)
  BY <1>Effect DEF OthersStay, Inv, EntryTypeOK, LocksWhere, Locking
<1>LocksWhere. LocksWhere'
  <2>0. pc'[p] = "put"
    BY <1>Effect
    DEF Inv, EntryTypeOK, PointersUsed, Place, Putting, LastPut, Walking, Reached,
        EntryFilled, FoundSlot, LastPutAlone, PointersValid, Locking, LocksWhere, Entries
  <2> QED
    BY <1>Others, <2>0, OthersLocksWhere DEF Locking, Inv, EntryTypeOK
<1>LocksWhose. LocksWhose'
  <2>1. ASSUME NEW x \in Entries, owner'[x] = p PROVE Holds(p, x)'
    <3>1. owner[x] = p => Holds(p, x)
      BY DEF Inv, LocksWhose
    <3> QED
      BY <1>Effect, <2>1, <3>1
      DEF Holds, Locking, Inv, EntryTypeOK, PointersUsed, Place, Putting, LastPut, Walking,
          Reached
  <2> QED
    BY <1>Others, <1>EntryTypeOK, <2>1, OthersLocksWhose DEF EntryTypeOK
<1>LastPutAlone. LastPutAlone'
  BY <1>Effect
  DEF Inv, LastPutAlone, LastPut, PointersUsed, Place, Putting, Walking, Reached, PutAlone,
      PointsTo, InUse, EntryTypeOK, Entries
<1>PointersValid. PointersValid'
  BY <1>Effect
  DEF Inv, PointersValid, Putting, LastPut, PointersUsed, Place, Walking, Reached,
      EntryTypeOK, Entries
<1>NotThereYet. NotThereYet'
  BY <1>Effect
  DEF Inv, NotThereYet, Matching, PointersUsed, Place, Putting, LastPut, Walking, Reached,
      LocksWhere, Locking, EntryTypeOK, Entries
<1>StillEmpty. StillEmpty'
  BY <1>Effect DEF Inv, StillEmpty, NotEmpty, EntryTypeOK, Entries
<1>ParentsFirst. ParentsFirst'
  BY <1>Effect DEF Inv, ParentsFirst, Leaving, LastPut, EntryTypeOK, Entries
<1>RefsAreSum. RefsAreSum'
  <2>1. OthersKeep(p)
    BY <1>Effect DEF OthersKeep, PutArg, Inv, EntryTypeOK
  <2>2. pe[p] = None
    BY <1>Effect DEF Inv, PointersUsed, Putting, LastPut
  <2>3. /\ cur'[p] = None /\ ep'[p] = ep[p] /\ fd'[p] = fd[p] /\ pp'[p] = pp[p]
        /\ pe'[p] = cur[p] /\ pc'[p] = "put"
    BY <1>Effect DEF Inv, EntryTypeOK
  <2>4. PutArg[p] = None /\ PutArg'[p] = cur[p]
    BY <1>Effect, <2>2, <2>3 DEF PutArg
  <2>5. ref' = ref /\ ref \in [Entries -> Nat]
    BY <1>Effect DEF Inv, EntryTypeOK
  <2>7. ChildOf' = ChildOf
    <3>1. cur[p] # None => valid[cur[p]] # 0
      BY DEF Inv, PointersValid
    <3> QED
      BY <1>Effect, <3>1
      DEF ChildOf, Inv, EntryTypeOK, Entries, PointersUsed, Place, Putting, LastPut, Reached
  <2>6. \A x \in Entries : ref'[x] = ref[x] + Moved(p, x)
    BY <2>3, <2>4, <2>5 DEF Moved, One
  <2> QED
    BY <2>1, <2>5, <2>6, <2>7, RefMoves DEF Inv
<1>OneEntryPerFile. OneEntryPerFile'
  BY <1>Effect DEF Inv, OneEntryPerFile, EntryTypeOK, Entries
<1>Same. ListLinked'
  BY <1>Effect DEF Inv, ListLinked
<1> QED
  BY <1>RootStays, <1>EntryFilled, <1>ParentIsParent, <1>EntryTypeOK, <1>PointersUsed,
     <1>WalkedSoFar, <1>OnItsPath, <1>LocksWhere, <1>LocksWhose, <1>LastPutAlone,
     <1>PointersValid, <1>NotThereYet, <1>StillEmpty, <1>ParentsFirst, <1>RefsAreSum,
     <1>OneEntryPerFile, <1>Same
  DEF Inv

\* An eput() that is not the last one.
LEMMA EputDropKeeps ==
  ASSUME Inv, Facts, NEW p \in Procs, EputDrop(p)
  PROVE  Inv'
<1> USE Nulls DEF Facts
<1>Effect. /\ pc[p] = "put" /\ ~IsLastPut(p)
           /\ ref' = [ref EXCEPT ![pe[p]] = @ - 1]
           /\ pe' = [pe EXCEPT ![p] = None]
           /\ ret' = [ret EXCEPT ![p] = "user"]
           /\ pc' = [pc EXCEPT ![p] = ret[p]]
           /\ UNCHANGED <<node, parent, valid, dirty, clus, owner, list, disk, op, goal,
                done, cur, ep, fd, pp>>
  BY DEF EputDrop, At, Goto, entryVars, callVars, putVars
<1> DEFINE x == pe[p]
<1>1. pc[p] = "put" /\ ~IsLastPut(p)
  BY <1>Effect
<1>2. /\ ref' = [ref EXCEPT ![x] = @ - 1]
      /\ pe'  = [pe EXCEPT ![p] = None]
      /\ pc'  = [pc EXCEPT ![p] = ret[p]]
      /\ UNCHANGED <<node, parent, valid, dirty, clus, owner, list, disk,
                     op, goal, done, cur, ep, fd, pp>>
  BY <1>Effect
<1>3. x \in Entries /\ valid[x] # 0
  BY <1>1 DEF Inv, PointersUsed, PointersValid, EntryTypeOK, Putting
<1>4. ref[x] \in Nat /\ ref[x] >= 1
  BY <1>1, <1>3 DEF Inv, EntryTypeOK, Counted, RefersTo
<1>5. ref[x] # 1
  BY <1>1, <1>3 DEF IsLastPut, PutAlone, Putting, LastPut
<1>6. ref'[x] >= 1 /\ \A e \in Entries : e # x => ref'[e] = ref[e]
  BY <1>2, <1>3, <1>4, <1>5 DEF Inv, EntryTypeOK
<1>7. /\ ret[p] \in {"user", "walk", "found", "mkparent"} /\ pc'[p] = ret[p]
      /\ \A q \in Procs : q # p => pc'[q] = pc[q] /\ pe'[q] = pe[q]
  BY <1>2 DEF Inv, EntryTypeOK
<1>8. \A q \in Procs : /\ pc[q] \in LastPut => pe[q] # x /\ q # p
                       /\ pc[q] \in {"scan", "emake"} => ep[q] # x /\ q # p
  BY <1>1, <1>4, <1>5 DEF Inv, LastPutAlone, LastPut, PointersValid
<1> HIDE DEF x
<1>LastPutAlone. LastPutAlone'
  <2> SUFFICES ASSUME NEW q \in Procs, pc'[q] \in LastPut
               PROVE  /\ pe'[q] \in Slots
                      /\ pc'[q] # "putcheck" => ref'[pe'[q]] = 1
                      /\ pc'[q] = "putcheck" => ref'[pe'[q]] = 0
                      /\ pc'[q] = "putupdate" => valid[pe'[q]] = 1
                      /\ pc'[q] \in {"putunlock", "putdec"} =>
                           /\ valid[pe'[q]] = 1 => ~dirty[pe'[q]]
                           /\ valid[pe'[q]] = -1 => ~clus[pe'[q]]
    BY <1>2 DEF LastPutAlone, LastPut
  <2>1. q # p /\ pc[q] = pc'[q] /\ pe'[q] = pe[q] /\ pe[q] \in Slots
    BY <1>7 DEF LastPut, Inv, LastPutAlone
  <2>2. ref'[pe[q]] = ref[pe[q]]
    BY <1>6, <1>8, <2>1 DEF Entries
  <2> QED
    BY <2>1, <2>2 DEF Inv, LastPutAlone
<1>PointersValid. PointersValid'
  <2> SUFFICES ASSUME NEW q \in Procs
               PROVE  /\ cur[q] # None => valid[cur[q]] # 0
                      /\ fd[q] # None => valid[fd[q]] # 0
                      /\ pc'[q] \in Putting \ {"putcheck"} => valid[pe'[q]] # 0
                      /\ pp[q] # None => valid[pp[q]] # 0
                      /\ pc'[q] = "leave" /\ ep[q] # None => valid[ep[q]] # 0
                      /\ pc'[q] \in {"scan", "emake"} => valid[ep[q]] = 0 /\ ref'[ep[q]] = 1
    BY <1>2 DEF PointersValid
  <2>1. CASE q = p
    BY <1>7, <2>1 DEF Inv, PointersValid, Putting, LastPut
  <2>2. CASE q # p
    <3>1. pc[q] \in {"scan", "emake"} => ref'[ep[q]] = ref[ep[q]]
      BY <1>6, <1>8 DEF Inv, PointersUsed, EntryTypeOK, Entries
    <3> QED
      BY <1>7, <2>2, <3>1 DEF Inv, PointersValid
  <2> QED
    BY <2>1, <2>2
<1>NotThereYet. NotThereYet'
  <2>1. \A q \in Procs : Matching(q)' = Matching(q)
    BY <1>2 DEF Matching
  <2> QED
    BY <1>2, <1>7, <2>1 DEF Inv, NotThereYet
<1>StillEmpty. StillEmpty'
  <2>1. \A q \in Procs : NotEmpty(cur[q])' <=> NotEmpty(cur[q])
    BY <1>2 DEF NotEmpty
  <2>2. \A q \in Procs : pc'[q] = "rmdo" => pc[q] = "rmdo"
    BY <1>7
  <2> QED
    BY <2>1, <2>2 DEF Inv, StillEmpty
<1>ParentsFirst. ParentsFirst'
  <2>1. \A e \in Entries : Leaving(e)' => Leaving(e)
    <3> SUFFICES ASSUME NEW e \in Entries, Leaving(e)' PROVE Leaving(e)
      OBVIOUS
    <3>1. ref'[e] = 0 => ref[e] = 0
      BY <1>6
    <3>2. \A q \in Procs : pc'[q] \in LastPut => pc[q] \in LastPut /\ pe'[q] = pe[q]
      BY <1>7 DEF LastPut
    <3> QED
      BY <3>1, <3>2 DEF Leaving
  <2>2. \A j \in 1..ENTRY_CACHE_NUM : list[j] \in Entries
    BY DEF Inv, EntryTypeOK, Entries
  <2> QED
    BY <1>2, <2>1, <2>2 DEF Inv, ParentsFirst
<1>EntryTypeOK. EntryTypeOK'
  BY <1>Effect
  DEF Inv, EntryTypeOK, PointersUsed, Place, Putting, LastPut, Walking, Reached, Counted,
      RefersTo, InUse, Entries, Places, IsLastPut
<1>PointersUsed. PointersUsed'
  BY <1>Effect
  DEF Inv, PointersUsed, Place, Putting, LastPut, Walking, Reached, EntryTypeOK, Entries,
      IsLastPut
<1>WalkedSoFar. WalkedSoFar'
  BY <1>Effect
  DEF Inv, WalkedSoFar, Place, Putting, LastPut, Walking, Reached, Depth, AtParent,
      Creating, EntryTypeOK, Entries, IsLastPut
<1>OnItsPath. OnItsPath'
  BY <1>Effect
  DEF Inv, OnItsPath, Place, Putting, LastPut, Walking, Reached, Child, PointersUsed,
      EntryTypeOK, Entries, IsLastPut
<1>Others. OthersStay(p)
  BY <1>Effect DEF OthersStay, Inv, EntryTypeOK
<1>LocksWhere. LocksWhere'
  <2>0. pc'[p] = ret[p] /\ ret[p] \in {"user", "walk", "found", "mkparent"}
    BY <1>Effect
    DEF Inv, EntryTypeOK, PointersUsed, Place, Putting, LastPut, Walking, Reached,
        IsLastPut, EntryFilled, FoundSlot, LastPutAlone, PointersValid, Locking, LocksWhere,
        Entries
  <2> QED
    BY <1>Others, <2>0, OthersLocksWhere DEF Locking, Inv, EntryTypeOK
<1>LocksWhose. LocksWhose'
  <2>1. ASSUME NEW e \in Entries, owner'[e] = p PROVE Holds(p, e)'
    <3>1. owner[e] = p => Holds(p, e)
      BY DEF Inv, LocksWhose
    <3> QED
      BY <1>Effect, <2>1, <3>1
      DEF Holds, Locking, Inv, EntryTypeOK, PointersUsed, Place, Putting, LastPut, Walking,
          Reached
  <2> QED
    BY <1>Others, <1>EntryTypeOK, <2>1, OthersLocksWhose DEF EntryTypeOK
<1>EntryFilled. EntryFilled'
  BY <1>Effect DEF Inv, EntryFilled, EntryTypeOK, Entries, IsLastPut
<1>RefsAreSum. RefsAreSum'
  <2>1. OthersKeep(p)
    BY <1>Effect DEF OthersKeep, PutArg, Inv, EntryTypeOK, IsLastPut
  <2>2. /\ cur'[p] = cur[p]
        /\ ep'[p] = ep[p]
        /\ fd'[p] = fd[p]
        /\ PutArg[p] = pe[p] /\ PutArg'[p] = None
        /\ pp'[p] = pp[p]
    BY <1>Effect
    DEF PutArg, Inv, EntryTypeOK, PointersUsed, Place, Putting, LastPut, Walking, Reached,
        LastPutAlone, IsLastPut
  <2>3. /\ ref' = [ref EXCEPT ![pe[p]] = @ - 1] /\ ref \in [Entries -> Nat]
        /\ cur[p] \in Entries \cup {None}
    BY <1>Effect DEF Inv, EntryTypeOK, IsLastPut
  <2>4. ChildOf' = ChildOf
    BY <1>Effect
    DEF ChildOf, Inv, EntryTypeOK, Entries, PointersUsed, Place, Putting, LastPut, Walking,
        Reached, LastPutAlone, PointersValid, FoundSlot, Counted, RefersTo, IsLastPut
  <2>5. \A e \in Entries : ref'[e] = ref[e] + Moved(p, e)
    BY <2>2, <2>3, Nulls DEF Moved, One
  <2> QED
    BY <2>1, <2>4, <2>5, RefMoves DEF Inv
<1>Same. ListLinked' /\ RootStays' /\ ParentIsParent' /\ OneEntryPerFile'
  BY <1>Effect DEF Inv, ListLinked, RootStays, ParentIsParent, OneEntryPerFile
<1> QED
  BY <1>LastPutAlone, <1>PointersValid, <1>NotThereYet, <1>StillEmpty, <1>ParentsFirst,
     <1>EntryTypeOK, <1>PointersUsed, <1>WalkedSoFar, <1>OnItsPath, <1>LocksWhere,
     <1>LocksWhose, <1>EntryFilled, <1>RefsAreSum, <1>Same
  DEF Inv

\* The start of the last eput(), which moves the entry before its children.
LEMMA EputLastKeeps ==
  ASSUME Inv, Facts, NEW p \in Procs, EputLast(p)
  PROVE  Inv'
<1> USE Nulls DEF Facts
<1>Effect. /\ pc[p] = "put" /\ pe[p] # Root /\ valid[pe[p]] # 0 /\ ref[pe[p]] = 1
           /\ owner[pe[p]] = None
           /\ owner' = [owner EXCEPT ![pe[p]] = p]
           /\ list' = MoveToHead(pe[p])
           /\ pc' = [pc EXCEPT ![p] = "putwork"]
           /\ UNCHANGED <<node, parent, valid, dirty, clus, ref, disk, op, goal, done, cur,
                ep, fd, pe, pp, ret>>
  BY DEF EputLast, At, Goto, Lock, IsLastPut, entryVars, callVars, putVars
<1> DEFINE x == pe[p]
<1>1. pc[p] = "put" /\ x # Root /\ valid[x] # 0 /\ ref[x] = 1
  BY <1>Effect
<1>2. /\ list' = MoveToHead(x) /\ owner' = [owner EXCEPT ![x] = p]
      /\ pc' = [pc EXCEPT ![p] = "putwork"]
      /\ UNCHANGED <<node, parent, valid, dirty, clus, ref, disk, op, goal, done, cur, ep, fd, pe,
                     pp, ret>>
  BY <1>Effect
<1>3. x \in Slots /\ x \in Entries
  BY <1>1 DEF Inv, EntryTypeOK, PointersUsed, Putting, Entries
<1>4. /\ list' \in [1..ENTRY_CACHE_NUM -> Slots] /\ ListLinked'
      /\ \A j \in 1..ENTRY_CACHE_NUM : list'[j] = x => j = 1
      /\ \A i, j \in 1..ENTRY_CACHE_NUM : list'[i] # x /\ list'[j] # x /\ i <= j =>
           \E m, n \in 1..ENTRY_CACHE_NUM : list[m] = list'[i] /\ list[n] = list'[j] /\ m <= n
  BY <1>2, <1>3, ListMoved
<1>5. \A q \in Procs : q # p => pc'[q] = pc[q]
  BY <1>2 DEF Inv, EntryTypeOK
<1>EntryTypeOK. EntryTypeOK'
  <2>1. owner' \in [Entries -> Procs \cup {None}] /\ pc' \in [Procs -> Places]
    BY <1>2 DEF Inv, EntryTypeOK, Places, Putting, LastPut
  <2> QED
    BY <1>2, <1>4, <2>1 DEF Inv, EntryTypeOK
<1> HIDE DEF x
<1>ParentsFirst. ParentsFirst'
  <2> SUFFICES ASSUME NEW i \in 1..ENTRY_CACHE_NUM, NEW j \in 1..ENTRY_CACHE_NUM,
                      valid[list'[i]] = 1, parent[list'[i]] = list'[j], Leaving(list[j])'
               PROVE  j < i
    BY <1>2 DEF ParentsFirst
  <2>1. list'[i] \in Slots /\ list'[j] \in Slots /\ list'[i] # list'[j]
    BY <1>4 DEF Identity
  <2>2. ENTRY_CACHE_NUM \in Nat
    BY EntryAssumption, FS_CardinalityType DEF ENTRY_CACHE_NUM
  <2>3. CASE list'[j] = x
    <3>1. j = 1 /\ i # j
      BY <1>4, <2>1, <2>3
    <3> QED
      BY <2>2, <3>1
  <2>4. CASE list'[j] # x
    <3>1. Leaving(list'[j])
      <4>1. \A q \in Procs : pc'[q] \in LastPut /\ pe[q] = list'[j] => pc[q] \in LastPut
        BY <1>5, <2>4 DEF x
      <4> QED
        BY <1>2, <4>1 DEF Leaving
    <3>2. list'[i] # x
      <4> SUFFICES ASSUME list'[i] = x PROVE FALSE
        OBVIOUS
      <4>1. InUse(x) /\ parent[x] = list'[j] /\ list'[j] \in Entries
        BY <1>1, <2>1 DEF InUse, Entries
      <4>2. ref[list'[j]] # 0
        BY <1>3, <4>1 DEF Counted
      <4>3. PICK q \in Procs : pc[q] \in LastPut /\ pe[q] = list'[j]
        BY <3>1, <4>2 DEF Leaving
      <4>4. pc[q] # "putcheck" /\ ref[pe[q]] = 1
        BY <4>2, <4>3 DEF Inv, LastPutAlone
      <4> QED
        BY <1>3, <4>1, <4>3, <4>4 DEF PutAlone, Putting
    <3>3. ASSUME i <= j PROVE FALSE
      <4>1. PICK m \in 1..ENTRY_CACHE_NUM, n \in 1..ENTRY_CACHE_NUM :
              list[m] = list'[i] /\ list[n] = list'[j] /\ m <= n
        BY <1>4, <2>4, <3>2, <3>3
      <4>2. n < m
        BY <3>1, <4>1 DEF Inv, ParentsFirst
      <4> QED
        BY <2>2, <4>1, <4>2
    <3> QED
      BY <2>2, <3>3
  <2> QED
    BY <2>3, <2>4
<1>PointersUsed. PointersUsed'
  BY <1>Effect
  DEF Inv, PointersUsed, Place, Putting, LastPut, Walking, Reached, EntryTypeOK, Entries
<1>WalkedSoFar. WalkedSoFar'
  BY <1>Effect
  DEF Inv, WalkedSoFar, Place, Putting, LastPut, Walking, Reached, Depth, AtParent,
      Creating, EntryTypeOK, Entries
<1>OnItsPath. OnItsPath'
  BY <1>Effect
  DEF Inv, OnItsPath, Place, Putting, LastPut, Walking, Reached, Child, EntryTypeOK, Entries
<1>LocksWhere. LocksWhere'
  BY <1>Effect
  DEF Inv, LocksWhere, Locking, PointersUsed, Place, Putting, LastPut, Walking, Reached,
      EntryTypeOK, Entries
<1>Others. OthersStay(p)
  BY <1>Effect DEF OthersStay, Inv, EntryTypeOK
<1>LocksWhose. LocksWhose'
  <2>1. ASSUME NEW e \in Entries, owner'[e] = p PROVE Holds(p, e)'
    <3>1. owner[e] = p => Holds(p, e)
      BY DEF Inv, LocksWhose
    <3> QED
      BY <1>Effect, <2>1, <3>1
      DEF Holds, Locking, Inv, EntryTypeOK, PointersUsed, Place, Putting, LastPut, Walking,
          Reached
  <2> QED
    BY <1>Others, <1>EntryTypeOK, <2>1, OthersLocksWhose DEF EntryTypeOK
<1>LastPutAlone. LastPutAlone'
  BY <1>Effect
  DEF Inv, LastPutAlone, LastPut, PointersUsed, Place, Putting, Walking, Reached,
      EntryTypeOK, Entries
<1>PointersValid. PointersValid'
  BY <1>Effect DEF Inv, PointersValid, Putting, LastPut, EntryTypeOK, Entries
<1>NotThereYet. NotThereYet'
  BY <1>Effect DEF Inv, NotThereYet, Matching, EntryTypeOK, Entries
<1>StillEmpty. StillEmpty'
  BY <1>Effect DEF Inv, StillEmpty, NotEmpty, EntryTypeOK, Entries
<1>RefsAreSum. RefsAreSum'
  <2>1. UNCHANGED <<cur, ep, fd, pp, pe, ref, parent>> /\ ChildOf' = ChildOf
    BY <1>Effect DEF ChildOf
  <2>2. PutArg' = PutArg
    BY <1>Effect, <2>1 DEF PutArg, Inv, EntryTypeOK
  <2> QED
    BY <2>1, <2>2, RefsSame DEF Inv
<1>Same. RootStays' /\ EntryFilled' /\ ParentIsParent' /\ OneEntryPerFile'
  BY <1>Effect DEF Inv, RootStays, EntryFilled, ParentIsParent, OneEntryPerFile
<1> QED
  BY <1>4, <1>EntryTypeOK, <1>ParentsFirst, <1>PointersUsed, <1>WalkedSoFar, <1>OnItsPath,
     <1>LocksWhere, <1>LocksWhose, <1>LastPutAlone, <1>PointersValid, <1>NotThereYet,
     <1>StillEmpty, <1>RefsAreSum, <1>Same
  DEF Inv

\* etrunc() of a removed file.
LEMMA EputTruncKeeps ==
  ASSUME Inv, Facts, NEW p \in Procs, EputTrunc(p)
  PROVE  Inv'
<1> USE Nulls DEF Facts
<1>Effect. /\ pc[p] = "putwork" /\ valid[pe[p]] = -1
           /\ clus' = [clus EXCEPT ![pe[p]] = FALSE]
           /\ dirty' = [dirty EXCEPT ![pe[p]] = TRUE]
           /\ pc' = [pc EXCEPT ![p] = "putunlock"]
           /\ UNCHANGED <<node, parent, valid, ref, owner, list, disk, op, goal, done, cur,
                ep, fd, pe, pp, ret>>
  BY DEF EputTrunc, At, Goto, entryVars, callVars, putVars
<1>EntryTypeOK. EntryTypeOK'
  BY <1>Effect
  DEF Inv, EntryTypeOK, PointersUsed, Place, Putting, LastPut, Walking, Reached, Entries,
      Places
<1>PointersUsed. PointersUsed'
  BY <1>Effect
  DEF Inv, PointersUsed, Place, Putting, LastPut, Walking, Reached, EntryTypeOK, Entries
<1>WalkedSoFar. WalkedSoFar'
  BY <1>Effect
  DEF Inv, WalkedSoFar, Place, Putting, LastPut, Walking, Reached, Depth, AtParent,
      Creating, EntryTypeOK, Entries
<1>OnItsPath. OnItsPath'
  BY <1>Effect
  DEF Inv, OnItsPath, Place, Putting, LastPut, Walking, Reached, Child, EntryTypeOK, Entries
<1>LocksWhere. LocksWhere'
  BY <1>Effect DEF Inv, LocksWhere, Locking, EntryTypeOK, Entries
<1>Others. OthersStay(p)
  BY <1>Effect DEF OthersStay, Inv, EntryTypeOK
<1>LocksWhose. LocksWhose'
  <2>1. ASSUME NEW e \in Entries, owner'[e] = p PROVE Holds(p, e)'
    <3>1. owner[e] = p => Holds(p, e)
      BY DEF Inv, LocksWhose
    <3> QED
      BY <1>Effect, <2>1, <3>1
      DEF Holds, Locking, Inv, EntryTypeOK, PointersUsed, Place, Putting, LastPut, Walking,
          Reached
  <2> QED
    BY <1>Others, <1>EntryTypeOK, <2>1, OthersLocksWhose DEF EntryTypeOK
<1>LastPutAlone. LastPutAlone'
  BY <1>Effect DEF Inv, LastPutAlone, LastPut, EntryTypeOK, Entries
<1>PointersValid. PointersValid'
  BY <1>Effect DEF Inv, PointersValid, Putting, LastPut, EntryTypeOK, Entries
<1>EntryFilled. EntryFilled'
  BY <1>Effect DEF Inv, EntryFilled, EntryTypeOK, Entries
<1>NotThereYet. NotThereYet'
  BY <1>Effect DEF Inv, NotThereYet, Matching, EntryTypeOK, Entries
<1>StillEmpty. StillEmpty'
  BY <1>Effect DEF Inv, StillEmpty, NotEmpty, EntryTypeOK, Entries
<1>ParentsFirst. ParentsFirst'
  BY <1>Effect DEF Inv, ParentsFirst, Leaving, LastPut, EntryTypeOK, Entries
<1>RefsAreSum. RefsAreSum'
  <2>1. UNCHANGED <<cur, ep, fd, pp, pe, ref, parent>> /\ ChildOf' = ChildOf
    BY <1>Effect DEF ChildOf
  <2>2. PutArg' = PutArg
    BY <1>Effect, <2>1 DEF PutArg, Inv, EntryTypeOK
  <2> QED
    BY <2>1, <2>2, RefsSame DEF Inv
<1>Same. ListLinked' /\ RootStays' /\ ParentIsParent' /\ OneEntryPerFile'
  BY <1>Effect DEF Inv, ListLinked, RootStays, ParentIsParent, OneEntryPerFile
<1> QED
  BY <1>EntryTypeOK, <1>PointersUsed, <1>WalkedSoFar, <1>OnItsPath, <1>LocksWhere,
     <1>LocksWhose, <1>LastPutAlone, <1>PointersValid, <1>EntryFilled, <1>NotThereYet,
     <1>StillEmpty, <1>ParentsFirst, <1>RefsAreSum, <1>Same
  DEF Inv

\* elock() of the parent by the last eput().
LEMMA EputLockParentKeeps ==
  ASSUME Inv, Facts, NEW p \in Procs, EputLockParent(p)
  PROVE  Inv'
<1> USE Nulls DEF Facts
<1>Effect. /\ pc[p] = "putwork" /\ valid[pe[p]] # -1
           /\ owner[parent[pe[p]]] = None /\ ref[parent[pe[p]]] >= 1
           /\ owner' = [owner EXCEPT ![parent[pe[p]]] = p]
           /\ pc' = [pc EXCEPT ![p] = "putupdate"]
           /\ UNCHANGED <<node, parent, valid, dirty, clus, ref, list, disk, op, goal, done,
                cur, ep, fd, pe, pp, ret>>
  BY DEF EputLockParent, At, Goto, CanLock, Lock, entryVars, callVars, putVars
<1>EntryTypeOK. EntryTypeOK'
  <2>1. owner' \in [Entries -> Procs \cup {None}]
    BY <1>Effect DEF Inv, EntryTypeOK, Entries
  <2>2. pc' \in [Procs -> Places]
    BY <1>Effect DEF Inv, EntryTypeOK, Places, Putting, LastPut, Walking, Reached
  <2> QED
    BY <1>Effect, <2>1, <2>2 DEF Inv, EntryTypeOK
<1>PointersUsed. PointersUsed'
  BY <1>Effect
  DEF Inv, PointersUsed, Place, Putting, LastPut, Walking, Reached, EntryTypeOK, Entries
<1>WalkedSoFar. WalkedSoFar'
  BY <1>Effect
  DEF Inv, WalkedSoFar, Place, Putting, LastPut, Walking, Reached, Depth, AtParent,
      Creating, EntryTypeOK, Entries
<1>OnItsPath. OnItsPath'
  BY <1>Effect
  DEF Inv, OnItsPath, Place, Putting, LastPut, Walking, Reached, Child, EntryTypeOK, Entries
<1>Others. OthersStay(p)
  BY <1>Effect DEF OthersStay, Inv, EntryTypeOK
<1>LocksWhere. LocksWhere'
  <2>a. pe[p] \in Slots /\ valid[pe[p]] # 0 /\ ref[pe[p]] = 1 /\ owner[pe[p]] = p
    BY <1>Effect DEF Inv, LastPutAlone, LastPut, PointersValid, Putting, LocksWhere
  <2>b. parent[pe[p]] \in Entries
    BY <2>a DEF Inv, EntryFilled
  <2>0. /\ pc'[p] = "putupdate" /\ pe'[p] = pe[p] /\ pe[p] \in Entries /\ owner[pe[p]] = p
        /\ parent[pe[p]] \in Entries /\ parent' = parent
        /\ owner' = [owner EXCEPT ![parent[pe[p]]] = p]
    BY <1>Effect, <2>a, <2>b DEF Inv, EntryTypeOK, Entries
  <2> QED
    BY <1>Others, <2>0, OthersLocksWhere DEF Locking, Inv, EntryTypeOK
<1>LocksWhose. LocksWhose'
  <2>1. ASSUME NEW e \in Entries, owner'[e] = p PROVE Holds(p, e)'
    <3>1. owner[e] = p => Holds(p, e)
      BY DEF Inv, LocksWhose
    <3> QED
      BY <1>Effect, <2>1, <3>1
      DEF Holds, Locking, Inv, EntryTypeOK, PointersUsed, Place, Putting, LastPut, Walking,
          Reached
  <2> QED
    BY <1>Others, <1>EntryTypeOK, <2>1, OthersLocksWhose DEF EntryTypeOK
<1>LastPutAlone. LastPutAlone'
  BY <1>Effect
  DEF Inv, LastPutAlone, LastPut, PointersUsed, Place, Putting, Walking, Reached,
      PointersValid, EntryTypeOK, Entries
<1>PointersValid. PointersValid'
  BY <1>Effect DEF Inv, PointersValid, Putting, LastPut, EntryTypeOK, Entries
<1>NotThereYet. NotThereYet'
  BY <1>Effect DEF Inv, NotThereYet, Matching, EntryTypeOK, Entries
<1>StillEmpty. StillEmpty'
  BY <1>Effect DEF Inv, StillEmpty, NotEmpty, EntryTypeOK, Entries
<1>ParentsFirst. ParentsFirst'
  BY <1>Effect DEF Inv, ParentsFirst, Leaving, LastPut, EntryTypeOK, Entries
<1>RefsAreSum. RefsAreSum'
  <2>1. UNCHANGED <<cur, ep, fd, pp, pe, ref, parent>> /\ ChildOf' = ChildOf
    BY <1>Effect DEF ChildOf
  <2>2. PutArg' = PutArg
    BY <1>Effect, <2>1 DEF PutArg, Inv, EntryTypeOK
  <2> QED
    BY <2>1, <2>2, RefsSame DEF Inv
<1>Same. ListLinked' /\ RootStays' /\ EntryFilled' /\ ParentIsParent' /\ OneEntryPerFile'
  BY <1>Effect DEF Inv, ListLinked, RootStays, EntryFilled, ParentIsParent, OneEntryPerFile
<1> QED
  BY <1>EntryTypeOK, <1>PointersUsed, <1>WalkedSoFar, <1>OnItsPath, <1>LocksWhere,
     <1>LocksWhose, <1>LastPutAlone, <1>PointersValid, <1>NotThereYet, <1>StillEmpty,
     <1>ParentsFirst, <1>RefsAreSum, <1>Same
  DEF Inv

\* eupdate(): no other cached entry stands for the file that it writes.
LEMMA EupdateKeeps ==
  ASSUME Inv, Facts, NEW p \in Procs, Eupdate(p)
  PROVE  Inv'
<1> USE Nulls DEF Facts
<1>Effect. /\ pc[p] = "putupdate"
           /\ disk' = IF dirty[pe[p]]
                       THEN [disk EXCEPT ![node[pe[p]]] = IF clus[pe[p]] THEN "full" ELSE "empty"]
                       ELSE disk
           /\ dirty' = [dirty EXCEPT ![pe[p]] = FALSE]
           /\ owner' = [owner EXCEPT ![parent[pe[p]]] = None]
           /\ pc' = [pc EXCEPT ![p] = "putunlock"]
           /\ UNCHANGED <<node, parent, valid, clus, ref, list, op, goal, done, cur, ep, fd,
                pe, pp, ret>>
  BY DEF Eupdate, At, Goto, entryVars, callVars, putVars
<1> DEFINE x == pe[p]
<1>1. pc[p] = "putupdate"
  BY <1>Effect
<1>2. /\ disk' = IF dirty[x] THEN [disk EXCEPT ![node[x]] = IF clus[x] THEN "full" ELSE "empty"]
                 ELSE disk
      /\ dirty' = [dirty EXCEPT ![x] = FALSE]
      /\ pc' = [pc EXCEPT ![p] = "putunlock"]
      /\ UNCHANGED <<node, parent, valid, clus, ref, cur>>
  BY <1>Effect
<1>3. x \in Slots /\ x \in Entries /\ valid[x] = 1
  BY <1>1 DEF Inv, LastPutAlone, LastPut, Entries
<1>4. node[x] \in Paths /\ disk[node[x]] # "absent"
  BY <1>3 DEF Inv, EntryFilled
<1>5. /\ ~dirty'[x] /\ \A t \in Entries : t # x => dirty'[t] = dirty[t]
      /\ \A g \in Paths : g # node[x] => disk'[g] = disk[g]
      /\ \A g \in Paths : disk'[g] # "absent" <=> disk[g] # "absent"
  BY <1>2, <1>3, <1>4 DEF Inv, EntryTypeOK
<1>6. disk'[node[x]] = IF clus[x] THEN "full" ELSE "empty"
  BY <1>2, <1>3, <1>4 DEF Inv, EntryTypeOK, EntryFilled
<1> HIDE DEF x
<1>EntryFilled. EntryFilled'
  <2> SUFFICES ASSUME NEW t \in Slots
               PROVE  /\ valid[t] # 0 => node[t] \in Paths
                      /\ valid[t] # 0 /\ ref[t] > 0 => parent[t] \in Entries /\ valid[parent[t]] # 0
                      /\ valid[t] = 0 => ~dirty'[t]
                      /\ valid[t] = 1 => disk'[node[t]] # "absent"
                      /\ valid[t] = 1 /\ ~dirty'[t] =>
                           disk'[node[t]] = IF clus[t] THEN "full" ELSE "empty"
                      /\ valid[t] = 1 /\ ref[t] = 0 => ~dirty'[t]
                      /\ valid[t] = -1 /\ ref[t] = 0 => ~clus[t]
    BY <1>2 DEF EntryFilled
  <2>1. CASE t = x
    BY <1>3, <1>4, <1>5, <1>6, <2>1 DEF Inv, EntryFilled
  <2>2. CASE t # x
    <3>1. dirty'[t] = dirty[t] /\ (valid[t] = 1 => disk'[node[t]] = disk[node[t]])
      BY <1>3, <1>5, <2>2 DEF Inv, EntryFilled, OneEntryPerFile, Entries
    <3> QED
      BY <3>1 DEF Inv, EntryFilled
  <2> QED
    BY <2>1, <2>2
<1>StillEmpty. StillEmpty'
  <2>1. \A q \in Procs : NotEmpty(cur[q])' <=> NotEmpty(cur[q])
    BY <1>2, <1>5 DEF NotEmpty
  <2>2. \A q \in Procs : pc'[q] = "rmdo" => pc[q] = "rmdo"
    BY <1>2 DEF Inv, EntryTypeOK
  <2> QED
    BY <1>2, <2>1, <2>2 DEF Inv, StillEmpty
<1>EntryTypeOK. EntryTypeOK'
  <2>1. dirty' \in [Entries -> BOOLEAN]
    BY <1>Effect DEF Inv, EntryTypeOK
  <2>2. owner' \in [Entries -> Procs \cup {None}]
    BY <1>Effect DEF Inv, EntryTypeOK, Entries
  <2>3. disk' \in [Paths -> {"absent", "empty", "full"}]
    BY <1>Effect DEF Inv, EntryTypeOK
  <2>4. pc' \in [Procs -> Places]
    BY <1>Effect DEF Inv, EntryTypeOK, Places, Putting, LastPut, Walking, Reached
  <2> QED
    BY <1>Effect, <2>1, <2>2, <2>3, <2>4 DEF Inv, EntryTypeOK
<1>PointersUsed. PointersUsed'
  BY <1>Effect
  DEF Inv, PointersUsed, Place, Putting, LastPut, Walking, Reached, EntryTypeOK, Entries
<1>WalkedSoFar. WalkedSoFar'
  BY <1>Effect
  DEF Inv, WalkedSoFar, Place, Putting, LastPut, Walking, Reached, Depth, AtParent,
      Creating, EntryTypeOK, Entries
<1>OnItsPath. OnItsPath'
  BY <1>Effect
  DEF Inv, OnItsPath, Place, Putting, LastPut, Walking, Reached, Child, EntryTypeOK, Entries
<1>Others. OthersStay(p)
  BY <1>Effect DEF OthersStay, Inv, EntryTypeOK, LocksWhere, Locking
<1>LocksWhere. LocksWhere'
  <2>a. pe[p] \in Slots /\ valid[pe[p]] = 1 /\ owner[pe[p]] = p
    BY <1>Effect DEF Inv, EntryTypeOK, LastPutAlone, LastPut, LocksWhere
  <2>b. parent[pe[p]] # pe[p]
    BY <2>a DEF Identity
  <2>0. /\ pc'[p] = "putunlock" /\ pe'[p] = pe[p] /\ pe[p] \in Entries /\ owner[pe[p]] = p
        /\ parent[pe[p]] # pe[p]
        /\ owner' = [owner EXCEPT ![parent[pe[p]]] = None]
    BY <1>Effect, <2>a, <2>b DEF Inv, EntryTypeOK, Entries
  <2> QED
    BY <1>Others, <2>0, OthersLocksWhere DEF Locking, Inv, EntryTypeOK
<1>LocksWhose. LocksWhose'
  <2>1. ASSUME NEW e \in Entries, owner'[e] = p PROVE Holds(p, e)'
    <3>1. owner[e] = p => Holds(p, e)
      BY DEF Inv, LocksWhose
    <3> QED
      BY <1>Effect, <2>1, <3>1
      DEF Holds, Locking, Inv, EntryTypeOK, PointersUsed, Place, Putting, LastPut, Walking,
          Reached
  <2> QED
    BY <1>Others, <1>EntryTypeOK, <2>1, OthersLocksWhose DEF EntryTypeOK
<1>LastPutAlone. LastPutAlone'
  BY <1>Effect DEF Inv, LastPutAlone, LastPut, EntryTypeOK, Entries
<1>PointersValid. PointersValid'
  BY <1>Effect DEF Inv, PointersValid, Putting, LastPut, EntryTypeOK, Entries
<1>NotThereYet. NotThereYet'
  BY <1>Effect DEF Inv, NotThereYet, Matching, EntryTypeOK, Entries
<1>ParentsFirst. ParentsFirst'
  BY <1>Effect DEF Inv, ParentsFirst, Leaving, LastPut, EntryTypeOK, Entries
<1>RefsAreSum. RefsAreSum'
  <2>1. UNCHANGED <<cur, ep, fd, pp, pe, ref, parent>> /\ ChildOf' = ChildOf
    BY <1>Effect DEF ChildOf
  <2>2. PutArg' = PutArg
    BY <1>Effect, <2>1 DEF PutArg, Inv, EntryTypeOK
  <2> QED
    BY <2>1, <2>2, RefsSame DEF Inv
<1>Same. ListLinked' /\ RootStays' /\ ParentIsParent' /\ OneEntryPerFile'
  BY <1>Effect DEF Inv, ListLinked, RootStays, ParentIsParent, OneEntryPerFile
<1> QED
  BY <1>EntryFilled, <1>StillEmpty, <1>EntryTypeOK, <1>PointersUsed, <1>WalkedSoFar,
     <1>OnItsPath, <1>LocksWhere, <1>LocksWhose, <1>LastPutAlone, <1>PointersValid,
     <1>NotThereYet, <1>ParentsFirst, <1>RefsAreSum, <1>Same
  DEF Inv

\* Leaving the lock of the entry.
LEMMA EputUnlockKeeps ==
  ASSUME Inv, Facts, NEW p \in Procs, EputUnlock(p)
  PROVE  Inv'
<1> USE Nulls DEF Facts
<1>Effect. /\ pc[p] = "putunlock"
           /\ owner' = [owner EXCEPT ![pe[p]] = None]
           /\ pc' = [pc EXCEPT ![p] = "putdec"]
           /\ UNCHANGED <<node, parent, valid, dirty, clus, ref, list, disk, op, goal, done,
                cur, ep, fd, pe, pp, ret>>
  BY DEF EputUnlock, At, Goto, entryVars, callVars, putVars
<1>EntryTypeOK. EntryTypeOK'
  BY <1>Effect
  DEF Inv, EntryTypeOK, PointersUsed, Place, Putting, LastPut, Walking, Reached, Entries,
      Places
<1>PointersUsed. PointersUsed'
  BY <1>Effect
  DEF Inv, PointersUsed, Place, Putting, LastPut, Walking, Reached, EntryTypeOK, Entries
<1>WalkedSoFar. WalkedSoFar'
  BY <1>Effect
  DEF Inv, WalkedSoFar, Place, Putting, LastPut, Walking, Reached, Depth, AtParent,
      Creating, EntryTypeOK, Entries
<1>OnItsPath. OnItsPath'
  BY <1>Effect
  DEF Inv, OnItsPath, Place, Putting, LastPut, Walking, Reached, Child, EntryTypeOK, Entries
<1>LocksWhere. LocksWhere'
  BY <1>Effect DEF Inv, LocksWhere, Locking, EntryTypeOK, Entries
<1>Others. OthersStay(p)
  BY <1>Effect DEF OthersStay, Inv, EntryTypeOK, LocksWhere, Locking
<1>LocksWhose. LocksWhose'
  <2>1. ASSUME NEW e \in Entries, owner'[e] = p PROVE Holds(p, e)'
    <3>1. owner[e] = p => Holds(p, e)
      BY DEF Inv, LocksWhose
    <3> QED
      BY <1>Effect, <2>1, <3>1
      DEF Holds, Locking, Inv, EntryTypeOK, PointersUsed, Place, Putting, LastPut, Walking,
          Reached
  <2> QED
    BY <1>Others, <1>EntryTypeOK, <2>1, OthersLocksWhose DEF EntryTypeOK
<1>LastPutAlone. LastPutAlone'
  BY <1>Effect DEF Inv, LastPutAlone, LastPut, EntryTypeOK, Entries
<1>PointersValid. PointersValid'
  BY <1>Effect DEF Inv, PointersValid, Putting, LastPut, EntryTypeOK, Entries
<1>NotThereYet. NotThereYet'
  BY <1>Effect DEF Inv, NotThereYet, Matching, EntryTypeOK, Entries
<1>StillEmpty. StillEmpty'
  BY <1>Effect DEF Inv, StillEmpty, NotEmpty, EntryTypeOK, Entries
<1>ParentsFirst. ParentsFirst'
  BY <1>Effect DEF Inv, ParentsFirst, Leaving, LastPut, EntryTypeOK, Entries
<1>RefsAreSum. RefsAreSum'
  <2>1. UNCHANGED <<cur, ep, fd, pp, pe, ref, parent>> /\ ChildOf' = ChildOf
    BY <1>Effect DEF ChildOf
  <2>2. PutArg' = PutArg
    BY <1>Effect, <2>1 DEF PutArg, Inv, EntryTypeOK
  <2> QED
    BY <2>1, <2>2, RefsSame DEF Inv
<1>Same. ListLinked' /\ RootStays' /\ EntryFilled' /\ ParentIsParent' /\ OneEntryPerFile'
  BY <1>Effect DEF Inv, ListLinked, RootStays, EntryFilled, ParentIsParent, OneEntryPerFile
<1> QED
  BY <1>EntryTypeOK, <1>PointersUsed, <1>WalkedSoFar, <1>OnItsPath, <1>LocksWhere,
     <1>LocksWhose, <1>LastPutAlone, <1>PointersValid, <1>NotThereYet, <1>StillEmpty,
     <1>ParentsFirst, <1>RefsAreSum, <1>Same
  DEF Inv

\* The last ref--, after which the entry no longer counts as a child and eput()
\* has the reference of the parent in its hands.
LEMMA EputDecKeeps ==
  ASSUME Inv, Facts, NEW p \in Procs, EputDec(p)
  PROVE  Inv'
<1> USE Nulls DEF Facts
<1>Effect. /\ pc[p] = "putdec"
           /\ pp' = [pp EXCEPT ![p] = parent[pe[p]]]
           /\ ref' = [ref EXCEPT ![pe[p]] = @ - 1]
           /\ pc' = [pc EXCEPT ![p] = "putcheck"]
           /\ UNCHANGED <<node, parent, valid, dirty, clus, owner, list, disk, op, goal,
                done, cur, ep, fd, pe, ret>>
  BY DEF EputDec, At, Goto, entryVars, callVars, putVars
<1> DEFINE x == pe[p]
<1>1. pc[p] = "putdec"
  BY <1>Effect
<1>2. /\ pp'  = [pp EXCEPT ![p] = parent[x]]
      /\ ref' = [ref EXCEPT ![x] = @ - 1]
      /\ pc'  = [pc EXCEPT ![p] = "putcheck"]
      /\ UNCHANGED <<node, parent, valid, dirty, clus, owner, list, disk,
                     op, goal, done, cur, ep, fd, pe, ret>>
  BY <1>Effect
<1>3. x \in Slots /\ x \in Entries /\ valid[x] # 0 /\ ref[x] = 1
  BY <1>1 DEF Inv, LastPutAlone, LastPut, PointersValid, Putting, Entries
<1>4. parent[x] \in Entries /\ valid[parent[x]] # 0 /\ parent[x] # None
  BY <1>3 DEF Inv, EntryFilled
<1>5. \A q \in Procs : ep[q] # x
  BY <1>1, <1>3 DEF PutAlone, Putting, LastPut
<1>6. /\ pc'[p] = "putcheck" /\ pp'[p] = parent[x]
      /\ \A q \in Procs : q # p => pc'[q] = pc[q] /\ pp'[q] = pp[q]
  BY <1>2 DEF Inv, EntryTypeOK
<1> HIDE DEF x
<1>PointersUsed. PointersUsed'
  <2> SUFFICES ASSUME NEW q \in Procs
               PROVE  /\ cur[q] # None <=> Place(q)' \in Walking \cup Reached \cup {"panic"}
                      /\ ep[q] # None => pc'[q] \in {"scan", "emake", "leave"}
                      /\ pc'[q] \in {"scan", "emake"} => ep[q] # None
                      /\ pe[q] # None <=> pc'[q] \in Putting
                      /\ pp'[q] # None <=> pc'[q] = "putcheck"
                      /\ fd[q] # None => pc'[q] = "user"
    BY <1>2 DEF PointersUsed
  <2>1. Place(q)' = Place(q)
    BY <1>1, <1>2, <1>6 DEF Place, Putting, LastPut
  <2>2. CASE q = p
    BY <1>1, <1>4, <1>6, <2>1, <2>2 DEF Inv, PointersUsed, Putting, LastPut
  <2>3. CASE q # p
    BY <1>6, <2>1, <2>3 DEF Inv, PointersUsed
  <2> QED
    BY <2>2, <2>3
<1>PointersValid. PointersValid'
  <2> SUFFICES ASSUME NEW q \in Procs
               PROVE  /\ cur[q] # None => valid[cur[q]] # 0
                      /\ fd[q] # None => valid[fd[q]] # 0
                      /\ pc'[q] \in Putting \ {"putcheck"} => valid[pe[q]] # 0
                      /\ pp'[q] # None => valid[pp'[q]] # 0
                      /\ pc'[q] = "leave" /\ ep[q] # None => valid[ep[q]] # 0
                      /\ pc'[q] \in {"scan", "emake"} => valid[ep[q]] = 0 /\ ref'[ep[q]] = 1
    BY <1>2 DEF PointersValid
  <2>1. CASE q = p
    BY <1>4, <1>6, <2>1 DEF Inv, PointersValid
  <2>2. CASE q # p
    <3>1. pc[q] \in {"scan", "emake"} => ref'[ep[q]] = ref[ep[q]]
      BY <1>2, <1>3, <1>5 DEF Inv, PointersUsed, EntryTypeOK, Entries
    <3> QED
      BY <1>6, <2>2, <3>1 DEF Inv, PointersValid
  <2> QED
    BY <2>1, <2>2
<1>EntryTypeOK. EntryTypeOK'
  <2>1. ref' \in [Entries -> Nat]
    BY <1>Effect, <1>3 DEF Inv, EntryTypeOK, x
  <2>2. pp' \in [Procs -> Entries \cup {None}]
    BY <1>Effect, <1>4 DEF Inv, EntryTypeOK, x
  <2>3. pc' \in [Procs -> Places]
    BY <1>Effect DEF Inv, EntryTypeOK, Places, Putting, LastPut
  <2> QED
    BY <1>Effect, <2>1, <2>2, <2>3 DEF Inv, EntryTypeOK
<1>WalkedSoFar. WalkedSoFar'
  BY <1>Effect
  DEF Inv, WalkedSoFar, Place, Putting, LastPut, Walking, Reached, Depth, AtParent,
      Creating, EntryTypeOK, Entries
<1>OnItsPath. OnItsPath'
  BY <1>Effect
  DEF Inv, OnItsPath, Place, Putting, LastPut, Walking, Reached, Child, EntryTypeOK, Entries
<1>LocksWhere. LocksWhere'
  BY <1>Effect DEF Inv, LocksWhere, Locking, EntryTypeOK, Entries
<1>Others. OthersStay(p)
  BY <1>Effect DEF OthersStay, Inv, EntryTypeOK
<1>LocksWhose. LocksWhose'
  <2>1. ASSUME NEW e \in Entries, owner'[e] = p PROVE Holds(p, e)'
    <3>1. owner[e] = p => Holds(p, e)
      BY DEF Inv, LocksWhose
    <3> QED
      BY <1>Effect, <2>1, <3>1
      DEF Holds, Locking, Inv, EntryTypeOK, PointersUsed, Place, Putting, LastPut, Walking,
          Reached
  <2> QED
    BY <1>Others, <1>EntryTypeOK, <2>1, OthersLocksWhose DEF EntryTypeOK
<1>LastPutAlone. LastPutAlone'
  BY <1>Effect
  DEF Inv, LastPutAlone, LastPut, PointersUsed, Place, Putting, Walking, Reached, PutAlone,
      PointsTo, InUse, EntryTypeOK, Entries
<1>EntryFilled. EntryFilled'
  BY <1>Effect
  DEF Inv, EntryFilled, PointersUsed, Place, Putting, LastPut, Walking, Reached,
      LastPutAlone, EntryTypeOK, Entries
<1>NotThereYet. NotThereYet'
  BY <1>Effect DEF Inv, NotThereYet, Matching, EntryTypeOK, Entries
<1>StillEmpty. StillEmpty'
  BY <1>Effect DEF Inv, StillEmpty, NotEmpty, EntryTypeOK, Entries
<1>ParentsFirst. ParentsFirst'
  BY <1>Effect DEF Inv, ParentsFirst, Leaving, LastPut, EntryTypeOK, Entries
<1>RefsAreSum. RefsAreSum'
  <2>1. OthersKeep(p)
    BY <1>Effect DEF OthersKeep, PutArg, Inv, EntryTypeOK
  <2>2. /\ cur'[p] = cur[p]
        /\ ep'[p] = ep[p]
        /\ fd'[p] = fd[p]
        /\ PutArg[p] = pe[p] /\ PutArg'[p] = None
        /\ pp[p] = None /\ pp'[p] = parent[pe[p]]
    BY <1>Effect
    DEF PutArg, Inv, EntryTypeOK, PointersUsed, Place, Putting, LastPut, Walking, Reached,
        LastPutAlone
  <2>3. /\ ref' = [ref EXCEPT ![pe[p]] = @ - 1] /\ ref \in [Entries -> Nat]
        /\ cur[p] \in Entries \cup {None}
    BY <1>Effect DEF Inv, EntryTypeOK
  <2>4. pe[p] \in Slots
    BY <1>Effect
    DEF Inv, EntryTypeOK, PointersUsed, Place, Putting, LastPut, Walking, Reached,
        LastPutAlone
  <2>5. ChildOf[pe[p]] = parent[pe[p]] /\ ChildOf'[pe[p]] = None
    BY <1>Effect, <2>4
    DEF ChildOf, Inv, EntryTypeOK, Entries, PointersUsed, Place, Putting, LastPut, Walking,
        Reached, LastPutAlone, PointersValid
  <2>6. \A t \in Slots \ {pe[p]} : ChildOf'[t] = ChildOf[t]
    BY <1>Effect, <2>4
    DEF ChildOf, Inv, EntryTypeOK, Entries, PointersUsed, Place, Putting, LastPut, Walking,
        Reached, LastPutAlone, PointersValid, Counted, RefersTo
  <2>7. \A e \in Entries : ref'[e] = ref[e] + Moved(p, e) + One(ChildOf'[pe[p]], e)
                                     - One(ChildOf[pe[p]], e)
    BY <2>2, <2>3, <2>4, <2>5, Nulls DEF Moved, One, Entries
  <2> QED
    BY <2>1, <2>4, <2>6, <2>7, RefMovesChild DEF Inv
<1>Same. ListLinked' /\ RootStays' /\ ParentIsParent' /\ OneEntryPerFile'
  BY <1>Effect DEF Inv, ListLinked, RootStays, ParentIsParent, OneEntryPerFile
<1> QED
  BY <1>PointersUsed, <1>PointersValid, <1>EntryTypeOK, <1>WalkedSoFar, <1>OnItsPath,
     <1>LocksWhere, <1>LocksWhose, <1>LastPutAlone, <1>EntryFilled, <1>NotThereYet,
     <1>StillEmpty, <1>ParentsFirst, <1>RefsAreSum, <1>Same
  DEF Inv

\* The test of entry->ref after the last ref--, and going on with the parent.
LEMMA EputCheckKeeps ==
  ASSUME Inv, Facts, NEW p \in Procs, EputCheck(p)
  PROVE  Inv'
<1> USE Nulls DEF Facts
<1>0. ref[pe[p]] = 0
  BY DEF EputCheck, At, Inv, LastPutAlone
<1>Effect. /\ pc[p] = "putcheck"
           /\ pp' = [pp EXCEPT ![p] = None]
           /\ pe' = [pe EXCEPT ![p] = pp[p]]
           /\ pc' = [pc EXCEPT ![p] = "put"]
           /\ UNCHANGED <<node, parent, valid, dirty, clus, ref, owner, list, disk, op,
                goal, done, cur, ep, fd, ret>>
  BY <1>0 DEF EputCheck, At, Goto, entryVars, callVars
<1>EntryTypeOK. EntryTypeOK'
  <2>1. pc' \in [Procs -> Places]
    BY <1>Effect DEF Inv, EntryTypeOK, Places, Putting
  <2>2. pe' \in [Procs -> Entries \cup {None}] /\ pp' \in [Procs -> Entries \cup {None}]
    BY <1>Effect DEF Inv, EntryTypeOK
  <2> QED
    BY <1>Effect, <2>1, <2>2 DEF Inv, EntryTypeOK
<1>PointersUsed. PointersUsed'
  BY <1>Effect
  DEF Inv, PointersUsed, Place, Putting, LastPut, Walking, Reached, EntryTypeOK, Entries
<1>WalkedSoFar. WalkedSoFar'
  BY <1>Effect
  DEF Inv, WalkedSoFar, Place, Putting, LastPut, Walking, Reached, Depth, AtParent,
      Creating, EntryTypeOK, Entries
<1>OnItsPath. OnItsPath'
  BY <1>Effect
  DEF Inv, OnItsPath, Place, Putting, LastPut, Walking, Reached, Child, EntryTypeOK, Entries
<1>LocksWhere. LocksWhere'
  BY <1>Effect
  DEF Inv, LocksWhere, Locking, PointersUsed, Place, Putting, LastPut, Walking, Reached,
      LastPutAlone, EntryTypeOK, Entries
<1>Others. OthersStay(p)
  BY <1>Effect DEF OthersStay, Inv, EntryTypeOK
<1>LocksWhose. LocksWhose'
  <2>1. ASSUME NEW e \in Entries, owner'[e] = p PROVE Holds(p, e)'
    <3>1. owner[e] = p => Holds(p, e)
      BY DEF Inv, LocksWhose
    <3> QED
      BY <1>Effect, <2>1, <3>1
      DEF Holds, Locking, Inv, EntryTypeOK, PointersUsed, Place, Putting, LastPut, Walking,
          Reached
  <2> QED
    BY <1>Others, <1>EntryTypeOK, <2>1, OthersLocksWhose DEF EntryTypeOK
<1>LastPutAlone. LastPutAlone'
  BY <1>Effect
  DEF Inv, LastPutAlone, LastPut, PointersUsed, Place, Putting, Walking, Reached,
      LocksWhere, Locking, EntryTypeOK, Entries
<1>PointersValid. PointersValid'
  BY <1>Effect
  DEF Inv, PointersValid, Putting, LastPut, PointersUsed, Place, Walking, Reached,
      LastPutAlone, EntryTypeOK, Entries
<1>NotThereYet. NotThereYet'
  BY <1>Effect
  DEF Inv, NotThereYet, Matching, PointersUsed, Place, Putting, LastPut, Walking, Reached,
      LastPutAlone, EntryTypeOK, Entries
<1>StillEmpty. StillEmpty'
  BY <1>Effect
  DEF Inv, StillEmpty, NotEmpty, PointersUsed, Place, Putting, LastPut, Walking, Reached,
      LastPutAlone, EntryTypeOK, Entries
<1>ParentsFirst. ParentsFirst'
  BY <1>Effect
  DEF Inv, ParentsFirst, Leaving, LastPut, PointersUsed, Place, Putting, Walking, Reached,
      LastPutAlone, EntryTypeOK, Entries
<1>RefsAreSum. RefsAreSum'
  <2>1. OthersKeep(p)
    BY <1>Effect DEF OthersKeep, PutArg, Inv, EntryTypeOK
  <2>2. /\ cur'[p] = cur[p]
        /\ ep'[p] = ep[p]
        /\ fd'[p] = fd[p]
        /\ PutArg[p] = None /\ PutArg'[p] = pp[p]
        /\ pp'[p] = None
    BY <1>Effect
    DEF PutArg, Inv, EntryTypeOK, PointersUsed, Place, Putting, LastPut, Walking, Reached,
        LastPutAlone
  <2>3. ref' = ref /\ ref \in [Entries -> Nat] /\ cur[p] \in Entries \cup {None}
    BY <1>Effect DEF Inv, EntryTypeOK
  <2>4. ChildOf' = ChildOf
    BY <1>Effect
    DEF ChildOf, Inv, EntryTypeOK, Entries, PointersUsed, Place, Putting, LastPut, Walking,
        Reached, LastPutAlone, PointersValid, FoundSlot, Counted, RefersTo
  <2>5. \A e \in Entries : ref'[e] = ref[e] + Moved(p, e)
    BY <2>2, <2>3, Nulls DEF Moved, One
  <2> QED
    BY <2>1, <2>4, <2>5, RefMoves DEF Inv
<1>Same. ListLinked' /\ RootStays' /\ EntryFilled' /\ ParentIsParent' /\ OneEntryPerFile'
  BY <1>Effect DEF Inv, ListLinked, RootStays, EntryFilled, ParentIsParent, OneEntryPerFile
<1> QED
  BY <1>EntryTypeOK, <1>PointersUsed, <1>WalkedSoFar, <1>OnItsPath, <1>LocksWhere,
     <1>LocksWhose, <1>LastPutAlone, <1>PointersValid, <1>NotThereYet, <1>StillEmpty,
     <1>ParentsFirst, <1>RefsAreSum, <1>Same
  DEF Inv

\* eget() of a cached entry, which takes a reference of the parent together with
\* the first one of the child.
LEMMA EgetHitKeeps ==
  ASSUME Inv, Facts, ~PutRace, NEW p \in Procs, NEW s \in Slots, EgetHit(p, s)
  PROVE  Inv'
<1> USE Nulls DEF Facts
<1>Effect. /\ pc[p] \in {"look", "make"} /\ valid[cur[p]] = 1 /\ s \in Matching(p)
           /\ \A q \in Procs : pc[q] \in LastPut => pe[q] # s
           /\ ref' = IF ref[s] = 0 THEN [ref EXCEPT ![s] = 1, ![parent[s]] = @ + 1]
                      ELSE [ref EXCEPT ![s] = @ + 1]
           /\ ep' = [ep EXCEPT ![p] = s]
           /\ pc' = [pc EXCEPT ![p] = "leave"]
           /\ UNCHANGED <<node, parent, valid, dirty, clus, owner, list, disk, op, goal,
                done, cur, fd, pe, pp, ret>>
  BY DEF EgetHit, Goto, Looking, At, Settled, entryVars, callVars, putVars
<1> DEFINE d == cur[p]
<1>1. pc[p] \in {"look", "make"} /\ valid[cur[p]] = 1 /\ s \in Matching(p)
  BY <1>Effect
<1>2. /\ d \in Entries /\ s \in Entries /\ valid[s] = 1 /\ parent[s] = d /\ s # d
      /\ node[s] = Child(p)
      /\ valid[d] = 1
  <2>1. d \in Entries
    BY <1>1, CurIsEntry DEF Walking
  <2>2. valid[s] = 1 /\ node[s] = Child(p) /\ parent[s] = d
    BY <1>1 DEF Matches, Matching
  <2> QED
    BY <1>1, <2>1, <2>2 DEF Identity, Entries
<1>3. ref' = IF ref[s] = 0 THEN [ref EXCEPT ![s] = 1, ![d] = @ + 1] ELSE [ref EXCEPT ![s] = @ + 1]
  BY <1>Effect, <1>2
<1>4. /\ ep' = [ep EXCEPT ![p] = s]
      /\ pc' = [pc EXCEPT ![p] = "leave"]
      /\ UNCHANGED <<node, parent, valid, dirty, clus, owner, list, disk,
                     op, goal, done, cur, fd, pe, pp, ret>>
  BY <1>Effect
<1>5. \A q \in Procs : pc[q] \in LastPut => pe[q] # s
  BY <1>Effect
<1>6. ref[d] >= 1 /\ \A q \in Procs : pc[q] \in LastPut => pe[q] # d
  BY <1>2 DEF Counted, RefersTo, PutAlone, PointsTo, Inv, LastPutAlone, Putting, LastPut
<1>7. \A q \in Procs : pc[q] \in {"scan", "emake"} => ep[q] # s /\ ep[q] # d
  BY <1>2 DEF Inv, PointersValid
<1>8. \A q \in Procs : /\ q # p => pc'[q] = pc[q] /\ ep'[q] = ep[q]
                       /\ pc'[p] = "leave" /\ ep'[p] = s
  BY <1>4 DEF Inv, EntryTypeOK
<1> HIDE DEF d
<1>9. /\ \A e \in Entries : e # s /\ e # d => ref'[e] = ref[e]
      /\ \A e \in Entries : ref'[e] >= ref[e] /\ ref'[e] \in Nat
      /\ ref'[s] >= 1 /\ ref'[d] >= 1
  BY <1>2, <1>3, <1>6 DEF Inv, EntryTypeOK
<1>EntryTypeOK. EntryTypeOK'
  <2>1. ref' \in [Entries -> Nat]
    BY <1>2, <1>3 DEF Inv, EntryTypeOK
  <2>2. pc' \in [Procs -> Places] /\ ep' \in [Procs -> Slots \cup {None}]
    BY <1>4 DEF Inv, EntryTypeOK, Places, Walking
  <2> QED
    BY <1>4, <2>1, <2>2 DEF Inv, EntryTypeOK
<1>OnItsPath. OnItsPath'
  <2> SUFFICES ASSUME NEW q \in Procs
               PROVE  /\ Place(q)' \in Walking \cup Reached =>
                           node[cur[q]] = SubSeq(goal[q], 1, done[q])
                      /\ pc'[q] = "leave" /\ ep'[q] # None => node[ep'[q]] = Child(q)'
    BY <1>4 DEF OnItsPath
  <2>1. Place(q)' \in Walking \cup Reached => Place(q) \in Walking \cup Reached
    BY <1>1, <1>4, <1>8 DEF Place, Putting, LastPut, Walking
  <2>2. Child(q)' = Child(q)
    BY <1>4 DEF Child
  <2> QED
    BY <1>2, <1>8, <2>1, <2>2 DEF Inv, OnItsPath
<1>LastPutAlone. LastPutAlone'
  <2> SUFFICES ASSUME NEW q \in Procs, pc'[q] \in LastPut
               PROVE  /\ pe[q] \in Slots
                      /\ pc'[q] # "putcheck" => ref'[pe[q]] = 1
                      /\ pc'[q] = "putcheck" => ref'[pe[q]] = 0
                      /\ pc'[q] = "putupdate" => valid[pe[q]] = 1
                      /\ pc'[q] \in {"putunlock", "putdec"} =>
                           /\ valid[pe[q]] = 1 => ~dirty[pe[q]]
                           /\ valid[pe[q]] = -1 => ~clus[pe[q]]
    BY <1>4 DEF LastPutAlone, LastPut
  <2>1. q # p /\ pc[q] = pc'[q] /\ pe[q] \in Slots
    BY <1>8 DEF LastPut, Inv, LastPutAlone
  <2>2. ref'[pe[q]] = ref[pe[q]]
    BY <1>5, <1>6, <1>9, <2>1 DEF Entries
  <2> QED
    BY <2>1, <2>2 DEF Inv, LastPutAlone
<1>PointersValid. PointersValid'
  <2> SUFFICES ASSUME NEW q \in Procs
               PROVE  /\ cur[q] # None => valid[cur[q]] # 0
                      /\ fd[q] # None => valid[fd[q]] # 0
                      /\ pc'[q] \in Putting \ {"putcheck"} => valid[pe[q]] # 0
                      /\ pp[q] # None => valid[pp[q]] # 0
                      /\ pc'[q] = "leave" /\ ep'[q] # None => valid[ep'[q]] # 0
                      /\ pc'[q] \in {"scan", "emake"} => valid[ep'[q]] = 0 /\ ref'[ep'[q]] = 1
    BY <1>4 DEF PointersValid
  <2>1. CASE q = p
    BY <1>2, <1>8, <2>1 DEF Inv, PointersValid, Putting, LastPut
  <2>2. CASE q # p
    <3>1. pc[q] \in {"scan", "emake"} => ref'[ep[q]] = ref[ep[q]]
      BY <1>7, <1>9 DEF Inv, PointersUsed, EntryTypeOK, Entries
    <3> QED
      BY <1>8, <2>2, <3>1 DEF Inv, PointersValid
  <2> QED
    BY <2>1, <2>2
<1>EntryFilled. EntryFilled'
  <2> SUFFICES ASSUME NEW t \in Slots
               PROVE  /\ valid[t] # 0 => node[t] \in Paths
                      /\ valid[t] # 0 /\ ref'[t] > 0 =>
                           parent[t] \in Entries /\ valid[parent[t]] # 0
                      /\ valid[t] = 0 => ~dirty[t]
                      /\ valid[t] = 1 => disk[node[t]] # "absent"
                      /\ valid[t] = 1 /\ ~dirty[t] =>
                           disk[node[t]] = IF clus[t] THEN "full" ELSE "empty"
                      /\ valid[t] = 1 /\ ref'[t] = 0 => ~dirty[t]
                      /\ valid[t] = -1 /\ ref'[t] = 0 => ~clus[t]
    BY <1>4 DEF EntryFilled
  <2>1. ref[t] \in Nat /\ (ref'[t] = 0 => ref[t] = 0) /\ (t # s /\ ref'[t] > 0 => ref[t] > 0)
    <3>1. ref[t] \in Nat /\ ref'[t] \in Nat /\ ref'[t] >= ref[t]
      BY <1>9 DEF Inv, EntryTypeOK, Entries
    <3>2. t # s => ref'[t] = ref[t] \/ ref[t] >= 1
      BY <1>6, <1>9 DEF Entries
    <3> QED
      BY ONLY <3>1, <3>2
  <2> QED
    BY <1>2, <2>1 DEF Inv, EntryFilled
<1>PointersUsed. PointersUsed'
  BY <1>Effect
  DEF Inv, PointersUsed, Place, Putting, LastPut, Walking, Reached, EntryTypeOK, Entries
<1>WalkedSoFar. WalkedSoFar'
  BY <1>Effect
  DEF Inv, WalkedSoFar, Place, Putting, LastPut, Walking, Reached, Depth, AtParent,
      Creating, EntryTypeOK, Entries
<1>LocksWhere. LocksWhere'
  BY <1>Effect DEF Inv, LocksWhere, Locking, EntryTypeOK, Entries
<1>Others. OthersStay(p)
  BY <1>Effect DEF OthersStay, Inv, EntryTypeOK
<1>LocksWhose. LocksWhose'
  <2>1. ASSUME NEW e \in Entries, owner'[e] = p PROVE Holds(p, e)'
    <3>1. owner[e] = p => Holds(p, e)
      BY DEF Inv, LocksWhose
    <3> QED
      BY <1>Effect, <2>1, <3>1
      DEF Holds, Locking, Inv, EntryTypeOK, PointersUsed, Place, Putting, LastPut, Walking,
          Reached
  <2> QED
    BY <1>Others, <1>EntryTypeOK, <2>1, OthersLocksWhose DEF EntryTypeOK
<1>NotThereYet. NotThereYet'
  BY <1>Effect DEF Inv, NotThereYet, Matching, EntryTypeOK, Entries
<1>StillEmpty. StillEmpty'
  BY <1>Effect DEF Inv, StillEmpty, NotEmpty, EntryTypeOK, Entries
<1>ParentsFirst. ParentsFirst'
  BY <1>Effect DEF Inv, ParentsFirst, Leaving, LastPut, EntryTypeOK, Entries
<1>RefsAreSum. RefsAreSum'
  <2>1. /\ ref' = IF ref[s] = 0 THEN [ref EXCEPT ![s] = 1, ![parent[s]] = @ + 1]
                  ELSE [ref EXCEPT ![s] = @ + 1]
        /\ ep' = [ep EXCEPT ![p] = s]
        /\ UNCHANGED <<cur, fd, pp, pe, valid, parent>>
    BY <1>Effect
  <2>2. /\ valid[s] = 1 /\ parent[s] = cur[p] /\ parent[s] \in Entries /\ parent[s] # s
    <3>1. valid[s] = 1 /\ parent[s] = cur[p]
      BY <1>Effect DEF Matching
    <3> QED
      BY <3>1 DEF Inv, ParentIsParent, Identity
  <2>3. pc[p] \in {"look", "make"} /\ pc' = [pc EXCEPT ![p] = "leave"]
    BY <1>Effect
  <2>4. OthersKeep(p)
    BY <2>1, <2>3 DEF OthersKeep, PutArg, Inv, EntryTypeOK
  <2>5. ep[p] = None
    BY <2>3, Nulls DEF Inv, PointersUsed
  <2>6. ep'[p] = s /\ PutArg'[p] = PutArg[p]
    BY <2>1, <2>3 DEF PutArg, Inv, EntryTypeOK
  <2>7. ref[cur[p]] >= 1 /\ ref \in [Entries -> Nat]
    BY <2>2 DEF Counted, RefersTo, Inv, EntryTypeOK
  <2>8. \A t \in Slots \ {s} : ChildOf'[t] = ChildOf[t]
    BY <2>1, <2>2, <2>7 DEF ChildOf, Entries
  <2>9. /\ ref[s] = 0 => ChildOf[s] = None /\ ChildOf'[s] = cur[p]
        /\ ref[s] # 0 => ChildOf'[s] = ChildOf[s]
    BY <2>1, <2>2, <2>7 DEF ChildOf, Entries
  <2>10. ASSUME NEW e \in Entries
         PROVE  ref'[e] = ref[e] + Moved(p, e) + One(ChildOf'[s], e) - One(ChildOf[s], e)
    <3>1. Moved(p, e) = One(s, e)
      BY <2>1, <2>5, <2>6, Nulls DEF Moved, One
    <3>2. CASE ref[s] = 0
      BY <2>1, <2>2, <2>7, <2>9, <3>1, <3>2, Nulls DEF One, Entries
    <3>3. CASE ref[s] # 0
      BY <2>1, <2>2, <2>7, <2>9, <3>1, <3>3, Nulls DEF One, Entries
    <3> QED
      BY <3>2, <3>3
  <2> QED
    BY <2>4, <2>8, <2>10, RefMovesChild DEF Inv
<1>Same. ListLinked' /\ RootStays' /\ ParentIsParent' /\ OneEntryPerFile'
  BY <1>Effect DEF Inv, ListLinked, RootStays, ParentIsParent, OneEntryPerFile
<1> QED
  BY <1>EntryTypeOK, <1>OnItsPath, <1>LastPutAlone, <1>PointersValid, <1>EntryFilled,
     <1>PointersUsed, <1>WalkedSoFar, <1>LocksWhere, <1>LocksWhose, <1>NotThereYet,
     <1>StillEmpty, <1>ParentsFirst, <1>RefsAreSum, <1>Same
  DEF Inv

\* sys_openat() of the entry that was found, with or without O_TRUNC.
LEMMA OpenKeeps ==
  ASSUME Inv, Facts, NEW p \in Procs, NEW trunc \in BOOLEAN, Open(p, trunc)
  PROVE  Inv'
<1> USE Nulls DEF Facts
<1>Effect. /\ pc[p] = "found"
           /\ owner[cur[p]] = None /\ ref[cur[p]] >= 1
           /\ clus' = [clus EXCEPT ![cur[p]] = @ /\ ~trunc]
           /\ dirty' = [dirty EXCEPT ![cur[p]] = @ \/ trunc]
           /\ fd' = [fd EXCEPT ![p] = cur[p]]
           /\ cur' = [cur EXCEPT ![p] = None]
           /\ pc' = [pc EXCEPT ![p] = "user"]
           /\ UNCHANGED <<node, parent, valid, ref, owner, list, disk, op, goal, done, ep,
                pe, pp, ret>>
  BY DEF Open, Goto, Opening, At, CanLock, entryVars, callVars, putVars
<1>EntryTypeOK. EntryTypeOK'
  <2>1. dirty' \in [Entries -> BOOLEAN]
    BY <1>Effect DEF Inv, EntryTypeOK
  <2>2. clus' \in [Entries -> BOOLEAN]
    BY <1>Effect DEF Inv, EntryTypeOK
  <2>3. pc' \in [Procs -> Places]
    BY <1>Effect DEF Inv, EntryTypeOK, Places, Putting, LastPut, Walking, Reached
  <2>4. cur' \in [Procs -> Entries \cup {None}]
    BY <1>Effect DEF Inv, EntryTypeOK, Entries
  <2>5. fd' \in [Procs -> Entries \cup {None}]
    BY <1>Effect DEF Inv, EntryTypeOK
  <2> QED
    BY <1>Effect, <2>1, <2>2, <2>3, <2>4, <2>5 DEF Inv, EntryTypeOK
<1>PointersUsed. PointersUsed'
  BY <1>Effect
  DEF Inv, PointersUsed, Place, Putting, LastPut, Walking, Reached, EntryTypeOK, Entries
<1>WalkedSoFar. WalkedSoFar'
  BY <1>Effect
  DEF Inv, WalkedSoFar, Place, Putting, LastPut, Walking, Reached, Depth, AtParent,
      Creating, EntryTypeOK, Entries
<1>OnItsPath. OnItsPath'
  BY <1>Effect
  DEF Inv, OnItsPath, Place, Putting, LastPut, Walking, Reached, Child, EntryTypeOK, Entries
<1>LocksWhere. LocksWhere'
  BY <1>Effect DEF Inv, LocksWhere, Locking, EntryTypeOK, Entries
<1>Others. OthersStay(p)
  BY <1>Effect DEF OthersStay, Inv, EntryTypeOK
<1>LocksWhose. LocksWhose'
  <2>1. ASSUME NEW e \in Entries, owner'[e] = p PROVE Holds(p, e)'
    <3>1. owner[e] = p => Holds(p, e)
      BY DEF Inv, LocksWhose
    <3> QED
      BY <1>Effect, <2>1, <3>1
      DEF Holds, Locking, Inv, EntryTypeOK, PointersUsed, Place, Putting, LastPut, Walking,
          Reached
  <2> QED
    BY <1>Others, <1>EntryTypeOK, <2>1, OthersLocksWhose DEF EntryTypeOK
<1>LastPutAlone. LastPutAlone'
  BY <1>Effect
  DEF Inv, LastPutAlone, LastPut, PointersUsed, Place, Putting, Walking, Reached, PutAlone,
      PointsTo, InUse, EntryTypeOK, Entries
<1>PointersValid. PointersValid'
  BY <1>Effect DEF Inv, PointersValid, Putting, LastPut, EntryTypeOK, Entries
<1>EntryFilled. EntryFilled'
  BY <1>Effect
  DEF Inv, EntryFilled, PointersUsed, Place, Putting, LastPut, Walking, Reached,
      PointersValid, EntryTypeOK, Entries
<1>NotThereYet. NotThereYet'
  BY <1>Effect DEF Inv, NotThereYet, Matching, EntryTypeOK, Entries
<1>StillEmpty. StillEmpty'
  BY <1>Effect DEF Inv, StillEmpty, NotEmpty, EntryTypeOK, Entries
<1>ParentsFirst. ParentsFirst'
  BY <1>Effect DEF Inv, ParentsFirst, Leaving, LastPut, EntryTypeOK, Entries
<1>RefsAreSum. RefsAreSum'
  <2>1. OthersKeep(p)
    BY <1>Effect DEF OthersKeep, PutArg, Inv, EntryTypeOK
  <2>2. /\ cur'[p] = None
        /\ ep'[p] = ep[p]
        /\ fd[p] = None /\ fd'[p] = cur[p]
        /\ PutArg'[p] = PutArg[p]
        /\ pp'[p] = pp[p]
    BY <1>Effect
    DEF PutArg, Inv, EntryTypeOK, PointersUsed, Place, Putting, LastPut, Walking, Reached,
        LastPutAlone
  <2>3. ref' = ref /\ ref \in [Entries -> Nat] /\ cur[p] \in Entries \cup {None}
    BY <1>Effect DEF Inv, EntryTypeOK
  <2>4. ChildOf' = ChildOf
    BY <1>Effect
    DEF ChildOf, Inv, EntryTypeOK, Entries, PointersUsed, Place, Putting, LastPut, Walking,
        Reached, LastPutAlone, PointersValid, FoundSlot, Counted, RefersTo
  <2>5. \A e \in Entries : ref'[e] = ref[e] + Moved(p, e)
    BY <2>2, <2>3, Nulls DEF Moved, One
  <2> QED
    BY <2>1, <2>4, <2>5, RefMoves DEF Inv
<1>Same. ListLinked' /\ RootStays' /\ ParentIsParent' /\ OneEntryPerFile'
  BY <1>Effect DEF Inv, ListLinked, RootStays, ParentIsParent, OneEntryPerFile
<1> QED
  BY <1>EntryTypeOK, <1>PointersUsed, <1>WalkedSoFar, <1>OnItsPath, <1>LocksWhere,
     <1>LocksWhose, <1>LastPutAlone, <1>PointersValid, <1>EntryFilled, <1>NotThereYet,
     <1>StillEmpty, <1>ParentsFirst, <1>RefsAreSum, <1>Same
  DEF Inv

\* The start of a system call.
LEMMA CallKeeps ==
  ASSUME Inv, Facts, NEW p \in Procs, NEW use \in Uses, Call(p, use[1], use[2])
  PROVE  Inv'
<1> USE Nulls DEF Facts
<1>Effect. /\ pc[p] = "user" /\ fd[p] = None
           /\ ref' = [ref EXCEPT ![Root] = @ + 1]
           /\ cur' = [cur EXCEPT ![p] = Root]
           /\ done' = [done EXCEPT ![p] = 0]
           /\ op' = [op EXCEPT ![p] = use[1]]
           /\ goal' = [goal EXCEPT ![p] = use[2]]
           /\ pc' = [pc EXCEPT ![p] = "walk"]
           /\ UNCHANGED <<node, parent, valid, dirty, clus, owner, list, disk, ep, fd, pe,
                pp, ret>>
  BY DEF Call, At, StartWalk, Goto, entryVars, callVars, putVars
<1>1. /\ pc[p] = "user" /\ use[2] \in Paths /\ use[1] \in {"open", "create", "mkdir", "remove"}
      /\ StartWalk(p, use[1], use[2])
  BY EntryAssumption DEF Call, At
<1>2. EntryTypeOK' /\ WalkedSoFar' /\ OnItsPath' /\ PointersValid'
  BY <1>1, WalkStarts
<1>PointersUsed. PointersUsed'
  BY Nulls, SMT
  DEF Inv, PointersUsed, Place, Putting, LastPut, Walking, Reached, EntryTypeOK, Entries,
      Call, At, StartWalk, Goto, vars, entryVars, callVars, putVars
<1>LocksWhere. LocksWhere'
  BY Nulls, SMT
  DEF Inv, LocksWhere, Locking, EntryTypeOK, Entries, Call, At, StartWalk, Goto, vars,
      entryVars, callVars, putVars
<1>Others. OthersStay(p)
  BY <1>Effect DEF OthersStay, Inv, EntryTypeOK
<1>LocksWhose. LocksWhose'
  <2>1. ASSUME NEW e \in Entries, owner'[e] = p PROVE Holds(p, e)'
    <3>1. owner[e] = p => Holds(p, e)
      BY DEF Inv, LocksWhose
    <3> QED
      BY <1>Effect, <2>1, <3>1
      DEF Holds, Locking, Inv, EntryTypeOK, PointersUsed, Place, Putting, LastPut, Walking,
          Reached
  <2> QED
    BY <1>Others, <1>2, <2>1, OthersLocksWhose DEF EntryTypeOK
<1>LastPutAlone. LastPutAlone'
  BY Nulls, SMT
  DEF Inv, LastPutAlone, LastPut, EntryTypeOK, Entries, Call, At, StartWalk, Goto, vars,
      entryVars, callVars, putVars
<1>EntryFilled. EntryFilled'
  BY Nulls, SMT
  DEF Inv, EntryFilled, EntryTypeOK, Entries, Call, At, StartWalk, Goto, vars, entryVars,
      callVars, putVars
<1>NotThereYet. NotThereYet'
  BY Nulls, SMT
  DEF Inv, NotThereYet, Matching, EntryTypeOK, Entries, Call, At, StartWalk, Goto, vars,
      entryVars, callVars, putVars
<1>StillEmpty. StillEmpty'
  BY Nulls, SMT
  DEF Inv, StillEmpty, NotEmpty, EntryTypeOK, Entries, Call, At, StartWalk, Goto, vars,
      entryVars, callVars, putVars
<1>ParentsFirst. ParentsFirst'
  BY Nulls, SMT
  DEF Inv, ParentsFirst, Leaving, LastPut, EntryTypeOK, Entries, Call, At, StartWalk, Goto,
      vars, entryVars, callVars, putVars
<1>RefsAreSum. RefsAreSum'
  <2>0. pc[p] = "user" /\ pc'[p] = "walk"
    BY DEF Call, At, StartWalk, Goto, Inv, EntryTypeOK
  <2>1. OthersKeep(p)
    BY DEF OthersKeep, PutArg, Inv, EntryTypeOK, Call, At, StartWalk, Goto, callVars,
           putVars
  <2>2. cur[p] = None /\ pe[p] = None
    BY <2>0, Nulls DEF Inv, PointersUsed, Place, Putting, LastPut, Walking, Reached
  <2>3. /\ cur'[p] = Root /\ ep'[p] = ep[p] /\ fd'[p] = fd[p] /\ pp'[p] = pp[p] /\ pe'[p] = pe[p]
        /\ PutArg'[p] = PutArg[p]
    BY <2>0 DEF PutArg, Inv, EntryTypeOK, Call, StartWalk, putVars
  <2>4. ref' = [ref EXCEPT ![Root] = @ + 1] /\ ref \in [Entries -> Nat]
    BY DEF Inv, EntryTypeOK, Call, StartWalk
  <2>5. ChildOf' = ChildOf
    BY <2>4, Nulls DEF ChildOf, Inv, EntryTypeOK, Entries, Call, StartWalk
  <2>6. \A e \in Entries : ref'[e] = ref[e] + Moved(p, e)
    BY <2>2, <2>3, <2>4, Nulls DEF Moved, One
  <2> QED
    BY <2>1, <2>5, <2>6, RefMoves DEF Inv
<1>Same. ListLinked' /\ RootStays' /\ ParentIsParent' /\ OneEntryPerFile'
  BY DEF Inv, ListLinked, RootStays, ParentIsParent, OneEntryPerFile, Call, StartWalk,
         entryVars, callVars, putVars
<1> QED
  BY <1>2, <1>PointersUsed, <1>LocksWhere, <1>LocksWhose, <1>LastPutAlone, <1>EntryFilled,
     <1>NotThereYet, <1>StillEmpty, <1>ParentsFirst, <1>RefsAreSum, <1>Same
  DEF Inv

-----------------------------------------------------------------------------
(* The invariant, and what follows from it *)

\* What the sum says, in the form in which the steps need it.
LEMMA InvFacts == Inv => Facts
  BY InvCounted, InvPutAlone, InvFillAlone, InvAsking, InvFoundSlot, InvIdentity, InvMatches
  DEF Facts

\* fat32_init() leaves every slot linked once and nothing referred to but the
\* root, once for the working directory of every process.
LEMMA InitInv == Init => Inv
<1> SUFFICES ASSUME Init PROVE Inv
  OBVIOUS
<1> USE Nulls
<1>1. /\ IsFiniteSet(Procs) /\ IsFiniteSet(Slots) /\ Cardinality(Procs) \in Nat
      /\ ENTRY_CACHE_NUM \in Nat
  BY EntryAssumption, FS_CardinalityType DEF ENTRY_CACHE_NUM
<1>2. Root \in Entries
  BY DEF Entries
<1>EntryTypeOK. EntryTypeOK
  <2>1. /\ pc \in [Procs -> Places]
        /\ ret \in [Procs -> {"user", "walk", "found", "mkparent"}]
        /\ op \in [Procs -> {"open", "create", "mkdir", "remove", "mkparent"}]
    BY DEF Init, Places
  <2>2. /\ ref \in [Entries -> Nat] /\ valid \in [Entries -> {-1, 0, 1}]
        /\ dirty \in [Entries -> BOOLEAN] /\ clus \in [Entries -> BOOLEAN]
    BY <1>1 DEF Init
  <2>3. node \in [Entries -> Paths \cup {<<>>}] /\ goal \in [Procs -> Paths \cup {<<>>}]
    BY DEF Init
  <2>4. /\ parent \in [Entries -> Entries \cup {None}] /\ owner \in [Entries -> Procs \cup {None}]
        /\ list \in [1..ENTRY_CACHE_NUM -> Slots]
        /\ disk \in [Paths -> {"absent", "empty", "full"}]
    BY EntryAssumption DEF Init
  <2>5. /\ done \in [Procs -> Nat] /\ cur \in [Procs -> Entries \cup {None}]
        /\ ep \in [Procs -> Slots \cup {None}] /\ fd \in [Procs -> Entries \cup {None}]
        /\ pe \in [Procs -> Entries \cup {None}] /\ pp \in [Procs -> Entries \cup {None}]
    BY DEF Init
  <2> QED
    BY <2>1, <2>2, <2>3, <2>4, <2>5 DEF EntryTypeOK
<1>ListLinked. ListLinked
  <2>1. list \in Surjection(1..ENTRY_CACHE_NUM, Slots)
    BY DEF Init, Surjection
  <2>2. IsFiniteSet(1..ENTRY_CACHE_NUM) /\ Cardinality(1..ENTRY_CACHE_NUM) = ENTRY_CACHE_NUM
    BY <1>1, FS_Interval
  <2>3. list \in Injection(1..ENTRY_CACHE_NUM, Slots)
    BY <2>1, <2>2, FS_SurjSameCardinalityImpliesInj DEF ENTRY_CACHE_NUM
  <2> QED
    BY <2>3 DEF Init, ListLinked, Injection, IsInjective
<1>RefsAreSum. RefsAreSum
  <2> SUFFICES ASSUME NEW e \in Entries PROVE ref[e] = RefSum(e)
    BY DEF RefsAreSum
  <2>1. /\ \A q \in Procs : cur[q] # e /\ ep[q] # e /\ fd[q] # e /\ pp[q] # e /\ PutArg[q] # e
        /\ \A t \in Slots : ChildOf[t] # e
    BY DEF Init, PutArg, ChildOf, Entries
  <2>2. /\ Count(Procs, cur, e) = 0 /\ Count(Procs, ep, e) = 0 /\ Count(Procs, fd, e) = 0
        /\ Count(Procs, PutArg, e) = 0 /\ Count(Procs, pp, e) = 0 /\ Count(Slots, ChildOf, e) = 0
    BY <1>1, <2>1, CountType
  <2>3. ref[e] = IF e = Root THEN Cardinality(Procs) ELSE 0
    BY DEF Init
  <2> QED
    BY <1>1, <2>2, <2>3 DEF RefSum
<1>3. \A s \in Slots : s \in Entries /\ valid[s] = 0 /\ ~dirty[s]
  BY DEF Init, Entries
<1>4. RootStays /\ EntryFilled /\ ParentIsParent /\ OneEntryPerFile /\ ParentsFirst
  <2>1. RootStays
    BY <1>2 DEF Init, RootStays
  <2>2. EntryFilled
    BY <1>3 DEF EntryFilled
  <2>3. ParentIsParent /\ OneEntryPerFile
    BY <1>3 DEF ParentIsParent, OneEntryPerFile
  <2>4. \A i \in 1..ENTRY_CACHE_NUM : valid[list[i]] # 1
    <3>1. \A i \in 1..ENTRY_CACHE_NUM : list[i] \in Slots
      BY DEF Init
    <3> QED
      BY <1>3, <3>1
  <2>5. ParentsFirst
    BY <2>4 DEF ParentsFirst
  <2> QED
    BY <2>1, <2>2, <2>3, <2>5
<1>5. \A q \in Procs : /\ pc[q] = "user" /\ Place(q) = "user" /\ op[q] = "open"
                       /\ cur[q] = None /\ ep[q] = None /\ fd[q] = None /\ pe[q] = None
                       /\ pp[q] = None
  BY DEF Init, Place, Putting, LastPut
<1>6. PointersUsed /\ WalkedSoFar /\ OnItsPath
  BY <1>5 DEF PointersUsed, WalkedSoFar, OnItsPath, Putting, LastPut, Walking, Reached
<1>7. LocksWhere /\ LastPutAlone /\ NotThereYet /\ StillEmpty
  BY <1>5 DEF LocksWhere, Locking, LastPutAlone, LastPut, NotThereYet, StillEmpty
<1>8. LocksWhose /\ PointersValid
  BY <1>5 DEF Init, LocksWhose, PointersValid, Putting, LastPut
<1> QED
  BY <1>EntryTypeOK, <1>ListLinked, <1>RefsAreSum, <1>4, <1>6, <1>7, <1>8 DEF Inv

\* A stuttering step keeps the invariant.
LEMMA StutterKeeps ==
  ASSUME Inv, UNCHANGED vars
  PROVE  Inv'
<1>1. UNCHANGED <<node, parent, valid, dirty, clus, ref, owner, list, disk, pc, op, goal, done,
                  cur, ep, fd, pe, pp, ret>>
  BY DEF vars, entryVars, callVars, putVars
<1>2. EntryTypeOK' /\ ListLinked' /\ RootStays'
  BY <1>1 DEF Inv, EntryTypeOK, ListLinked, RootStays
<1>3. \A q \in Procs : /\ Place(q)' = Place(q) /\ Depth(q)' = Depth(q)
                       /\ (AtParent(q)' <=> AtParent(q))
                       /\ Child(q)' = Child(q) /\ Matching(q)' = Matching(q)
  BY <1>1 DEF Place, Depth, AtParent, Creating, Child, Matching
<1>4. PointersUsed' /\ WalkedSoFar' /\ OnItsPath' /\ NotThereYet'
  BY <1>1, <1>3 DEF Inv, PointersUsed, WalkedSoFar, OnItsPath, NotThereYet
<1>5. LocksWhere' /\ LocksWhose' /\ LastPutAlone' /\ PointersValid'
  BY <1>1 DEF Inv, LocksWhere, LocksWhose, Holds, LastPutAlone, PointersValid
<1>6. EntryFilled' /\ StillEmpty' /\ ParentsFirst' /\ ParentIsParent' /\ OneEntryPerFile'
  BY <1>1
  DEF Inv, EntryFilled, StillEmpty, NotEmpty, ParentsFirst, Leaving, ParentIsParent, OneEntryPerFile
<1>7. RefsAreSum'
  BY <1>1, RefsSame DEF Inv, PutArg, ChildOf
<1> QED
  BY <1>2, <1>4, <1>5, <1>6, <1>7 DEF Inv

\* Every step keeps the invariant, when eget() does not come upon an entry in
\* its last eput().
LEMMA NextInv == ~PutRace /\ Inv /\ [Next]_vars => Inv'
<1> SUFFICES ASSUME ~PutRace, Inv, [Next]_vars PROVE Inv'
  OBVIOUS
<1>f. Facts
  BY InvFacts
<1>1. ASSUME NEW p \in Procs, Lookup(p) PROVE Inv'
  BY <1>f, <1>1, WalkLockKeeps, LookFailsKeeps, LookParentKeeps, EgetRecycleKeeps, EgetHitKeeps,
     EgetPanicKeeps, ScanFoundKeeps, ScanFailsKeeps, LeaveKeeps, LeaveFailsKeeps,
        LeaveForParentKeeps
  DEF Lookup
<1>2. ASSUME NEW p \in Procs, Create(p) PROVE Inv'
  BY <1>f, <1>2, CreateParentKeeps, CreateLockKeeps, EmakeKeeps, ParentMadeKeeps, MkdirDoneKeeps
  DEF Create
<1>3. ASSUME NEW p \in Procs, Unlink(p) PROVE Inv'
  BY <1>f, <1>3, RemoveLockKeeps, RemoveNotEmptyKeeps, RemoveLockParentKeeps, RemoveKeeps
  DEF Unlink
<1>4. ASSUME NEW p \in Procs, Eput(p) PROVE Inv'
  BY <1>f, <1>4, EputDropKeeps, EputLastKeeps, EputTruncKeeps, EputLockParentKeeps, EupdateKeeps,
     EputUnlockKeeps, EputDecKeeps, EputCheckKeeps
  DEF Eput
<1>5. ASSUME NEW p \in Procs,
             OpenFails(p) \/ Write(p) \/ Close(p) \/ \E trunc \in BOOLEAN : Open(p, trunc)
      PROVE  Inv'
  BY <1>f, <1>5, OpenFailsKeeps, WriteKeeps, CloseKeeps, OpenKeeps
<1>6. ASSUME NEW p \in Procs, NEW use \in Uses, Call(p, use[1], use[2]) PROVE Inv'
  BY <1>f, <1>6, CallKeeps
<1>7. CASE UNCHANGED vars
  BY <1>7, StutterKeeps
<1> QED
  BY <1>1, <1>2, <1>3, <1>4, <1>5, <1>6, <1>7 DEF Next

\* The inductive invariant, with the references as a sum, is an invariant.
THEOREM InvHolds == ~PutRace => (Spec => []Inv)
<1> SUFFICES ASSUME ~PutRace PROVE Spec => []Inv
  OBVIOUS
<1>1. Inv /\ [Next]_vars => Inv'
  BY NextInv
<1> QED
  BY <1>1, InitInv, PTL DEF Spec

\* The inductive invariant of the entry cache holds for any number of processes
\* and slots, every tree of files of that depth and every set of system calls,
\* as long as eget() does not take an entry during its last eput().
THEOREM EntryInvariance == ~PutRace => (Spec => []EntryInv)
<1> SUFFICES ASSUME ~PutRace PROVE Spec => []EntryInv
  OBVIOUS
<1>1. Inv => EntryInv
  BY RefsCounted DEF Inv, EntryInv
<1>2. Spec => []Inv
  BY InvHolds
<1> QED
  BY <1>1, <1>2, PTL

\* ep->ref is exact through every interleaving of lookups, creations, removals
\* and chains of eput() calls.
THEOREM RefsExact == ~PutRace => (Spec => []RefExact)
<1> SUFFICES ASSUME ~PutRace PROVE Spec => []RefExact
  OBVIOUS
<1>1. EntryInv => RefExact
  BY DEF EntryInv
<1>2. Spec => []EntryInv
  BY EntryInvariance
<1> QED
  BY <1>1, <1>2, PTL

\* eget() can trust the parent pointers: no entry is recycled while a cached
\* entry points to it as its parent.
THEOREM ParentsValid == ~PutRace => (Spec => []ParentIsParent)
<1> SUFFICES ASSUME ~PutRace PROVE Spec => []ParentIsParent
  OBVIOUS
<1>1. EntryInv => ParentIsParent
  BY DEF EntryInv
<1>2. Spec => []EntryInv
  BY EntryInvariance
<1> QED
  BY <1>1, <1>2, PTL

\* dirlookup() and ealloc() make at most one entry for a file.
THEOREM EntriesUnique == ~PutRace => (Spec => []OneEntryPerFile)
<1> SUFFICES ASSUME ~PutRace PROVE Spec => []OneEntryPerFile
  OBVIOUS
<1>1. EntryInv => OneEntryPerFile
  BY DEF EntryInv
<1>2. Spec => []EntryInv
  BY EntryInvariance
<1> QED
  BY <1>1, <1>2, PTL

\* After the last eput() a file is on the disk as it was left, and the clusters
\* of a removed one are free.
THEOREM PutsComplete == ~PutRace => (Spec => []NothingForgotten)
<1> SUFFICES ASSUME ~PutRace PROVE Spec => []NothingForgotten
  OBVIOUS
<1>1. EntryInv => NothingForgotten
  BY DEF EntryInv, EntryFilled, NothingForgotten
<1>2. Spec => []EntryInv
  BY EntryInvariance
<1> QED
  BY <1>1, <1>2, PTL

\* A locked entry is one that a process points to, that it is putting, or whose
\* child is in use.
LEMMA HeldInUse ==
  ASSUME Inv, Facts, NEW e \in Entries, owner[e] # None
  PROVE  \E q \in Procs :
           \/ cur[q] = e
           \/ pe[q] = e /\ pc[q] \in {"putwork", "putupdate", "putunlock"}
           \/ \E t \in Slots : InUse(t) /\ parent[t] = e
<1> USE Nulls DEF Facts
<1> DEFINE q == owner[e]
<1>1. q \in Procs /\ Holds(q, e)
  BY DEF Inv, EntryTypeOK, LocksWhose
<1>2. CASE pc[q] = "rmdo" /\ e = parent[cur[q]]
  <2>1. cur[q] \in Entries /\ Place(q) \in Reached
    BY <1>1, <1>2, CurIsEntry DEF Reached
  <2>2. cur[q] \in Slots /\ valid[cur[q]] # 0 /\ ref[cur[q]] >= 1
    BY <1>1, <2>1 DEF FoundSlot, Counted, RefersTo, Inv, PointersValid
  <2>3. InUse(cur[q])
    BY <2>1, <2>2 DEF InUse, Inv, EntryTypeOK
  <2> QED
    BY <1>1, <1>2, <2>2, <2>3
<1>3. CASE pc[q] = "putupdate" /\ e = parent[pe[q]]
  <2>1. pe[q] \in Slots /\ InUse(pe[q])
    BY <1>1, <1>3 DEF InUse, Inv, LastPutAlone, LastPut
  <2> QED
    BY <1>1, <1>3, <2>1
<1> QED
  BY <1>1, <1>2, <1>3 DEF Holds

\* The comment of eput(): acquiresleep() with ecache.lock held does not block.
THEOREM PutsDoNotBlock == ~PutRace => (Spec => []PutNeverBlocks)
<1> SUFFICES ASSUME ~PutRace PROVE Spec => []PutNeverBlocks
  OBVIOUS
<1>1. Inv => PutNeverBlocks
  <2> SUFFICES ASSUME Inv, NEW p \in Procs, pc[p] = "put", IsLastPut(p), owner[pe[p]] # None
               PROVE  FALSE
    BY DEF PutNeverBlocks
  <2>1. Facts
    BY InvFacts
  <2>2. ref[pe[p]] = 1 /\ pe[p] \in Entries
    BY Nulls DEF IsLastPut, Inv, EntryTypeOK, PointersUsed, Putting
  <2>3. PICK q \in Procs :
           \/ cur[q] = pe[p]
           \/ pe[q] = pe[p] /\ pc[q] \in {"putwork", "putupdate", "putunlock"}
           \/ \E t \in Slots : InUse(t) /\ parent[t] = pe[p]
    BY <2>1, <2>2, HeldInUse
  <2>4. /\ cur[q] # pe[p]
        /\ q # p /\ pc[q] # "putcheck" => pe[q] # pe[p]
        /\ \A t \in Slots : InUse(t) => parent[t] # pe[p]
    BY <2>1, <2>2 DEF Facts, PutAlone, Putting, LastPut, PointsTo
  <2> QED
    BY <2>3, <2>4
<1>2. Spec => []Inv
  BY InvHolds
<1> QED
  BY <1>1, <1>2, PTL

\* elock() and eunlock() never meet an entry without references.
THEOREM LocksNeverPanic == ~PutRace => (Spec => []NoLockPanic)
<1> SUFFICES ASSUME ~PutRace PROVE Spec => []NoLockPanic
  OBVIOUS
<1>1. Inv => NoLockPanic
  <2> SUFFICES ASSUME Inv PROVE NoLockPanic
    OBVIOUS
  <2> USE Nulls
  <2>1. Facts
    BY InvFacts
  <2>2. ASSUME NEW e \in Entries, owner[e] # None PROVE ref[e] >= 1
    <3>1. PICK q \in Procs :
             \/ cur[q] = e
             \/ pe[q] = e /\ pc[q] \in {"putwork", "putupdate", "putunlock"}
             \/ \E t \in Slots : InUse(t) /\ parent[t] = e
      BY <2>1, <2>2, HeldInUse
    <3> QED
      BY <2>1, <3>1 DEF Facts, Counted, RefersTo
  <2>3. ASSUME NEW p \in Procs, Wants(p) # None PROVE ref[Wants(p)] >= 1
    <3>1. CASE pc[p] \in {"walk", "relock", "found"}
      <4>1. cur[p] \in Entries /\ Wants(p) = cur[p]
        BY <3>1, CurIsEntry DEF Wants, Walking, Reached
      <4> QED
        BY <2>1, <4>1 DEF Facts, Counted, RefersTo
    <3>2. CASE pc[p] = "rmlock"
      <4>1. cur[p] \in Entries /\ Place(p) \in Reached /\ Wants(p) = parent[cur[p]]
        BY <3>2, CurIsEntry DEF Wants, Reached
      <4>2. cur[p] \in Slots /\ valid[cur[p]] # 0 /\ ref[cur[p]] >= 1
        BY <2>1, <4>1 DEF Facts, FoundSlot, Counted, RefersTo, Inv, PointersValid
      <4>3. InUse(cur[p])
        BY <4>1, <4>2 DEF InUse, Inv, EntryTypeOK
      <4>4. parent[cur[p]] \in Entries
        BY <4>2, <4>3 DEF InUse, Inv, EntryFilled
      <4> QED
        BY <2>1, <4>1, <4>2, <4>3, <4>4 DEF Facts, Counted
    <3>3. CASE pc[p] = "putwork" /\ valid[pe[p]] # -1
      <4>1. pe[p] \in Slots /\ valid[pe[p]] # 0 /\ ref[pe[p]] = 1 /\ Wants(p) = parent[pe[p]]
        BY <3>3 DEF Wants, Inv, LastPutAlone, LastPut, PointersValid, Putting
      <4>2. InUse(pe[p]) /\ parent[pe[p]] \in Entries
        BY <4>1 DEF InUse, Inv, EntryFilled
      <4> QED
        BY <2>1, <4>1, <4>2 DEF Facts, Counted
    <3> QED
      BY <2>3, <3>1, <3>2, <3>3 DEF Wants
  <2> QED
    BY <2>2, <2>3 DEF NoLockPanic
<1>2. Spec => []Inv
  BY InvHolds
<1> QED
  BY <1>1, <1>2, PTL
=============================================================================
