----------------------------- MODULE Arithmetic -----------------------------
(***************************************************************************)
(* Facts about remainders that the proofs about rings share: the indices   *)
(* of the rings of kernel/pipe.c and kernel/console.c are unsigned, wrap,  *)
(* and are reduced modulo the size of the ring when they are used.  And    *)
(* facts about counts that the proofs about reference counts share.        *)
(***************************************************************************)
EXTENDS Integers, FiniteSets, FiniteSetTheorems, WellFoundedInduction, TLAPS

\* Division with remainder.
LEMMA DivMod ==
  ASSUME NEW a \in Int, NEW n \in Nat \ {0}
  PROVE  /\ a \div n \in Int
         /\ (a % n) \in 0 .. n - 1
         /\ a = n * (a \div n) + (a % n)
  OBVIOUS

\* The remainder is the only one.
LEMMA ModUnique ==
  ASSUME NEW a \in Int, NEW n \in Nat \ {0}, NEW q \in Int, NEW r \in 0 .. n - 1,
         a = n * q + r
  PROVE  a % n = r
  OBVIOUS

\* A number in the range of an index is its own remainder.
LEMMA ModSmall ==
  ASSUME NEW n \in Nat \ {0}, NEW a \in 0 .. n - 1
  PROVE  a % n = a
  OBVIOUS

\* What unsigned addition and subtraction give.
LEMMA UnsignedAdd ==
  ASSUME NEW n \in Nat \ {0}, NEW a \in 0 .. n - 1, NEW b \in 0 .. n - 1
  PROVE  (a + b) % n = IF a + b < n THEN a + b ELSE a + b - n
  OBVIOUS

\* Subtraction of two unsigned numbers that wrap.
LEMMA UnsignedSub ==
  ASSUME NEW n \in Nat \ {0}, NEW a \in 0 .. n - 1, NEW b \in 0 .. n - 1
  PROVE  (a - b) % n = IF a >= b THEN a - b ELSE a - b + n
  OBVIOUS

\* Reducing before an addition changes nothing.
LEMMA ModPlus ==
  ASSUME NEW a \in Int, NEW b \in Int, NEW n \in Nat \ {0}
  PROVE  ((a % n) + b) % n = (a + b) % n
<1> DEFINE q == a \div n
           r == a % n
           c == r + b
           s == c \div n
           t == c % n
<1>1. q \in Int /\ r \in Int /\ a = n * q + r
  BY DivMod
<1>2. s \in Int /\ t \in 0 .. n - 1 /\ c = n * s + t
  <2>1. c \in Int
    BY <1>1
  <2> QED
    BY <2>1, DivMod
<1> HIDE DEF q, s, t
<1>3. a + b = n * (q + s) + t
  BY <1>1, <1>2
<1>4. q + s \in Int /\ a + b \in Int
  BY <1>1, <1>2
<1>5. (a + b) % n = t
  BY <1>2, <1>3, <1>4, ModUnique
<1> QED
  BY <1>5 DEF t

\* A counter that wraps at a multiple of the size of the ring points to the
\* same place as one that does not wrap.
LEMMA ModMod ==
  ASSUME NEW a \in Int, NEW n \in Nat \ {0}, NEW m \in Nat \ {0}, m % n = 0
  PROVE  (a % m) % n = a % n
<1> DEFINE k == m \div n
           q == a \div m
           r == a % m
           s == r \div n
           t == r % n
<1>1. k \in Int /\ m = n * k
  BY DivMod
<1>2. q \in Int /\ r \in Int /\ a = m * q + r
  BY DivMod
<1>3. s \in Int /\ t \in 0 .. n - 1 /\ r = n * s + t
  BY <1>2, DivMod
<1> HIDE DEF k, q, r, s, t
<1>4. k * q + s \in Int
  BY <1>1, <1>2, <1>3
<1>5. a = n * (k * q + s) + t
  BY <1>1, <1>2, <1>3
<1>6. a % n = t
  BY <1>3, <1>4, <1>5, ModUnique
<1> QED
  BY <1>6 DEF t, r

\* Less than a round apart, two counters that point to the same place are one.
LEMMA ModInjective ==
  ASSUME NEW a \in Int, NEW b \in Int, NEW n \in Nat \ {0},
         a <= b, b < a + n, a % n = b % n
  PROVE  a = b
<1> DEFINE p == a \div n
           q == b \div n
           r == a % n
<1>1. /\ p \in Int /\ q \in Int /\ r \in 0 .. n - 1
      /\ a = n * p + r /\ b = n * q + r
  BY DivMod
<1> HIDE DEF p, q, r
<1>2. b - a = n * (q - p)
  BY <1>1
<1>3. CASE q - p >= 1
  <2>1. n * (q - p) >= n
    BY <1>1, <1>3
  <2> QED
    BY <1>2, <2>1
<1>4. CASE q - p <= -1
  <2>1. n * (q - p) <= -n
    BY <1>1, <1>4
  <2> QED
    BY <1>2, <2>1
<1>5. CASE p = q
  BY <1>1, <1>5
<1> QED
  BY <1>1, <1>3, <1>4, <1>5

\* A set of natural numbers has a least element.
LEMMA LeastNat ==
  ASSUME NEW T, T \subseteq Nat, T # {}
  PROVE  \E n \in T : \A m \in T : n <= m
<1>1. \E n \in T : \A m \in T : ~ (<<m, n>> \in OpToRel(<, Nat))
  BY NatLessThanWellFounded, WFMin
<1>2. PICK n \in T : \A m \in T : ~ (<<m, n>> \in OpToRel(<, Nat))
  BY <1>1
<1>3. ASSUME NEW m \in T PROVE ~ (m < n)
  <2>1. ASSUME m < n PROVE <<m, n>> \in OpToRel(<, Nat)
    <3>1. m \in Nat /\ n \in Nat
      OBVIOUS
    <3> QED
      BY <2>1, <3>1, Zenon DEF OpToRel
  <2> QED
    BY <1>2, <2>1, Zenon
<1>4. \A m \in T : n <= m
  <2> SUFFICES ASSUME NEW m \in T PROVE n <= m
    OBVIOUS
  <2>1. ~ (m < n)
    BY <1>3
  <2>2. m \in Nat /\ n \in Nat
    OBVIOUS
  <2> QED
    BY ONLY <2>1, <2>2
<1> QED
  BY <1>4

-----------------------------------------------------------------------------
\* How many members of D the function f maps to e.
Count(D, f, e) == Cardinality({x \in D : f[x] = e})

\* A count is a natural number, and 0 if there are none.
LEMMA CountType ==
  ASSUME NEW D, IsFiniteSet(D), NEW f, NEW e
  PROVE  /\ Count(D, f, e) \in Nat
         /\ IsFiniteSet({x \in D : f[x] = e})
         /\ Count(D, f, e) = 0 <=> \A x \in D : f[x] # e
<1>1. IsFiniteSet({x \in D : f[x] = e})
  BY FS_Subset
<1>2. Count(D, f, e) = 0 <=> {x \in D : f[x] = e} = {}
  BY <1>1, FS_EmptySet DEF Count
<1>3. Count(D, f, e) \in Nat
  BY <1>1, FS_CardinalityType DEF Count
<1> QED
  BY <1>1, <1>2, <1>3

\* What is counted once is one.
LEMMA CountOne ==
  ASSUME NEW D, IsFiniteSet(D), NEW f, NEW e, Count(D, f, e) = 1,
         NEW x \in D, NEW y \in D, f[x] = e, f[y] = e
  PROVE  x = y
<1>1. IsFiniteSet({u \in D : f[u] = e})
  BY FS_Subset
<1>2. Cardinality({u \in D : f[u] = e}) = 1
  BY DEF Count
<1>3. \E z : {u \in D : f[u] = e} = {z}
  BY <1>1, <1>2, FS_Singleton, Zenon
<1>4. PICK z : {u \in D : f[u] = e} = {z}
  BY <1>3
<1> QED
  BY <1>4

\* When the function changes in one place, the old value loses one and the new
\* value gains one.
LEMMA CountExcept ==
  ASSUME NEW D, IsFiniteSet(D), NEW f, NEW g, NEW p \in D, NEW e,
         \A x \in D \ {p} : g[x] = f[x]
  PROVE  Count(D, g, e) = Count(D, f, e) - (IF f[p] = e THEN 1 ELSE 0)
                            + (IF g[p] = e THEN 1 ELSE 0)
<1> DEFINE F == {x \in D : f[x] = e}
           G == {x \in D : g[x] = e}
           R == F \ {p}
<1>1. IsFiniteSet(F)
  BY CountType
<1>2. IsFiniteSet(R) /\ Cardinality(R) = Cardinality(F) - (IF f[p] = e THEN 1 ELSE 0)
  <2>1. IsFiniteSet(R) /\ Cardinality(R) = IF p \in F THEN Cardinality(F) - 1 ELSE Cardinality(F)
    BY <1>1, FS_RemoveElement
  <2>2. p \in F <=> f[p] = e
    OBVIOUS
  <2>3. Cardinality(F) \in Nat
    BY <1>1, FS_CardinalityType
  <2> HIDE DEF F, R
  <2> QED
    BY <2>1, <2>2, <2>3
<1>3. Cardinality(R) \in Nat /\ Cardinality(F) \in Nat
  BY <1>1, <1>2, FS_CardinalityType
<1>4. CASE g[p] = e
  <2>1. G = R \cup {p} /\ p \notin R
    BY <1>4
  <2>2. Cardinality(G) = Cardinality(R) + 1
    <3> HIDE DEF G, R
    <3> QED
      BY <1>2, <2>1, FS_AddElement
  <2> HIDE DEF G, R, F
  <2>3. Cardinality(G) = Cardinality(F) - (IF f[p] = e THEN 1 ELSE 0) + 1
    BY <1>2, <1>3, <2>2
  <2> QED
    BY <1>4, <2>3 DEF Count, F, G
<1>5. CASE g[p] # e
  <2>1. G = R
    BY <1>5
  <2> HIDE DEF G, R, F
  <2>3. Cardinality(G) = Cardinality(F) - (IF f[p] = e THEN 1 ELSE 0)
    BY <1>2, <1>3, <2>1
  <2> QED
    BY <1>3, <1>5, <2>3 DEF Count, F, G
<1> QED
  BY <1>4, <1>5

\* g has the values of f on S.
Agree(S, f, g) == \A x \in S : g[x] = f[x]

\* When the function loses the value e on S, as many are gone as had it there.
LEMMA CountDrop ==
  ASSUME NEW D, IsFiniteSet(D), NEW f, NEW g, NEW S, S \subseteq D, NEW e,
         Agree(D \ S, f, g), Count(S, g, e) = 0
  PROVE  /\ Count(S, f, e) \in Nat /\ Count(S, f, e) <= Count(D, f, e)
         /\ Count(D, g, e) = Count(D, f, e) - Count(S, f, e)
<1> DEFINE F == {x \in D : f[x] = e}
           G == {x \in D : g[x] = e}
           R == {x \in S : f[x] = e}
<1>0. IsFiniteSet(S)
  BY FS_Subset
<1>a. \A x \in S : g[x] # e
  BY <1>0, CountType
<1>1. IsFiniteSet(F) /\ R \subseteq F /\ G = F \ R /\ F \cap R = R
  BY <1>a, CountType DEF Agree
<1>2. IsFiniteSet(R) /\ Cardinality(R) <= Cardinality(F)
  BY <1>1, FS_Subset
<1>3. Cardinality(F \ R) = Cardinality(F) - Cardinality(F \cap R)
  BY <1>1, FS_Difference
<1>4. Cardinality(R) \in Nat
  BY <1>2, FS_CardinalityType
<1>5. Cardinality(G) = Cardinality(F) - Cardinality(R)
  <2> HIDE DEF F, G, R
  <2> QED
    BY <1>1, <1>3
<1> QED
  BY <1>2, <1>4, <1>5 DEF Count

\* The same function, and the same counts.
LEMMA CountSame ==
  ASSUME NEW D, NEW f, NEW g, NEW e, \A x \in D : (g[x] = e) <=> (f[x] = e)
  PROVE  Count(D, g, e) = Count(D, f, e)
<1>1. {x \in D : g[x] = e} = {x \in D : f[x] = e}
  OBVIOUS
<1> QED
  BY <1>1 DEF Count

\* The members of S, marked t.
Tagged(S, t) == {<<x, t>> : x \in S}

\* Marking changes no number.
LEMMA TaggedCount ==
  ASSUME NEW S, IsFiniteSet(S), NEW t
  PROVE  IsFiniteSet(Tagged(S, t)) /\ Cardinality(Tagged(S, t)) = Cardinality(S)
<1> DEFINE f == [x \in S |-> <<x, t>>]
<1>1. f \in Bijection(S, Tagged(S, t))
  BY DEF Tagged, Bijection, Injection, Surjection, IsInjective
<1>2. ExistsBijection(S, Tagged(S, t))
  BY <1>1 DEF ExistsBijection
<1> QED
  BY <1>2, FS_Bijection

\* What has another mark is counted apart.
LEMMA TaggedApart ==
  ASSUME NEW U, IsFiniteSet(U), NEW t, \A x \in U : x[2] # t,
         NEW S, IsFiniteSet(S)
  PROVE  /\ IsFiniteSet(U \cup Tagged(S, t))
         /\ Cardinality(U \cup Tagged(S, t)) = Cardinality(U) + Cardinality(S)
<1>1. U \cap Tagged(S, t) = {}
  BY DEF Tagged
<1>2. IsFiniteSet(Tagged(S, t)) /\ Cardinality(Tagged(S, t)) = Cardinality(S)
  BY TaggedCount
<1>3. /\ IsFiniteSet(U \cup Tagged(S, t))
      /\ Cardinality(U \cup Tagged(S, t))
           = Cardinality(U) + Cardinality(Tagged(S, t)) - Cardinality(U \cap Tagged(S, t))
  BY <1>2, FS_Union
<1>4. Cardinality(U \cap Tagged(S, t)) = 0
  BY <1>1, FS_EmptySet
<1>5. Cardinality(U) \in Nat /\ Cardinality(S) \in Nat
  BY FS_CardinalityType
<1> QED
  BY <1>2, <1>3, <1>4, <1>5
=============================================================================
