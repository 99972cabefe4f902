-------------------------- MODULE NamespaceProofs --------------------------
(***************************************************************************)
(* Who can wait for whom in Namespace, for any number of processes,        *)
(* entries, names and calls and paths of any length.                       *)
(***************************************************************************)
EXTENDS Namespace, TLAPS

Looking(N) ==
    [op : {"look", "create"}, cur : N, rest : Seq(Names), from : N, path : Paths, new : Paths,
     call : {"unlink", "open", "mkdir", "rename"}, src : N \cup {NULL}]
Single(N) == [op : {"opened", "unlink", "remove"}, ep : N]
Moving(N) == [op : {"check", "rename", "locked"}, src : N, pdst : N, new : Names]
Overwriting(N) == [op : {"over", "empty"}, src : N, pdst : N, new : Names, dst : N]
Moved(N) == [op : {"moving"}, src : N, pdst : N, old : Names \cup {NULL}]

LEMMA DoingSets ==
    ASSUME NEW N
    PROVE  Doing(N) = {Idle} \cup Looking(N) \cup Single(N) \cup Moving(N) \cup Overwriting(N) \cup Moved(N)
BY DEF Doing, Looking, Single, Moving, Overwriting, Moved

\* The op of a process says which fields it has.
LEMMA DoingCases ==
    ASSUME NEW N, NEW a \in Doing(N)
    PROVE  /\ a.op \in {"look", "create"} => a \in Looking(N)
           /\ a.op \in {"opened", "unlink", "remove"} => a \in Single(N)
           /\ a.op \in {"check", "rename", "locked"} => a \in Moving(N)
           /\ a.op \in {"over", "empty"} => a \in Overwriting(N)
           /\ a.op = "moving" => a \in Moved(N)
BY DoingSets DEF Idle, Looking, Single, Moving, Overwriting, Moved

LEMMA DoingGrows ==
    ASSUME NEW N, NEW M, N \subseteq M
    PROVE  Doing(N) \subseteq Doing(M)
<1>1. /\ Looking(N) \subseteq Looking(M) /\ Single(N) \subseteq Single(M)
      /\ Moving(N) \subseteq Moving(M)
      /\ Overwriting(N) \subseteq Overwriting(M) /\ Moved(N) \subseteq Moved(M)
  BY DEF Looking, Single, Moving, Overwriting, Moved
<1> QED
  BY <1>1, DoingSets

LEMMA PathsNonempty ==
    ASSUME NEW path \in Paths
    PROVE  path \in Seq(Names) /\ path # <<>>
<1>1. PICK n \in 1 .. MaxDepth : path \in [1 .. n -> Names]
  BY DEF Paths
<1>2. n \in Nat /\ n > 0
  BY <1>1, NamespaceAssumption
<1>3. path \in Seq(Names)
  BY <1>1, <1>2
<1>4. Len(path) = n
  BY <1>1, <1>2
<1> QED
  BY <1>2, <1>3, <1>4

LEMMA LookupKnown ==
    ASSUME NamespaceTypeOK, NEW d \in Known, NEW x \in Names, NEW n \in dirlookup(d, x)
    PROVE  \/ n = NULL
           \/ n \in Known /\ valid[n] = 1 /\ parent[n] = d /\ name[n] = x
           \/ n \in Fresh /\ slot[file[d]][x] \in Known
<1>1. d \in Nodes /\ file[d] \in Nodes /\ slot[file[d]][x] \in Known \cup {NULL}
  BY DEF NamespaceTypeOK, Known
<1>2. CASE n \in Cached(d, x)
  BY <1>2 DEF Cached, Known
<1>3. CASE n \notin Cached(d, x)
  BY <1>1, <1>3 DEF dirlookup
<1> QED
  BY <1>2, <1>3

LEMMA HeldKnown ==
    ASSUME NEW N, NEW a \in Doing(N)
    PROVE  Held(a) \subseteq N
<1>1. CASE a.op = "remove"
  BY <1>1, DoingCases DEF Held, Single
<1>2. CASE a.op = "locked"
  BY <1>2, DoingCases DEF Held, Moving
<1>3. CASE a.op = "moving"
  BY <1>3, DoingCases DEF Held, Moved
<1>4. CASE a.op \in {"over", "empty"}
  BY <1>4, DoingCases DEF Held, Overwriting
<1>5. CASE a.op \notin {"remove", "locked", "moving", "over", "empty"}
  BY <1>5 DEF Held
<1> QED
  BY <1>1, <1>2, <1>3, <1>4, <1>5

LEMMA HeldNodes ==
    ASSUME NamespaceTypeOK, NEW t \in Threads
    PROVE  Held(at[t]) \subseteq Nodes
BY HeldKnown DEF NamespaceTypeOK, Known

---------------------------------------------------------------------------
(* What a step of process t, which goes on to b, has to show.              *)

LEMMA AtStep ==
    ASSUME NamespaceTypeOK, NEW t \in Threads, NEW b, Goto(t, b),
           Known \subseteq Known', b \in Doing(Known'), b.op = "create" => b.rest # <<>>,
           b.op \in {"over", "empty"} => b.dst # b.src
    PROVE  /\ at' \in [Threads -> Doing(Known')]
           /\ \A u \in Threads : /\ at'[u].op = "create" => at'[u].rest # <<>>
                                 /\ at'[u].op \in {"over", "empty"} => at'[u].dst # at'[u].src
<1>1. Doing(Known) \subseteq Doing(Known')
  BY DoingGrows
<1>2. at' = [at EXCEPT ![t] = b] /\ at \in [Threads -> Doing(Known)]
  BY DEF NamespaceTypeOK, Goto
<1> QED
  BY <1>1, <1>2 DEF NamespaceTypeOK

\* Process t, which goes on to b, takes the locks it needs there and gives up
\* the others.
Grip(t, b) ==
    /\ \A n \in Held(b) : n \in Nodes /\ lock[n] \in {NULL, t}
    /\ lock' \in [Nodes -> Threads \cup {NULL}]
    /\ \A n \in Nodes : lock'[n] = IF n \in Held(b) THEN t ELSE IF lock[n] = t THEN NULL ELSE lock[n]

LEMMA LockStep ==
    ASSUME NamespaceTypeOK, LocksOwned, NEW t \in Threads, NEW b, Goto(t, b), Grip(t, b)
    PROVE  LocksOwned'
<1>1. at' = [at EXCEPT ![t] = b] /\ at \in [Threads -> Doing(Known)]
  BY DEF NamespaceTypeOK, Goto
<1>2. ASSUME NEW n \in Nodes, lock'[n] # NULL PROVE n \in Held(at'[lock'[n]])
  <2>1. CASE n \in Held(b)
    BY <1>1, <2>1 DEF Grip
  <2>2. CASE n \notin Held(b)
    <3>1. lock'[n] = lock[n] /\ lock[n] # t
      BY <1>2, <2>2 DEF Grip
    <3>2. lock[n] \in Threads /\ n \in Held(at[lock[n]])
      BY <1>2, <3>1 DEF LocksOwned, NamespaceTypeOK
    <3> QED
      BY <1>1, <3>1, <3>2
  <2> QED
    BY <2>1, <2>2
<1>3. ASSUME NEW u \in Threads, NEW n \in Held(at'[u]) PROVE lock'[n] = u
  <2>1. CASE u = t
    BY <1>1, <2>1 DEF Grip
  <2>2. CASE u # t
    <3>1. n \in Held(at[u]) /\ lock[n] = u
      BY <1>1, <2>2 DEF LocksOwned
    <3>2. n \in Nodes
      BY <3>1, HeldNodes
    <3> QED
      BY <2>2, <3>1, <3>2, NamespaceAssumption DEF Grip
  <2> QED
    BY <2>1, <2>2
<1> QED
  BY <1>2, <1>3 DEF LocksOwned

\* Where no parent changes, only the process that moved has something to show.
LEMMA StillStep ==
    ASSUME NamespaceTypeOK, NEW t \in Threads, NEW b, Goto(t, b), parent' = parent,
           file' = file, Acyclic, ChecksHold, OneEntryEach,
           b.op \in Checked => b.src \notin Above(b.pdst),
           b.op \in {"over", "empty"} => parent[b.dst] = b.pdst
    PROVE  (Acyclic /\ ChecksHold /\ OneEntryEach)'
<1>1. at' = [at EXCEPT ![t] = b] /\ at \in [Threads -> Doing(Known)]
  BY DEF NamespaceTypeOK, Goto
<1>2. Acyclic'
  BY DEF Acyclic
<1>3. ASSUME NEW n PROVE Above(n)' = Above(n)
  BY DEF Above
<1>4. ASSUME NEW u \in Threads
      PROVE  /\ at'[u].op \in Checked => at'[u].src \notin Above(at'[u].pdst)
             /\ at'[u].op \in {"over", "empty"} => parent[at'[u].dst] = at'[u].pdst
  BY <1>1, <1>4 DEF ChecksHold
<1>5. ASSUME NEW u \in Threads PROVE Above(at[u].pdst)' = Above(at'[u].pdst)
  BY DEF Above
<1>6. ChecksHold'
  BY <1>4, <1>5 DEF ChecksHold
<1>7. OneEntryEach'
  BY DEF OneEntryEach
<1> QED
  BY <1>2, <1>6, <1>7

\* Where an entry moves, no other process is in a rename.
LEMMA ChangeStep ==
    ASSUME NamespaceTypeOK, NEW t \in Threads, NEW b, Goto(t, b), ~Overlaps(t),
           file' = file, OneEntryEach, b.op \notin Checked, Acyclic'
    PROVE  (Acyclic /\ ChecksHold /\ OneEntryEach)'
<1>1. at' = [at EXCEPT ![t] = b] /\ at \in [Threads -> Doing(Known)]
  BY DEF NamespaceTypeOK, Goto
<1>2. ASSUME NEW u \in Threads PROVE at'[u].op \notin Checked
  BY <1>1, <1>2 DEF Overlaps
<1>3. {"over", "empty"} \subseteq Checked
  BY DEF Checked
<1>4. ChecksHold'
  BY <1>2, <1>3 DEF ChecksHold
<1>5. OneEntryEach'
  BY DEF OneEntryEach
<1> QED
  BY <1>4, <1>5

---------------------------------------------------------------------------
(* The two ways in which the tree grows or moves keep it a tree.           *)

\* A new entry has no children.
LEMMA NewLeaf ==
    ASSUME NamespaceTypeOK, Acyclic, NEW n \in Nodes, NEW d \in Known, valid[n] = 0,
           parent' = [parent EXCEPT ![n] = d]
    PROVE  Acyclic'
<1> SUFFICES ASSUME NEW S \in SUBSET Nodes, \A m \in S : parent'[m] \in S
             PROVE  S = {}
  BY DEF Acyclic
<1>1. parent \in [Nodes -> Known \cup {NULL}] /\ n \notin Known /\ NULL \notin Nodes
  BY NamespaceAssumption DEF NamespaceTypeOK, Known
<1>2. ASSUME NEW m \in S, m # n PROVE parent[m] \in S \ {n}
  BY <1>1, <1>2
<1>3. S \ {n} = {}
  BY <1>2 DEF Acyclic
<1>4. n \in S => d \in S \ {n}
  BY <1>1
<1> QED
  BY <1>3, <1>4

\* An entry that is not above its new parent can be moved there.
LEMMA MoveBelow ==
    ASSUME NamespaceTypeOK, Acyclic, NEW src \in Nodes, NEW pdst \in Nodes,
           src \notin Above(pdst), parent' = [parent EXCEPT ![src] = pdst]
    PROVE  Acyclic'
<1> SUFFICES ASSUME NEW S \in SUBSET Nodes, \A m \in S : parent'[m] \in S
             PROVE  S = {}
  BY DEF Acyclic
<1>1. PICK T \in SUBSET Nodes :
        /\ pdst \in T /\ src \notin T
        /\ \A k \in T : parent[k] \in T \cup {NULL}
  BY DEF Above
<1>2. parent \in [Nodes -> Known \cup {NULL}] /\ NULL \notin Nodes
  BY NamespaceAssumption DEF NamespaceTypeOK
<1>3. src \notin S
  <2> SUFFICES ASSUME src \in S PROVE FALSE
    OBVIOUS
  <2>1. pdst \in S \cap T
    BY <1>1, <1>2
  <2>2. ASSUME NEW m \in S \cap T PROVE parent[m] \in S \cap T
    BY <1>1, <1>2
  <2>3. S \cap T \in SUBSET Nodes
    OBVIOUS
  <2> QED
    BY <2>1, <2>2, <2>3 DEF Acyclic
<1>4. ASSUME NEW m \in S PROVE parent[m] \in S
  BY <1>2, <1>3
<1> QED
  BY <1>4 DEF Acyclic

---------------------------------------------------------------------------
(* The steps.                                                              *)

\* A step that leaves the tree, and takes or gives up locks.
LEMMA TreeKept ==
    ASSUME NamespaceInv, NEW t \in Threads, NEW b, Goto(t, b), NoTree, cwd' = cwd,
           b \in Doing(Known), b.op = "create" => b.rest # <<>>,
           b.op \in {"over", "empty"} => b.dst # b.src,
           panicked' \in BOOLEAN, undefined' \in BOOLEAN, undefined => undefined',
           Grip(t, b),
           ~undefined' => /\ b.op \in Checked => b.src \notin Above(b.pdst)
                          /\ b.op \in {"over", "empty"} => parent[b.dst] = b.pdst
    PROVE  NamespaceInv'
<1>1. NamespaceTypeOK /\ LocksOwned
  BY DEF NamespaceInv
<1>2. /\ Known' = Known /\ parent' = parent /\ name' = name /\ dir' = dir /\ valid' = valid
      /\ file' = file /\ slot' = slot
  BY DEF NoTree, treeVars, Known
<1>3. NamespaceTypeOK'
  <2>1. /\ at' \in [Threads -> Doing(Known')]
        /\ \A u \in Threads : /\ at'[u].op = "create" => at'[u].rest # <<>>
                              /\ at'[u].op \in {"over", "empty"} => at'[u].dst # at'[u].src
    BY <1>1, <1>2, AtStep
  <2> QED
    BY <1>1, <1>2, <2>1 DEF NamespaceTypeOK, Grip
<1>4. LocksOwned'
  BY <1>1, LockStep
<1>5. ~undefined' => (Acyclic /\ ChecksHold /\ OneEntryEach)'
  BY <1>1, <1>2, StillStep DEF NamespaceInv
<1> QED
  BY <1>3, <1>4, <1>5 DEF NamespaceInv

\* A step that leaves all but calls and panicked.
LEMMA SameStep ==
    ASSUME NamespaceInv, panicked' \in BOOLEAN,
           parent' = parent, name' = name, dir' = dir, valid' = valid, file' = file, slot' = slot,
           lock' = lock, cwd' = cwd, at' = at, undefined' = undefined
    PROVE  NamespaceInv'
<1>1. Known' = Known
  BY DEF Known
<1>2. NamespaceTypeOK'
  BY <1>1 DEF NamespaceInv, NamespaceTypeOK
<1>3. LocksOwned' = LocksOwned /\ Acyclic' = Acyclic /\ OneEntryEach' = OneEntryEach
  BY DEF LocksOwned, Acyclic, OneEntryEach
<1>4. ASSUME NEW u \in Threads PROVE Above(at[u].pdst)' = Above(at[u].pdst)
  BY DEF Above
<1>5. ChecksHold' = ChecksHold
  BY <1>4 DEF ChecksHold
<1> QED
  BY <1>2, <1>3, <1>5 DEF NamespaceInv

\* What a process that holds no lock owns.
LEMMA HoldsNothing ==
    ASSUME NamespaceInv, NEW t \in Threads, Held(at[t]) = {}, NEW n \in Nodes
    PROVE  lock[n] # t
BY NamespaceAssumption DEF NamespaceInv, LocksOwned

\* A step of a process that has no lock and takes none.
LEMMA Quiet ==
    ASSUME NamespaceInv, NEW t \in Threads, NEW b, Goto(t, b), NoTree, cwd' = cwd, lock' = lock,
           b \in Doing(Known), b.op = "create" => b.rest # <<>>,
           panicked' \in BOOLEAN, undefined' \in BOOLEAN, undefined => undefined',
           Held(at[t]) = {}, b.op \notin {"remove", "locked", "over", "empty", "moving"},
           ~undefined' /\ b.op \in Checked => b.src \notin Above(b.pdst)
    PROVE  NamespaceInv'
<1>1. Held(b) = {}
  BY DEF Held
<1>2. Grip(t, b)
  BY <1>1, HoldsNothing DEF Grip, NamespaceInv, NamespaceTypeOK
<1> QED
  BY <1>2, TreeKept

LEMMA GripNone ==
    ASSUME NamespaceTypeOK, LocksOwned, NEW t \in Threads, Unlock(Held(at[t]))
    PROVE  Grip(t, Idle)
<1>1. Held(Idle) = {}
  BY DEF Held, Idle
<1>2. lock \in [Nodes -> Threads \cup {NULL}]
  BY DEF NamespaceTypeOK
<1>3. ASSUME NEW n \in Nodes PROVE lock[n] = t <=> n \in Held(at[t])
  BY NamespaceAssumption DEF LocksOwned
<1> QED
  BY <1>1, <1>2, <1>3 DEF Grip, Unlock

\* A step that ends a call and gives up all locks of the process.
LEMMA GiveUp ==
    ASSUME NamespaceInv, NEW t \in Threads, Goto(t, Idle), NoTree, cwd' = cwd,
           Unlock(Held(at[t])), panicked' \in BOOLEAN, undefined' \in BOOLEAN, undefined => undefined'
    PROVE  NamespaceInv'
<1>1. Idle \in Doing(Known) /\ Idle.op = "idle"
  BY DoingSets DEF Idle
<1>2. Grip(t, Idle)
  BY GripNone DEF NamespaceInv
<1> QED
  BY <1>1, <1>2, TreeKept DEF Checked

\* A step that ends in an entry that dirlookup() returned, which may be a
\* second one.
LEMMA GetStep ==
    ASSUME NamespaceInv, NEW t \in Threads, NEW b, Goto(t, b), cwd' = cwd, panicked' \in BOOLEAN,
           NEW d \in Known, NEW x \in Names, NEW n \in dirlookup(d, x), n # NULL, eget(d, x, n),
           b \in Doing(Known \cup {n}), b.op = "create" => b.rest # <<>>,
           b.op \in {"over", "empty"} => b.dst # b.src,
           Grip(t, b),
           ~undefined' => /\ b.op \in Checked => b.src \notin Above(b.pdst)
                          /\ b.op \in {"over", "empty"} => parent[b.dst] = b.pdst
    PROVE  NamespaceInv'
<1>1. NamespaceTypeOK /\ LocksOwned /\ undefined \in BOOLEAN
  BY DEF NamespaceInv, NamespaceTypeOK
<1>2. \/ (n \in Known /\ valid[n] # 0)
      \/ (n \in Fresh /\ valid[n] = 0 /\ slot[file[d]][x] \in Known)
  BY <1>1, LookupKnown DEF Fresh
<1>3. CASE n \in Known /\ valid[n] # 0
  <2>1. NoTree /\ undefined' = undefined /\ Known \cup {n} = Known
    BY <1>3 DEF eget
  <2> QED
    BY <1>1, <2>1, TreeKept
<1>4. CASE n \in Fresh /\ valid[n] = 0 /\ slot[file[d]][x] \in Known
  <2> DEFINE m == slot[file[d]][x]
  <2>1. /\ parent' = [parent EXCEPT ![n] = d] /\ name' = [name EXCEPT ![n] = x]
        /\ dir' = [dir EXCEPT ![n] = dir[m]] /\ valid' = [valid EXCEPT ![n] = 1]
        /\ file' = [file EXCEPT ![n] = m] /\ slot' = slot /\ undefined' = TRUE
    BY <1>4 DEF eget
  <2>2. n \in Nodes /\ m \in Known /\ m \in Nodes /\ d \in Nodes
    BY <1>4 DEF Fresh, Nodes, Known
  <2> HIDE DEF m
  <2>3. Known' = Known \cup {n} /\ valid' \in [Nodes -> {-1, 0, 1}]
    BY <1>1, <2>1, <2>2 DEF Known, NamespaceTypeOK
  <2>4. NamespaceTypeOK'
    <3>1. /\ at' \in [Threads -> Doing(Known')]
          /\ \A u \in Threads : /\ at'[u].op = "create" => at'[u].rest # <<>>
                                /\ at'[u].op \in {"over", "empty"} => at'[u].dst # at'[u].src
      BY <1>1, <2>3, AtStep
    <3>2. parent' \in [Nodes -> Known' \cup {NULL}] /\ slot' \in [Nodes -> [Names -> Known' \cup {NULL}]]
      BY <1>1, <2>1, <2>2, <2>3 DEF NamespaceTypeOK
    <3>3. name' \in [Nodes -> Names \cup {NULL}] /\ dir' \in [Nodes -> BOOLEAN]
      BY <1>1, <2>1, <2>2 DEF NamespaceTypeOK
    <3>4. file' \in [Nodes -> Nodes] /\ \A k \in Nodes : file'[k] \in Known' \cup {k}
      BY <1>1, <2>1, <2>2, <2>3 DEF NamespaceTypeOK, Known
    <3>5. cwd' \in [Threads -> Known'] /\ Root \in Known' /\ lock' \in [Nodes -> Threads \cup {NULL}]
      BY <1>1, <2>3 DEF NamespaceTypeOK, Grip
    <3> QED
      BY <2>1, <2>3, <3>1, <3>2, <3>3, <3>4, <3>5 DEF NamespaceTypeOK
  <2>5. LocksOwned'
    BY <1>1, LockStep
  <2> QED
    BY <2>1, <2>4, <2>5 DEF NamespaceInv
<1> QED
  BY <1>2, <1>3, <1>4

LEMMA NamespaceInitial == NamespaceInit => NamespaceInv
<1> SUFFICES ASSUME NamespaceInit PROVE NamespaceInv
  OBVIOUS
<1>1. PICK nm \in [Dirs -> Names], up \in [Dirs -> {Root} \cup Dirs] :
        /\ \A d \in Dirs : IF up[d] = Root THEN TRUE ELSE up[up[d]] = Root
        /\ name = [n \in Nodes |-> IF n \in Dirs THEN nm[n] ELSE NULL]
        /\ parent = [n \in Nodes |-> IF n \in Dirs THEN up[n] ELSE NULL]
        /\ slot = [d \in Nodes |-> [x \in Names |->
               LET at_x == {c \in Dirs : up[c] = d /\ nm[c] = x}
               IN  IF at_x = {} THEN NULL ELSE CHOOSE c \in at_x : TRUE]]
  BY DEF NamespaceInit
<1>2. {Root} \cup Dirs \subseteq Known /\ Known \subseteq Nodes
  BY NamespaceAssumption DEF NamespaceInit, Known, Nodes
<1>3. NamespaceTypeOK
  <2>1. parent \in [Nodes -> Known \cup {NULL}] /\ name \in [Nodes -> Names \cup {NULL}]
    BY <1>1, <1>2
  <2>2. ASSUME NEW d \in Nodes, NEW x \in Names PROVE slot[d][x] \in Known \cup {NULL}
    <3> DEFINE at_x == {c \in Dirs : up[c] = d /\ nm[c] = x}
    <3>1. slot[d][x] = IF at_x = {} THEN NULL ELSE CHOOSE c \in at_x : TRUE
      BY <1>1
    <3>2. at_x # {} => (CHOOSE c \in at_x : TRUE) \in at_x
      OBVIOUS
    <3> QED
      BY <3>1, <3>2, <1>2
  <2>3. slot \in [Nodes -> [Names -> Known \cup {NULL}]]
    <3>1. slot = [d \in Nodes |-> [x \in Names |-> slot[d][x]]]
      BY <1>1
    <3> QED
      BY <2>2, <3>1
  <2>4. Idle \in Doing(Known) /\ Idle.op = "idle"
    BY DoingSets DEF Idle
  <2>5. file \in [Nodes -> Nodes] /\ \A n \in Nodes : file[n] \in Known \cup {n}
    BY <1>2 DEF NamespaceInit
  <2> QED
    BY <2>1, <2>3, <2>4, <2>5, <1>2 DEF NamespaceTypeOK, NamespaceInit
<1>4. LocksOwned
  <2>1. Held(Idle) = {}
    BY DEF Held, Idle
  <2> QED
    BY <2>1 DEF LocksOwned, NamespaceInit
<1>5. Acyclic
  <2> SUFFICES ASSUME NEW S \in SUBSET Nodes, \A n \in S : parent[n] \in S, NEW n \in S
               PROVE  FALSE
    BY DEF Acyclic
  <2>1. ASSUME NEW m \in S PROVE m \in Dirs /\ parent[m] = up[m] /\ up[m] \in S
    BY <1>1, <2>1, NamespaceAssumption
  <2>2. up[n] \in Dirs /\ up[up[n]] \in S
    BY <2>1
  <2>3. Root \notin S
    BY <2>1, NamespaceAssumption
  <2>4. n \in Dirs /\ up[n] # Root
    BY <2>1, <2>3
  <2>5. up[up[n]] = Root
    BY <1>1, <2>4
  <2> QED
    BY <2>2, <2>3, <2>5
<1>6. ChecksHold
  BY DEF ChecksHold, NamespaceInit, Idle, Checked
<1>7. OneEntryEach
  BY DEF OneEntryEach, NamespaceInit
<1> QED
  BY <1>3, <1>4, <1>5, <1>6, <1>7 DEF NamespaceInv

LEMMA BeginStep ==
    ASSUME NamespaceInv, NEW t \in Threads, Begin(t)
    PROVE  NamespaceInv'
<1>1. PICK op \in {"unlink", "open", "mkdir", "rename"}, path \in Paths, new \in Paths,
           from \in {Root, cwd[t]} :
        /\ at[t] = Idle
        /\ Goto(t, [op |-> "look", cur |-> from, rest |-> path, call |-> op,
                    from |-> from, path |-> path, new |-> new, src |-> NULL])
  BY DEF Begin
<1> DEFINE b == [op |-> "look", cur |-> from, rest |-> path, call |-> op,
                 from |-> from, path |-> path, new |-> new, src |-> NULL]
<1>2. from \in Known
  BY <1>1 DEF NamespaceInv, NamespaceTypeOK
<1>3. b \in Doing(Known)
  <2>1. b \in Looking(Known)
    BY <1>1, <1>2, PathsNonempty DEF Looking
  <2> QED
    BY <2>1, DoingSets
<1>4. Held(at[t]) = {}
  BY <1>1 DEF Held, Idle
<1>5. lock' = lock /\ cwd' = cwd /\ panicked' = panicked /\ undefined' = undefined /\ NoTree
  BY DEF Begin, NoTree
<1>6. b.op = "look" /\ panicked \in BOOLEAN /\ undefined \in BOOLEAN
  BY DEF NamespaceInv, NamespaceTypeOK
<1> HIDE DEF b
<1>7. Goto(t, b) /\ b.op \notin Checked \cup {"remove", "locked", "over", "empty", "moving", "create"}
  BY <1>1, <1>6 DEF b, Checked
<1> QED
  BY <1>3, <1>4, <1>5, <1>6, <1>7, Quiet

\* Facts about a process that looks a path up or creates.
LEMMA LookFacts ==
    ASSUME NamespaceInv, NEW t \in Threads, at[t].op \in {"look", "create"}
    PROVE  /\ at[t] \in Looking(Known) /\ at[t].cur \in Known /\ at[t].cur \in Nodes
           /\ at[t].from \in Known /\ at[t].src \in Known \cup {NULL}
           /\ at[t].rest \in Seq(Names) /\ at[t].new \in Paths
           /\ at[t].rest # <<>> => Head(at[t].rest) \in Names /\ Tail(at[t].rest) \in Seq(Names)
           /\ Held(at[t]) = {}
<1>1. at[t] \in Looking(Known)
  BY DoingCases DEF NamespaceInv, NamespaceTypeOK
<1>2. Known \subseteq Nodes
  BY DEF Known
<1> QED
  BY <1>1, <1>2 DEF Looking, Held

\* The end of a call that fails without a lock.
LEMMA FailStep ==
    ASSUME NamespaceInv, NEW t \in Threads, NEW call, Fails(t, call), NoTree,
           lock' = lock, cwd' = cwd, undefined' = undefined, Held(at[t]) = {}
    PROVE  NamespaceInv'
<1>1. Goto(t, Idle) /\ panicked' \in BOOLEAN
  BY DEF Fails
<1>2. Idle \in Doing(Known) /\ Idle.op = "idle"
  BY DoingSets DEF Idle
<1>3. undefined \in BOOLEAN
  BY DEF NamespaceInv, NamespaceTypeOK
<1> QED
  BY <1>1, <1>2, <1>3, Quiet DEF Checked

LEMMA LookStep ==
    ASSUME NamespaceInv, NEW t \in Threads, lookup_path(t)
    PROVE  NamespaceInv'
<1> DEFINE a == at[t]
           x == Head(a.rest)
<1>1. a.op = "look" /\ Len(a.rest) > Stop(a) /\ lock' = lock /\ cwd' = cwd
  BY DEF lookup_path, NoLock
<1>2. a.rest # <<>>
  BY <1>1, LookFacts DEF Stop
<1>3. /\ a \in Looking(Known) /\ a.cur \in Known /\ x \in Names /\ Tail(a.rest) \in Seq(Names)
      /\ a.rest \in Seq(Names) /\ Held(a) = {}
  BY <1>1, <1>2, LookFacts
<1>4. undefined \in BOOLEAN /\ panicked \in BOOLEAN /\ lock \in [Nodes -> Threads \cup {NULL}]
  BY DEF NamespaceInv, NamespaceTypeOK
<1>5. PICK n \in IF dir[a.cur] THEN dirlookup(a.cur, x) ELSE {NULL} :
        CASE n # NULL ->
               /\ eget(a.cur, x, n)
               /\ Goto(t, [a EXCEPT !.cur = n, !.rest = Tail(@)])
               /\ UNCHANGED panicked
          [] n = NULL /\ dir[a.cur] /\ a.call \in {"open", "mkdir"} ->
               /\ Goto(t, [a EXCEPT !.op = "create"])
               /\ NoTree /\ UNCHANGED <<panicked, undefined>>
          [] OTHER -> Fails(t, a.call) /\ NoTree /\ UNCHANGED undefined
  BY DEF lookup_path
<1>6. CASE n # NULL
  <2> DEFINE b == [a EXCEPT !.cur = n, !.rest = Tail(@)]
  <2>1. eget(a.cur, x, n) /\ Goto(t, b) /\ panicked' = panicked /\ n \in dirlookup(a.cur, x)
    BY <1>5, <1>6
  <2>2. b \in Looking(Known \cup {n}) /\ b.op = "look"
    BY <1>1, <1>3 DEF Looking
  <2>3. b \in Doing(Known \cup {n})
    BY <2>2, DoingSets
  <2> HIDE DEF b, x
  <2>4. Held(b) = {}
    BY <2>2 DEF Held
  <2>5. Grip(t, b)
    BY <1>1, <1>3, <1>4, <2>4, HoldsNothing DEF Grip
  <2> QED
    BY <1>1, <1>3, <1>4, <1>6, <2>1, <2>2, <2>3, <2>5, GetStep DEF Checked
<1>7. CASE n = NULL /\ dir[a.cur] /\ a.call \in {"open", "mkdir"}
  <2> DEFINE b == [a EXCEPT !.op = "create"]
  <2>1. Goto(t, b) /\ NoTree /\ panicked' = panicked /\ undefined' = undefined
    BY <1>5, <1>7
  <2>2. b \in Looking(Known) /\ b.op = "create" /\ b.rest = a.rest
    BY <1>3 DEF Looking
  <2>3. b \in Doing(Known)
    BY <2>2, DoingSets
  <2> HIDE DEF b
  <2> QED
    BY <1>1, <1>2, <1>3, <1>4, <2>1, <2>2, <2>3, Quiet DEF Checked
<1>8. CASE n = NULL /\ ~(dir[a.cur] /\ a.call \in {"open", "mkdir"})
  <2>1. Fails(t, a.call) /\ NoTree /\ undefined' = undefined
    BY <1>5, <1>8
  <2> QED
    BY <1>1, <1>3, <1>4, <2>1, FailStep
<1> QED
  BY <1>6, <1>7, <1>8

LEMMA FoundStep ==
    ASSUME NamespaceInv, NEW t \in Threads, Found(t)
    PROVE  NamespaceInv'
<1> DEFINE a == at[t]
<1>1. a.op = "look" /\ Len(a.rest) = Stop(a)
  BY DEF Found
<1>2. lock' = lock /\ cwd' = cwd /\ NoTree /\ undefined' = undefined
  BY DEF Found, NoTree
<1>3. undefined \in BOOLEAN /\ panicked \in BOOLEAN
  BY DEF NamespaceInv, NamespaceTypeOK
<1>4. a \in Looking(Known) /\ Held(a) = {}
  BY <1>1, LookFacts
<1>5. ASSUME NEW b \in Doing(Known), Goto(t, b), panicked' = panicked,
             b.op \in {"unlink", "create", "look", "check", "idle"}, b.op = "create" => b.rest # <<>>
      PROVE  NamespaceInv'
  BY <1>2, <1>3, <1>4, <1>5, Quiet DEF Checked
<1>6. CASE a.call = "unlink"
  <2> DEFINE b == [op |-> "unlink", ep |-> a.cur]
  <2>1. (Goto(t, b) \/ Goto(t, Idle)) /\ panicked' = panicked
    BY <1>6 DEF Found
  <2>2. b \in Single(Known) /\ b.op = "unlink" /\ Idle.op = "idle"
    BY <1>4 DEF Looking, Single, Idle
  <2> HIDE DEF b
  <2>3. b \in Doing(Known) /\ Idle \in Doing(Known)
    BY <2>2, DoingSets
  <2> QED
    BY <1>5, <2>1, <2>2, <2>3
<1>7. CASE a.call \in {"open", "mkdir"}
  <2> DEFINE b == [a EXCEPT !.op = "create"]
  <2>1. Goto(t, b) /\ panicked' = panicked
    BY <1>7 DEF Found
  <2>2. b \in Looking(Known) /\ b.op = "create" /\ b.rest = a.rest
    BY <1>4 DEF Looking
  <2>3. a.rest # <<>>
    <3>1. Stop(a) = 1
      BY <1>7 DEF Stop
    <3> QED
      BY <3>1, <1>1
  <2> HIDE DEF b
  <2>4. b \in Doing(Known)
    BY <2>2, DoingSets
  <2> QED
    BY <1>5, <2>1, <2>2, <2>3, <2>4
<1>8. CASE a.call = "rename" /\ a.src = NULL
  <2> DEFINE b == [a EXCEPT !.src = a.cur, !.cur = a.from, !.rest = a.new]
  <2>1. Goto(t, b) /\ panicked' = panicked
    BY <1>8 DEF Found
  <2>2. a.new \in Seq(Names)
    BY <1>4, PathsNonempty DEF Looking
  <2>3. b \in Looking(Known) /\ b.op = "look"
    BY <2>2, <1>1, <1>4 DEF Looking
  <2> HIDE DEF b
  <2>4. b \in Doing(Known)
    BY <2>3, DoingSets
  <2> QED
    BY <1>5, <2>1, <2>3, <2>4
<1>9. CASE a.call = "rename" /\ a.src # NULL /\ dir[a.cur]
  <2> DEFINE b == [op |-> "check", src |-> a.src, pdst |-> a.cur, new |-> Head(a.rest)]
  <2>1. Goto(t, b) /\ panicked' = panicked
    BY <1>9 DEF Found
  <2>2. a.rest # <<>>
    <3>1. Stop(a) = 1
      BY <1>9 DEF Stop
    <3> QED
      BY <3>1, <1>1
  <2>3. Head(a.rest) \in Names
    BY <1>1, <2>2, LookFacts
  <2>4. b \in Moving(Known) /\ b.op = "check"
    BY <2>3, <1>4, <1>9 DEF Looking, Moving
  <2> HIDE DEF b
  <2>5. b \in Doing(Known)
    BY <2>4, DoingSets
  <2> QED
    BY <1>5, <2>1, <2>4, <2>5
<1>10. CASE a.call = "rename" /\ a.src # NULL /\ ~dir[a.cur]
  <2>1. Fails(t, a.call)
    BY <1>10 DEF Found
  <2> QED
    BY <1>2, <1>4, <2>1, FailStep
<1> QED
  BY <1>4, <1>6, <1>7, <1>8, <1>9, <1>10 DEF Looking

LEMMA DoneStep ==
    ASSUME NamespaceInv, NEW t \in Threads, create_done(t)
    PROVE  NamespaceInv'
<1>1. /\ Goto(t, Idle) /\ lock' = lock /\ cwd' = cwd /\ NoTree
      /\ undefined' = undefined /\ panicked' = panicked
  BY DEF create_done, NoTree
<1>2. Idle \in Doing(Known) /\ Idle.op = "idle"
  BY DoingSets DEF Idle
<1>3. Held(at[t]) = {}
  BY DEF create_done, Held
<1>4. undefined \in BOOLEAN /\ panicked \in BOOLEAN
  BY DEF NamespaceInv, NamespaceTypeOK
<1> QED
  BY <1>1, <1>2, <1>3, <1>4, Quiet DEF Checked

LEMMA CheckStep ==
    ASSUME NamespaceInv, NEW t \in Threads, rename_check(t)
    PROVE  NamespaceInv'
<1> DEFINE a == at[t]
           b == [a EXCEPT !.op = "rename"]
<1>1. a.op = "check" /\ lock' = lock /\ cwd' = cwd /\ NoTree /\ undefined' = undefined
  BY DEF rename_check, NoTree
<1>2. a \in Moving(Known) /\ Held(a) = {} /\ undefined \in BOOLEAN /\ panicked \in BOOLEAN
  BY <1>1, DoingCases DEF NamespaceInv, NamespaceTypeOK, Held
<1>3. CASE a.src \in Above(a.pdst)
  <2>1. Fails(t, "rename")
    BY <1>3 DEF rename_check
  <2> QED
    BY <1>1, <1>2, <2>1, FailStep
<1>4. CASE a.src \notin Above(a.pdst)
  <2>1. b \in Moving(Known) /\ b.op = "rename" /\ b.src = a.src /\ b.pdst = a.pdst
    BY <1>2 DEF Moving
  <2>2. Goto(t, b) /\ panicked' = panicked
    BY <1>4 DEF rename_check
  <2> HIDE DEF b
  <2>3. b \in Doing(Known)
    BY <2>1, DoingSets
  <2> QED
    BY <1>1, <1>2, <1>4, <2>1, <2>2, <2>3, Quiet
<1> QED
  BY <1>3, <1>4

LEMMA SrcStep ==
    ASSUME NamespaceInv, NEW t \in Threads, rename_src(t)
    PROVE  NamespaceInv'
<1> DEFINE a == at[t]
           b == [a EXCEPT !.op = "locked"]
<1>1. /\ a.op = "rename" /\ Goto(t, b) /\ lock' = [lock EXCEPT ![a.src] = t]
      /\ cwd' = cwd /\ NoTree /\ undefined' = undefined /\ panicked' = panicked
  BY DEF rename_src, NoTree
<1>2. a \in Moving(Known) /\ Held(a) = {} /\ undefined \in BOOLEAN /\ panicked \in BOOLEAN
  BY <1>1, DoingCases DEF NamespaceInv, NamespaceTypeOK, Held
<1>3. b \in Moving(Known) /\ b.op = "locked" /\ b.src = a.src /\ b.pdst = a.pdst /\ a.src \in Nodes
  BY <1>2 DEF Moving, Known
<1>4. b \in Doing(Known)
  BY <1>3, DoingSets
<1>5. ~undefined => a.src \notin Above(a.pdst)
  BY <1>1 DEF NamespaceInv, ChecksHold, Checked
<1> HIDE DEF b
<1>6. Held(b) = {a.src}
  BY <1>3 DEF Held
<1>7. Grip(t, b)
  BY <1>1, <1>2, <1>3, <1>6, HoldsNothing DEF Grip, rename_src, Free, NamespaceInv, NamespaceTypeOK
<1> QED
  BY <1>1, <1>2, <1>3, <1>4, <1>5, <1>7, TreeKept

LEMMA OverStep ==
    ASSUME NamespaceInv, NEW t \in Threads, rename_over(t)
    PROVE  NamespaceInv'
<1> DEFINE a == at[t]
           b == [a EXCEPT !.op = "empty"]
<1>1. a.op = "over" /\ cwd' = cwd /\ NoTree /\ undefined' = undefined /\ panicked' = panicked
  BY DEF rename_over, NoTree
<1>2. a \in Overwriting(Known) /\ undefined \in BOOLEAN /\ panicked \in BOOLEAN /\ Held(a) = {a.src}
  BY <1>1, DoingCases DEF NamespaceInv, NamespaceTypeOK, Held
<1>3. ASSUME NEW n \in Nodes PROVE lock[n] = t <=> n = a.src
  BY <1>2, NamespaceAssumption DEF NamespaceInv, LocksOwned
<1>4. /\ lock \in [Nodes -> Threads \cup {NULL}] /\ a.src \in Nodes /\ a.dst \in Nodes
      /\ a.dst # a.src
  BY <1>1, <1>2 DEF NamespaceInv, NamespaceTypeOK, Overwriting, Known
<1>5. CASE isdirempty(a.dst)
  <2>1. Goto(t, b) /\ lock' = [lock EXCEPT ![a.dst] = t]
    BY <1>5 DEF rename_over
  <2>2. b \in Overwriting(Known) /\ b.op = "empty" /\ b.src = a.src /\ b.pdst = a.pdst /\ b.dst = a.dst
    BY <1>2 DEF Overwriting
  <2>3. b \in Doing(Known)
    BY <2>2, DoingSets
  <2>4. ~undefined => a.src \notin Above(a.pdst) /\ parent[a.dst] = a.pdst
    BY <1>1 DEF NamespaceInv, ChecksHold, Checked
  <2> HIDE DEF b
  <2>5. Held(b) = {a.src, a.dst}
    BY <2>2 DEF Held
  <2>6. Free(a.dst)
    BY DEF rename_over
  <2>7. Grip(t, b)
    BY <1>3, <1>4, <2>1, <2>5, <2>6 DEF Grip, Free
  <2> QED
    BY <1>1, <1>2, <1>4, <2>1, <2>2, <2>3, <2>4, <2>7, TreeKept
<1>6. CASE ~isdirempty(a.dst)
  <2>1. Goto(t, Idle) /\ Unlock({a.src})
    BY <1>6 DEF rename_over
  <2> QED
    BY <1>1, <1>2, <2>1, GiveUp
<1> QED
  BY <1>5, <1>6

LEMMA UnlinkLockStep ==
    ASSUME NamespaceInv, NEW t \in Threads, unlink_lock(t)
    PROVE  NamespaceInv'
<1> DEFINE e == at[t].ep
           b == [op |-> "remove", ep |-> e]
<1>1. at[t].op = "unlink" /\ cwd' = cwd /\ NoTree /\ undefined' = undefined /\ panicked' = panicked
  BY DEF unlink_lock, NoTree
<1>2. e \in Known /\ e \in Nodes /\ Held(at[t]) = {} /\ undefined \in BOOLEAN /\ panicked \in BOOLEAN
  <2>1. at[t] \in Single(Known) /\ undefined \in BOOLEAN /\ panicked \in BOOLEAN
    BY <1>1, DoingCases DEF NamespaceInv, NamespaceTypeOK
  <2>2. Held(at[t]) = {}
    BY <1>1 DEF Held
  <2>3. Known \subseteq Nodes
    BY DEF Known
  <2> QED
    BY <2>1, <2>2, <2>3 DEF Single
<1>3. CASE dir[e] /\ ~isdirempty(e)
  <2>1. Goto(t, Idle) /\ lock' = lock
    BY <1>3 DEF unlink_lock, NoLock
  <2>2. Idle \in Doing(Known) /\ Idle.op = "idle"
    BY DoingSets DEF Idle
  <2> QED
    BY <1>1, <1>2, <2>1, <2>2, Quiet DEF Checked
<1>4. CASE ~(dir[e] /\ ~isdirempty(e))
  <2>1. Goto(t, b) /\ lock' = [lock EXCEPT ![e] = t]
    BY <1>4 DEF unlink_lock
  <2>2. b \in Single(Known) /\ b.op = "remove" /\ Held(b) = {e}
    BY <1>2 DEF Single, Held
  <2>3. b \in Doing(Known)
    BY <2>2, DoingSets
  <2> HIDE DEF b
  <2>4. Free(e)
    BY DEF unlink_lock
  <2>5. Grip(t, b)
    BY <1>2, <2>1, <2>2, <2>4, HoldsNothing DEF Grip, Free, NamespaceInv, NamespaceTypeOK
  <2> QED
    BY <1>1, <1>2, <2>1, <2>2, <2>3, <2>5, TreeKept DEF Checked
<1> QED
  BY <1>3, <1>4

LEMMA UnlinkRemoveStep ==
    ASSUME NamespaceInv, NEW t \in Threads, unlink_remove(t)
    PROVE  NamespaceInv'
<1> DEFINE e == at[t].ep
<1>1. /\ at[t].op = "remove" /\ cwd' = cwd /\ parent' = parent /\ name' = name /\ dir' = dir
      /\ Goto(t, Idle) /\ Unlock({e}) /\ eremove(e)
      /\ file' = file /\ panicked' = panicked /\ undefined' = undefined
  BY DEF unlink_remove
<1>2. e \in Known /\ e \in Nodes /\ Held(at[t]) = {e}
  <2>1. at[t] \in Single(Known)
    BY <1>1, DoingCases DEF NamespaceInv, NamespaceTypeOK
  <2>2. Held(at[t]) = {e}
    BY <1>1 DEF Held
  <2>3. Known \subseteq Nodes
    BY DEF Known
  <2> QED
    BY <2>1, <2>2, <2>3 DEF Single
<1>3. NamespaceTypeOK /\ LocksOwned
  BY DEF NamespaceInv
<1>4. /\ Known' = Known /\ valid' \in [Nodes -> {-1, 0, 1}]
      /\ slot' \in [Nodes -> [Names -> Known \cup {NULL}]]
  <2>1. valid \in [Nodes -> {-1, 0, 1}] /\ slot \in [Nodes -> [Names -> Known \cup {NULL}]]
    BY <1>3 DEF NamespaceTypeOK
  <2>2. CASE valid[e] # 1
    BY <1>1, <2>1, <2>2 DEF eremove, Known
  <2>3. CASE valid[e] = 1
    <3>1. /\ valid' = [valid EXCEPT ![e] = -1]
          /\ slot' = [slot EXCEPT ![file[parent[e]]][name[e]] = NULL]
      BY <1>1, <2>3 DEF eremove
    <3>2. valid' \in [Nodes -> {-1, 0, 1}] /\ (\A n \in Nodes : valid'[n] # 0 <=> valid[n] # 0)
      BY <1>2, <2>1, <2>3, <3>1
    <3>3. slot' \in [Nodes -> [Names -> Known \cup {NULL}]]
      BY <2>1, <3>1
    <3> QED
      BY <3>2, <3>3 DEF Known
  <2> QED
    BY <2>2, <2>3
<1>5. Idle \in Doing(Known) /\ Idle.op = "idle"
  BY DoingSets DEF Idle
<1>6. NamespaceTypeOK'
  <2>1. /\ at' \in [Threads -> Doing(Known')]
        /\ \A u \in Threads : /\ at'[u].op = "create" => at'[u].rest # <<>>
                              /\ at'[u].op \in {"over", "empty"} => at'[u].dst # at'[u].src
    BY <1>1, <1>3, <1>4, <1>5, AtStep
  <2>2. lock' \in [Nodes -> Threads \cup {NULL}] /\ undefined' \in BOOLEAN
    BY <1>1, <1>3 DEF Unlock, NamespaceTypeOK
  <2> QED
    BY <1>1, <1>3, <1>4, <2>1, <2>2 DEF NamespaceTypeOK
<1>7. LocksOwned'
  BY <1>1, <1>2, <1>3, GripNone, LockStep
<1>8. ~undefined' => (Acyclic /\ ChecksHold /\ OneEntryEach)'
  BY <1>1, <1>3, <1>5, StillStep DEF NamespaceInv, Checked
<1> QED
  BY <1>6, <1>7, <1>8 DEF NamespaceInv

LEMMA RenameDoneStep ==
    ASSUME NamespaceInv, NEW t \in Threads, rename_done(t)
    PROVE  NamespaceInv'
<1> DEFINE a == at[t]
<1>1. /\ a.op = "moving" /\ cwd' = cwd /\ name' = name /\ dir' = dir
      /\ valid' = [valid EXCEPT ![a.src] = 1]
      /\ slot' = IF valid[a.src] = 1 THEN [slot EXCEPT ![file[parent[a.src]]][a.old] = NULL] ELSE slot
      /\ parent' = [parent EXCEPT ![a.src] = a.pdst]
      /\ Goto(t, Idle) /\ Unlock({a.src}) /\ undefined' = (undefined \/ Overlaps(t))
      /\ file' = file /\ panicked' = panicked
  BY DEF rename_done
<1>2. a \in Moved(Known) /\ Held(a) = {a.src}
  BY <1>1, DoingCases DEF NamespaceInv, NamespaceTypeOK, Held
<1>3. a.src \in Known /\ a.pdst \in Known /\ a.src \in Nodes /\ a.pdst \in Nodes
  BY <1>2 DEF Moved, Known
<1>4. NamespaceTypeOK /\ LocksOwned
  BY DEF NamespaceInv
<1>5. Known' = Known /\ valid' \in [Nodes -> {-1, 0, 1}]
  <2>1. valid' \in [Nodes -> {-1, 0, 1}] /\ (\A n \in Nodes : valid'[n] # 0 <=> valid[n] # 0)
    BY <1>1, <1>3, <1>4 DEF NamespaceTypeOK, Known
  <2> QED
    BY <2>1 DEF Known
<1>6. Idle \in Doing(Known) /\ Idle.op = "idle"
  BY DoingSets DEF Idle
<1>7. NamespaceTypeOK'
  <2>1. /\ at' \in [Threads -> Doing(Known')]
        /\ \A u \in Threads : /\ at'[u].op = "create" => at'[u].rest # <<>>
                              /\ at'[u].op \in {"over", "empty"} => at'[u].dst # at'[u].src
    BY <1>1, <1>4, <1>5, <1>6, AtStep
  <2>2. lock' \in [Nodes -> Threads \cup {NULL}] /\ undefined' \in BOOLEAN
    BY <1>1, <1>4 DEF Unlock, Overlaps, NamespaceTypeOK
  <2>3. parent' \in [Nodes -> Known \cup {NULL}] /\ slot' \in [Nodes -> [Names -> Known \cup {NULL}]]
    BY <1>1, <1>3, <1>4 DEF NamespaceTypeOK
  <2> QED
    BY <1>1, <1>4, <1>5, <2>1, <2>2, <2>3 DEF NamespaceTypeOK
<1>8. LocksOwned'
  BY <1>1, <1>2, <1>4, GripNone, LockStep
<1>9. ASSUME ~undefined' PROVE (Acyclic /\ ChecksHold /\ OneEntryEach)'
  <2>1. Acyclic /\ OneEntryEach /\ ~Overlaps(t) /\ a.src \notin Above(a.pdst)
    BY <1>1, <1>9 DEF NamespaceInv, ChecksHold, Checked
  <2>2. Acyclic'
    BY <1>1, <1>3, <1>4, <2>1, MoveBelow
  <2> QED
    BY <1>1, <1>4, <1>6, <2>1, <2>2, ChangeStep DEF Checked
<1> QED
  BY <1>7, <1>8, <1>9 DEF NamespaceInv

\* The end of rename_pdst() and rename_remove(): nothing gets a new parent
\* before rename_done().
LEMMA MoveStep ==
    ASSUME NamespaceInv, NEW t \in Threads, NEW gone \in Known \cup {NULL},
           at[t].op \in {"locked", "empty"}, NEW offset \in BOOLEAN,
           NEW c \in emake(file[at[t].pdst], at[t].new, file[at[t].src], offset),
           Move(t, at[t], gone, offset, c), Free(at[t].pdst),
           Held(at[t]) = {at[t].src} \cup ({gone} \ {NULL}), gone # at[t].src
    PROVE  NamespaceInv'
<1> DEFINE a == at[t]
           here == parent[a.src] = a.pdst
           put == [slot EXCEPT ![file[a.pdst]] = c]
           on == [op |-> "moving", src |-> a.src, pdst |-> a.pdst, old |-> name[a.src]]
<1>1. NamespaceTypeOK /\ LocksOwned
  BY DEF NamespaceInv
<1>2. a.src \in Known /\ a.pdst \in Known /\ a.src \in Nodes /\ a.pdst \in Nodes /\ a.new \in Names
  <2>1. a \in Moving(Known) \cup Overwriting(Known)
    BY <1>1, DoingCases DEF NamespaceTypeOK
  <2>2. Known \subseteq Nodes
    BY DEF Known
  <2> QED
    BY <2>1, <2>2 DEF Moving, Overwriting
<1>3. /\ undefined' = (undefined \/ Overlaps(t) \/ ~offset)
      /\ name' = [name EXCEPT ![a.src] = a.new]
      /\ slot' = IF here /\ valid[a.src] = 1 THEN [put EXCEPT ![file[a.pdst]][name[a.src]] = NULL] ELSE put
      /\ valid' = [n \in Nodes |-> IF here /\ n = a.src THEN 1 ELSE IF n = gone THEN -1 ELSE valid[n]]
      /\ parent' = parent /\ dir' = dir /\ file' = file /\ cwd' = cwd /\ panicked' = panicked
  BY DEF Move
<1>4. Known' = Known /\ valid' \in [Nodes -> {-1, 0, 1}]
  <2>1. valid \in [Nodes -> {-1, 0, 1}]
    BY <1>1 DEF NamespaceTypeOK
  <2>2. valid' \in [Nodes -> {-1, 0, 1}] /\ (\A n \in Nodes : valid'[n] # 0 <=> valid[n] # 0)
    BY <2>1, <1>2, <1>3, NamespaceAssumption DEF Known
  <2> QED
    BY <2>2 DEF Known
<1>5. slot' \in [Nodes -> [Names -> Known \cup {NULL}]]
  <2>1. slot \in [Nodes -> [Names -> Known \cup {NULL}]]
    BY <1>1 DEF NamespaceTypeOK
  <2>2. put \in [Nodes -> [Names -> Known \cup {NULL}]]
    <3>1. file[a.pdst] \in Nodes /\ file[a.src] \in Known
      BY <1>1, <1>2 DEF NamespaceTypeOK
    <3>2. c \in [Names -> Known \cup {NULL}]
      BY <2>1, <3>1 DEF emake
    <3> QED
      BY <2>1, <3>1, <3>2
  <2> HIDE DEF put
  <2> QED
    BY <2>2, <1>3
<1>6. name' \in [Nodes -> Names \cup {NULL}]
  BY <1>1, <1>2, <1>3 DEF NamespaceTypeOK
<1>7. PICK b \in {Idle, on} : Goto(t, b) /\ Grip(t, b)
  <2>1. lock \in [Nodes -> Threads \cup {NULL}] /\ lock[a.pdst] = NULL
    BY <1>1 DEF NamespaceTypeOK, Free
  <2>2. ASSUME NEW n \in Nodes PROVE lock[n] = t <=> n \in {a.src, gone}
    BY <1>1, NamespaceAssumption DEF LocksOwned, Known
  <2>3. CASE here
    <3>1. Goto(t, Idle) /\ Unlock({a.src, a.pdst, gone})
      BY <2>3 DEF Move
    <3>2. Held(Idle) = {}
      BY DEF Held, Idle
    <3>3. Grip(t, Idle)
      BY <3>1, <3>2, <2>1, <2>2 DEF Grip, Unlock
    <3> QED
      BY <3>1, <3>3
  <2>4. CASE ~here
    <3>1. /\ Goto(t, on)
          /\ lock' = [n \in Nodes |-> IF n \in {a.pdst, gone} THEN NULL
                                       ELSE IF n = a.src THEN t ELSE lock[n]]
      BY <2>4 DEF Move
    <3>2. Held(on) = {a.src}
      BY DEF Held
    <3> HIDE DEF on
    <3>3. gone # a.src /\ a.pdst # a.src
      BY <1>2, <2>1, <2>2, NamespaceAssumption
    <3>4. Grip(t, on)
      BY <3>1, <3>2, <3>3, <1>2, <2>1, <2>2 DEF Grip
    <3> QED
      BY <3>1, <3>4
  <2> QED
    BY <2>3, <2>4
<1>8. name[a.src] \in Names \cup {NULL}
  BY <1>1, <1>2 DEF NamespaceTypeOK
<1>9. b \in Doing(Known) /\ b.op \in {"idle", "moving"} /\ (b.op = "moving" => b.src = a.src /\ b.pdst = a.pdst)
  <2>1. on \in Moved(Known)
    BY <1>2, <1>8 DEF Moved
  <2> QED
    BY <2>1, <1>7, DoingSets DEF Idle
<1>10. NamespaceTypeOK'
  <2>1. /\ at' \in [Threads -> Doing(Known')]
        /\ \A u \in Threads : /\ at'[u].op = "create" => at'[u].rest # <<>>
                              /\ at'[u].op \in {"over", "empty"} => at'[u].dst # at'[u].src
    BY <1>1, <1>4, <1>7, <1>9, AtStep
  <2>2. undefined' \in BOOLEAN
    BY <1>1, <1>3 DEF NamespaceTypeOK
  <2> QED
    BY <1>1, <1>3, <1>4, <1>5, <1>6, <1>7, <2>1, <2>2 DEF NamespaceTypeOK, Grip
<1>11. LocksOwned'
  BY <1>1, <1>7, LockStep
<1>12. ASSUME ~undefined' PROVE (Acyclic /\ ChecksHold /\ OneEntryEach)'
  <2>1. Acyclic /\ ChecksHold /\ OneEntryEach /\ a.src \notin Above(a.pdst)
    BY <1>3, <1>12 DEF NamespaceInv, ChecksHold, Checked
  <2> QED
    BY <1>1, <1>3, <1>7, <1>9, <2>1, StillStep DEF Checked
<1> QED
  BY <1>10, <1>11, <1>12 DEF NamespaceInv

\* Nothing changes but that the kernel has stopped.
LEMMA PanicStep ==
    ASSUME NamespaceInv, panicked' = TRUE, UNCHANGED <<treeVars, lock, cwd, at, calls, undefined>>
    PROVE  NamespaceInv'
<1>1. /\ parent' = parent /\ name' = name /\ dir' = dir /\ valid' = valid /\ file' = file /\ slot' = slot
      /\ lock' = lock /\ cwd' = cwd /\ at' = at /\ undefined' = undefined
  BY DEF treeVars
<1> QED
  BY <1>1, SameStep

LEMMA PlaceStep ==
    ASSUME NamespaceInv, NEW t \in Threads, NEW gone \in Known \cup {NULL},
           at[t].op \in {"locked", "empty"}, Place(t, at[t], gone), Free(at[t].pdst),
           Held(at[t]) = {at[t].src} \cup ({gone} \ {NULL}), gone # at[t].src
    PROVE  NamespaceInv'
<1> DEFINE offset == gone = NULL /\ valid[at[t].pdst] = 1
<1>1. offset \in BOOLEAN
  OBVIOUS
<1>2. \/ \E c \in emake(file[at[t].pdst], at[t].new, file[at[t].src], offset) : Move(t, at[t], gone, offset, c)
      \/ panicked' = TRUE /\ UNCHANGED <<treeVars, lock, cwd, at, calls, undefined>>
  BY DEF Place
<1> HIDE DEF offset
<1> QED
  BY <1>1, <1>2, MoveStep, PanicStep

LEMMA RemoveStep ==
    ASSUME NamespaceInv, NEW t \in Threads, rename_remove(t)
    PROVE  NamespaceInv'
<1>1. at[t].op = "empty" /\ Place(t, at[t], at[t].dst) /\ Free(at[t].pdst)
  BY DEF rename_remove
<1>2. at[t] \in Overwriting(Known)
  BY <1>1, DoingCases DEF NamespaceInv, NamespaceTypeOK
<1>3. at[t].dst \in Known /\ at[t].dst # NULL /\ at[t].dst # at[t].src
  BY <1>1, <1>2, NamespaceAssumption DEF Overwriting, Known, NamespaceInv, NamespaceTypeOK
<1>4. Held(at[t]) = {at[t].src} \cup ({at[t].dst} \ {NULL})
  BY <1>1, <1>3 DEF Held
<1> QED
  BY <1>1, <1>3, <1>4, PlaceStep

LEMMA PdstStep ==
    ASSUME NamespaceInv, NEW t \in Threads, rename_pdst(t)
    PROVE  NamespaceInv'
<1> DEFINE a == at[t]
<1>1. a.op = "locked" /\ Free(a.pdst)
  BY DEF rename_pdst
<1>2. a \in Moving(Known) /\ NamespaceTypeOK
  BY <1>1, DoingCases DEF NamespaceInv, NamespaceTypeOK
<1>3. a.src \in Known /\ a.pdst \in Known /\ a.src \in Nodes /\ a.pdst \in Nodes /\ a.new \in Names
  BY <1>2 DEF Moving, Known
<1>4. Held(a) = {a.src}
  BY <1>1 DEF Held
<1>5. PICK dst \in dirlookup(a.pdst, a.new) :
        IF dst = NULL THEN Place(t, a, NULL)
        ELSE /\ eget(a.pdst, a.new, dst)
             /\ IF dst # a.src /\ dir'[dst] /\ dir[a.src]
                THEN Goto(t, [op |-> "over", src |-> a.src, pdst |-> a.pdst,
                              new |-> a.new, dst |-> dst]) /\ NoLock
                ELSE Goto(t, Idle) /\ Unlock({a.src})
             /\ UNCHANGED <<cwd, calls, panicked>>
  BY DEF rename_pdst
<1>6. CASE dst = NULL
  <2>1. Place(t, a, NULL) /\ NULL # a.src
    BY <1>3, <1>5, <1>6, NamespaceAssumption
  <2> QED
    BY <1>1, <1>4, <2>1, PlaceStep
<1>7. CASE dst # NULL
  <2>1. eget(a.pdst, a.new, dst) /\ cwd' = cwd /\ panicked' = panicked
    BY <1>5, <1>7
  <2>2. panicked \in BOOLEAN /\ lock \in [Nodes -> Threads \cup {NULL}]
    BY <1>2 DEF NamespaceTypeOK
  <2>3. ASSUME NEW n \in Nodes PROVE lock[n] = t <=> n = a.src
    BY <1>4, NamespaceAssumption DEF NamespaceInv, LocksOwned
  <2>4. CASE dst # a.src /\ dir'[dst] /\ dir[a.src]
    <3> DEFINE b == [op |-> "over", src |-> a.src, pdst |-> a.pdst, new |-> a.new, dst |-> dst]
    <3>1. Goto(t, b) /\ lock' = lock
      BY <1>5, <1>7, <2>4 DEF NoLock
    <3>2. /\ b \in Overwriting(Known \cup {dst}) /\ b.op = "over" /\ b.src = a.src /\ b.pdst = a.pdst
          /\ b.dst = dst /\ Held(b) = {a.src}
      BY <1>3 DEF Overwriting, Held
    <3> HIDE DEF b
    <3>3. b \in Doing(Known \cup {dst})
      BY <3>2, DoingSets
    <3>4. Grip(t, b)
      BY <1>3, <2>2, <2>3, <3>1, <3>2 DEF Grip
    <3>5. ASSUME ~undefined' PROVE parent[dst] = a.pdst /\ a.src \notin Above(a.pdst)
      <4>1. valid[dst] # 0 /\ undefined' = undefined
        BY <2>1, <3>5 DEF eget
      <4>2. parent[dst] = a.pdst
        BY <1>2, <1>3, <1>7, <4>1, LookupKnown DEF Fresh
      <4>3. a.src \notin Above(a.pdst)
        BY <1>1, <3>5, <4>1 DEF NamespaceInv, ChecksHold, Checked
      <4> QED
        BY <4>2, <4>3
    <3> QED
      BY <1>3, <1>7, <2>1, <2>2, <2>4, <3>1, <3>2, <3>3, <3>4, <3>5, GetStep
  <2>5. CASE ~(dst # a.src /\ dir'[dst] /\ dir[a.src])
    <3>1. Goto(t, Idle) /\ Unlock({a.src})
      BY <1>5, <1>7, <2>5
    <3>2. Idle \in Doing(Known \cup {dst}) /\ Idle.op = "idle"
      BY DoingSets DEF Idle
    <3>3. Grip(t, Idle)
      BY <1>4, <3>1, GripNone DEF NamespaceInv
    <3> QED
      BY <1>3, <1>7, <2>1, <2>2, <3>1, <3>2, <3>3, GetStep DEF Checked
  <2> QED
    BY <2>4, <2>5
<1> QED
  BY <1>6, <1>7

LEMMA NewEntryStep ==
    ASSUME NamespaceInv, NEW t \in Threads, NEW b, Goto(t, b), cwd' = cwd, panicked' = panicked,
           NEW d \in Known, NEW x \in Names, NEW n \in Nodes, valid[n] = 0, NEW isdir \in BOOLEAN,
           NewEntry(d, x, n, isdir), b \in Doing(Known \cup {n}), b.op \in {"idle", "opened", "create"},
           b.op = "create" => b.rest # <<>>, Grip(t, b)
    PROVE  NamespaceInv'
<1>1. NamespaceTypeOK /\ LocksOwned /\ d \in Nodes
  BY DEF NamespaceInv, Known
<1>2. /\ parent' = [parent EXCEPT ![n] = d] /\ name' = [name EXCEPT ![n] = x]
      /\ dir' = [dir EXCEPT ![n] = isdir] /\ valid' = [valid EXCEPT ![n] = 1]
      /\ slot' = [slot EXCEPT ![file[d]][x] = n] /\ file' = file /\ undefined' = undefined
  BY DEF NewEntry
<1>3. Known' = Known \cup {n} /\ valid' \in [Nodes -> {-1, 0, 1}]
  BY <1>1, <1>2 DEF Known, NamespaceTypeOK
<1>4. NamespaceTypeOK'
  <2>1. /\ at' \in [Threads -> Doing(Known')]
        /\ \A u \in Threads : /\ at'[u].op = "create" => at'[u].rest # <<>>
                              /\ at'[u].op \in {"over", "empty"} => at'[u].dst # at'[u].src
    BY <1>1, <1>3, AtStep
  <2>2. parent' \in [Nodes -> Known' \cup {NULL}] /\ slot' \in [Nodes -> [Names -> Known' \cup {NULL}]]
    BY <1>1, <1>2, <1>3 DEF NamespaceTypeOK
  <2>3. name' \in [Nodes -> Names \cup {NULL}] /\ dir' \in [Nodes -> BOOLEAN]
    BY <1>1, <1>2 DEF NamespaceTypeOK
  <2>4. file' \in [Nodes -> Nodes] /\ \A k \in Nodes : file'[k] \in Known' \cup {k}
    BY <1>1, <1>2, <1>3 DEF NamespaceTypeOK
  <2>5. /\ cwd' \in [Threads -> Known'] /\ Root \in Known' /\ lock' \in [Nodes -> Threads \cup {NULL}]
        /\ undefined' \in BOOLEAN /\ panicked' \in BOOLEAN
    BY <1>1, <1>2, <1>3 DEF NamespaceTypeOK, Grip
  <2> QED
    BY <1>3, <2>1, <2>2, <2>3, <2>4, <2>5 DEF NamespaceTypeOK
<1>5. LocksOwned'
  BY <1>1, LockStep
<1>6. ASSUME ~undefined' PROVE (Acyclic /\ ChecksHold /\ OneEntryEach)'
  <2>1. Acyclic /\ ChecksHold /\ OneEntryEach
    BY <1>2, <1>6 DEF NamespaceInv
  <2>2. Acyclic' /\ OneEntryEach'
    BY <1>1, <1>2, <2>1, NewLeaf DEF OneEntryEach
  <2>3. ASSUME NEW u \in Threads, at'[u].op \in Checked
        PROVE  /\ at'[u].src \notin Above(at[u].pdst)'
               /\ at'[u].op \in {"over", "empty"} => parent'[at'[u].dst] = at'[u].pdst
    <3>1. at' = [at EXCEPT ![t] = b] /\ at \in [Threads -> Doing(Known)]
      BY <1>1 DEF NamespaceTypeOK, Goto
    <3>2. at'[u] = at[u]
      BY <2>3, <3>1 DEF Checked
    <3>3. at[u].src \in Known /\ at[u].pdst \in Known /\ (at[u].op \in {"over", "empty"} => at[u].dst \in Known)
      <4>1. at[u] \in Moving(Known) \cup Overwriting(Known) \cup Moved(Known)
        BY <2>3, <3>1, <3>2, DoingCases DEF Checked
      <4>2. at[u].op \in {"over", "empty"} => at[u] \in Overwriting(Known)
        BY <3>1, DoingCases
      <4> QED
        BY <4>1, <4>2 DEF Moving, Overwriting, Moved
    <3>4. at[u].src \notin Above(at[u].pdst)
      BY <2>1, <2>3, <3>2 DEF ChecksHold
    <3>5. at'[u].src \notin Above(at[u].pdst)'
      <4>1. PICK T \in SUBSET Nodes :
              /\ at[u].pdst \in T /\ at[u].src \notin T
              /\ \A k \in T : parent[k] \in T \cup {NULL}
        BY <3>3, <3>4 DEF Above, Known
      <4> DEFINE U == T \ {n}
      <4>2. parent \in [Nodes -> Known \cup {NULL}] /\ n \notin Known /\ NULL \notin Nodes
        BY <1>1, NamespaceAssumption DEF NamespaceTypeOK, Known
      <4>3. U \in SUBSET Nodes /\ at[u].pdst \in U /\ at[u].src \notin U
        BY <3>3, <4>1, <4>2
      <4>4. ASSUME NEW k \in U PROVE parent'[k] \in U \cup {NULL}
        BY <1>2, <4>1, <4>2
      <4> HIDE DEF U
      <4> QED
        BY <3>2, <4>3, <4>4 DEF Above
    <3>6. at[u].op \in {"over", "empty"} => parent'[at[u].dst] = at[u].pdst
      BY <1>1, <1>2, <2>1, <3>3 DEF ChecksHold, Known, NamespaceTypeOK
    <3> QED
      BY <3>2, <3>5, <3>6
  <2>4. ChecksHold'
    BY <2>3 DEF ChecksHold, Checked
  <2> QED
    BY <2>2, <2>4
<1> QED
  BY <1>4, <1>5, <1>6 DEF NamespaceInv

LEMMA CreateStep ==
    ASSUME NamespaceInv, NEW t \in Threads, create(t)
    PROVE  NamespaceInv'
<1> DEFINE a == at[t]
           x == Head(a.rest)
           last == Len(a.rest) = 1
           isdir == ~last \/ a.call = "mkdir"
           next(m) == IF last THEN [op |-> "opened", ep |-> m] ELSE [a EXCEPT !.cur = m, !.rest = Tail(@)]
<1>1. a.op = "create" /\ lock' = lock /\ cwd' = cwd /\ panicked' = panicked
  BY DEF create, NoLock
<1>2. NamespaceTypeOK /\ LocksOwned /\ panicked \in BOOLEAN /\ undefined \in BOOLEAN
  BY DEF NamespaceInv, NamespaceTypeOK
<1>3. a.rest # <<>>
  BY <1>1, <1>2 DEF NamespaceTypeOK
<1>4. /\ a \in Looking(Known) /\ a.cur \in Known /\ a.cur \in Nodes /\ Held(a) = {}
      /\ x \in Names /\ Tail(a.rest) \in Seq(Names) /\ a.rest \in Seq(Names)
  BY <1>1, <1>3, LookFacts
<1>5. PICK n \in IF dir[a.cur] THEN ealloc(a.cur, x) ELSE {NULL} :
        CASE n = NULL -> NoTree /\ UNCHANGED undefined /\ Goto(t, Idle)
          [] n # NULL /\ dirlookup(a.cur, x) # {NULL} ->
               eget(a.cur, x, n) /\ Goto(t, IF dir'[n] = isdir THEN next(n) ELSE Idle)
          [] OTHER -> NewEntry(a.cur, x, n, isdir) /\ Goto(t, next(n))
  BY DEF create
<1>6. isdir \in BOOLEAN
  OBVIOUS
<1>7. Tail(a.rest) # <<>> \/ last
  <2>1. Len(Tail(a.rest)) = Len(a.rest) - 1 /\ Len(a.rest) \in Nat
    BY <1>3, <1>4
  <2>2. Tail(a.rest) = <<>> => Len(Tail(a.rest)) = 0
    <3>1. Len(<<>>) = 0
      OBVIOUS
    <3> QED
      BY <3>1, Zenon
  <2>3. Len(Tail(a.rest)) = 0 => last
    BY <2>1
  <2> HIDE DEF last
  <2> QED
    BY ONLY <2>2, <2>3
<1>8. ASSUME NEW b \in {next(n), Idle}
      PROVE  /\ b \in Doing(Known \cup {n}) /\ b.op \in {"idle", "opened", "create"}
             /\ b.op = "create" => b.rest # <<>>
  <2>1. CASE b = Idle
    BY <2>1, DoingSets DEF Idle
  <2>2. CASE b = [op |-> "opened", ep |-> n]
    <3>1. b \in Single(Known \cup {n}) /\ b.op = "opened"
      BY <2>2 DEF Single
    <3> QED
      BY <3>1, DoingSets
  <2>3. CASE b = [a EXCEPT !.cur = n, !.rest = Tail(@)] /\ ~last
    <3>1. b \in Looking(Known \cup {n}) /\ b.op = "create" /\ b.rest = Tail(a.rest)
      BY <2>3, <1>1, <1>4 DEF Looking
    <3> HIDE DEF last
    <3> QED
      BY <3>1, <1>7, <2>3, DoingSets
  <2> QED
    BY <1>8, <2>1, <2>2, <2>3
<1>9. ASSUME NEW b \in {next(n), Idle} PROVE Grip(t, b)
  <2> HIDE DEF next
  <2>1. Held(b) = {}
    BY <1>8 DEF Held
  <2> QED
    BY <1>1, <1>2, <1>4, <2>1, HoldsNothing DEF Grip, NamespaceTypeOK
<1>10. CASE n = NULL
  <2>1. NoTree /\ undefined' = undefined /\ Goto(t, Idle)
    BY <1>5, <1>10
  <2>2. Idle \in Doing(Known) /\ Idle.op = "idle"
    BY DoingSets DEF Idle
  <2> QED
    BY <1>1, <1>2, <1>4, <2>1, <2>2, Quiet DEF Checked
<1>11. CASE n # NULL /\ dirlookup(a.cur, x) # {NULL}
  <2> DEFINE b == IF dir'[n] = isdir THEN next(n) ELSE Idle
  <2>1. eget(a.cur, x, n) /\ Goto(t, b) /\ n \in ealloc(a.cur, x)
    BY <1>5, <1>11
  <2>2. n \in dirlookup(a.cur, x)
    BY <2>1, <1>11 DEF ealloc, OrFresh
  <2>3. b \in {next(n), Idle}
    OBVIOUS
  <2> HIDE DEF b, next, x
  <2>4. /\ b \in Doing(Known \cup {n}) /\ b.op \in {"idle", "opened", "create"}
        /\ (b.op = "create" => b.rest # <<>>) /\ Grip(t, b)
    BY <1>8, <1>9, <2>3
  <2> QED
    BY <1>1, <1>2, <1>4, <1>11, <2>1, <2>2, <2>4, GetStep DEF Checked
<1>12. CASE n # NULL /\ dirlookup(a.cur, x) = {NULL}
  <2>1. NewEntry(a.cur, x, n, isdir) /\ Goto(t, next(n)) /\ n \in ealloc(a.cur, x)
    BY <1>5, <1>12
  <2>2. n \in Nodes /\ valid[n] = 0
    BY <2>1, <1>12 DEF ealloc, OrFresh, Fresh, Nodes
  <2> DEFINE b == next(n)
  <2>3. b \in {next(n), Idle} /\ Goto(t, b)
    BY <2>1
  <2> HIDE DEF b, next, x, isdir
  <2>4. /\ b \in Doing(Known \cup {n}) /\ b.op \in {"idle", "opened", "create"}
        /\ (b.op = "create" => b.rest # <<>>) /\ Grip(t, b)
    BY <1>8, <1>9, <2>3
  <2> QED
    BY <1>1, <1>2, <1>4, <1>6, <2>1, <2>2, <2>3, <2>4, NewEntryStep
<1> QED
  BY <1>10, <1>11, <1>12

LEMMA NamespaceStep == NamespaceInv /\ [NamespaceNext]_nsVars => NamespaceInv'
<1> SUFFICES ASSUME NamespaceInv, [NamespaceNext]_nsVars PROVE NamespaceInv'
  OBVIOUS
<1>1. CASE UNCHANGED nsVars
  <2>1. /\ parent' = parent /\ name' = name /\ dir' = dir /\ valid' = valid /\ file' = file /\ slot' = slot
        /\ lock' = lock /\ cwd' = cwd /\ at' = at /\ panicked' = panicked /\ undefined' = undefined
    BY <1>1 DEF nsVars, treeVars
  <2>2. panicked \in BOOLEAN
    BY DEF NamespaceInv, NamespaceTypeOK
  <2> QED
    BY <2>1, <2>2, SameStep
<1>2. CASE NamespaceNext
  BY <1>2, BeginStep, LookStep, FoundStep, CreateStep, DoneStep, UnlinkLockStep, UnlinkRemoveStep,
     CheckStep, SrcStep, PdstStep, OverStep, RemoveStep, RenameDoneStep DEF NamespaceNext, Step
<1> QED
  BY <1>1, <1>2

\* The inductive invariant holds.  Whatever happens, the entry locks are held
\* exactly where the calls say so.  Until two renames overlap, a rename writes
\* at an offset that it never set, or a lookup makes a second entry between the
\* halves of a rename (undefined), also: the parents form a tree, what a rename
\* in progress has found out about its ancestors stays true while others create
\* and remove, and no file has a second entry in the cache.
THEOREM NamespaceInvariance == NamespaceSpec => []NamespaceInv
BY NamespaceInitial, NamespaceStep, PTL DEF NamespaceSpec

---------------------------------------------------------------------------
(* Waiting in a circle.                                                    *)

\* What a process waits for, by what it is doing.
LEMMA WantsFacts ==
    ASSUME NamespaceInv, NEW t \in Threads
    PROVE  /\ at[t].op = "remove" => Wants(t) = parent[at[t].ep]
           /\ at[t].op \in {"locked", "empty"} => Wants(t) = at[t].pdst
           /\ at[t].op = "over" => Wants(t) = at[t].dst
           /\ at[t].op = "moving" => Wants(t) = parent[at[t].src]
           /\ Wants(t) \in Nodes \cup {NULL}
<1>1. at[t] \in Doing(Known) /\ parent \in [Nodes -> Known \cup {NULL}] /\ Known \subseteq Nodes
  BY DEF NamespaceInv, NamespaceTypeOK, Known
<1>2. /\ at[t].op = "remove" => Wants(t) = parent[at[t].ep]
      /\ at[t].op \in {"locked", "empty"} => Wants(t) = at[t].pdst
      /\ at[t].op = "over" => Wants(t) = at[t].dst
      /\ at[t].op = "moving" => Wants(t) = parent[at[t].src]
  BY DEF Wants
<1>3. CASE at[t].op \in {"look", "create"}
  <2>1. at[t].cur \in Nodes
    BY <1>1, <1>3, DoingCases DEF Looking
  <2> QED
    BY <1>2, <1>3, <2>1 DEF Wants
<1>4. CASE at[t].op \in {"opened", "unlink", "remove"}
  <2>1. at[t].ep \in Nodes
    BY <1>1, <1>4, DoingCases DEF Single
  <2> QED
    BY <1>1, <1>2, <1>4, <2>1 DEF Wants
<1>5. CASE at[t].op \in {"check", "rename", "locked"}
  <2>1. at[t].src \in Nodes /\ at[t].pdst \in Nodes
    BY <1>1, <1>5, DoingCases DEF Moving
  <2> QED
    BY <1>2, <1>5, <2>1 DEF Wants
<1>6. CASE at[t].op \in {"over", "empty"}
  <2>1. at[t].dst \in Nodes /\ at[t].pdst \in Nodes
    BY <1>1, <1>6, DoingCases DEF Overwriting
  <2> QED
    BY <1>2, <1>6, <2>1 DEF Wants
<1>7. CASE at[t].op = "moving"
  <2>1. at[t].src \in Nodes
    BY <1>1, <1>7, DoingCases DEF Moved
  <2> QED
    BY <1>1, <1>2, <1>7, <2>1
<1>8. CASE at[t].op = "idle"
  BY <1>2, <1>8 DEF Wants
<1> QED
  BY <1>1, <1>3, <1>4, <1>5, <1>6, <1>7, <1>8, DoingSets
     DEF Idle, Looking, Single, Moving, Overwriting, Moved

\* The entries that the removals of ts have locked.
Removed(ts) == {at[t].ep : t \in {u \in ts : at[u].op = "remove"}}

Circle(ts) == \A t \in ts : Wants(t) # NULL /\ lock[Wants(t)] \in ts

LEMMA WantedIsHeld ==
    ASSUME NamespaceInv, NEW ts \in SUBSET Threads, Circle(ts), NEW t \in ts
    PROVE  /\ Wants(t) \in Nodes
           /\ \E u \in ts : Wants(t) \in Held(at[u])
<1>1. Wants(t) \in Nodes /\ lock[Wants(t)] \in ts
  BY WantsFacts DEF Circle
<1>2. lock[Wants(t)] # NULL
  BY <1>1, NamespaceAssumption
<1> QED
  BY <1>1, <1>2 DEF NamespaceInv, LocksOwned

LEMMA NoCircle ==
    ASSUME NamespaceInv, ~undefined, NEW ts \in SUBSET Threads, ts # {}, Circle(ts),
           \A t, u \in ts : InRename(t) /\ InRename(u) => t = u
    PROVE  FALSE
<1> DEFINE E == Removed(ts)
<1>1. /\ Acyclic /\ ChecksHold /\ NULL \notin Nodes
      /\ parent \in [Nodes -> Known \cup {NULL}] /\ Known \subseteq Nodes
  BY NamespaceAssumption DEF NamespaceInv, NamespaceTypeOK, Known
<1>2. ASSUME NEW t \in ts
      PROVE  Wants(t) \in E \/ \E r \in ts : InRename(r) /\ Wants(t) \in Held(at[r])
  <2>1. PICK u \in ts : Wants(t) \in Held(at[u])
    BY WantedIsHeld
  <2>2. CASE at[u].op = "remove"
    BY <2>1, <2>2 DEF Held, Removed
  <2>3. CASE at[u].op # "remove"
    BY <2>1, <2>3 DEF Held, InRename
  <2> QED
    BY <2>2, <2>3
<1>3. ASSUME NEW m \in E
      PROVE  m \in Nodes /\ \E t \in ts : parent[m] = Wants(t) /\ Wants(t) \in Nodes
  <2>1. PICK t \in ts : at[t].op = "remove" /\ m = at[t].ep
    BY DEF Removed
  <2>2. Wants(t) = parent[m] /\ Wants(t) \in Nodes
    BY <2>1, WantsFacts, WantedIsHeld
  <2>3. at[t] \in Single(Known)
    BY <2>1, DoingCases DEF NamespaceInv, NamespaceTypeOK
  <2>4. m \in Nodes
    BY <1>1, <2>1, <2>3 DEF Single
  <2> QED
    BY <2>2, <2>4
<1> HIDE DEF E
<1>4. PICK r \in ts : InRename(r)
  <2> SUFFICES ASSUME \A r \in ts : ~InRename(r) PROVE FALSE
    OBVIOUS
  <2>1. E \in SUBSET Nodes /\ \A m \in E : parent[m] \in E
    BY <1>2, <1>3
  <2>2. E # {}
    BY <1>2
  <2> QED
    BY <1>1, <2>1, <2>2 DEF Acyclic
<1> DEFINE a == at[r]
           H == Held(a)
<1>5. Wants(r) \in E \cup H /\ \A m \in E : parent[m] \in E \cup H /\ parent[m] \in Nodes /\ m \in Nodes
  BY <1>2, <1>3, <1>4
<1>6. a.op \in {"locked", "over", "empty", "moving"} /\ a \in Doing(Known)
  BY <1>4 DEF InRename, NamespaceInv, NamespaceTypeOK
<1>7. a.src \notin Above(a.pdst) /\ a.src \in Nodes /\ a.pdst \in Nodes
  <2>1. a.src \notin Above(a.pdst)
    BY <1>1, <1>6 DEF ChecksHold, Checked
  <2>2. a \in Moving(Known) \cup Overwriting(Known) \cup Moved(Known)
    BY <1>6, DoingCases
  <2> QED
    BY <1>1, <2>1, <2>2 DEF Moving, Overwriting, Moved
<1>8. PICK T \in SUBSET Nodes :
        /\ a.pdst \in T /\ a.src \notin T
        /\ \A k \in T : parent[k] \in T \cup {NULL}
  BY <1>7 DEF Above
<1>9. CASE a.op \in {"locked", "over"}
  <2>1. H = {a.src}
    BY <1>9 DEF Held
  <2>2. a.pdst \in E
    <3>1. CASE a.op = "locked"
      <4>1. Wants(r) = a.pdst
        BY <3>1, WantsFacts
      <4> QED
        BY <4>1, <1>5, <1>8, <2>1
    <3>2. CASE a.op = "over"
      <4>1. Wants(r) = a.dst /\ parent[a.dst] = a.pdst /\ a.dst # a.src
        BY <3>2, <1>1, WantsFacts DEF ChecksHold, NamespaceInv, NamespaceTypeOK
      <4>2. a.dst \in E
        BY <4>1, <1>5, <2>1
      <4> HIDE DEF H
      <4> QED
        BY <4>1, <4>2, <1>5, <1>8, <2>1
    <3> QED
      BY <1>9, <3>1, <3>2
  <2> HIDE DEF a, H
  <2>3. ASSUME NEW m \in E \cap T PROVE parent[m] \in E \cap T
    BY <1>1, <1>5, <1>8, <2>1
  <2>4. E \cap T \in SUBSET Nodes /\ E \cap T # {}
    BY <1>8, <2>2
  <2> QED
    BY <1>1, <2>3, <2>4 DEF Acyclic
<1>10. CASE a.op = "empty"
  <2>1. H = {a.src, a.dst} /\ Wants(r) = a.pdst /\ parent[a.dst] = a.pdst
    BY <1>1, <1>10, WantsFacts DEF Held, ChecksHold
  <2> DEFINE F == (E \cup {a.dst}) \cap T
  <2> HIDE DEF a, H
  <2>2. a.pdst \in F
    BY <1>5, <1>8, <2>1
  <2>3. ASSUME NEW m \in F PROVE parent[m] \in F
    <3>1. CASE m = a.dst
      BY <3>1, <2>1, <2>2
    <3>2. CASE m \in E
      BY <3>2, <1>1, <1>5, <1>8, <2>1
    <3> QED
      BY <3>1, <3>2
  <2>4. F \in SUBSET Nodes /\ F # {}
    BY <2>2
  <2> QED
    BY <1>1, <2>3, <2>4 DEF Acyclic
<1>11. CASE a.op = "moving"
  <2>1. H = {a.src} /\ Wants(r) = parent[a.src]
    BY <1>11, WantsFacts DEF Held
  <2> DEFINE F == E \cup {a.src}
  <2> HIDE DEF a, H
  <2>2. ASSUME NEW m \in F PROVE parent[m] \in F
    BY <1>5, <2>1
  <2>3. F \in SUBSET Nodes /\ F # {}
    BY <1>5, <1>7
  <2> QED
    BY <1>1, <2>2, <2>3 DEF Acyclic
<1> QED
  BY <1>6, <1>9, <1>10, <1>11

\* The answer to "Will this lead to deadlock?" in sys_unlinkat(): processes
\* wait for entry locks in a circle only with two in a rename among them, or
\* after one of the three things that make undefined true.
THEOREM CirclesNeedRenames == NamespaceSpec => []CycleNeedsTwoRenames
<1>1. NamespaceInv => CycleNeedsTwoRenames
  BY NoCircle DEF CycleNeedsTwoRenames, Circle
<1> QED
  BY NamespaceInvariance, <1>1, PTL

---------------------------------------------------------------------------
(* Entries and their places.                                               *)

Places == EntriesInPlace /\ SlotsExact /\ MovesHalfDone /\ RemovedEmpty

LEMMA LookupNothing ==
    ASSUME NEW d \in Nodes, NEW x \in Names, valid[d] = 1, NULL \in dirlookup(d, x), OneEntryEach
    PROVE  slot[d][x] = NULL
<1>1. NULL \notin Cached(d, x) /\ NULL \notin Fresh /\ file[d] = d
  BY NamespaceAssumption DEF Cached, Fresh, Nodes, OneEntryEach
<1> QED
  BY <1>1 DEF dirlookup

\* Before anything is undefined dirlookup() makes no second entry.
LEMMA GetNothing ==
    ASSUME NEW d, NEW x, NEW n, eget(d, x, n), ~undefined'
    PROVE  NoTree /\ undefined' = undefined /\ valid[n] # 0
BY DEF eget

\* "src must not be root, or it won't pass the for-loop test".
LEMMA RootIsAbove ==
    ASSUME NamespaceTypeOK, Acyclic, EntriesInPlace, NEW src, NEW pdst \in Known,
           src \notin Above(pdst), src \in Nodes
    PROVE  src # Root
<1> SUFFICES ASSUME src = Root PROVE FALSE
  OBVIOUS
<1>1. PICK T \in SUBSET Nodes :
        /\ pdst \in T /\ src \notin T
        /\ \A k \in T : parent[k] \in T \cup {NULL}
  BY DEF Above
<1>2. parent \in [Nodes -> Known \cup {NULL}] /\ Known \subseteq Nodes /\ NULL \notin Nodes
  BY NamespaceAssumption DEF NamespaceTypeOK, Known
<1>3. ASSUME NEW k \in T \cap Known PROVE parent[k] \in T \cap Known
  BY <1>1, <1>2 DEF EntriesInPlace
<1>4. T \cap Known \in SUBSET Nodes /\ pdst \in T \cap Known
  BY <1>1
<1> QED
  BY <1>3, <1>4 DEF Acyclic

\* No rename enters or leaves its second half.
SameMoves ==
    \A u \in Threads : /\ at'[u].op = "moving" <=> at[u].op = "moving"
                       /\ at'[u].op = "moving" => at'[u] = at[u]

LEMMA SlotsNext ==
    ASSUME SlotsExact, SameMoves,
           \A d \in Nodes, x \in Names : slot'[d][x] # NULL =>
               \/ /\ slot'[d][x] = slot[d][x] /\ valid'[d] = valid[d] /\ dir'[d] = dir[d]
                  /\ valid'[slot[d][x]] = valid[slot[d][x]] /\ parent'[slot[d][x]] = parent[slot[d][x]]
                  /\ name'[slot[d][x]] = name[slot[d][x]]
               \/ /\ ~Underway(slot'[d][x]) /\ valid'[d] = 1 /\ dir'[d]
                  /\ valid'[slot'[d][x]] = 1 /\ parent'[slot'[d][x]] = d /\ name'[slot'[d][x]] = x
    PROVE  SlotsExact'
<1> SUFFICES ASSUME NEW d \in Nodes, NEW x \in Names, slot'[d][x] # NULL
             PROVE  /\ valid'[d] = 1 /\ dir'[d]
                    /\ IF ~Underway(slot[d][x])'
                       THEN valid'[slot'[d][x]] = 1 /\ parent'[slot'[d][x]] = d /\ name'[slot'[d][x]] = x
                       ELSE \E u \in Threads :
                              /\ at'[u].op = "moving" /\ at'[u].src = slot'[d][x]
                              /\ \/ d = at'[u].pdst /\ x = name'[slot'[d][x]]
                                 \/ /\ valid'[slot'[d][x]] = 1 /\ d = parent'[slot'[d][x]]
                                    /\ x = at'[u].old
  BY DEF SlotsExact
<1>1. Underway(slot[d][x])' <=> Underway(slot'[d][x])
  BY DEF Underway, SameMoves
<1>2. PICK n : n = slot'[d][x]
  OBVIOUS
<1>3. CASE /\ ~Underway(n) /\ valid'[d] = 1 /\ dir'[d]
           /\ valid'[n] = 1 /\ parent'[n] = d /\ name'[n] = x
  BY <1>1, <1>2, <1>3
<1>4. CASE /\ n = slot[d][x] /\ valid'[d] = valid[d] /\ dir'[d] = dir[d]
           /\ valid'[n] = valid[n] /\ parent'[n] = parent[n] /\ name'[n] = name[n]
  <2>1. /\ valid[d] = 1 /\ dir[d]
        /\ IF ~Underway(n) THEN valid[n] = 1 /\ parent[n] = d /\ name[n] = x
           ELSE \E u \in Threads :
                  /\ at[u].op = "moving" /\ at[u].src = n
                  /\ \/ d = at[u].pdst /\ x = name[n]
                     \/ valid[n] = 1 /\ d = parent[n] /\ x = at[u].old
    BY <1>2, <1>4 DEF SlotsExact
  <2>2. CASE ~Underway(n)
    BY <1>1, <1>2, <1>4, <2>1, <2>2
  <2>3. CASE Underway(n)
    BY <1>1, <1>2, <1>4, <2>1, <2>3 DEF SameMoves
  <2> QED
    BY <2>2, <2>3
<1> QED
  BY <1>2, <1>3, <1>4

\* The step of a process that leaves the tree and is not in the second half
\* of a rename.
LEMMA PlacesKept ==
    ASSUME NamespaceTypeOK, Places, NEW t \in Threads, NEW b, Goto(t, b), NoTree,
           at[t].op # "moving", b.op # "moving",
           b.op = "remove" /\ valid[b.ep] = 1 => \A x \in Names : slot[b.ep][x] = NULL
    PROVE  Places'
<1>1. at' = [at EXCEPT ![t] = b] /\ at \in [Threads -> Doing(Known)]
  BY DEF NamespaceTypeOK, Goto
<1>2. /\ parent' = parent /\ name' = name /\ dir' = dir /\ valid' = valid /\ slot' = slot
      /\ Known' = Known
  BY DEF NoTree, treeVars, Known
<1>3. SameMoves
  BY <1>1 DEF SameMoves
<1>4. EntriesInPlace'
  <2>1. ASSUME NEW n PROVE Underway(n)' <=> Underway(n)
    BY <1>3 DEF SameMoves, Underway
  <2> QED
    BY <1>2, <2>1 DEF Places, EntriesInPlace, InPlace
<1>5. SlotsExact'
  BY <1>2, <1>3, SlotsNext DEF Places
<1>6. MovesHalfDone'
  BY <1>2, <1>3 DEF Places, SameMoves, MovesHalfDone
<1>7. RemovedEmpty'
  BY <1>1, <1>2 DEF Places, RemovedEmpty
<1> QED
  BY <1>4, <1>5, <1>6, <1>7 DEF Places

\* While no rename is half done the conditions are simpler.
Homes ==
    /\ \A n \in Known : parent[n] = NULL <=> n = Root
    /\ \A n \in Nodes \ {Root} : valid[n] = 1 => InPlace(n)

NothingElse ==
    \A d \in Nodes, x \in Names : slot[d][x] # NULL =>
        /\ valid[d] = 1 /\ dir[d]
        /\ valid[slot[d][x]] = 1 /\ parent[slot[d][x]] = d /\ name[slot[d][x]] = x

LEMMA Settled ==
    ASSUME Places, \A u \in Threads : at[u].op # "moving"
    PROVE  Homes /\ NothingElse /\ RemovedEmpty
BY DEF Places, Homes, NothingElse, EntriesInPlace, SlotsExact, Underway

LEMMA SamePlaces ==
    ASSUME Places, parent' = parent, name' = name, dir' = dir, valid' = valid, slot' = slot, at' = at
    PROVE  Places'
<1>1. Known' = Known
  BY DEF Known
<1>2. EntriesInPlace' = EntriesInPlace /\ SlotsExact' = SlotsExact
  BY <1>1 DEF EntriesInPlace, SlotsExact, InPlace, Underway
<1>3. MovesHalfDone' = MovesHalfDone /\ RemovedEmpty' = RemovedEmpty
  BY DEF MovesHalfDone, RemovedEmpty
<1> QED
  BY <1>2, <1>3 DEF Places

LEMMA SettledNext ==
    ASSUME \A u \in Threads : at'[u].op # "moving", Homes', NothingElse', RemovedEmpty'
    PROVE  Places'
<1>1. ASSUME NEW n PROVE ~Underway(n)'
  BY DEF Underway
<1>2. EntriesInPlace'
  BY <1>1 DEF EntriesInPlace, Homes
<1>3. SlotsExact'
  <2> SUFFICES ASSUME NEW d \in Nodes, NEW x \in Names, slot'[d][x] # NULL
               PROVE  /\ valid'[d] = 1 /\ dir'[d]
                      /\ valid'[slot'[d][x]] = 1 /\ parent'[slot'[d][x]] = d /\ name'[slot'[d][x]] = x
    BY DEF SlotsExact, Underway
  <2> QED
    BY DEF NothingElse
<1>4. MovesHalfDone'
  BY DEF MovesHalfDone
<1> QED
  BY <1>2, <1>3, <1>4 DEF Places

\* A change of the tree that overlaps no rename.
LEMMA Alone ==
    ASSUME NEW t \in Threads, ~Overlaps(t), NEW u \in Threads, u # t
    PROVE  at[u].op \notin Checked
BY DEF Overlaps

\* The entries that a call has found exist.
LEMMA EntryKnown ==
    ASSUME NamespaceTypeOK, NEW t \in Threads
    PROVE  /\ at[t].op \in {"opened", "unlink", "remove"} => at[t].ep \in Known /\ at[t].ep \in Nodes
           /\ at[t].op \in {"locked", "moving"} =>
                at[t].src \in Known /\ at[t].src \in Nodes /\ at[t].pdst \in Known /\ at[t].pdst \in Nodes
<1>1. at[t] \in Doing(Known) /\ Known \subseteq Nodes
  BY DEF NamespaceTypeOK, Known
<1>2. at[t].op \in {"opened", "unlink", "remove"} => at[t].ep \in Known
  BY <1>1, DoingCases DEF Single
<1>3. at[t].op = "locked" => at[t].src \in Known /\ at[t].pdst \in Known
  BY <1>1, DoingCases DEF Moving
<1>4. at[t].op = "moving" => at[t].src \in Known /\ at[t].pdst \in Known
  BY <1>1, DoingCases DEF Moved
<1> QED
  BY <1>1, <1>2, <1>3, <1>4

LEMMA UnlinkLockPlaces ==
    ASSUME NamespaceInv, Places, OneEntryEach, NEW t \in Threads, unlink_lock(t)
    PROVE  Places'
<1> DEFINE e == at[t].ep
           b == IF dir[e] /\ ~isdirempty(e) THEN Idle ELSE [op |-> "remove", ep |-> e]
<1>1. at[t].op = "unlink" /\ NoTree /\ Goto(t, b)
  BY DEF unlink_lock, NoTree
<1>2. e \in Nodes
  BY <1>1, EntryKnown DEF NamespaceInv
<1>3. b.op # "moving" /\ (b.op = "remove" => b.ep = e /\ (~dir[e] \/ isdirempty(e)))
  BY DEF Idle
<1> HIDE DEF b
<1>4. ASSUME b.op = "remove", valid[e] = 1, NEW x \in Names PROVE slot[e][x] = NULL
  <2>1. CASE ~dir[e]
    BY <1>2, <2>1 DEF Places, SlotsExact
  <2>2. CASE isdirempty(e)
    BY <1>2, <1>4, <2>2 DEF isdirempty, OneEntryEach
  <2> QED
    BY <1>3, <1>4, <2>1, <2>2
<1> QED
  BY <1>1, <1>3, <1>4, PlacesKept DEF NamespaceInv

LEMMA UnlinkRemovePlaces ==
    ASSUME NamespaceInv, Places, ArgumentsOK, OneEntryEach, NEW t \in Threads, unlink_remove(t)
    PROVE  Places'
<1> DEFINE e == at[t].ep
<1>1. /\ at[t].op = "remove" /\ parent' = parent /\ name' = name /\ dir' = dir /\ file' = file
      /\ Goto(t, Idle) /\ eremove(e)
  BY DEF unlink_remove
<1>2. NamespaceTypeOK /\ LocksOwned /\ e \in Nodes /\ e \in Known /\ e # Root /\ Idle.op = "idle"
  BY <1>1, EntryKnown DEF NamespaceInv, Idle, ArgumentsOK
<1>3. CASE valid[e] # 1
  BY <1>1, <1>2, <1>3, PlacesKept DEF eremove, NoTree, treeVars
<1>4. CASE valid[e] = 1
  <2>1. at' = [at EXCEPT ![t] = Idle] /\ at \in [Threads -> Doing(Known)]
    BY <1>1, <1>2 DEF Goto, NamespaceTypeOK
  <2>2. SameMoves
    BY <1>1, <1>2, <2>1 DEF SameMoves
  <2>3. ASSUME NEW u \in Threads, at[u].op = "moving" PROVE at[u].src # e
    <3>1. at[u].src \in Held(at[u]) /\ e \in Held(at[t]) /\ u # t
      BY <1>1, <2>3 DEF Held
    <3> QED
      BY <1>2, <3>1 DEF LocksOwned
  <2>4. EntriesInPlace /\ SlotsExact /\ MovesHalfDone /\ RemovedEmpty
    BY DEF Places
  <2>5. InPlace(e) /\ NULL \notin Nodes
    BY <1>2, <1>4, <2>3, <2>4, NamespaceAssumption DEF EntriesInPlace, Underway
  <2>6. /\ valid' = [valid EXCEPT ![e] = -1] /\ valid \in [Nodes -> {-1, 0, 1}]
        /\ slot' = [slot EXCEPT ![parent[e]][name[e]] = NULL]
        /\ slot \in [Nodes -> [Names -> Known \cup {NULL}]]
        /\ parent \in [Nodes -> Known \cup {NULL}] /\ Known \subseteq Nodes
    BY <1>1, <1>2, <1>4, <2>5 DEF eremove, NamespaceTypeOK, OneEntryEach, InPlace, Known
  <2>7. \A x \in Names : slot[e][x] = NULL
    BY <1>1, <1>4, <2>4 DEF RemovedEmpty
  <2>8. ASSUME NEW d \in Nodes, NEW x \in Names
        PROVE  slot'[d][x] = IF d = parent[e] /\ x = name[e] THEN NULL ELSE slot[d][x]
    BY <2>6
  <2>9. Known' = Known
    <3>1. \A n \in Nodes : valid'[n] # 0 <=> valid[n] # 0
      BY <1>2, <1>4, <2>6
    <3> QED
      BY <3>1 DEF Known
  <2>10. EntriesInPlace'
    <3>1. ASSUME NEW n \in Nodes \ {Root}, valid'[n] = 1, ~Underway(n) PROVE InPlace(n)'
      <4>1. n # e /\ valid[n] = 1 /\ InPlace(n)
        BY <1>2, <2>4, <2>6, <3>1 DEF EntriesInPlace
      <4>2. parent[n] # e /\ ~(parent[n] = parent[e] /\ name[n] = name[e])
        BY <2>5, <2>7, <4>1 DEF InPlace
      <4>3. valid'[parent[n]] = 1 /\ slot'[parent[n]][name[n]] = n
        BY <2>6, <2>8, <4>1, <4>2 DEF InPlace
      <4> QED
        BY <1>1, <4>1, <4>3 DEF InPlace
    <3>2. ASSUME NEW n PROVE Underway(n)' <=> Underway(n)
      BY <2>2 DEF SameMoves, Underway
    <3> QED
      BY <1>1, <2>4, <2>9, <3>1, <3>2 DEF EntriesInPlace
  <2>11. SlotsExact'
    <3>1. ASSUME NEW d \in Nodes, NEW x \in Names, slot'[d][x] # NULL
          PROVE  /\ slot'[d][x] = slot[d][x] /\ valid'[d] = valid[d]
                 /\ valid'[slot[d][x]] = valid[slot[d][x]]
      <4>1. slot'[d][x] = slot[d][x] /\ slot[d][x] \in Nodes /\ d # e /\ ~(d = parent[e] /\ x = name[e])
        BY <2>6, <2>7, <2>8, <3>1
      <4>2. slot[d][x] # e
        <5>1. CASE Underway(slot[d][x])
          BY <2>3, <5>1 DEF Underway
        <5>2. CASE ~Underway(slot[d][x])
          BY <2>4, <3>1, <4>1, <5>2 DEF SlotsExact
        <5> QED
          BY <5>1, <5>2
      <4> QED
        BY <2>6, <4>1, <4>2
    <3> QED
      BY <1>1, <2>2, <2>4, <3>1, SlotsNext
  <2>12. MovesHalfDone'
    <3> SUFFICES ASSUME NEW u \in Threads, at'[u].op = "moving"
                 PROVE  LET a == at'[u]
                        IN  /\ \A v \in Threads : at'[v].op = "moving" => v = u
                            /\ a.src # Root /\ parent'[a.src] # a.pdst
                            /\ valid'[a.pdst] = 1 /\ dir'[a.pdst]
                            /\ name'[a.src] \in Names /\ slot'[a.pdst][name'[a.src]] = a.src
                            /\ valid'[a.src] = 1 => a.old \in Names /\ slot'[parent'[a.src]][a.old] = a.src
      BY DEF MovesHalfDone
    <3> DEFINE a == at[u]
    <3>1. a.op = "moving" /\ at'[u] = a /\ a.src # e /\ a.src \in Nodes /\ a.src \in Known /\ a.pdst \in Nodes
      BY <1>2, <2>2, <2>3, EntryKnown DEF SameMoves
    <3>2. /\ \A v \in Threads : at'[v].op = "moving" => v = u
          /\ a.src # Root /\ parent[a.src] # a.pdst /\ valid[a.pdst] = 1 /\ dir[a.pdst]
          /\ name[a.src] \in Names /\ slot[a.pdst][name[a.src]] = a.src
          /\ valid[a.src] = 1 => a.old \in Names /\ slot[parent[a.src]][a.old] = a.src
      BY <2>2, <2>4, <3>1 DEF MovesHalfDone, SameMoves
    <3> HIDE DEF a
    <3>3. a.pdst # e /\ slot'[a.pdst][name[a.src]] = a.src /\ valid'[a.pdst] = 1
      BY <2>5, <2>6, <2>7, <2>8, <3>1, <3>2 DEF InPlace
    <3>4. parent[a.src] \in Nodes /\ valid'[a.src] = valid[a.src]
      BY <2>4, <2>6, <3>1, <3>2 DEF EntriesInPlace
    <3>5. valid[a.src] = 1 => slot'[parent[a.src]][a.old] = a.src
      BY <2>5, <2>8, <3>1, <3>2, <3>4 DEF InPlace
    <3> QED
      BY <1>1, <3>1, <3>2, <3>3, <3>4, <3>5
  <2>13. RemovedEmpty'
    <3> SUFFICES ASSUME NEW u \in Threads, at'[u].op = "remove", valid'[at'[u].ep] = 1, NEW x \in Names
                 PROVE  slot'[at'[u].ep][x] = NULL
      BY DEF RemovedEmpty
    <3>1. at'[u] = at[u] /\ at[u].ep \in Nodes
      BY <1>2, <2>1, EntryKnown
    <3>2. valid[at[u].ep] = 1
      BY <1>2, <2>6, <3>1
    <3> QED
      BY <2>4, <2>8, <3>1, <3>2 DEF RemovedEmpty
  <2> QED
    BY <2>10, <2>11, <2>12, <2>13 DEF Places
<1> QED
  BY <1>3, <1>4

LEMMA NewEntryPlaces ==
    ASSUME NamespaceInv, Places, OneEntryEach, NEW t \in Threads, NEW b, Goto(t, b),
           at[t].op # "moving", b.op \notin {"moving", "remove"},
           NEW d \in Known, NEW x \in Names, NEW n \in Nodes, NEW isdir \in BOOLEAN,
           NewEntry(d, x, n, isdir), valid[n] = 0, valid[d] = 1, dir[d], Free(d), slot[d][x] = NULL
    PROVE  Places'
<1>1. NamespaceTypeOK /\ LocksOwned /\ d \in Nodes
  BY DEF NamespaceInv, Known
<1>2. /\ parent' = [parent EXCEPT ![n] = d] /\ name' = [name EXCEPT ![n] = x]
      /\ dir' = [dir EXCEPT ![n] = isdir] /\ valid' = [valid EXCEPT ![n] = 1]
      /\ slot' = [slot EXCEPT ![d][x] = n]
  BY <1>1 DEF NewEntry, OneEntryEach
<1>3. at' = [at EXCEPT ![t] = b] /\ at \in [Threads -> Doing(Known)]
  BY <1>1 DEF Goto, NamespaceTypeOK
<1>4. SameMoves
  BY <1>3 DEF SameMoves
<1>5. /\ valid \in [Nodes -> {-1, 0, 1}] /\ slot \in [Nodes -> [Names -> Known \cup {NULL}]]
      /\ parent \in [Nodes -> Known \cup {NULL}] /\ name \in [Nodes -> Names \cup {NULL}]
      /\ dir \in [Nodes -> BOOLEAN] /\ Known \subseteq Nodes
  BY <1>1 DEF NamespaceTypeOK, Known
<1>6. EntriesInPlace /\ SlotsExact /\ MovesHalfDone /\ RemovedEmpty
  BY DEF Places
<1>7. /\ n \notin Known /\ n # NULL /\ n # d /\ n # Root /\ Known' = Known \cup {n}
      /\ NULL \notin Nodes
  <2>1. Known' = Known \cup {n}
    BY <1>2, <1>5 DEF Known
  <2> QED
    BY <1>1, <2>1, NamespaceAssumption DEF Known, NamespaceTypeOK
<1>8. ASSUME NEW c \in Nodes, NEW y \in Names
      PROVE  slot'[c][y] = IF c = d /\ y = x THEN n ELSE slot[c][y]
  BY <1>1, <1>2, <1>5
<1>9. ASSUME NEW m \in Nodes, m # n
      PROVE  parent'[m] = parent[m] /\ name'[m] = name[m] /\ dir'[m] = dir[m] /\ valid'[m] = valid[m]
  <2>1. parent'[m] = parent[m] /\ name'[m] = name[m] /\ valid'[m] = valid[m]
    BY <1>2, <1>5, <1>9
  <2>2. dir'[m] = dir[m]
    BY <1>2, <1>5, <1>9, Zenon
  <2> QED
    BY <2>1, <2>2, Zenon
<1>10. parent'[n] = d /\ name'[n] = x /\ valid'[n] = 1
  BY <1>2, <1>5
<1>11. EntriesInPlace'
  <2>1. ASSUME NEW m \in Nodes \ {Root}, valid'[m] = 1, ~Underway(m) PROVE InPlace(m)'
    <3>1. CASE m = n
      BY <1>1, <1>7, <1>8, <1>9, <1>10, <3>1 DEF InPlace
    <3>2. CASE m # n
      <4>1. InPlace(m)
        BY <1>6, <1>9, <2>1, <3>2 DEF EntriesInPlace
      <4>2. parent[m] # n
        BY <1>5, <1>7
      <4>3. ~(parent[m] = d /\ name[m] = x)
        BY <1>7, <4>1 DEF InPlace
      <4> QED
        BY <1>8, <1>9, <3>2, <4>1, <4>2, <4>3 DEF InPlace
    <3> QED
      BY <3>1, <3>2
  <2>2. ASSUME NEW m \in Known' PROVE parent'[m] = NULL <=> m = Root
    <3>1. CASE m = n
      BY <1>1, <1>7, <1>10, <3>1
    <3>2. CASE m # n
      BY <1>5, <1>6, <1>7, <1>9, <3>2 DEF EntriesInPlace
    <3> QED
      BY <3>1, <3>2
  <2>3. ASSUME NEW m PROVE Underway(m)' <=> Underway(m)
    BY <1>4 DEF SameMoves, Underway
  <2> QED
    BY <2>1, <2>2, <2>3 DEF EntriesInPlace
<1>12. ~Underway(n)
  BY <1>1, <1>7, EntryKnown DEF Underway
<1>13. SlotsExact'
  <2>1. ASSUME NEW c \in Nodes, NEW y \in Names, slot'[c][y] # NULL, ~(c = d /\ y = x)
        PROVE  /\ slot'[c][y] = slot[c][y] /\ valid'[c] = valid[c] /\ dir'[c] = dir[c]
               /\ valid'[slot[c][y]] = valid[slot[c][y]] /\ parent'[slot[c][y]] = parent[slot[c][y]]
               /\ name'[slot[c][y]] = name[slot[c][y]]
    <3>1. slot'[c][y] = slot[c][y] /\ slot[c][y] \in Known /\ slot[c][y] \in Nodes
      BY <1>5, <1>8, <2>1
    <3>2. valid[c] = 1
      BY <1>6, <2>1, <3>1 DEF SlotsExact
    <3>3. c # n /\ slot[c][y] # n
      BY <1>7, <3>1, <3>2
    <3> QED
      BY <1>9, <3>1, <3>3, Zenon
  <2>2. /\ slot'[d][x] = n /\ valid'[d] = 1 /\ dir'[d]
        /\ valid'[n] = 1 /\ parent'[n] = d /\ name'[n] = x
    BY <1>1, <1>7, <1>8, <1>9, <1>10
  <2> QED
    BY <1>4, <1>6, <1>12, <2>1, <2>2, SlotsNext
<1>14. MovesHalfDone'
  <2> SUFFICES ASSUME NEW u \in Threads, at'[u].op = "moving"
               PROVE  LET a == at'[u]
                      IN  /\ \A v \in Threads : at'[v].op = "moving" => v = u
                          /\ a.src # Root /\ parent'[a.src] # a.pdst
                          /\ valid'[a.pdst] = 1 /\ dir'[a.pdst]
                          /\ name'[a.src] \in Names /\ slot'[a.pdst][name'[a.src]] = a.src
                          /\ valid'[a.src] = 1 => a.old \in Names /\ slot'[parent'[a.src]][a.old] = a.src
    BY DEF MovesHalfDone
  <2> DEFINE a == at[u]
  <2>1. /\ a.op = "moving" /\ at'[u] = a /\ a.src \in Nodes /\ a.src \in Known
        /\ a.pdst \in Nodes /\ a.pdst \in Known
    BY <1>1, <1>4, EntryKnown DEF SameMoves
  <2>2. /\ \A v \in Threads : at'[v].op = "moving" => v = u
        /\ a.src # Root /\ parent[a.src] # a.pdst /\ valid[a.pdst] = 1 /\ dir[a.pdst]
        /\ name[a.src] \in Names /\ slot[a.pdst][name[a.src]] = a.src
        /\ valid[a.src] = 1 => a.old \in Names /\ slot[parent[a.src]][a.old] = a.src
    BY <1>4, <1>6, <2>1 DEF MovesHalfDone, SameMoves
  <2> HIDE DEF a
  <2>3. a.src # n /\ a.pdst # n /\ a.src # NULL
    BY <1>7, <2>1
  <2>4. slot'[a.pdst][name[a.src]] = a.src
    BY <1>8, <2>1, <2>2, <2>3
  <2>5. parent[a.src] \in Nodes
    BY <1>5, <1>6, <2>1, <2>2 DEF EntriesInPlace
  <2>6. valid[a.src] = 1 => slot'[parent[a.src]][a.old] = a.src
    BY <1>8, <2>2, <2>3, <2>5
  <2> QED
    BY <1>9, <2>1, <2>2, <2>3, <2>4, <2>6
<1>15. RemovedEmpty'
  <2> SUFFICES ASSUME NEW u \in Threads, at'[u].op = "remove", valid'[at'[u].ep] = 1, NEW y \in Names
               PROVE  slot'[at'[u].ep][y] = NULL
    BY DEF RemovedEmpty
  <2>1. at'[u] = at[u] /\ at[u].ep \in Nodes /\ at[u].ep \in Known
    BY <1>1, <1>3, EntryKnown
  <2>2. valid[at[u].ep] = 1
    BY <1>7, <1>9, <2>1
  <2>3. at[u].ep # d
    <3>1. at[u].ep \in Held(at[u])
      BY <2>1 DEF Held
    <3> QED
      BY <1>1, <3>1, NamespaceAssumption DEF LocksOwned, Free
  <2> QED
    BY <1>6, <1>8, <2>1, <2>2, <2>3 DEF RemovedEmpty
<1> QED
  BY <1>11, <1>13, <1>14, <1>15 DEF Places

LEMMA CreatePlaces ==
    ASSUME NamespaceInv, Places, OneEntryEach, NEW t \in Threads, create(t), ~undefined'
    PROVE  Places'
<1> DEFINE a == at[t]
           d == a.cur
           x == Head(a.rest)
           last == Len(a.rest) = 1
           isdir == ~last \/ a.call = "mkdir"
           next(m) == IF last THEN [op |-> "opened", ep |-> m] ELSE [a EXCEPT !.cur = m, !.rest = Tail(@)]
<1>1. a.op = "create" /\ Free(d) /\ NamespaceTypeOK
  BY DEF create, NamespaceInv
<1>2. a \in Looking(Known) /\ d \in Known /\ d \in Nodes /\ x \in Names
  BY <1>1, LookFacts DEF NamespaceTypeOK
<1>3. PICK n \in IF dir[d] THEN ealloc(d, x) ELSE {NULL} :
        CASE n = NULL -> NoTree /\ UNCHANGED undefined /\ Goto(t, Idle)
          [] n # NULL /\ dirlookup(d, x) # {NULL} ->
               eget(d, x, n) /\ Goto(t, IF dir'[n] = isdir THEN next(n) ELSE Idle)
          [] OTHER -> NewEntry(d, x, n, isdir) /\ Goto(t, next(n))
  BY DEF create
<1>4. ASSUME NEW b \in {next(n), Idle} PROVE b.op \notin {"moving", "remove"}
  <2>1. CASE b = [a EXCEPT !.cur = n, !.rest = Tail(@)]
    BY <1>1, <1>2, <2>1 DEF Looking
  <2>2. CASE b = Idle \/ b = [op |-> "opened", ep |-> n]
    BY <2>2 DEF Idle
  <2> QED
    BY <1>4, <2>1, <2>2
<1>5. ASSUME NEW b \in {next(n), Idle}, Goto(t, b), NoTree PROVE Places'
  BY <1>1, <1>4, <1>5, PlacesKept
<1>6. CASE n = NULL
  BY <1>3, <1>5, <1>6
<1>7. CASE n # NULL /\ dirlookup(d, x) # {NULL}
  <2> DEFINE b == IF dir'[n] = isdir THEN next(n) ELSE Idle
  <2>1. eget(d, x, n) /\ Goto(t, b)
    BY <1>3, <1>7
  <2>2. b \in {next(n), Idle}
    OBVIOUS
  <2> HIDE DEF b, next
  <2>3. NoTree
    BY <2>1, GetNothing
  <2> QED
    BY <1>5, <2>1, <2>2, <2>3
<1>8. CASE n # NULL /\ dirlookup(d, x) = {NULL}
  <2>1. NewEntry(d, x, n, isdir) /\ Goto(t, next(n)) /\ dir[d] /\ n \in ealloc(d, x)
    BY <1>3, <1>8
  <2>2. n \in Nodes /\ valid[n] = 0 /\ valid[d] = 1
    BY <1>8, <2>1 DEF ealloc, OrFresh, Fresh, Nodes
  <2>3. slot[d][x] = NULL
    BY <1>2, <1>8, <2>2, LookupNothing
  <2> DEFINE b == next(n)
  <2>4. Goto(t, b) /\ b \in {next(n), Idle} /\ isdir \in BOOLEAN
    BY <2>1
  <2> HIDE DEF b, next, isdir, d, x
  <2>5. b.op \notin {"moving", "remove"}
    BY <1>4, <2>4
  <2> QED
    BY <1>1, <1>2, <2>1, <2>2, <2>3, <2>4, <2>5, NewEntryPlaces
<1> QED
  BY <1>6, <1>7, <1>8

\* The first half of a rename, or all of it in one directory.
LEMMA PdstPlaces ==
    ASSUME NamespaceInv, Places, ArgumentsOK, OneEntryEach, NEW t \in Threads, rename_pdst(t), ~undefined'
    PROVE  Places'
<1> DEFINE a == at[t]
           src == a.src
           pdst == a.pdst
           here == parent[src] = pdst
           on == [op |-> "moving", src |-> src, pdst |-> pdst, old |-> name[src]]
<1>1. a.op = "locked" /\ Free(pdst) /\ NamespaceTypeOK /\ LocksOwned
  BY DEF rename_pdst, NamespaceInv
<1>2. src \in Known /\ src \in Nodes /\ pdst \in Known /\ pdst \in Nodes /\ a.new \in Names
  <2>1. a \in Moving(Known)
    BY <1>1, DoingCases DEF NamespaceTypeOK
  <2> QED
    BY <1>1, <2>1, EntryKnown DEF Moving
<1>3. dir[pdst] /\ file[pdst] = pdst /\ file[src] = src
  BY <1>1, <1>2 DEF ArgumentsOK, OneEntryEach
<1>4. PICK dst \in dirlookup(pdst, a.new) :
        IF dst = NULL THEN Place(t, a, NULL)
        ELSE /\ eget(pdst, a.new, dst)
             /\ IF dst # src /\ dir'[dst] /\ dir[src]
                THEN Goto(t, [op |-> "over", src |-> src, pdst |-> pdst,
                              new |-> a.new, dst |-> dst]) /\ NoLock
                ELSE Goto(t, Idle) /\ Unlock({src})
             /\ UNCHANGED <<cwd, calls, panicked>>
  BY DEF rename_pdst
<1>5. CASE dst # NULL
  <2> DEFINE b == [op |-> "over", src |-> src, pdst |-> pdst, new |-> a.new, dst |-> dst]
  <2>1. eget(pdst, a.new, dst) /\ (Goto(t, b) \/ Goto(t, Idle))
    BY <1>4, <1>5
  <2>2. NoTree
    BY <2>1, GetNothing
  <2>3. b.op = "over" /\ Idle.op = "idle"
    BY DEF Idle
  <2> HIDE DEF b
  <2> QED
    BY <1>1, <2>1, <2>2, <2>3, PlacesKept
<1>6. CASE dst = NULL /\ panicked' = TRUE /\ UNCHANGED <<treeVars, lock, cwd, at, calls, undefined>>
  <2>1. parent' = parent /\ name' = name /\ dir' = dir /\ valid' = valid /\ slot' = slot /\ at' = at
    BY <1>6 DEF treeVars
  <2> QED
    BY <2>1, SamePlaces
<1>7. ASSUME NEW c \in emake(pdst, a.new, src, NULL = NULL /\ valid[pdst] = 1), dst = NULL,
             Move(t, a, NULL, NULL = NULL /\ valid[pdst] = 1, c)
      PROVE  Places'
  <2>1. /\ ~undefined /\ ~Overlaps(t) /\ valid[pdst] = 1
        /\ c = [y \in Names |-> IF y = a.new THEN src ELSE slot[pdst][y]]
        /\ name' = [name EXCEPT ![src] = a.new]
        /\ slot' = IF here /\ valid[src] = 1
                   THEN [[slot EXCEPT ![pdst] = c] EXCEPT ![pdst][name[src]] = NULL]
                   ELSE [slot EXCEPT ![pdst] = c]
        /\ valid' = [n \in Nodes |-> IF here /\ n = src THEN 1 ELSE IF n = NULL THEN -1 ELSE valid[n]]
        /\ Goto(t, IF here THEN Idle ELSE on)
        /\ parent' = parent /\ dir' = dir
    BY <1>3, <1>7 DEF Move, emake
  <2>2. Places /\ Acyclic /\ src \notin Above(pdst)
    BY <1>1, <2>1 DEF NamespaceInv, ChecksHold, Checked
  <2>3. src # Root
    BY <1>1, <1>2, <2>2, RootIsAbove DEF Places
  <2>4. \A u \in Threads : at[u].op # "moving"
    BY <1>1, <2>1, Alone DEF Checked
  <2>5. Homes /\ NothingElse /\ RemovedEmpty
    BY <2>2, <2>4, Settled
  <2>6. slot[pdst][a.new] = NULL
    BY <1>2, <1>7, <2>1, LookupNothing
  <2>7. lock[src] = t /\ src # pdst /\ t # NULL /\ NULL \notin Nodes
    <3>1. src \in Held(a)
      BY <1>1 DEF Held
    <3> QED
      BY <1>1, <3>1, NamespaceAssumption DEF LocksOwned, Free
  <2>8. /\ valid \in [Nodes -> {-1, 0, 1}] /\ slot \in [Nodes -> [Names -> Known \cup {NULL}]]
        /\ parent \in [Nodes -> Known \cup {NULL}] /\ name \in [Nodes -> Names \cup {NULL}]
        /\ at \in [Threads -> Doing(Known)]
    BY <1>1 DEF NamespaceTypeOK
  <2>9. ASSUME NEW d \in Nodes, NEW x \in Names
        PROVE  slot'[d][x] = IF here /\ valid[src] = 1 /\ d = pdst /\ x = name[src] THEN NULL
                             ELSE IF d = pdst /\ x = a.new THEN src ELSE slot[d][x]
    BY <1>2, <2>1, <2>8
  <2>10. ASSUME NEW n \in Nodes
         PROVE  /\ valid'[n] = IF here /\ n = src THEN 1 ELSE valid[n]
                /\ name'[n] = IF n = src THEN a.new ELSE name[n]
    BY <1>2, <2>1, <2>7, <2>8
  <2>11. Known' = Known
    <3>1. \A n \in Nodes : valid'[n] # 0 <=> valid[n] # 0
      BY <1>2, <2>10 DEF Known
    <3> QED
      BY <3>1 DEF Known
  <2>12. valid[src] = 1 => InPlace(src)
    BY <1>2, <2>3, <2>5 DEF Homes
  <2>13. valid[src] = 1 /\ here => name[src] # a.new
    BY <1>2, <2>6, <2>7, <2>12 DEF InPlace
  <2>14. ASSUME NEW n \in Nodes \ {Root}, valid'[n] = 1, n # src PROVE InPlace(n)'
    <3>1. valid[n] = 1 /\ InPlace(n)
      BY <2>5, <2>10, <2>14 DEF Homes
    <3>2. ~(parent[n] = pdst /\ name[n] = a.new)
      BY <2>6, <2>7, <3>1 DEF InPlace
    <3>3. here /\ valid[src] = 1 => ~(parent[n] = pdst /\ name[n] = name[src])
      BY <2>12, <2>14, <3>1 DEF InPlace
    <3>4. valid'[parent[n]] = 1
      BY <2>10, <3>1 DEF InPlace
    <3>5. slot'[parent[n]][name[n]] = n /\ name'[n] = name[n]
      BY <2>9, <2>10, <2>14, <3>1, <3>2, <3>3 DEF InPlace
    <3> QED
      BY <2>1, <3>1, <3>4, <3>5 DEF InPlace
  <2>15. RemovedEmpty'
    <3> SUFFICES ASSUME NEW u \in Threads, at'[u].op = "remove", valid'[at'[u].ep] = 1, NEW x \in Names
                 PROVE  slot'[at'[u].ep][x] = NULL
      BY DEF RemovedEmpty
    <3>1. at'[u] = at[u] /\ u # t
      BY <2>1, <2>8 DEF Goto, Idle
    <3>2. at[u].ep \in Nodes /\ at[u].ep \in Held(at[u])
      BY <1>1, <3>1, EntryKnown DEF Held
    <3>3. at[u].ep # src /\ at[u].ep # pdst
      BY <1>1, <2>7, <3>1, <3>2, NamespaceAssumption DEF LocksOwned, Free
    <3>4. valid[at[u].ep] = 1
      BY <2>10, <3>1, <3>2, <3>3
    <3> QED
      BY <2>5, <2>9, <3>1, <3>2, <3>3, <3>4 DEF RemovedEmpty
  <2>16. CASE here
    <3>1. \A u \in Threads : at'[u].op # "moving"
      BY <2>1, <2>4, <2>8, <2>16 DEF Goto, Idle
    <3>2. valid'[pdst] = 1 /\ dir'[pdst] /\ valid'[src] = 1 /\ parent'[src] = pdst
      BY <1>2, <1>3, <2>1, <2>7, <2>10, <2>16
    <3>3. name'[src] = a.new /\ slot'[pdst][a.new] = src
      BY <1>2, <2>9, <2>10, <2>13, <2>16
    <3>4. Homes'
      <4>1. ASSUME NEW n \in Nodes \ {Root}, n = src PROVE InPlace(n)'
        BY <1>2, <3>2, <3>3, <4>1 DEF InPlace
      <4>2. \A n \in Known' : parent'[n] = NULL <=> n = Root
        BY <2>1, <2>5, <2>11 DEF Homes
      <4> QED
        BY <2>1, <2>14, <4>1, <4>2 DEF Homes
    <3>5. NothingElse'
      <4> SUFFICES ASSUME NEW d \in Nodes, NEW x \in Names, slot'[d][x] # NULL
                   PROVE  /\ valid'[d] = 1 /\ dir'[d]
                          /\ valid'[slot'[d][x]] = 1 /\ parent'[slot'[d][x]] = d /\ name'[slot'[d][x]] = x
        BY DEF NothingElse
      <4>1. CASE d = pdst /\ x = a.new
        BY <3>2, <3>3, <4>1
      <4>2. CASE ~(d = pdst /\ x = a.new)
        <5>1. slot'[d][x] = slot[d][x] /\ slot[d][x] \in Nodes
          BY <2>8, <2>9, <4>2 DEF Known
        <5>2. /\ valid[d] = 1 /\ dir[d] /\ valid[slot[d][x]] = 1
              /\ parent[slot[d][x]] = d /\ name[slot[d][x]] = x
          BY <2>5, <5>1 DEF NothingElse
        <5>3. slot[d][x] # src
          BY <2>9, <2>16, <5>1, <5>2
        <5>4. valid'[d] = 1
          BY <2>10, <5>2
        <5>5. valid'[slot[d][x]] = 1 /\ name'[slot[d][x]] = x
          BY <2>10, <5>1, <5>2, <5>3
        <5>6. parent' = parent /\ dir' = dir
          BY <2>1
        <5> QED
          BY <5>1, <5>2, <5>4, <5>5, <5>6
      <4> QED
        BY <4>1, <4>2
    <3> QED
      BY <2>15, <3>1, <3>4, <3>5, SettledNext
  <2>17. CASE ~here
    <3>1. on.op = "moving" /\ on.src = src /\ on.pdst = pdst /\ on.old = name[src]
      OBVIOUS
    <3>2. at' = [at EXCEPT ![t] = on]
      BY <2>1, <2>17 DEF Goto
    <3> HIDE DEF on
    <3>3. ASSUME NEW u \in Threads PROVE at'[u].op = "moving" <=> u = t
      BY <2>4, <2>8, <3>1, <3>2
    <3>4. at'[t] = on
      BY <2>8, <3>2
    <3>5. ASSUME NEW n PROVE Underway(n)' <=> n = src
      BY <3>1, <3>3, <3>4 DEF Underway
    <3>6. EntriesInPlace'
      BY <2>1, <2>5, <2>11, <2>14, <3>5 DEF EntriesInPlace, Homes
    <3>7. SlotsExact'
      <4> SUFFICES ASSUME NEW d \in Nodes, NEW x \in Names, slot'[d][x] # NULL
                   PROVE  LET n == slot'[d][x]
                          IN  /\ valid'[d] = 1 /\ dir'[d]
                              /\ IF n # src THEN valid'[n] = 1 /\ parent'[n] = d /\ name'[n] = x
                                 ELSE \/ d = pdst /\ x = name'[n]
                                      \/ valid'[n] = 1 /\ d = parent'[n] /\ x = name[src]
        BY <3>1, <3>3, <3>4 DEF SlotsExact, Underway
      <4>1. CASE d = pdst /\ x = a.new
        BY <1>2, <1>3, <2>1, <2>9, <2>10, <2>17, <4>1
      <4>2. CASE ~(d = pdst /\ x = a.new)
        <5>1. slot'[d][x] = slot[d][x] /\ slot[d][x] \in Nodes
          BY <2>8, <2>9, <2>17, <4>2 DEF Known
        <5>2. /\ valid[d] = 1 /\ dir[d] /\ valid[slot[d][x]] = 1
              /\ parent[slot[d][x]] = d /\ name[slot[d][x]] = x
          BY <2>5, <5>1 DEF NothingElse
        <5> QED
          BY <2>1, <2>10, <2>17, <5>1, <5>2
      <4> QED
        BY <4>1, <4>2
    <3>8. MovesHalfDone'
      <4>1. valid'[pdst] = 1 /\ dir'[pdst] /\ name'[src] = a.new /\ slot'[pdst][a.new] = src
        BY <1>2, <1>3, <2>1, <2>9, <2>10, <2>17
      <4>2. valid'[src] = 1 => name[src] \in Names /\ slot'[parent[src]][name[src]] = src
        BY <1>2, <2>9, <2>10, <2>12, <2>17 DEF InPlace
      <4> QED
        BY <1>2, <2>1, <2>3, <2>17, <3>1, <3>3, <3>4, <4>1, <4>2 DEF MovesHalfDone
    <3> QED
      BY <2>15, <3>6, <3>7, <3>8 DEF Places
  <2> QED
    BY <2>16, <2>17
<1> QED
  BY <1>3, <1>4, <1>5, <1>6, <1>7 DEF Place

\* The second half: the old place goes, the entry is in the new one.
LEMMA RenameDonePlaces ==
    ASSUME NamespaceInv, Places, OneEntryEach, NEW t \in Threads, rename_done(t), ~undefined'
    PROVE  Places'
<1> DEFINE a == at[t]
           src == a.src
           pdst == a.pdst
<1>1. /\ a.op = "moving" /\ name' = name /\ dir' = dir
      /\ slot' = IF valid[src] = 1 THEN [slot EXCEPT ![file[parent[src]]][a.old] = NULL] ELSE slot
      /\ valid' = [valid EXCEPT ![src] = 1] /\ parent' = [parent EXCEPT ![src] = pdst]
      /\ Goto(t, Idle) /\ ~undefined /\ ~Overlaps(t)
  BY DEF rename_done
<1>2. NamespaceTypeOK /\ LocksOwned
  BY DEF NamespaceInv
<1>3. src \in Known /\ src \in Nodes /\ pdst \in Known /\ pdst \in Nodes
  BY <1>1, <1>2, EntryKnown
<1>4. /\ valid \in [Nodes -> {-1, 0, 1}] /\ slot \in [Nodes -> [Names -> Known \cup {NULL}]]
      /\ parent \in [Nodes -> Known \cup {NULL}] /\ at \in [Threads -> Doing(Known)]
  BY <1>2 DEF NamespaceTypeOK
<1>5. src # pdst
  <2>1. src \notin Above(pdst)
    BY <1>1 DEF NamespaceInv, ChecksHold, Checked
  <2> QED
    BY <1>3, <2>1 DEF Above
<1>6. /\ \A u \in Threads : at[u].op = "moving" => u = t
      /\ src # Root /\ parent[src] # pdst /\ valid[pdst] = 1 /\ dir[pdst]
      /\ name[src] \in Names /\ slot[pdst][name[src]] = src
      /\ valid[src] = 1 => slot[parent[src]][a.old] = src
  BY <1>1 DEF Places, MovesHalfDone
<1>7. ASSUME NEW n PROVE Underway(n) <=> n = src
  BY <1>1, <1>6 DEF Underway
<1>8. ASSUME NEW d \in Nodes, NEW x \in Names
      PROVE  slot'[d][x] = IF valid[src] = 1 /\ d = parent[src] /\ x = a.old THEN NULL ELSE slot[d][x]
  <2>1. file[parent[src]] = parent[src]
    BY <1>3, <1>4, <1>6 DEF Places, EntriesInPlace, OneEntryEach, Known
  <2> QED
    BY <1>1, <1>4, <2>1
<1>9. ASSUME NEW n \in Nodes
      PROVE  /\ valid'[n] = IF n = src THEN 1 ELSE valid[n]
             /\ parent'[n] = IF n = src THEN pdst ELSE parent[n]
  BY <1>1, <1>4
<1>10. Known' = Known /\ NULL \notin Nodes
  <2>1. \A n \in Nodes : valid'[n] # 0 <=> valid[n] # 0
    BY <1>3, <1>9 DEF Known
  <2> QED
    BY <2>1, NamespaceAssumption DEF Known
<1>11. \A u \in Threads : at'[u].op # "moving"
  BY <1>1, <1>4, <1>6 DEF Goto, Idle
<1>12. valid'[pdst] = 1 /\ slot'[pdst][name[src]] = src
  BY <1>3, <1>5, <1>6, <1>8, <1>9
<1>13. Homes'
  <2>1. ASSUME NEW n \in Nodes \ {Root}, n = src PROVE InPlace(n)'
    BY <1>1, <1>3, <1>6, <1>9, <1>12, <2>1 DEF InPlace
  <2>2. ASSUME NEW n \in Nodes \ {Root}, valid'[n] = 1, n # src PROVE InPlace(n)'
    <3>1. InPlace(n)
      BY <1>7, <1>9, <2>2 DEF Places, EntriesInPlace
    <3>2. valid'[parent[n]] = 1 /\ parent'[n] = parent[n]
      BY <1>9, <2>2, <3>1 DEF InPlace
    <3>3. slot'[parent[n]][name[n]] = n
      BY <1>6, <1>8, <2>2, <3>1 DEF InPlace
    <3> QED
      BY <1>1, <3>1, <3>2, <3>3 DEF InPlace
  <2>3. ASSUME NEW n \in Known' PROVE parent'[n] = NULL <=> n = Root
    <3>1. n \in Nodes /\ (parent[n] = NULL <=> n = Root)
      BY <1>10 DEF Places, EntriesInPlace, Known
    <3> QED
      BY <1>3, <1>6, <1>9, <1>10, <3>1
  <2> QED
    BY <2>1, <2>2, <2>3 DEF Homes
<1>14. NothingElse'
  <2> SUFFICES ASSUME NEW d \in Nodes, NEW x \in Names, slot'[d][x] # NULL
               PROVE  /\ valid'[d] = 1 /\ dir'[d]
                      /\ valid'[slot'[d][x]] = 1 /\ parent'[slot'[d][x]] = d /\ name'[slot'[d][x]] = x
    BY DEF NothingElse
  <2>1. /\ slot'[d][x] = slot[d][x] /\ slot[d][x] \in Nodes
        /\ ~(valid[src] = 1 /\ d = parent[src] /\ x = a.old)
    BY <1>4, <1>8 DEF Known
  <2> DEFINE n == slot[d][x]
  <2>2. /\ valid[d] = 1 /\ dir[d]
        /\ IF ~Underway(n) THEN valid[n] = 1 /\ parent[n] = d /\ name[n] = x
           ELSE \E u \in Threads :
                  /\ at[u].op = "moving" /\ at[u].src = n
                  /\ \/ d = at[u].pdst /\ x = name[n]
                     \/ valid[n] = 1 /\ d = parent[n] /\ x = at[u].old
    BY <2>1 DEF Places, SlotsExact
  <2>3. valid'[d] = 1
    BY <1>9, <2>2
  <2> HIDE DEF n
  <2>4. CASE n = src
    <3>1. d = pdst /\ x = name[src]
      BY <1>6, <1>7, <2>1, <2>2, <2>4
    <3>2. valid'[src] = 1 /\ parent'[src] = pdst /\ name'[src] = name[src] /\ dir'[d]
      BY <1>1, <1>3, <1>9, <2>2
    <3>3. slot'[d][x] = src
      BY <2>1, <2>4 DEF n
    <3> QED
      BY <2>3, <3>1, <3>2, <3>3
  <2>5. CASE n # src
    <3>1. valid[n] = 1 /\ parent[n] = d /\ name[n] = x
      BY <1>7, <2>2, <2>5
    <3> QED
      BY <1>1, <1>9, <2>1, <2>2, <2>3, <2>5, <3>1 DEF n
  <2> QED
    BY <2>4, <2>5
<1>15. RemovedEmpty'
  <2> SUFFICES ASSUME NEW u \in Threads, at'[u].op = "remove", valid'[at'[u].ep] = 1, NEW x \in Names
               PROVE  slot'[at'[u].ep][x] = NULL
    BY DEF RemovedEmpty
  <2>1. at'[u] = at[u] /\ u # t
    BY <1>1, <1>4 DEF Goto, Idle
  <2>2. at[u].ep \in Nodes /\ at[u].ep \in Held(at[u]) /\ src \in Held(a)
    BY <1>1, <1>2, <2>1, EntryKnown DEF Held
  <2>3. at[u].ep # src
    BY <1>2, <2>1, <2>2 DEF LocksOwned
  <2> QED
    BY <1>8, <1>9, <2>1, <2>2, <2>3 DEF Places, RemovedEmpty
<1> QED
  BY <1>11, <1>13, <1>14, <1>15, SettledNext

LEMMA PlacesInitial == NamespaceInit => PlacesInv
<1> SUFFICES ASSUME NamespaceInit PROVE Places /\ ArgumentsOK
  BY DEF PlacesInv, Places
<1>1. PICK nm \in [Dirs -> Names], up \in [Dirs -> {Root} \cup Dirs] :
        /\ \A c, d \in Dirs : up[c] = up[d] /\ nm[c] = nm[d] => c = d
        /\ \A d \in Dirs : IF up[d] = Root THEN TRUE ELSE up[up[d]] = Root
        /\ name = [n \in Nodes |-> IF n \in Dirs THEN nm[n] ELSE NULL]
        /\ parent = [n \in Nodes |-> IF n \in Dirs THEN up[n] ELSE NULL]
        /\ slot = [d \in Nodes |-> [x \in Names |->
               LET at_x == {c \in Dirs : up[c] = d /\ nm[c] = x}
               IN  IF at_x = {} THEN NULL ELSE CHOOSE c \in at_x : TRUE]]
  BY DEF NamespaceInit
<1>2. /\ dir = [n \in Nodes |-> n \notin Spare] /\ valid = [n \in Nodes |-> IF n \in Spare THEN 0 ELSE 1]
      /\ \A u \in Threads : at[u].op = "idle"
  BY DEF NamespaceInit, Idle
<1>3. /\ Dirs \subseteq Nodes /\ Root \in Nodes /\ Root \notin Spare /\ Dirs \cap Spare = {}
      /\ NULL \notin Nodes /\ Nodes = {Root} \cup Dirs \cup Spare /\ Root \notin Dirs
  BY NamespaceAssumption DEF Nodes
<1>4. ASSUME NEW d \in Nodes, NEW x \in Names
      PROVE  /\ slot[d][x] # NULL => slot[d][x] \in Dirs /\ up[slot[d][x]] = d /\ nm[slot[d][x]] = x
             /\ \A c \in Dirs : up[c] = d /\ nm[c] = x => slot[d][x] = c
  <2> DEFINE at_x == {c \in Dirs : up[c] = d /\ nm[c] = x}
  <2>1. slot[d][x] = IF at_x = {} THEN NULL ELSE CHOOSE c \in at_x : TRUE
    BY <1>1
  <2>2. at_x # {} => (CHOOSE c \in at_x : TRUE) \in at_x
    OBVIOUS
  <2>3. at_x # {} => slot[d][x] \in at_x
    BY <2>1, <2>2
  <2>4. at_x = {} => slot[d][x] = NULL
    BY <2>1
  <2> QED
    BY <1>1, <2>3, <2>4
<1>5. ASSUME NEW n PROVE ~Underway(n)
  BY <1>2 DEF Underway
<1>6. ASSUME NEW n \in Dirs
      PROVE  parent[n] = up[n] /\ name[n] = nm[n] /\ parent[n] \in Nodes /\ parent[n] \notin Spare
  BY <1>1, <1>3
<1>7. EntriesInPlace
  <2>1. ASSUME NEW n \in Known PROVE parent[n] = NULL <=> n = Root
    <3>1. n \in Nodes /\ n \notin Spare
      BY <1>2 DEF Known
    <3> QED
      BY <1>1, <1>3, <1>6, <3>1
  <2>2. ASSUME NEW n \in Nodes \ {Root}, valid[n] = 1 PROVE InPlace(n)
    <3>1. n \in Dirs
      BY <1>2, <1>3, <2>2
    <3>2. valid[parent[n]] = 1 /\ dir[parent[n]]
      BY <1>2, <1>6, <3>1
    <3>3. name[n] \in Names /\ parent[n] \in Nodes /\ up[n] = parent[n] /\ nm[n] = name[n]
      BY <1>6, <3>1
    <3>4. slot[parent[n]][name[n]] = n
      BY <1>4, <3>1, <3>3
    <3> QED
      BY <3>2, <3>3, <3>4 DEF InPlace
  <2> QED
    BY <2>1, <2>2 DEF EntriesInPlace
<1>8. SlotsExact
  <2> SUFFICES ASSUME NEW d \in Nodes, NEW x \in Names, slot[d][x] # NULL
               PROVE  /\ valid[d] = 1 /\ dir[d]
                      /\ valid[slot[d][x]] = 1 /\ parent[slot[d][x]] = d /\ name[slot[d][x]] = x
    BY <1>5 DEF SlotsExact
  <2>1. slot[d][x] \in Dirs /\ up[slot[d][x]] = d /\ nm[slot[d][x]] = x
    BY <1>4
  <2>2. parent[slot[d][x]] = d /\ name[slot[d][x]] = x /\ d \notin Spare
    BY <1>6, <2>1
  <2> QED
    BY <1>2, <1>3, <2>1, <2>2
<1> QED
  BY <1>2, <1>7, <1>8 DEF Places, MovesHalfDone, RemovedEmpty, ArgumentsOK

\* The steps that only search the tree.
LEMMA SearchPlaces ==
    ASSUME NamespaceInv, Places, NEW t \in Threads, ~undefined',
           \/ Begin(t) \/ lookup_path(t) \/ Found(t) \/ create_done(t)
           \/ rename_check(t) \/ rename_src(t) \/ rename_over(t)
    PROVE  Places'
<1> DEFINE a == at[t]
<1>1. NamespaceTypeOK /\ Idle.op = "idle"
  BY DEF NamespaceInv, Idle
<1>2. ASSUME NEW b, Goto(t, b), NoTree, a.op # "moving", b.op \notin {"moving", "remove"} PROVE Places'
  BY <1>1, <1>2, PlacesKept
<1>3. CASE Begin(t)
  <2>1. PICK op \in {"unlink", "open", "mkdir", "rename"}, path \in Paths, new \in Paths,
             from \in {Root, cwd[t]} :
               Goto(t, [op |-> "look", cur |-> from, rest |-> path, call |-> op,
                        from |-> from, path |-> path, new |-> new, src |-> NULL])
    BY <1>3 DEF Begin
  <2>2. a.op # "moving" /\ NoTree
    BY <1>1, <1>3 DEF Begin, NoTree
  <2> DEFINE b == [op |-> "look", cur |-> from, rest |-> path, call |-> op,
                   from |-> from, path |-> path, new |-> new, src |-> NULL]
  <2>3. b.op = "look"
    OBVIOUS
  <2> HIDE DEF b
  <2> QED
    BY <1>2, <2>1, <2>2, <2>3 DEF b
<1>4. CASE lookup_path(t)
  <2>1. a.op = "look" /\ a \in Looking(Known)
    BY <1>4, LookFacts DEF lookup_path
  <2>2. PICK n : \/ eget(a.cur, Head(a.rest), n) /\ Goto(t, [a EXCEPT !.cur = n, !.rest = Tail(@)])
                 \/ NoTree /\ Goto(t, [a EXCEPT !.op = "create"])
                 \/ NoTree /\ Goto(t, Idle)
    BY <1>4 DEF lookup_path, Fails
  <2>3. NoTree
    BY <2>2, GetNothing
  <2>4. [a EXCEPT !.cur = n, !.rest = Tail(@)].op = "look" /\ [a EXCEPT !.op = "create"].op = "create"
    BY <2>1 DEF Looking
  <2> QED
    BY <1>1, <1>2, <2>1, <2>2, <2>3, <2>4
<1>5. CASE Found(t)
  <2>1. a.op = "look" /\ NoTree /\ a \in Looking(Known)
    BY <1>5, LookFacts DEF Found, NoTree
  <2> DEFINE on == [op |-> "unlink", ep |-> a.cur]
             again == [a EXCEPT !.src = a.cur, !.cur = a.from, !.rest = a.new]
             check == [op |-> "check", src |-> a.src, pdst |-> a.cur, new |-> Head(a.rest)]
             make == [a EXCEPT !.op = "create"]
  <2>2. on.op = "unlink" /\ again.op = "look" /\ check.op = "check" /\ make.op = "create"
    BY <2>1 DEF Looking
  <2>3. a.call \in {"unlink", "open", "mkdir", "rename"}
    BY <2>1 DEF Looking
  <2>4. Goto(t, on) \/ Goto(t, again) \/ Goto(t, check) \/ Goto(t, make) \/ Goto(t, Idle)
    BY <1>5, <2>3 DEF Found, Fails
  <2> HIDE DEF on, again, check, make
  <2> QED
    BY <1>1, <1>2, <2>1, <2>2, <2>4
<1>6. CASE create_done(t)
  BY <1>1, <1>2, <1>6 DEF create_done, NoTree
<1>7. CASE rename_check(t)
  <2> DEFINE b == IF a.src \in Above(a.pdst) THEN Idle ELSE [a EXCEPT !.op = "rename"]
  <2>1. a.op = "check" /\ NoTree /\ Goto(t, b)
    BY <1>7 DEF rename_check, Fails, NoTree
  <2>2. a \in Moving(Known)
    BY <1>1, <2>1, DoingCases DEF NamespaceTypeOK
  <2>3. b.op \in {"idle", "rename"}
    BY <1>1, <2>2 DEF Moving
  <2> HIDE DEF b
  <2> QED
    BY <1>2, <2>1, <2>3
<1>8. CASE rename_src(t)
  <2> DEFINE b == [a EXCEPT !.op = "locked"]
  <2>1. a.op = "rename" /\ NoTree /\ Goto(t, b)
    BY <1>8 DEF rename_src, NoTree
  <2>2. a \in Moving(Known)
    BY <1>1, <2>1, DoingCases DEF NamespaceTypeOK
  <2>3. b.op = "locked"
    BY <2>2 DEF Moving
  <2> HIDE DEF b
  <2> QED
    BY <1>2, <2>1, <2>3
<1>9. CASE rename_over(t)
  <2> DEFINE b == [a EXCEPT !.op = "empty"]
  <2>1. a.op = "over" /\ NoTree /\ (Goto(t, b) \/ Goto(t, Idle))
    BY <1>9 DEF rename_over, NoTree
  <2>2. a \in Overwriting(Known)
    BY <1>1, <2>1, DoingCases DEF NamespaceTypeOK
  <2>3. b.op = "empty"
    BY <2>2 DEF Overwriting
  <2> HIDE DEF b
  <2> QED
    BY <1>1, <1>2, <2>1, <2>3
<1> QED
  BY <1>3, <1>4, <1>5, <1>6, <1>7, <1>8, <1>9

\* Overwriting writes at an offset that was never set.
LEMMA RemovePlaces ==
    ASSUME NamespaceInv, Places, ArgumentsOK, NEW t \in Threads, rename_remove(t), ~undefined'
    PROVE  Places' /\ ArgumentsOK'
<1>1. at[t] \in Overwriting(Known)
  BY DoingCases DEF NamespaceInv, NamespaceTypeOK, rename_remove
<1>2. at[t].dst # NULL
  BY <1>1, NamespaceAssumption DEF Overwriting, Known
<1>3. UNCHANGED <<treeVars, lock, cwd, at, calls, undefined>>
  BY <1>2 DEF rename_remove, Place, Move
<1>4. parent' = parent /\ name' = name /\ dir' = dir /\ valid' = valid /\ slot' = slot /\ at' = at
  BY <1>3 DEF treeVars
<1> QED
  BY <1>4, SamePlaces DEF ArgumentsOK

---------------------------------------------------------------------------
(* What the calls have found.                                              *)

LEMMA ArgumentStep ==
    ASSUME NamespaceTypeOK, ArgumentsOK, NEW t \in Threads, NEW b, Goto(t, b),
           \A n \in Known : dir'[n] = dir[n],
           b.op = "look" => (b.rest = <<>> => b.cur # Root) /\ (b.call = "unlink" => b.src = NULL),
           b.op \in {"unlink", "remove"} => b.ep # Root,
           b.op \in {"check", "rename", "locked"} => dir'[b.pdst]
    PROVE  ArgumentsOK'
<1>1. at' = [at EXCEPT ![t] = b] /\ at \in [Threads -> Doing(Known)]
  BY DEF Goto, NamespaceTypeOK
<1>2. ASSUME NEW u \in Threads
      PROVE  /\ at'[u].op = "look" => /\ at'[u].rest = <<>> => at'[u].cur # Root
                                      /\ at'[u].call = "unlink" => at'[u].src = NULL
             /\ at'[u].op \in {"unlink", "remove"} => at'[u].ep # Root
             /\ at'[u].op \in {"check", "rename", "locked"} => dir'[at'[u].pdst]
  <2>1. CASE u = t
    BY <1>1, <2>1
  <2>2. CASE u # t
    <3>1. at'[u] = at[u] /\ at[u] \in Doing(Known)
      BY <1>1, <2>2
    <3>2. at[u].op \in {"check", "rename", "locked"} => at[u].pdst \in Known
      BY <3>1, DoingCases DEF Moving
    <3> QED
      BY <3>1, <3>2 DEF ArgumentsOK
  <2> QED
    BY <2>1, <2>2
<1> QED
  BY <1>2 DEF ArgumentsOK

\* The steps of a lookup.
LEMMA SearchArguments ==
    ASSUME NamespaceInv, Places, ArgumentsOK, NEW t \in Threads, ~undefined',
           Begin(t) \/ lookup_path(t) \/ Found(t)
    PROVE  ArgumentsOK'
<1> DEFINE a == at[t]
<1>1. NamespaceTypeOK /\ Idle.op = "idle"
  BY DEF NamespaceInv, Idle
<1>2. ASSUME NEW b, Goto(t, b), NoTree,
             b.op = "look" => (b.rest = <<>> => b.cur # Root) /\ (b.call = "unlink" => b.src = NULL),
             b.op \in {"unlink", "remove"} => b.ep # Root,
             b.op \in {"check", "rename", "locked"} => dir[b.pdst]
      PROVE  ArgumentsOK'
  <2>1. dir' = dir
    BY <1>2 DEF NoTree, treeVars
  <2> QED
    BY <1>1, <1>2, <2>1, ArgumentStep
<1>3. CASE Begin(t)
  <2>1. PICK op \in {"unlink", "open", "mkdir", "rename"}, path \in Paths, new \in Paths,
             from \in {Root, cwd[t]} :
               Goto(t, [op |-> "look", cur |-> from, rest |-> path, call |-> op,
                        from |-> from, path |-> path, new |-> new, src |-> NULL])
    BY <1>3 DEF Begin
  <2> DEFINE b == [op |-> "look", cur |-> from, rest |-> path, call |-> op,
                   from |-> from, path |-> path, new |-> new, src |-> NULL]
  <2>2. NoTree /\ b.op = "look" /\ b.rest = path /\ b.src = NULL /\ path # <<>> /\ Goto(t, b)
    BY <1>3, <2>1, PathsNonempty DEF Begin, NoTree
  <2> HIDE DEF b
  <2> QED
    BY <1>2, <2>2
<1>4. CASE lookup_path(t)
  <2>1. a.op = "look" /\ a \in Looking(Known) /\ a.cur \in Known /\ a.rest # <<>> /\ Head(a.rest) \in Names
    <3>1. a.op = "look" /\ Len(a.rest) > Stop(a)
      BY <1>4 DEF lookup_path
    <3>2. a.rest # <<>>
      BY <3>1, LookFacts DEF Stop
    <3> QED
      BY <3>1, <3>2, LookFacts
  <2>2. PICK n : \/ /\ n \in dirlookup(a.cur, Head(a.rest)) /\ n # NULL /\ eget(a.cur, Head(a.rest), n)
                    /\ Goto(t, [a EXCEPT !.cur = n, !.rest = Tail(@)])
                 \/ NoTree /\ Goto(t, [a EXCEPT !.op = "create"])
                 \/ NoTree /\ Goto(t, Idle)
    BY <1>4 DEF lookup_path, Fails
  <2>3. NoTree
    BY <2>2, GetNothing
  <2>4. CASE /\ n \in dirlookup(a.cur, Head(a.rest)) /\ n # NULL /\ eget(a.cur, Head(a.rest), n)
             /\ Goto(t, [a EXCEPT !.cur = n, !.rest = Tail(@)])
    <3> DEFINE b == [a EXCEPT !.cur = n, !.rest = Tail(@)]
    <3>1. n \in Known /\ parent[n] = a.cur
      BY <1>1, <2>1, <2>4, GetNothing, LookupKnown DEF Fresh
    <3>2. n # Root
      BY <2>1, <3>1, NamespaceAssumption DEF Places, EntriesInPlace, Known
    <3>3. b.op = "look" /\ b.cur = n /\ b.call = a.call /\ b.src = a.src /\ Goto(t, b)
      BY <2>1, <2>4 DEF Looking
    <3>4. a.call = "unlink" => a.src = NULL
      BY <2>1 DEF ArgumentsOK
    <3> HIDE DEF b
    <3> QED
      BY <1>2, <2>3, <3>2, <3>3, <3>4
  <2>5. CASE Goto(t, [a EXCEPT !.op = "create"])
    <3>1. [a EXCEPT !.op = "create"].op = "create"
      BY <2>1 DEF Looking
    <3> QED
      BY <1>2, <2>3, <2>5, <3>1
  <2>6. CASE Goto(t, Idle)
    BY <1>1, <1>2, <2>3, <2>6
  <2> QED
    BY <2>2, <2>4, <2>5, <2>6
<1>5. CASE Found(t)
  <2>1. a.op = "look" /\ NoTree /\ a \in Looking(Known) /\ Len(a.rest) = Stop(a) /\ a.rest \in Seq(Names)
    BY <1>5, LookFacts DEF Found, NoTree
  <2> DEFINE on == [op |-> "unlink", ep |-> a.cur]
             again == [a EXCEPT !.src = a.cur, !.cur = a.from, !.rest = a.new]
             check == [op |-> "check", src |-> a.src, pdst |-> a.cur, new |-> Head(a.rest)]
             make == [a EXCEPT !.op = "create"]
  <2>2. /\ on.op = "unlink" /\ on.ep = a.cur /\ again.op = "look" /\ again.rest = a.new /\ again.call = a.call
        /\ check.op = "check" /\ check.pdst = a.cur /\ make.op = "create"
    BY <2>1 DEF Looking
  <2>3. a.call \in {"unlink", "open", "mkdir", "rename"} /\ a.new \in Paths
    BY <2>1 DEF Looking
  <2>4. \/ Goto(t, on) /\ a.call = "unlink"
        \/ Goto(t, again) /\ a.call = "rename"
        \/ Goto(t, check) /\ dir[a.cur]
        \/ Goto(t, make)
        \/ Goto(t, Idle)
    BY <1>5, <2>3 DEF Found, Fails
  <2> HIDE DEF on, again, check, make
  <2>5. CASE Goto(t, on) /\ a.call = "unlink"
    <3>1. Stop(a) = 0
      BY <2>1, <2>5 DEF Stop, ArgumentsOK
    <3>2. a.rest = <<>>
      BY <2>1, <3>1
    <3>3. a.cur # Root
      BY <2>1, <3>2 DEF ArgumentsOK
    <3> QED
      BY <1>2, <2>1, <2>2, <2>5, <3>3
  <2>6. CASE Goto(t, again) /\ a.call = "rename"
    BY <1>2, <2>1, <2>2, <2>3, <2>6, PathsNonempty
  <2>7. CASE Goto(t, check) /\ dir[a.cur]
    BY <1>2, <2>1, <2>2, <2>7
  <2>8. CASE Goto(t, make)
    BY <1>2, <2>1, <2>2, <2>8
  <2>9. CASE Goto(t, Idle)
    BY <1>1, <1>2, <2>1, <2>9
  <2> QED
    BY <2>4, <2>5, <2>6, <2>7, <2>8, <2>9
<1> QED
  BY <1>3, <1>4, <1>5

LEMMA ArgumentsStep ==
    ASSUME NamespaceInv, Places, ArgumentsOK, NEW t \in Threads, Step(t), ~undefined'
    PROVE  ArgumentsOK'
<1> DEFINE a == at[t]
<1>1. NamespaceTypeOK /\ Idle.op = "idle"
  BY DEF NamespaceInv, Idle
<1>2. ASSUME NEW b, Goto(t, b), \A n \in Known : dir'[n] = dir[n],
             b.op \notin {"look", "unlink", "remove", "check", "rename", "locked"}
      PROVE  ArgumentsOK'
  BY <1>1, <1>2, ArgumentStep
<1>3. CASE Begin(t) \/ lookup_path(t) \/ Found(t)
  BY <1>3, SearchArguments
<1>4. CASE create(t)
  <2> DEFINE x == Head(a.rest)
             isdir == ~(Len(a.rest) = 1) \/ a.call = "mkdir"
             next(m) == IF Len(a.rest) = 1 THEN [op |-> "opened", ep |-> m]
                        ELSE [a EXCEPT !.cur = m, !.rest = Tail(@)]
  <2>1. a.op = "create" /\ a \in Looking(Known)
    BY <1>4, LookFacts DEF create
  <2>2. PICK n \in IF dir[a.cur] THEN ealloc(a.cur, x) ELSE {NULL} :
          CASE n = NULL -> NoTree /\ UNCHANGED undefined /\ Goto(t, Idle)
            [] n # NULL /\ dirlookup(a.cur, x) # {NULL} ->
                 eget(a.cur, x, n) /\ Goto(t, IF dir'[n] = isdir THEN next(n) ELSE Idle)
            [] OTHER -> NewEntry(a.cur, x, n, isdir) /\ Goto(t, next(n))
    BY <1>4 DEF create
  <2>3. next(n).op \in {"opened", "create"}
    BY <2>1 DEF Looking
  <2>4. Goto(t, next(n)) \/ Goto(t, Idle)
    BY <2>2
  <2>5. ASSUME NEW m \in Known PROVE dir'[m] = dir[m]
    <3>1. CASE NoTree
      BY <3>1 DEF NoTree, treeVars
    <3>2. CASE n # NULL /\ dirlookup(a.cur, x) = {NULL}
      <4>1. dir' = [dir EXCEPT ![n] = isdir] /\ n \in ealloc(a.cur, x)
        BY <2>2, <3>2 DEF NewEntry
      <4>2. n \notin Known
        BY <3>2, <4>1 DEF ealloc, OrFresh, Fresh, Known
      <4>3. m # n /\ dir \in [Nodes -> BOOLEAN] /\ m \in Nodes
        BY <1>1, <4>2 DEF Known, NamespaceTypeOK
      <4> HIDE DEF isdir
      <4> QED
        BY <4>1, <4>3, Zenon
    <3>3. CASE n # NULL /\ dirlookup(a.cur, x) # {NULL}
      <4>1. eget(a.cur, x, n)
        BY <2>2, <3>3
      <4> QED
        BY <3>1, <4>1, GetNothing
    <3> QED
      BY <2>2, <3>1, <3>2, <3>3
  <2> HIDE DEF next
  <2> QED
    BY <1>1, <1>2, <2>3, <2>4, <2>5
<1>5. CASE create_done(t)
  BY <1>1, <1>2, <1>5 DEF create_done, treeVars
<1>6. CASE unlink_lock(t)
  <2> DEFINE b == [op |-> "remove", ep |-> a.ep]
  <2>1. (Goto(t, b) \/ Goto(t, Idle)) /\ dir' = dir /\ a.ep # Root
    BY <1>6 DEF unlink_lock, treeVars, ArgumentsOK
  <2>2. b.op = "remove" /\ b.ep = a.ep
    OBVIOUS
  <2> HIDE DEF b
  <2> QED
    BY <1>1, <2>1, <2>2, ArgumentStep
<1>7. CASE unlink_remove(t)
  BY <1>1, <1>2, <1>7 DEF unlink_remove
<1>8. CASE rename_check(t) \/ rename_src(t)
  <2>1. a.op \in {"check", "rename"} /\ dir' = dir /\ dir[a.pdst]
    BY <1>8 DEF rename_check, rename_src, treeVars, ArgumentsOK
  <2>2. a \in Moving(Known)
    BY <1>1, <2>1, DoingCases DEF NamespaceTypeOK
  <2> DEFINE b == [a EXCEPT !.op = "rename"]
             c == [a EXCEPT !.op = "locked"]
  <2>3. b.op = "rename" /\ b.pdst = a.pdst /\ c.op = "locked" /\ c.pdst = a.pdst
    BY <2>2 DEF Moving
  <2>4. Goto(t, b) \/ Goto(t, c) \/ Goto(t, Idle)
    BY <1>8 DEF rename_check, rename_src, Fails
  <2> HIDE DEF b, c
  <2> QED
    BY <1>1, <2>1, <2>3, <2>4, ArgumentStep
<1>9. CASE rename_pdst(t)
  <2>1. CASE Goto(t, Idle) /\ dir' = dir
    BY <1>1, <1>2, <2>1
  <2>2. ASSUME NEW b, b.op = "over" \/ b.op = "moving", Goto(t, b), dir' = dir PROVE ArgumentsOK'
    BY <1>2, <2>2
  <2>3. CASE at' = at /\ dir' = dir
    BY <2>3 DEF ArgumentsOK
  <2> DEFINE on == [op |-> "moving", src |-> a.src, pdst |-> a.pdst, old |-> name[a.src]]
             over(dst) == [op |-> "over", src |-> a.src, pdst |-> a.pdst, new |-> a.new, dst |-> dst]
  <2>4. on.op = "moving" /\ \A dst : over(dst).op = "over"
    OBVIOUS
  <2>5. PICK dst \in dirlookup(a.pdst, a.new) :
          \/ Place(t, a, NULL)
          \/ eget(a.pdst, a.new, dst) /\ (Goto(t, over(dst)) \/ Goto(t, Idle))
    BY <1>9 DEF rename_pdst
  <2>6. CASE Place(t, a, NULL)
    <3>1. dir' = dir /\ (Goto(t, Idle) \/ Goto(t, on) \/ at' = at)
      BY <2>6 DEF Place, Move, treeVars
    <3> HIDE DEF on
    <3> QED
      BY <2>1, <2>2, <2>3, <2>4, <3>1
  <2>7. CASE eget(a.pdst, a.new, dst) /\ (Goto(t, over(dst)) \/ Goto(t, Idle))
    <3>1. dir' = dir
      BY <2>7, GetNothing DEF NoTree, treeVars
    <3> HIDE DEF over
    <3> QED
      BY <2>1, <2>2, <2>4, <2>7, <3>1
  <2> QED
    BY <2>5, <2>6, <2>7
<1>10. CASE rename_over(t)
  <2> DEFINE b == [a EXCEPT !.op = "empty"]
  <2>1. (Goto(t, b) \/ Goto(t, Idle)) /\ dir' = dir /\ a.op = "over"
    BY <1>10 DEF rename_over, treeVars
  <2>2. a \in Overwriting(Known)
    BY <1>1, <2>1, DoingCases DEF NamespaceTypeOK
  <2>3. b.op = "empty"
    BY <2>2 DEF Overwriting
  <2> HIDE DEF b
  <2> QED
    BY <1>1, <1>2, <2>1, <2>3
<1>11. CASE rename_remove(t)
  BY <1>11, RemovePlaces
<1>12. CASE rename_done(t)
  BY <1>1, <1>2, <1>12 DEF rename_done
<1> QED
  BY <1>3, <1>4, <1>5, <1>6, <1>7, <1>8, <1>9, <1>10, <1>11, <1>12 DEF Step

LEMMA UndefinedStays ==
    ASSUME NamespaceInv, [NamespaceNext]_nsVars, undefined
    PROVE  undefined'
<1>1. CASE UNCHANGED nsVars
  BY <1>1 DEF nsVars
<1>2. CASE NamespaceNext
  <2>1. PICK t \in Threads : Step(t)
    BY <1>2 DEF NamespaceNext
  <2>2. CASE Begin(t) \/ Found(t) \/ create_done(t) \/ unlink_lock(t) \/ unlink_remove(t)
             \/ rename_check(t) \/ rename_src(t) \/ rename_over(t)
    BY <2>2 DEF Begin, Found, create_done, unlink_lock, unlink_remove, rename_check, rename_src, rename_over
  <2>3. ASSUME NEW d, NEW x, NEW n, eget(d, x, n) PROVE undefined'
    BY <2>3 DEF eget
  <2>4. CASE lookup_path(t)
    BY <2>3, <2>4 DEF lookup_path
  <2>5. CASE create(t)
    BY <2>3, <2>5 DEF create, NewEntry
  <2>6. CASE rename_done(t)
    BY <2>6 DEF rename_done
  <2>7. ASSUME NEW a, NEW gone, Place(t, a, gone) PROVE undefined'
    BY <2>7 DEF Place, Move
  <2>8. CASE rename_pdst(t) \/ rename_remove(t)
    BY <2>3, <2>7, <2>8 DEF rename_pdst, rename_remove
  <2> QED
    BY <2>1, <2>2, <2>4, <2>5, <2>6, <2>8 DEF Step
<1> QED
  BY <1>1, <1>2

LEMMA PlacesStep == NamespaceInv /\ PlacesInv /\ [NamespaceNext]_nsVars => PlacesInv'
<1> SUFFICES ASSUME NamespaceInv, PlacesInv, [NamespaceNext]_nsVars, ~undefined'
             PROVE  Places' /\ ArgumentsOK'
  BY DEF PlacesInv, Places
<1>1. ~undefined /\ Places /\ ArgumentsOK /\ OneEntryEach
  BY UndefinedStays DEF PlacesInv, Places, NamespaceInv
<1>2. CASE UNCHANGED nsVars
  <2>1. parent' = parent /\ name' = name /\ dir' = dir /\ valid' = valid /\ slot' = slot /\ at' = at
    BY <1>2 DEF nsVars, treeVars
  <2> QED
    BY <1>1, <2>1, SamePlaces DEF ArgumentsOK
<1>3. CASE NamespaceNext
  <2>1. PICK t \in Threads : Step(t)
    BY <1>3 DEF NamespaceNext
  <2>2. ArgumentsOK'
    BY <1>1, <2>1, ArgumentsStep
  <2>3. CASE \/ Begin(t) \/ lookup_path(t) \/ Found(t) \/ create_done(t)
             \/ rename_check(t) \/ rename_src(t) \/ rename_over(t)
    BY <1>1, <2>2, <2>3, SearchPlaces
  <2>4. CASE create(t)
    BY <1>1, <2>2, <2>4, CreatePlaces
  <2>5. CASE unlink_lock(t)
    BY <1>1, <2>2, <2>5, UnlinkLockPlaces
  <2>6. CASE unlink_remove(t)
    BY <1>1, <2>2, <2>6, UnlinkRemovePlaces
  <2>7. CASE rename_pdst(t)
    BY <1>1, <2>2, <2>7, PdstPlaces
  <2>8. CASE rename_remove(t)
    BY <1>1, <2>8, RemovePlaces
  <2>9. CASE rename_done(t)
    BY <1>1, <2>2, <2>9, RenameDonePlaces
  <2> QED
    BY <2>1, <2>3, <2>4, <2>5, <2>6, <2>7, <2>8, <2>9 DEF Step
<1> QED
  BY <1>2, <1>3

\* What sys_getcwd() and lookup_path() rely on at every entry they pass, while
\* others look up, create and remove, a rename in progress included: each entry
\* that was not removed is on disk under its name in its parent, a directory
\* that was not removed either, and a directory has nothing else on disk; an
\* entry between the two halves of a rename is in its new place and, unless it
\* had been removed, still in its old one.  It ends, for good, with two renames
\* that overlap, a rename that writes at an offset it never set (over an empty
\* directory, or into a directory removed since it was looked up), and a lookup
\* of the old or new name between the halves of a rename.
THEOREM EntriesHavePlaces == NamespaceSpec => []PlacesInv
<1>1. NamespaceInit => NamespaceInv /\ PlacesInv
  BY NamespaceInitial, PlacesInitial
<1>2. NamespaceInv /\ PlacesInv /\ [NamespaceNext]_nsVars => (NamespaceInv /\ PlacesInv)'
  BY NamespaceStep, PlacesStep
<1> QED
  BY <1>1, <1>2, PTL DEF NamespaceSpec

=============================================================================
