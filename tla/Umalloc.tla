------------------------------ MODULE Umalloc ------------------------------
(***************************************************************************)
(* malloc() and free() of user programs, user/umalloc.c: a circular list   *)
(* of free blocks in the order of their addresses that starts at `base'.   *)
(* Addresses and sizes are in units of a header.                           *)
(***************************************************************************)
EXTENDS Integers, FiniteSets, TLC

CONSTANTS
    HEADER,      \* sizeof(Header), in bytes
    CORE,        \* the least that morecore() asks for, 4096 in the code
    Requests,    \* bytes that programs ask for
    Brk,         \* bound: units that sbrk() gives
    NIL

ASSUME UmallocAssumption == {HEADER, CORE, Brk} \subseteq Nat \ {0} /\ Requests \subseteq Nat

VARIABLES
    hdr,         \* the headers that are in use, by address: [ptr, size]
    freep,
    brk,         \* the end of the heap
    sbrked,      \* the units that morecore() got from sbrk()
    held         \* what the program has: address of the header to units asked for

heapVars == <<hdr, freep, brk, sbrked, held>>

base == 0

\* Where free() stops in the list: between p and p->ptr, or at the wrap.
Between(h, p, bp) ==
    \/ bp > p /\ bp < h[p].ptr
    \/ p >= h[p].ptr /\ (bp > p \/ bp < h[p].ptr)

RECURSIVE Before(_, _, _)
Before(h, p, bp) == IF Between(h, p, bp) THEN p ELSE Before(h, h[p].ptr, bp)

Without(h, a) == [x \in DOMAIN h \ {a} |-> h[x]]

\* Variant: its size is forgotten.
vJoinUpper(h, p, bp) ==
    LET nx == h[p].ptr
    IN  IF bp + h[bp].size = nx THEN Without([h EXCEPT ![bp].ptr = h[nx].ptr], nx)
        ELSE [h EXCEPT ![bp].ptr = nx]

\* The block at bp takes in the free block that follows it.
JoinUpper(h, p, bp) ==
    LET nx == h[p].ptr
    IN  IF bp + h[bp].size = nx
        THEN Without([h EXCEPT ![bp] = [size |-> @.size + h[nx].size, ptr |-> h[nx].ptr]], nx)
        ELSE [h EXCEPT ![bp].ptr = nx]

\* The block before it takes in the one at bp.
JoinLower(h, p, bp) ==
    IF p + h[p].size = bp
    THEN Without([h EXCEPT ![p] = [size |-> @.size + h[bp].size, ptr |-> h[bp].ptr]], bp)
    ELSE [h EXCEPT ![p].ptr = bp]

\* free(), with the list from f on; the result is the list and freep.
Free(h, f, bp) ==
    LET p == Before(h, f, bp) IN [hdr |-> JoinLower(JoinUpper(h, p, bp), p, bp), freep |-> p]

\* malloc() takes n units of the block at p, all of it or its end.  Nobody
\* reads the ptr of a block that is taken.
Take(h, prevp, p, n) ==
    IF h[p].size = n
    THEN [hdr |-> [h EXCEPT ![prevp].ptr = h[p].ptr, ![p].ptr = NIL],
          at |-> p, freep |-> prevp, brk |-> brk, got |-> {}]
    ELSE LET at == p + h[p].size - n
         IN  [hdr |-> [x \in DOMAIN h \cup {at} |->
                         IF x = at THEN [ptr |-> NIL, size |-> n]
                         ELSE IF x = p THEN [h[p] EXCEPT !.size = @ - n] ELSE h[x]],
              at |-> at, freep |-> prevp, brk |-> brk, got |-> {}]

\* morecore(): at least CORE units, which free() puts into the list.
morecore(h, f, n) ==
    LET nu == IF n < CORE THEN CORE ELSE n
        new == [x \in DOMAIN h \cup {brk} |-> IF x = brk THEN [ptr |-> NIL, size |-> nu] ELSE h[x]]
    IN  IF brk + nu > Brk THEN NIL
        ELSE [more |-> Free(new, f, brk), brk |-> brk + nu, got |-> brk .. brk + nu - 1]

\* The loop of malloc(): first fit, from freep once around.
RECURSIVE Search(_, _, _, _, _)
Search(h, f, prevp, p, n) ==
    IF h[p].size >= n THEN Take(h, prevp, p, n)
    ELSE IF p # f THEN Search(h, f, p, h[p].ptr, n)
    ELSE LET c == morecore(h, f, n)
         IN  IF c = NIL THEN [hdr |-> h, at |-> NIL, freep |-> f, brk |-> brk, got |-> {}]
             ELSE LET q == c.more.freep
                  IN  [Search(c.more.hdr, q, q, c.more.hdr[q].ptr, n)
                          EXCEPT !.brk = c.brk, !.got = c.got]

Units(nbytes) == (nbytes + HEADER - 1) \div HEADER + 1

\* The first call makes the list.
List(h) == IF freep = NIL THEN base :> [ptr |-> base, size |-> 0] ELSE h
malloc ==
    \E nbytes \in Requests :
    \E f \in {IF freep = NIL THEN base ELSE freep} :
    \E h \in {List(hdr)} :
    \E r \in {Search(h, f, f, h[f].ptr, Units(nbytes))} :
        /\ hdr' = r.hdr /\ freep' = r.freep /\ brk' = r.brk
        /\ sbrked' = sbrked \cup r.got
        /\ held' = IF r.at = NIL THEN held ELSE held @@ (r.at :> Units(nbytes))

free ==
    \E bp \in DOMAIN held :
    \E r \in {Free(hdr, freep, bp)} :
        /\ hdr' = r.hdr /\ freep' = r.freep
        /\ held' = Without(held, bp)
        /\ UNCHANGED <<brk, sbrked>>

\* A program that calls sbrk() itself.
sbrk ==
    /\ brk < Brk
    /\ brk' = brk + 1
    /\ UNCHANGED <<hdr, freep, sbrked, held>>

HeapInit ==
    /\ hdr = <<>> /\ freep = NIL /\ held = <<>>
    /\ brk = base + 1 /\ sbrked = {}

HeapNext == malloc \/ free \/ sbrk

HeapSpec == HeapInit /\ [][HeapNext]_heapVars

---------------------------------------------------------------------------
BlockAt(a) == a .. a + hdr[a].size - 1

\* Every unit that came from sbrk() is in one block, which the program has or
\* which is on the list; the program has what it asked for; the list comes
\* back to where it started; and no two blocks on it could be one.
HeapExact ==
    LET headers == DOMAIN hdr \ {base}
        frees == headers \ DOMAIN held
        after(a) == {b \in frees : b > a}
    IN  /\ UNION {BlockAt(a) : a \in headers} = sbrked
        /\ \A a, b \in headers : a # b => BlockAt(a) \cap BlockAt(b) = {}
        /\ DOMAIN held \subseteq headers
        /\ \A a \in DOMAIN held : hdr[a].size = held[a]
        /\ \A a \in frees : a + hdr[a].size \notin frees
        /\ \A a \in DOMAIN hdr \ DOMAIN held :
             hdr[a].ptr = IF after(a) = {} THEN base
                          ELSE CHOOSE b \in after(a) : \A c \in after(a) : b <= c
=============================================================================
