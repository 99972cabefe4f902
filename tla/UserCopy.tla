------------------------------ MODULE UserCopy ------------------------------
(***************************************************************************)
(* The copies between the kernel and the memory of a process: the second   *)
(* half of vm.c, and the arguments of system calls in syscall.c.           *)
(*                                                                         *)
(* leaf: the pages that the page table maps for the user (PTE_V and        *)
(* PTE_PLV3).  A copy is described by how it ends and by the user bytes    *)
(* that it touches, in their order.  Addresses are those of user programs: *)
(* the windows of physical memory that walkaddr() lets through are above.  *)
(***************************************************************************)
EXTENDS Integers, Sequences

CONSTANTS
    PGSIZE,
    MAXVA,       \* the first address that a page table cannot translate
    WORD         \* sizeof(uint64)

\* Addresses as page numbers.
PGROUNDDOWN(a) == a \div PGSIZE
PGROUNDUP(a) == (a + PGSIZE - 1) \div PGSIZE

\* The bytes from a on.
Bytes(a, n) == [i \in 1 .. n |-> a + i - 1]

Least(x, y) == IF x < y THEN x ELSE y
Ended(how) == [end |-> how, got |-> <<>>]

\* Can the page at va be used by the kernel for the user?
walkaddr(leaf, va) == va < MAXVA /\ PGROUNDDOWN(va) \in leaf


\* One turn of the loop of copyin() and copyout(): c.va is where it is, c.left
\* how much is to be copied.  va0: the start of the page.
NextPage(leaf, c, va0) ==
    LET n == Least(PGSIZE - (c.va - va0), c.left)
    IN  IF walkaddr(leaf, va0)
        THEN [end |-> "ok", left |-> c.left - n, va |-> va0 + PGSIZE, got |-> c.got \o Bytes(c.va, n)]
        ELSE [c EXCEPT !.end = "fault"]

copyin(leaf, srcva, len) ==
    LET turn[k \in Nat] ==
            IF k = 0 THEN [end |-> "ok", left |-> len, va |-> srcva, got |-> <<>>]
            ELSE LET c == turn[k - 1]
                 IN  IF c.end = "fault" \/ c.left = 0 THEN c
                     ELSE NextPage(leaf, c, PGROUNDDOWN(c.va) * PGSIZE)
    IN  turn[len]

\* copyout() has the same loop.
copyout(leaf, dstva, len) == IF dstva > MAXVA THEN Ended("panic") ELSE copyin(leaf, dstva, len)

\* copyin2() and copyout2() test p->sz and use the user's address as it is.
copyin2(sz, va, len) ==
    IF va + len > sz \/ va >= sz THEN Ended("fault") ELSE [end |-> "ok", got |-> Bytes(va, len)]

\* One page of copyinstr(), whose loop ends after a '\0'.  nul: the bytes that
\* are one; n: what the page or max leaves.
StrPage(leaf, nul, c, n) ==
    LET ends == {i \in 1 .. n : c.va + i - 1 \in nul}
    IN  CASE ~walkaddr(leaf, c.va) -> [c EXCEPT !.end = "fault"]
          [] walkaddr(leaf, c.va) /\ ends = {} ->
               [end |-> "more", left |-> c.left - n, va |-> c.va + n, got |-> c.got \o Bytes(c.va, n)]
          [] OTHER -> [c EXCEPT !.end = "ok",
                                !.got = @ \o Bytes(c.va, CHOOSE i \in ends : \A j \in ends : i <= j)]

copyinstr(leaf, nul, srcva, max) ==
    LET turn[k \in Nat] ==
            IF k = 0 THEN [end |-> "more", left |-> max, va |-> srcva, got |-> <<>>]
            ELSE LET c == turn[k - 1]
                 IN  IF c.end # "more" \/ c.left = 0 THEN c
                     ELSE StrPage(leaf, nul, c, Least(PGSIZE - (c.va % PGSIZE), c.left))
    IN  IF turn[max].end = "ok" THEN turn[max] ELSE [turn[max] EXCEPT !.end = "fault"]

\* copyinstr2() walks up to p->sz.
copyinstr2(sz, nul, srcva, max) ==
    LET n == IF srcva < sz THEN Least(max, sz - srcva) ELSE 0
        ends == {i \in 1 .. n : srcva + i - 1 \in nul}
    IN  IF ends = {} THEN [end |-> "fault", got |-> Bytes(srcva, n)]
        ELSE [end |-> "ok", got |-> Bytes(srcva, CHOOSE i \in ends : \A j \in ends : i <= j)]

\* fetchaddr(): a word below p->sz.
fetchaddr(sz, leaf, addr) ==
    IF addr >= sz \/ addr + WORD > sz THEN Ended("fault") ELSE copyin(leaf, addr, WORD)

\* argstr() and fetchstr(): the length of the string, or -1.
argstr(leaf, nul, addr, max) ==
    LET c == copyinstr(leaf, nul, addr, max) IN IF c.end = "ok" THEN Len(c.got) - 1 ELSE -1
=============================================================================
