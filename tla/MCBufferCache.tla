--------------------------- MODULE MCBufferCache ---------------------------
(* Instances of BufferCache for TLC. *)
EXTENDS BufferCache, TLC

CONSTANTS b1, b2, b3

List2 == <<b2, b1>>
List3 == <<b3, b2, b1>>

Symm == Permutations(Procs) \cup Permutations(Blocks)
=============================================================================
