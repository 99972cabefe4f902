------------------------------ MODULE MCFat32 ------------------------------
(***************************************************************************)
(* Instances of the FAT32 file system for TLC: the contents of files       *)
(* (Fat32) and the slots of a directory (DirSlots).  They share nothing,   *)
(* so a behaviour of Parts is one of the one or of the other.              *)
(***************************************************************************)
EXTENDS Fat32, DirSlots, TLC

CONSTANTS f, g, h, d

VARIABLE part

\* A file of one cluster, a directory of two, and two empty files.
MCChain == (f :> <<2>>) @@ (d :> <<3, 4>>) @@ (g :> <<>>) @@ (h :> <<>>)

Symm == Permutations(Procs) \cup Permutations({g, h}) \cup Permutations(Readers)

\* Two names of one piece and one of two; two of them share a short name, one
\* is also given with a blank in front, and one given name is illegal.
MCFormatted == [n \in Given |-> CASE n = " a" -> "a" [] n = "?" -> NULL [] OTHER -> n]
MCPieces == [n \in Names |-> IF n = "b" THEN 2 ELSE 1]
MCShort == [n \in Names |-> IF n = "c" THEN "C" ELSE "A"]

PartsInit == part \in {"contents", "slots"} /\ Init /\ DirInit
ContentsStep == part = "contents" /\ Next /\ UNCHANGED <<part, dirVars>>
SlotsStep == part = "slots" /\ DirNext /\ UNCHANGED <<part, vars>>
Parts == PartsInit /\ [][ContentsStep \/ SlotsStep]_<<part, vars, dirVars>>
=============================================================================
