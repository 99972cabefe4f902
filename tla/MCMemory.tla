------------------------------ MODULE MCMemory ------------------------------
(***************************************************************************)
(* An instance for TLC of the pages that the kernel hands out (Memory) and *)
(* of the heap that a program makes of the ones it gets (Umalloc).  A      *)
(* behaviour of Parts is one of the one or of the other.                   *)
(***************************************************************************)
EXTENDS Memory, Umalloc

VARIABLE part

PartsInit ==
    /\ part \in {"kernel", "program"} /\ MemoryInit /\ HeapInit
    /\ part = "program" => other = 0
KernelStep == part = "kernel" /\ MemoryNext /\ UNCHANGED <<part, heapVars>>
ProgramStep == part = "program" /\ HeapNext /\ UNCHANGED <<part, memVars>>
Parts == PartsInit /\ [][KernelStep \/ ProgramStep]_<<part, memVars, heapVars>>
=============================================================================
