----------------------------- MODULE BlockStore -----------------------------
(***************************************************************************)
(* What the buffer cache promises its callers: a set of blocks, each with  *)
(* one value that only the process between bread() and brelse() of that    *)
(* block can change, and that nothing else changes or forgets.             *)
(***************************************************************************)
CONSTANTS Procs, Blocks, Values, NoProc

VARIABLES content, holder

vars == <<content, holder>>

Init ==
  /\ content \in [Blocks -> Values]
  /\ holder = [k \in Blocks |-> NoProc]

\* bread() returns the locked block.
Get(p, k) ==
  /\ holder[k] = NoProc
  /\ holder' = [holder EXCEPT ![k] = p]
  /\ UNCHANGED content

\* The holder stores into the block.
Update(p, k, v) ==
  /\ holder[k] = p
  /\ content' = [content EXCEPT ![k] = v]
  /\ UNCHANGED holder

\* brelse() unlocks the block.
Put(p, k) ==
  /\ holder[k] = p
  /\ holder' = [holder EXCEPT ![k] = NoProc]
  /\ UNCHANGED content

Next ==
  \E p \in Procs, k \in Blocks :
    \/ Get(p, k)
    \/ Put(p, k)
    \/ \E v \in Values : Update(p, k, v)

Spec == Init /\ [][Next]_vars
=============================================================================
