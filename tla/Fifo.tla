-------------------------------- MODULE Fifo --------------------------------
(***************************************************************************)
(* What a pipe promises: a bounded first-in first-out queue of bytes.  A   *)
(* writer appends bytes, a reader takes them from the front; nothing is    *)
(* lost, repeated or reordered in between.                                 *)
(***************************************************************************)
EXTENDS Integers, Sequences

CONSTANTS Bytes, Capacity

VARIABLE queue

Init == queue = <<>>

\* Some bytes go in at the back.
Send ==
  \E k \in 1..Capacity : \E s \in [1..k -> Bytes] :
    /\ Len(queue) + k <= Capacity
    /\ queue' = queue \o s

\* Some bytes leave from the front.
Receive ==
  \E k \in 1..Len(queue) : queue' = SubSeq(queue, k + 1, Len(queue))

Next == Send \/ Receive

Spec == Init /\ [][Next]_queue
=============================================================================
