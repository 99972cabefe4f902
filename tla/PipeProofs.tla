----------------------------- MODULE PipeProofs -----------------------------
(***************************************************************************)
(* Proofs about Pipe, for any number of processes, any size of the ring    *)
(* and any wrap of the counters that is a multiple of it.                  *)
(***************************************************************************)
EXTENDS Pipe, Arithmetic

\* The sizes, without the divisibility that only the ring needs.
LEMMA Sizes ==
  /\ PIPESIZE \in Nat \ {0} /\ Wrap \in Nat /\ Wrap > PIPESIZE
  /\ Creator \in Procs /\ NoProc \notin Procs /\ Zero \in Bytes
  /\ Writes \subseteq Seq(Bytes) /\ Reads \subseteq Nat
  BY PipeAssumption

\* Used, without the remainder.
LEMMA UsedIs ==
  ASSUME nread \in 0..Wrap - 1, nwrite \in 0..Wrap - 1
  PROVE  /\ Used \in 0..Wrap - 1
         /\ nwrite >= nread => Used = nwrite - nread
         /\ nwrite < nread => Used = nwrite - nread + Wrap
         /\ Used = 0 <=> nread = nwrite
         /\ Full <=> Used = PIPESIZE
<1>1. Wrap \in Nat \ {0} /\ PIPESIZE \in 1..Wrap - 1
  BY PipeAssumption
<1>2. Used = IF nwrite >= nread THEN nwrite - nread ELSE nwrite - nread + Wrap
  BY <1>1, UnsignedSub DEF Used
<1>3. Full <=> nwrite = IF nread + PIPESIZE < Wrap THEN nread + PIPESIZE
                        ELSE nread + PIPESIZE - Wrap
  BY <1>1, UnsignedAdd DEF Full
<1> QED
  BY <1>1, <1>2, <1>3

\* The same after a step.
LEMMA UsedIsNext ==
  ASSUME nread' \in 0..Wrap - 1, nwrite' \in 0..Wrap - 1
  PROVE  /\ Used' \in 0..Wrap - 1
         /\ nwrite' >= nread' => Used' = nwrite' - nread'
         /\ nwrite' < nread' => Used' = nwrite' - nread' + Wrap
         /\ Used' = 0 <=> nread' = nwrite'
         /\ Full' <=> Used' = PIPESIZE
<1>1. (nread \in 0..Wrap - 1 /\ nwrite \in 0..Wrap - 1 =>
         /\ Used \in 0..Wrap - 1
         /\ nwrite >= nread => Used = nwrite - nread
         /\ nwrite < nread => Used = nwrite - nread + Wrap
         /\ Used = 0 <=> nread = nwrite
         /\ Full <=> Used = PIPESIZE)'
  BY UsedIs, PTL
<1> QED
  BY <1>1

\* pipewrite() adds k bytes and piperead() takes k: the counters stay in their
\* range and the difference is right, whichever of them wraps.
LEMMA Counters ==
  ASSUME PipeTypeOK, WithinRing, NEW k \in Nat
  PROVE  /\ (nwrite + k) % Wrap \in 0..Wrap - 1
         /\ (nread + k) % Wrap \in 0..Wrap - 1
         /\ k + Used <= PIPESIZE /\ nwrite' = (nwrite + k) % Wrap /\ nread' = nread
              => Used' = Used + k
         /\ k <= Used /\ nread' = (nread + k) % Wrap /\ nwrite' = nwrite
              => Used' = Used - k
<1>1. /\ Wrap \in Nat \ {0} /\ PIPESIZE \in 1..Wrap - 1
      /\ nread \in 0..Wrap - 1 /\ nwrite \in 0..Wrap - 1 /\ Used <= PIPESIZE
  BY PipeAssumption DEF PipeTypeOK, WithinRing
<1>2. /\ (nwrite + k) % Wrap \in 0..Wrap - 1
      /\ (nread + k) % Wrap \in 0..Wrap - 1
  <2>1. nwrite + k \in Int /\ nread + k \in Int
    BY <1>1
  <2> QED
    BY <1>1, <2>1, DivMod
<1>3. ASSUME k + Used <= PIPESIZE, nwrite' = (nwrite + k) % Wrap, nread' = nread
      PROVE  Used' = Used + k
  <2>1. k \in 0..Wrap - 1
    BY <1>1, <1>3, UsedIs
  <2>2. nwrite' = IF nwrite + k < Wrap THEN nwrite + k ELSE nwrite + k - Wrap
    BY <1>1, <1>3, <2>1, UnsignedAdd
  <2>3. nwrite' \in 0..Wrap - 1 /\ nread' \in 0..Wrap - 1
    BY <1>1, <1>2, <1>3
  <2> QED
    BY <1>1, <1>3, <2>1, <2>2, <2>3, UsedIs, UsedIsNext
<1>4. ASSUME k <= Used, nread' = (nread + k) % Wrap, nwrite' = nwrite
      PROVE  Used' = Used - k
  <2>1. k \in 0..Wrap - 1
    BY <1>1, <1>4, UsedIs
  <2>2. nread' = IF nread + k < Wrap THEN nread + k ELSE nread + k - Wrap
    BY <1>1, <1>4, <2>1, UnsignedAdd
  <2>3. nwrite' \in 0..Wrap - 1 /\ nread' \in 0..Wrap - 1
    BY <1>1, <1>2, <1>4
  <2> QED
    BY <1>1, <1>4, <2>1, <2>2, <2>3, UsedIs, UsedIsNext
<1> QED
  BY <1>2, <1>3, <1>4

\* The bytes that pipewrite() puts into the ring fit.
LEMMA RoomFits ==
  ASSUME PipeTypeOK, WithinRing, NEW p \in Procs
  PROVE  /\ Room(p) \in 0..PIPESIZE
         /\ Room(p) <= Len(todo[p]) /\ Room(p) + Used <= PIPESIZE
         /\ Room(p) < Len(todo[p]) => Room(p) + Used = PIPESIZE
<1>1. Len(todo[p]) \in Nat /\ PIPESIZE \in Nat /\ Used \in Nat
  BY PipeAssumption, UsedIs DEF PipeTypeOK
<1> QED
  BY <1>1 DEF Room, WithinRing

\* What pipewrite() changes when it stores k bytes.
LEMMA StoreKeeps ==
  ASSUME PipeTypeOK, WithinRing, NEW p \in Procs, NEW k \in Nat,
         k <= Len(todo[p]), k + Used <= PIPESIZE, Store(p, k)
  PROVE  /\ data' \in [0..PIPESIZE - 1 -> Bytes]
         /\ nwrite' \in 0..Wrap - 1
         /\ Used' = Used + k
         /\ k = 0 => nwrite' = nwrite
<1>1. nwrite' \in 0..Wrap - 1 /\ Used' = Used + k
  BY Counters DEF Store
<1>2. k = 0 => nwrite' = nwrite
  <2>1. /\ Wrap \in Nat \ {0} /\ nwrite \in 0..Wrap - 1
        /\ nwrite' = (nwrite + k) % Wrap
    BY PipeAssumption DEF Store, PipeTypeOK
  <2>2. nwrite % Wrap = nwrite
    BY <2>1, ModSmall
  <2>3. k = 0 => nwrite + k = nwrite
    BY <2>1
  <2> QED
    BY <2>1, <2>2, <2>3
<1>3. ASSUME NEW j \in 0..PIPESIZE - 1 PROVE data'[j] \in Bytes
  <2>1. data'[j] = IF \E i \in 1..k : ((nwrite + i - 1) % Wrap) % PIPESIZE = j
                   THEN todo[p][CHOOSE i \in 1..k : ((nwrite + i - 1) % Wrap) % PIPESIZE = j]
                   ELSE data[j]
    BY DEF Store
  <2>2. CASE \E i \in 1..k : ((nwrite + i - 1) % Wrap) % PIPESIZE = j
    <3>1. (CHOOSE i \in 1..k : ((nwrite + i - 1) % Wrap) % PIPESIZE = j) \in 1..k
      BY <2>2
    <3>2. \A i \in 1..k : todo[p][i] \in Bytes
      BY DEF PipeTypeOK
    <3> QED
      BY <2>1, <2>2, <3>1, <3>2, Zenon
  <2>3. CASE ~ \E i \in 1..k : ((nwrite + i - 1) % Wrap) % PIPESIZE = j
    <3>1. data'[j] = data[j]
      BY <2>1, <2>3, Zenon
    <3> QED
      BY <3>1 DEF PipeTypeOK
  <2> QED
    BY <2>2, <2>3
<1>4. data' \in [0..PIPESIZE - 1 -> Bytes]
  BY <1>3 DEF Store
<1> QED
  BY <1>1, <1>2, <1>4

\* pipealloc() establishes the invariant.
LEMMA InitPipeInv == Init => PipeInv
<1> SUFFICES ASSUME Init PROVE PipeInv
  OBVIOUS
<1> USE Sizes DEF Init
<1>1. PipeTypeOK
  BY DEF PipeTypeOK, Locations
<1>2. WithinRing
  BY UsedIs DEF WithinRing
<1>3. DecisionStands /\ EndsInUse
  BY DEF DecisionStands, EndsInUse
<1> QED
  BY <1>1, <1>2, <1>3 DEF PipeInv

\* Steps that leave the ring alone keep the bytes in it.
LEMMA SameRing ==
  ASSUME UNCHANGED <<nread, nwrite>>
  PROVE  Used' = Used /\ Full' = Full
  BY DEF Used, Full

\* A step that stores bytes in the ring and does not sleep.
LEMMA StoreInv ==
  ASSUME PipeInv, NEW p \in Procs, NEW k \in Nat,
         k <= Len(todo[p]), k + Used <= PIPESIZE,
         pc[p] = "write", lock = NoProc,
         Store(p, k),
         pc' = WakeReaders([pc EXCEPT ![p] = "user"]) \/ pc' = [pc EXCEPT ![p] = "user"],
         todo' = [todo EXCEPT ![p] = <<>>],
         UNCHANGED lock
  PROVE  PipeInv'
<1> USE Sizes DEF PipeInv
<1>1. /\ data' \in [0..PIPESIZE - 1 -> Bytes] /\ nwrite' \in 0..Wrap - 1
      /\ Used' = Used + k
  BY StoreKeeps
<1>2. UNCHANGED <<nread, readopen, writeopen, freed, rfd, wfd, want, killed>>
  BY DEF Store
<1>3. /\ pc' \in [Procs -> Locations]
      /\ pc'[p] = "user"
      /\ \A q \in Procs \ {p} : pc'[q] = pc[q] \/ (pc[q] = "rsleep" /\ pc'[q] = "read")
  BY DEF PipeTypeOK, Locations, WakeReaders
<1>4. PipeTypeOK'
  <2>1. todo' \in [Procs -> Seq(Bytes)]
    BY DEF PipeTypeOK
  <2> QED
    BY <1>1, <1>2, <1>3, <2>1 DEF PipeTypeOK
<1>5. WithinRing'
  BY <1>1 DEF WithinRing
<1>6. DecisionStands'
  BY <1>2, <1>3 DEF DecisionStands
<1>7. EndsInUse'
  BY <1>2, <1>3 DEF EndsInUse
<1> QED
  BY <1>4, <1>5, <1>6, <1>7

\* Every step preserves the invariant.
LEMMA NextPipeInv == PipeInv /\ [Next]_vars => PipeInv'
<1> SUFFICES ASSUME PipeInv, [Next]_vars PROVE PipeInv'
  OBVIOUS
<1> USE Sizes DEF PipeInv
<1>1. CASE UNCHANGED vars
  BY <1>1, SameRing DEF vars, pipeVars, PipeTypeOK, Locations, WithinRing, DecisionStands, EndsInUse
<1> SUFFICES ASSUME NEW p \in Procs,
                    \/ Step(p)
                    \/ \E m \in Writes : WriteCall(p, m)
                    \/ \E n \in Reads : ReadCall(p, n)
                    \/ \E q \in Procs : Fork(p, q)
                    \/ FilecloseRead(p) \/ FilecloseWrite(p)
                    \/ Kill(p)
             PROVE  PipeInv'
  BY <1>1 DEF Next
<1>2. ASSUME NEW k \in 0..PIPESIZE, WriteDone(p, k) PROVE PipeInv'
  <2>1. k \in Nat /\ k <= Len(todo[p]) /\ k + Used <= PIPESIZE
    <3>1. Used \in Nat /\ Len(todo[p]) \in Nat
      BY UsedIs DEF PipeTypeOK
    <3>2. k <= Room(p)
      BY <1>2, RoomFits DEF WriteDone
    <3> QED
      BY <3>1, <3>2, RoomFits
  <2> QED
    <3>1. /\ pc[p] = "write" /\ lock = NoProc /\ Store(p, k) /\ UNCHANGED lock
          /\ pc' = WakeReaders([pc EXCEPT ![p] = "user"])
          /\ todo' = [todo EXCEPT ![p] = <<>>]
      BY <1>2 DEF WriteDone
    <3> QED
      BY <2>1, <3>1, StoreInv
<1>3. ASSUME WriteFails(p) PROVE PipeInv'
  <2>1. Room(p) \in Nat /\ Room(p) <= Len(todo[p]) /\ Room(p) + Used <= PIPESIZE
    BY RoomFits
  <2> QED
    BY <1>3, <2>1, StoreInv DEF WriteFails
<1>4. ASSUME WriteFull(p) PROVE PipeInv'
  <2>1. /\ Room(p) \in 0..PIPESIZE /\ Room(p) <= Len(todo[p])
        /\ Room(p) + Used = PIPESIZE
    BY <1>4, RoomFits DEF WriteFull
  <2>2. /\ data' \in [0..PIPESIZE - 1 -> Bytes] /\ nwrite' \in 0..Wrap - 1
        /\ Used' = PIPESIZE
    <3>1. Used \in Nat
      BY UsedIs DEF PipeTypeOK
    <3>2. Store(p, Room(p)) /\ Room(p) \in Nat /\ Room(p) + Used <= PIPESIZE
      BY <1>4, <2>1, <3>1 DEF WriteFull
    <3> QED
      BY <2>1, <3>1, <3>2, StoreKeeps
  <2>3. UNCHANGED <<nread, readopen, writeopen, freed, rfd, wfd, want, killed>>
    BY <1>4 DEF WriteFull, Store
  <2>4. Full'
    BY <2>2, <2>3, UsedIsNext DEF PipeTypeOK
  <2>5. /\ pc' \in [Procs -> Locations]
        /\ pc'[p] = "toWsleep"
        /\ \A q \in Procs \ {p} : pc'[q] = pc[q] \/ (pc[q] = "rsleep" /\ pc'[q] = "read")
    BY <1>4 DEF WriteFull, PipeTypeOK, Locations, WakeReaders
  <2>6. todo' \in [Procs -> Seq(Bytes)]
    <3>1. SubSeq(todo[p], Room(p) + 1, Len(todo[p])) \in Seq(Bytes)
      BY <2>1 DEF PipeTypeOK
    <3> QED
      BY <1>4, <3>1 DEF WriteFull, PipeTypeOK
  <2>7. pc[p] = "write" /\ lock = NoProc /\ lock' = p /\ readopen
    BY <1>4 DEF WriteFull
  <2>8. PipeTypeOK' /\ WithinRing'
    BY <2>2, <2>3, <2>5, <2>6, <2>7 DEF PipeTypeOK, WithinRing
  <2>9. DecisionStands'
    BY <2>3, <2>4, <2>5, <2>7 DEF DecisionStands
  <2>10. EndsInUse'
    BY <2>3, <2>5, <2>7 DEF EndsInUse
  <2> QED
    BY <2>8, <2>9, <2>10
<1>5. ASSUME WriteSleep(p) PROVE PipeInv'
  BY <1>5, SameRing
     DEF WriteSleep, pipeVars, PipeTypeOK, Locations, WithinRing, DecisionStands, EndsInUse
<1>6. ASSUME NEW k \in 0..PIPESIZE, ReadDone(p, k) PROVE PipeInv'
  <2>1. nread' \in 0..Wrap - 1 /\ Used' = Used - k
    BY <1>6, Counters DEF ReadDone
  <2>2. /\ pc' \in [Procs -> Locations]
        /\ pc'[p] = "user"
        /\ \A q \in Procs \ {p} : pc'[q] = pc[q] \/ (pc[q] = "wsleep" /\ pc'[q] = "write")
    BY <1>6 DEF ReadDone, PipeTypeOK, Locations, WakeWriters
  <2>3. PipeTypeOK'
    BY <1>6, <2>1, <2>2 DEF PipeTypeOK, ReadDone
  <2>4. WithinRing'
    BY <2>1, UsedIs DEF WithinRing, PipeTypeOK
  <2>5. /\ pc[p] = "read" /\ lock = NoProc
        /\ UNCHANGED <<nwrite, readopen, writeopen, freed, lock, rfd, wfd>>
    BY <1>6 DEF ReadDone
  <2>6. DecisionStands'
    BY <2>2, <2>5 DEF DecisionStands
  <2>7. EndsInUse'
    BY <2>2, <2>5 DEF EndsInUse
  <2> QED
    BY <2>3, <2>4, <2>6, <2>7
<1>7. ASSUME ReadFails(p) PROVE PipeInv'
  BY <1>7, SameRing
     DEF ReadFails, pipeVars, PipeTypeOK, Locations, WithinRing, DecisionStands, EndsInUse
<1>8. ASSUME ReadEmpty(p) PROVE PipeInv'
  BY <1>8, SameRing
     DEF ReadEmpty, MustWait, pipeVars, PipeTypeOK, Locations, WithinRing, DecisionStands, EndsInUse
<1>9. ASSUME ReadSleep(p) PROVE PipeInv'
  BY <1>9, SameRing
     DEF ReadSleep, pipeVars, PipeTypeOK, Locations, WithinRing, DecisionStands, EndsInUse
<1>10. ASSUME PipecloseRead(p) PROVE PipeInv'
  <2>1. /\ pc' \in [Procs -> Locations]
        /\ pc'[p] = "user"
        /\ \A q \in Procs \ {p} : pc'[q] = pc[q] \/ (pc[q] = "wsleep" /\ pc'[q] = "write")
    BY <1>10 DEF PipecloseRead, PipeTypeOK, Locations, WakeWriters
  <2>2. PipeTypeOK' /\ WithinRing'
    BY <1>10, <2>1, SameRing DEF PipecloseRead, PipeTypeOK, WithinRing
  <2>3. /\ pc[p] = "closeRead" /\ lock = NoProc /\ freed' = ~writeopen
        /\ readopen' = FALSE /\ UNCHANGED <<nread, nwrite, writeopen, lock, rfd, wfd>>
    BY <1>10 DEF PipecloseRead
  <2>4. DecisionStands'
    BY <2>1, <2>3, SameRing DEF DecisionStands
  <2>5. EndsInUse'
    BY <2>1, <2>3 DEF EndsInUse
  <2> QED
    BY <2>2, <2>4, <2>5
<1>11. ASSUME PipecloseWrite(p) PROVE PipeInv'
  <2>1. /\ pc' \in [Procs -> Locations]
        /\ pc'[p] = "user"
        /\ \A q \in Procs \ {p} : pc'[q] = pc[q] \/ (pc[q] = "rsleep" /\ pc'[q] = "read")
    BY <1>11 DEF PipecloseWrite, PipeTypeOK, Locations, WakeReaders
  <2>2. PipeTypeOK' /\ WithinRing'
    BY <1>11, <2>1, SameRing DEF PipecloseWrite, PipeTypeOK, WithinRing
  <2>3. /\ pc[p] = "closeWrite" /\ lock = NoProc /\ freed' = ~readopen
        /\ writeopen' = FALSE /\ UNCHANGED <<nread, nwrite, readopen, lock, rfd, wfd>>
    BY <1>11 DEF PipecloseWrite
  <2>4. DecisionStands'
    BY <2>1, <2>3, SameRing DEF DecisionStands
  <2>5. EndsInUse'
    BY <2>1, <2>3 DEF EndsInUse
  <2> QED
    BY <2>2, <2>4, <2>5
<1>12. ASSUME NEW m \in Writes, WriteCall(p, m) PROVE PipeInv'
  <2>1. m \in Seq(Bytes)
    OBVIOUS
  <2> QED
    BY <1>12, <2>1, SameRing
       DEF WriteCall, InUser, pipeVars, PipeTypeOK, Locations, WithinRing, DecisionStands, EndsInUse
<1>13. ASSUME NEW n \in Reads, ReadCall(p, n) PROVE PipeInv'
  BY <1>13, SameRing
     DEF ReadCall, InUser, pipeVars, PipeTypeOK, Locations, WithinRing, DecisionStands, EndsInUse
<1>14. ASSUME NEW q \in Procs, Fork(p, q) PROVE PipeInv'
  BY <1>14, SameRing
     DEF Fork, InUser, pipeVars, PipeTypeOK, Locations, WithinRing, DecisionStands, EndsInUse
<1>15. ASSUME FilecloseRead(p) PROVE PipeInv'
  <2>1. PipeTypeOK' /\ WithinRing'
    BY <1>15, SameRing DEF FilecloseRead, pipeVars, PipeTypeOK, Locations, WithinRing
  <2>2. DecisionStands'
    BY <1>15, SameRing DEF FilecloseRead, pipeVars, PipeTypeOK, DecisionStands
  <2>3. EndsInUse'
    BY <1>15 DEF FilecloseRead, pipeVars, PipeTypeOK, EndsInUse
  <2> QED
    BY <2>1, <2>2, <2>3
<1>16. ASSUME FilecloseWrite(p) PROVE PipeInv'
  <2>1. PipeTypeOK' /\ WithinRing'
    BY <1>16, SameRing DEF FilecloseWrite, pipeVars, PipeTypeOK, Locations, WithinRing
  <2>2. DecisionStands'
    BY <1>16, SameRing DEF FilecloseWrite, pipeVars, PipeTypeOK, DecisionStands
  <2>3. EndsInUse'
    BY <1>16 DEF FilecloseWrite, pipeVars, PipeTypeOK, EndsInUse
  <2> QED
    BY <2>1, <2>2, <2>3
<1>17. ASSUME Kill(p) PROVE PipeInv'
  BY <1>17, SameRing
     DEF Kill, pipeVars, PipeTypeOK, Locations, WithinRing, DecisionStands, EndsInUse
<1> QED
  BY <1>2, <1>3, <1>4, <1>5, <1>6, <1>7, <1>8, <1>9, <1>10, <1>11, <1>12, <1>13,
     <1>14, <1>15, <1>16, <1>17 DEF Step

\* The inductive invariant of the pipe holds in every reachable state, whatever
\* the interleaving of pipewrite(), piperead(), pipeclose(), fork() and kill().
THEOREM PipeInvariance == Spec => []PipeInv
  BY InitPipeInv, NextPipeInv, PTL DEF Spec

\* pipeclose() frees the pipe when nobody is inside and nobody can come back:
\* no process touches pi after kfree(), and no second one frees it.
THEOREM FreedOnlyUnused == Spec => []FreedUnused
<1>1. PipeInv => FreedUnused
  BY DEF PipeInv, PipeTypeOK, Locations, EndsInUse, FreedUnused
<1> QED
  BY <1>1, PipeInvariance, PTL

-----------------------------------------------------------------------------
(* Sleepers *)

\* A step that stores bytes lets nobody sleep on who could go on, if it wakes
\* the readers.
LEMMA StoreWakes ==
  ASSUME PipeInv, NEW p \in Procs, NEW k \in Nat,
         k <= Len(todo[p]), k + Used <= PIPESIZE, Store(p, k),
         \A q \in Procs : /\ pc'[q] # "rsleep"
                          /\ pc'[q] = "wsleep" => pc[q] = "wsleep"
  PROVE  LeftAsleep' \subseteq LeftAsleep
<1> SUFFICES ASSUME NEW q \in Procs, pc'[q] = "wsleep", ~(Full' /\ readopen')
             PROVE  ~(Full /\ readopen)
  BY DEF LeftAsleep
<1> SUFFICES ASSUME Full, readopen PROVE FALSE
  OBVIOUS
<1>1. nread \in 0..Wrap - 1 /\ nwrite \in 0..Wrap - 1
  BY DEF PipeInv, PipeTypeOK
<1>2. Used = PIPESIZE
  BY <1>1, UsedIs
<1>3. k = 0
  BY <1>2, Sizes
<1>4. nwrite' = nwrite
  BY <1>3, StoreKeeps DEF PipeInv
<1>5. nread' = nread /\ readopen' = readopen
  BY DEF Store
<1> QED
  BY <1>4, <1>5, SameRing

\* A step that leaves the counters and the ends alone and puts nobody to sleep.
LEMMA SameSleepers ==
  ASSUME UNCHANGED pipeVars,
         \A q \in Procs : /\ pc'[q] = "rsleep" => pc[q] = "rsleep"
                          /\ pc'[q] = "wsleep" => pc[q] = "wsleep"
  PROVE  LeftAsleep' \subseteq LeftAsleep
  BY SameRing DEF LeftAsleep, pipeVars

\* No step of pipewrite(), piperead(), pipeclose() or kill() leaves a process
\* asleep in the pipe that could go on, with the one exception that the
\* property names.
THEOREM SleepersWoken == Spec => NobodyLeftAsleep
<1> DEFINE A == \/ LeftAsleep' \subseteq LeftAsleep
                \/ \E q \in Procs : killed[q] /\ pc[q] = "write" /\ pc'[q] = "user"
<1>1. PipeInv /\ [Next]_vars => [A]_vars
  <2> SUFFICES ASSUME PipeInv, Next PROVE A
    OBVIOUS
  <2>1. PICK p \in Procs :
          \/ Step(p)
          \/ \E m \in Writes : WriteCall(p, m)
          \/ \E n \in Reads : ReadCall(p, n)
          \/ \E q \in Procs : Fork(p, q)
          \/ FilecloseRead(p) \/ FilecloseWrite(p)
          \/ Kill(p)
    BY DEF Next
  <2> USE DEF PipeInv
  <2>2. PipeTypeOK
    OBVIOUS
  <2>3. ASSUME NEW k \in 0..PIPESIZE, WriteDone(p, k) PROVE A
    <3>1. k \in Nat /\ k <= Len(todo[p]) /\ k + Used <= PIPESIZE
      <4>1. Used \in Nat /\ Len(todo[p]) \in Nat
        BY UsedIs, Sizes DEF PipeTypeOK
      <4>2. k <= Room(p)
        BY <2>3, RoomFits, Sizes DEF WriteDone
      <4> QED
        BY <4>1, <4>2, RoomFits, Sizes
    <3>2. Store(p, k)
      BY <2>3 DEF WriteDone
    <3>3. \A q \in Procs : /\ pc'[q] # "rsleep"
                           /\ pc'[q] = "wsleep" => pc[q] = "wsleep"
      BY <2>3 DEF WriteDone, WakeReaders, PipeTypeOK
    <3> QED
      BY <3>1, <3>2, <3>3, StoreWakes
  <2>4. ASSUME WriteFull(p) PROVE A
    <3>1. Room(p) \in Nat /\ Room(p) <= Len(todo[p]) /\ Room(p) + Used <= PIPESIZE
      BY RoomFits
    <3>2. Store(p, Room(p))
      BY <2>4 DEF WriteFull
    <3>3. \A q \in Procs : /\ pc'[q] # "rsleep"
                           /\ pc'[q] = "wsleep" => pc[q] = "wsleep"
      BY <2>4 DEF WriteFull, WakeReaders, PipeTypeOK
    <3> QED
      BY <3>1, <3>2, <3>3, StoreWakes
  <2>5. ASSUME WriteFails(p) PROVE A
    <3>1. /\ pc[p] = "write" /\ pc' = [pc EXCEPT ![p] = "user"] /\ (~readopen \/ killed[p])
      BY <2>5 DEF WriteFails
    <3>2. CASE killed[p]
      BY <3>1, <3>2 DEF PipeTypeOK
    <3>3. CASE ~readopen
      <4>1. \A q \in Procs : pc[q] # "rsleep"
        BY <3>3 DEF EndsInUse
      <4>2. \A q \in Procs : pc'[q] # "rsleep" /\ (pc'[q] = "wsleep" => pc[q] = "wsleep")
        BY <3>1, <4>1 DEF PipeTypeOK
      <4> QED
        BY <3>3, <4>2 DEF LeftAsleep
    <3> QED
      BY <3>1, <3>2, <3>3
  <2>6. ASSUME WriteSleep(p) PROVE A
    BY <2>6, SameRing DEF WriteSleep, LeftAsleep, pipeVars, DecisionStands, PipeTypeOK
  <2>7. ASSUME NEW k \in 0..PIPESIZE, ReadDone(p, k) PROVE A
    <3>1. \A q \in Procs : pc'[q] # "wsleep" /\ (pc'[q] = "rsleep" => pc[q] = "rsleep")
      BY <2>7 DEF ReadDone, WakeWriters, PipeTypeOK
    <3>2. /\ k <= Used /\ nread' = (nread + k) % Wrap
          /\ UNCHANGED <<nwrite, writeopen>>
      BY <2>7 DEF ReadDone
    <3>3. nread = nwrite => nread' = nread
      <4>1. nread \in 0..Wrap - 1 /\ nwrite \in 0..Wrap - 1 /\ Wrap \in Nat \ {0}
        BY Sizes DEF PipeTypeOK
      <4>2. nread = nwrite => k = 0
        BY <3>2, <4>1, UsedIs, Sizes
      <4>3. k = 0 => nread + k = nread
        BY <4>1
      <4>4. nread % Wrap = nread
        BY <4>1, ModSmall
      <4> QED
        BY <3>2, <4>2, <4>3, <4>4
    <3> QED
      BY <3>1, <3>2, <3>3 DEF LeftAsleep
  <2>8. ASSUME ReadFails(p) \/ ReadEmpty(p) PROVE A
    BY <2>8, SameSleepers DEF ReadFails, ReadEmpty, PipeTypeOK
  <2>9. ASSUME ReadSleep(p) PROVE A
    BY <2>9, SameRing DEF ReadSleep, LeftAsleep, pipeVars, DecisionStands, PipeTypeOK
  <2>10. ASSUME PipecloseRead(p) PROVE A
    <3>1. \A q \in Procs : pc'[q] # "wsleep" /\ (pc'[q] = "rsleep" => pc[q] = "rsleep")
      BY <2>10 DEF PipecloseRead, WakeWriters, PipeTypeOK
    <3> QED
      BY <2>10, <3>1 DEF LeftAsleep, PipecloseRead
  <2>11. ASSUME PipecloseWrite(p) PROVE A
    <3>1. \A q \in Procs : pc'[q] # "rsleep" /\ (pc'[q] = "wsleep" => pc[q] = "wsleep")
      BY <2>11 DEF PipecloseWrite, WakeReaders, PipeTypeOK
    <3> QED
      BY <2>11, <3>1, SameRing DEF LeftAsleep, PipecloseWrite
  <2>12. ASSUME \/ \E m \in Writes : WriteCall(p, m)
                \/ \E n \in Reads : ReadCall(p, n)
                \/ \E q \in Procs : Fork(p, q)
                \/ FilecloseRead(p) \/ FilecloseWrite(p)
                \/ Kill(p)
         PROVE  A
    BY <2>12, SameSleepers
       DEF WriteCall, ReadCall, Fork, FilecloseRead, FilecloseWrite, Kill, PipeTypeOK
  <2> QED
    BY <2>1, <2>3, <2>4, <2>5, <2>6, <2>7, <2>8, <2>9, <2>10, <2>11, <2>12 DEF Step
<1> QED
  BY <1>1, PipeInvariance, PTL DEF Spec, NobodyLeftAsleep

-----------------------------------------------------------------------------
(* The bytes in the ring *)

\* Where counter n points to in pi->data.
SlotOf(n) == (n % Wrap) % PIPESIZE

\* Counters point into the ring, the same way before and after they wrap; two
\* that are less than PIPESIZE apart point to two places.
LEMMA Slots ==
  /\ \A n \in Int : SlotOf(n) \in 0..PIPESIZE - 1
  /\ \A m, n \in Int : SlotOf((m % Wrap) + n) = SlotOf(m + n)
  /\ \A m, n \in Int : m <= n /\ n < m + PIPESIZE /\ SlotOf(m) = SlotOf(n) => m = n
<1>1. PIPESIZE \in Nat \ {0} /\ Wrap \in Nat \ {0} /\ Wrap % PIPESIZE = 0
  BY PipeAssumption
<1>2. ASSUME NEW n \in Int PROVE SlotOf(n) \in 0..PIPESIZE - 1
  <2>1. n % Wrap \in Int
    BY <1>1, DivMod
  <2> QED
    BY <1>1, <2>1, DivMod DEF SlotOf
<1>3. ASSUME NEW m \in Int, NEW n \in Int PROVE SlotOf((m % Wrap) + n) = SlotOf(m + n)
  <2>1. ((m % Wrap) + n) % Wrap = (m + n) % Wrap
    BY <1>1, ModPlus
  <2> QED
    BY <2>1 DEF SlotOf
<1>4. ASSUME NEW m \in Int, NEW n \in Int, m <= n, n < m + PIPESIZE,
             SlotOf(m) = SlotOf(n)
      PROVE  m = n
  <2>1. m % PIPESIZE = n % PIPESIZE
    BY <1>1, <1>4, ModMod DEF SlotOf
  <2> QED
    BY <1>1, <1>4, <2>1, ModInjective
<1> QED
  BY <1>2, <1>3, <1>4

\* The contents of the pipe are a sequence of as many bytes as are in it.
LEMMA ContentsType ==
  ASSUME PipeTypeOK
  PROVE  /\ Contents = [i \in 1..Used |-> data[SlotOf(nread + i - 1)]]
         /\ Contents \in Seq(Bytes)
         /\ Len(Contents) = Used
<1>1. Used \in Nat /\ nread \in Int
  BY UsedIs, Sizes DEF PipeTypeOK
<1>2. Contents = [i \in 1..Used |-> data[SlotOf(nread + i - 1)]]
  BY DEF Contents, SlotOf
<1>3. \A i \in 1..Used : data[SlotOf(nread + i - 1)] \in Bytes
  <2> SUFFICES ASSUME NEW i \in 1..Used PROVE data[SlotOf(nread + i - 1)] \in Bytes
    OBVIOUS
  <2>1. nread + i - 1 \in Int
    BY <1>1
  <2>2. SlotOf(nread + i - 1) \in 0..PIPESIZE - 1
    BY <2>1, Slots
  <2> QED
    BY <2>2 DEF PipeTypeOK
<1> QED
  BY <1>1, <1>2, <1>3

\* Every step leaves the ring with a sequence of bytes.
LEMMA ContentsTypeNext ==
  ASSUME PipeTypeOK'
  PROVE  /\ Contents' = [i \in 1..Used' |-> data'[SlotOf(nread' + i - 1)]]
         /\ Contents' \in Seq(Bytes)
         /\ Len(Contents)' = Used'
<1>1. (PipeTypeOK => /\ Contents = [i \in 1..Used |-> data[SlotOf(nread + i - 1)]]
                     /\ Contents \in Seq(Bytes)
                     /\ Len(Contents) = Used)'
  BY ContentsType, PTL
<1> QED
  BY <1>1

\* pipewrite() appends its bytes to the contents, wherever the ring wraps.
LEMMA StoreAppends ==
  ASSUME PipeInv, PipeTypeOK', NEW p \in Procs, NEW k \in Nat,
         k <= Len(todo[p]), k + Used <= PIPESIZE, Store(p, k)
  PROVE  Contents' = Contents \o SubSeq(todo[p], 1, k)
<1>1. PipeTypeOK /\ WithinRing
  BY DEF PipeInv
<1>2. /\ Used \in Nat /\ nread \in Int /\ nwrite \in Int
      /\ Used' = Used + k /\ nread' = nread /\ Used <= PIPESIZE
      /\ PIPESIZE \in Nat /\ Wrap \in Nat
  <2>1. Used' = Used + k
    BY <1>1, StoreKeeps
  <2>2. nread' = nread
    BY DEF Store
  <2>3. /\ Used \in Nat /\ nread \in Int /\ nwrite \in Int
        /\ PIPESIZE \in Nat /\ Wrap \in Nat
    BY <1>1, UsedIs, Sizes DEF PipeTypeOK
  <2> QED
    BY <1>1, <2>1, <2>2, <2>3 DEF WithinRing
<1>3. nwrite = (nread + Used) % Wrap
  <2>1. /\ nread \in 0..Wrap - 1 /\ nwrite \in 0..Wrap - 1
        /\ Wrap \in Nat \ {0} /\ Used \in 0..Wrap - 1
    BY <1>1, Sizes, UsedIs DEF PipeTypeOK
  <2>2. (nread + Used) % Wrap = IF nread + Used < Wrap THEN nread + Used
                                ELSE nread + Used - Wrap
    BY <2>1, UnsignedAdd
  <2> QED
    BY <2>1, <2>2, UsedIs
<1>4. \A i \in 1..k : SlotOf(nwrite + i - 1) = SlotOf(nread + Used + i - 1)
  <2> SUFFICES ASSUME NEW i \in 1..k
               PROVE  SlotOf(nwrite + i - 1) = SlotOf(nread + Used + i - 1)
    OBVIOUS
  <2>1. nread + Used \in Int /\ i - 1 \in Int
    BY <1>2
  <2>2. SlotOf(((nread + Used) % Wrap) + (i - 1)) = SlotOf((nread + Used) + (i - 1))
    BY <2>1, Slots
  <2>3. /\ nwrite + i - 1 = nwrite + (i - 1)
        /\ nread + Used + i - 1 = (nread + Used) + (i - 1)
    BY <1>2
  <2> QED
    BY <1>3, <2>2, <2>3
<1>5. ASSUME NEW j \in 0..PIPESIZE - 1
      PROVE  data'[j] = IF \E i \in 1..k : SlotOf(nwrite + i - 1) = j
                        THEN todo[p][CHOOSE i \in 1..k : SlotOf(nwrite + i - 1) = j]
                        ELSE data[j]
  BY DEF Store, SlotOf
<1>6. ASSUME NEW i \in 1..k
      PROVE  data'[SlotOf(nread + Used + i - 1)] = todo[p][i]
  <2> DEFINE j == SlotOf(nwrite + i - 1)
             c == CHOOSE h \in 1..k : SlotOf(nwrite + h - 1) = j
  <2>1. j \in 0..PIPESIZE - 1
    <3>1. nwrite + i - 1 \in Int
      BY <1>2
    <3> QED
      BY <3>1, Slots
  <2>2. c \in 1..k /\ SlotOf(nwrite + c - 1) = SlotOf(nwrite + i - 1)
    OBVIOUS
  <2>3. c = i
    <3> HIDE DEF c
    <3>1. /\ nwrite + c - 1 \in Int /\ nwrite + i - 1 \in Int
          /\ nwrite + c - 1 < (nwrite + i - 1) + PIPESIZE
          /\ nwrite + i - 1 < (nwrite + c - 1) + PIPESIZE
      BY <1>2, <2>2
    <3>2. nwrite + c - 1 = nwrite + i - 1
      <4>1. CASE nwrite + c - 1 <= nwrite + i - 1
        BY <2>2, <3>1, <4>1, Slots
      <4>2. CASE nwrite + i - 1 <= nwrite + c - 1
        BY <2>2, <3>1, <4>2, Slots
      <4> QED
        BY <3>1, <4>1, <4>2
    <3> QED
      BY <1>2, <2>2, <3>2
  <2>4. data'[j] = todo[p][c]
    BY <1>5, <2>1
  <2> QED
    BY <1>4, <2>3, <2>4
<1>7. ASSUME NEW i \in 1..Used
      PROVE  data'[SlotOf(nread + i - 1)] = data[SlotOf(nread + i - 1)]
  <2>1. nread + i - 1 \in Int
    BY <1>2
  <2>2. SlotOf(nread + i - 1) \in 0..PIPESIZE - 1
    BY <2>1, Slots
  <2>3. ASSUME NEW h \in 1..k PROVE SlotOf(nwrite + h - 1) # SlotOf(nread + i - 1)
    <3>1. /\ nread + Used + h - 1 \in Int
          /\ nread + i - 1 < nread + Used + h - 1
          /\ nread + Used + h - 1 < (nread + i - 1) + PIPESIZE
      BY <1>2
    <3>2. SlotOf(nread + Used + h - 1) # SlotOf(nread + i - 1)
      BY <2>1, <3>1, Slots
    <3> QED
      BY <1>4, <3>2
  <2> QED
    BY <1>5, <2>2, <2>3
<1> DEFINE s == SubSeq(todo[p], 1, k)
<1>8. s \in Seq(Bytes) /\ Len(s) = k /\ \A i \in 1..k : s[i] = todo[p][i]
  BY <1>1 DEF PipeTypeOK
<1> HIDE DEF s
<1>9. Contents \o s \in Seq(Bytes) /\ Len(Contents \o s) = Used + k
  <2>1. Contents \in Seq(Bytes) /\ Len(Contents) = Used
    BY <1>1, ContentsType
  <2> QED
    BY <1>2, <1>8, <2>1
<1>10. Contents' \in Seq(Bytes) /\ Len(Contents') = Used + k
  BY <1>2, ContentsTypeNext
<1>11. ASSUME NEW i \in 1..Used + k PROVE Contents'[i] = (Contents \o s)[i]
  <2>1. Contents'[i] = data'[SlotOf(nread + i - 1)]
    BY <1>2, ContentsTypeNext
  <2>2. CASE i <= Used
    <3>1. i \in 1..Used
      BY <1>2, <2>2
    <3>2. (Contents \o s)[i] = Contents[i]
      BY <1>1, <1>8, <3>1, ContentsType
    <3>3. Contents[i] = data[SlotOf(nread + i - 1)]
      BY <1>1, <3>1, ContentsType
    <3> QED
      BY <1>7, <2>1, <3>1, <3>2, <3>3
  <2>3. CASE i > Used
    <3>1. i - Used \in 1..k /\ nread + i - 1 = nread + Used + (i - Used) - 1
      BY <1>2, <2>3
    <3>2. (Contents \o s)[i] = s[i - Used]
      BY <1>1, <1>2, <1>8, <2>3, ContentsType
    <3> QED
      BY <1>6, <1>8, <2>1, <3>1, <3>2
  <2>4. i <= Used \/ i > Used
    BY <1>2
  <2> QED
    BY <2>2, <2>3, <2>4, Zenon
<1>12. Contents' = Contents \o s
  BY <1>9, <1>10, <1>11
<1> QED
  BY <1>12 DEF s

\* piperead() takes its bytes from the front.
LEMMA ReadTakes ==
  ASSUME PipeInv, PipeTypeOK', NEW k \in Nat, k <= Used,
         nread' = (nread + k) % Wrap, UNCHANGED <<data, nwrite>>
  PROVE  Contents' = SubSeq(Contents, k + 1, Used)
<1>1. PipeTypeOK /\ WithinRing
  BY DEF PipeInv
<1>2. /\ Used \in Nat /\ nread \in Int /\ nwrite \in Int
      /\ Used' = Used - k
  BY <1>1, UsedIs, Sizes, Counters DEF PipeTypeOK
<1> DEFINE s == SubSeq(Contents, k + 1, Used)
<1>3. /\ s \in Seq(Bytes) /\ Len(s) = Used - k
      /\ \A i \in 1..Used - k : s[i] = Contents[k + i]
  BY <1>1, <1>2, ContentsType
<1> HIDE DEF s
<1>4. Contents' \in Seq(Bytes) /\ Len(Contents') = Used - k
  BY <1>2, ContentsTypeNext
<1>5. ASSUME NEW i \in 1..Used - k PROVE Contents'[i] = s[i]
  <2>1. Contents'[i] = data[SlotOf(nread' + i - 1)]
    BY <1>2, ContentsTypeNext
  <2>2. SlotOf(nread' + i - 1) = SlotOf(nread + (k + i) - 1)
    <3>1. nread + k \in Int /\ i - 1 \in Int
      BY <1>2
    <3>2. SlotOf(((nread + k) % Wrap) + (i - 1)) = SlotOf((nread + k) + (i - 1))
      BY <3>1, Slots
    <3>3. (nread + k) % Wrap \in Int
      BY <1>1, Counters, Sizes
    <3>4. /\ nread' + i - 1 = ((nread + k) % Wrap) + (i - 1)
          /\ nread + (k + i) - 1 = (nread + k) + (i - 1)
      BY <1>2, <3>3
    <3> QED
      BY <3>2, <3>4
  <2>3. k + i \in 1..Used
    BY <1>2
  <2>4. Contents[k + i] = data[SlotOf(nread + (k + i) - 1)]
    BY <1>1, <2>3, ContentsType
  <2> QED
    BY <1>3, <2>1, <2>2, <2>4
<1>6. Contents' = s
  BY <1>3, <1>4, <1>5
<1> QED
  BY <1>6 DEF s

\* A step that leaves the ring alone does not change its contents.
LEMMA SameContents ==
  ASSUME UNCHANGED pipeVars \/ UNCHANGED <<data, nread, nwrite>>
  PROVE  UNCHANGED Contents
  BY SameRing DEF Contents, pipeVars

\* A step that stores bytes is a Send of the queue, or changes nothing.
LEMMA StoreSends ==
  ASSUME PipeInv, PipeTypeOK', NEW p \in Procs, NEW k \in 0..PIPESIZE,
         k <= Len(todo[p]), k + Used <= PIPESIZE, Store(p, k)
  PROVE  [Queue!Next]_Contents
<1>1. k \in Nat /\ Used \in Nat /\ PIPESIZE \in Nat
  BY Sizes, UsedIs DEF PipeInv, PipeTypeOK
<1> DEFINE s == SubSeq(todo[p], 1, k)
<1>2. Contents' = Contents \o s
  BY <1>1, StoreAppends
<1>3. s \in [1..k -> Bytes]
  <2>1. todo[p] \in Seq(Bytes)
    BY DEF PipeInv, PipeTypeOK
  <2>2. s \in Seq(Bytes) /\ Len(s) = k
    BY <1>1, <2>1
  <2> HIDE DEF s
  <2> QED
    BY <2>2
<1>4. Contents \in Seq(Bytes) /\ Len(Contents) = Used
  BY ContentsType DEF PipeInv
<1>5. CASE k = 0
  <2>1. s = <<>>
    BY <1>5
  <2>2. Contents \o <<>> = Contents
    BY <1>4
  <2> QED
    BY <1>2, <2>1, <2>2
<1>6. CASE k > 0
  <2>1. k \in 1..PIPESIZE /\ Len(Contents) + k <= PIPESIZE
    BY <1>1, <1>4, <1>6
  <2> HIDE DEF s
  <2>2. Queue!Send
    BY <1>2, <1>3, <2>1, Zenon DEF Queue!Send
  <2> QED
    BY <2>2 DEF Queue!Next
<1> QED
  BY <1>1, <1>5, <1>6

\* The pipe implements Fifo: whatever the interleaving, the wraps of the ring
\* and of the counters, and the copies that fail half way, bytes come out in
\* the order in which they went in, none twice and none lost.
THEOREM PipeIsQueue == Spec => QueueSpec
<1>1. Init => Queue!Init
  <2> SUFFICES ASSUME Init PROVE Contents = <<>>
    BY DEF Queue!Init
  <2>1. PipeTypeOK
    BY InitPipeInv DEF PipeInv
  <2>2. Used = 0
    BY <2>1, UsedIs DEF Init, PipeTypeOK
  <2> QED
    BY <2>1, <2>2, ContentsType
<1>2. PipeInv /\ PipeInv' /\ [Next]_vars => [Queue!Next]_Contents
  <2> SUFFICES ASSUME PipeInv, PipeInv', [Next]_vars PROVE [Queue!Next]_Contents
    OBVIOUS
  <2>1. PipeTypeOK' /\ PipeTypeOK /\ WithinRing
    BY DEF PipeInv
  <2>2. CASE UNCHANGED vars
    BY <2>2, SameContents DEF vars
  <2>3. ASSUME NEW p \in Procs, NEW k \in 0..PIPESIZE, WriteDone(p, k)
        PROVE  [Queue!Next]_Contents
    <3>1. k <= Len(todo[p]) /\ k + Used <= PIPESIZE
      <4>1. Used \in Nat /\ Len(todo[p]) \in Nat
        BY <2>1, UsedIs, Sizes DEF PipeTypeOK
      <4>2. k <= Room(p)
        BY <2>1, <2>3, RoomFits, Sizes DEF WriteDone
      <4> QED
        BY <2>1, <4>1, <4>2, RoomFits, Sizes
    <3>2. Store(p, k)
      BY <2>3 DEF WriteDone
    <3> QED
      BY <2>1, <3>1, <3>2, StoreSends
  <2>4. ASSUME NEW p \in Procs, WriteFails(p) \/ WriteFull(p)
        PROVE  [Queue!Next]_Contents
    <3>1. /\ Room(p) \in 0..PIPESIZE /\ Room(p) <= Len(todo[p])
          /\ Room(p) + Used <= PIPESIZE
      BY <2>1, RoomFits
    <3>2. Store(p, Room(p))
      BY <2>4 DEF WriteFails, WriteFull
    <3> QED
      BY <2>1, <3>1, <3>2, StoreSends
  <2>5. ASSUME NEW p \in Procs, NEW k \in 0..PIPESIZE, ReadDone(p, k)
        PROVE  [Queue!Next]_Contents
    <3>1. /\ k \in Nat /\ k <= Used
          /\ nread' = (nread + k) % Wrap /\ UNCHANGED <<data, nwrite>>
      BY <2>5, Sizes DEF ReadDone
    <3>2. Contents' = SubSeq(Contents, k + 1, Used)
      BY <2>1, <3>1, ReadTakes
    <3>3. Contents \in Seq(Bytes) /\ Len(Contents) = Used /\ Used \in Nat
      BY <2>1, ContentsType, UsedIs, Sizes DEF PipeTypeOK
    <3>4. CASE k = 0
      BY <3>2, <3>3, <3>4
    <3>5. CASE k > 0
      <4>1. k \in 1..Len(Contents)
        BY <3>1, <3>3, <3>5
      <4>2. Queue!Receive
        BY <3>2, <3>3, <4>1, Zenon DEF Queue!Receive
      <4> QED
        BY <4>2 DEF Queue!Next
    <3> QED
      BY <3>1, <3>4, <3>5
  <2>6. ASSUME NEW p \in Procs,
               \/ WriteSleep(p) \/ ReadFails(p) \/ ReadEmpty(p) \/ ReadSleep(p)
               \/ PipecloseRead(p) \/ PipecloseWrite(p)
               \/ \E m \in Writes : WriteCall(p, m)
               \/ \E n \in Reads : ReadCall(p, n)
               \/ \E q \in Procs : Fork(p, q)
               \/ FilecloseRead(p) \/ FilecloseWrite(p)
               \/ Kill(p)
        PROVE  [Queue!Next]_Contents
    <3>1. UNCHANGED pipeVars \/ UNCHANGED <<data, nread, nwrite>>
      BY <2>6 DEF WriteSleep, ReadFails, ReadEmpty, ReadSleep, PipecloseRead,
                  PipecloseWrite, WriteCall, ReadCall, Fork, FilecloseRead,
                  FilecloseWrite, Kill
    <3> QED
      BY <3>1, SameContents
  <2> QED
    BY <2>2, <2>3, <2>4, <2>5, <2>6 DEF Next, Step
<1> QED
  BY <1>1, <1>2, PipeInvariance, PTL DEF Spec, QueueSpec, Queue!Spec
=============================================================================
