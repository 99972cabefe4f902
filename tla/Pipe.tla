-------------------------------- MODULE Pipe --------------------------------
(***************************************************************************)
(* A pipe (kernel/pipe.c) with the references that file descriptors hold   *)
(* on its two ends (filedup() and fileclose() of kernel/file.c) and the    *)
(* sleep(), wakeup() and kill() of kernel/proc.c that its users meet.      *)
(*                                                                         *)
(* pi->lock is held from the entry of pipewrite() or piperead() to its     *)
(* return, except in sleep().  What a process does between taking the lock *)
(* and giving it up is one step, apart from the moment in which it has     *)
(* decided to sleep and is not asleep yet: kill() needs no pi->lock.       *)
(*                                                                         *)
(* A definition marked "Variant" is a plausible mistake in the one that    *)
(* follows it; the properties below are shown to catch it.                 *)
(***************************************************************************)
EXTENDS Integers, Sequences, FiniteSets

CONSTANTS
  Procs,       \* the processes that may have the pipe open
  Creator,     \* the one that calls pipe()
  Bytes,       \* contents of a byte
  Zero,        \* the byte that memset() leaves
  Writes,      \* what programs write: sequences of bytes
  Reads,       \* how many bytes programs ask for
  PIPESIZE,    \* size of pi->data
  Wrap,        \* nread and nwrite are unsigned and wrap at 2^32
  NoProc,      \* pi->lock is free
  Kills,       \* TRUE: kill() is called
  CopyFaults   \* TRUE: either_copyin() and either_copyout() may fail

ASSUME PipeAssumption ==
  /\ Creator \in Procs /\ NoProc \notin Procs /\ Zero \in Bytes
  /\ PIPESIZE \in Nat \ {0}
  /\ Wrap \in Nat /\ Wrap > PIPESIZE /\ Wrap % PIPESIZE = 0
  /\ Writes \subseteq Seq(Bytes) /\ Reads \subseteq Nat
  /\ Kills \in BOOLEAN /\ CopyFaults \in BOOLEAN

VARIABLES
  data,        \* pi->data
  nread,       \* pi->nread
  nwrite,      \* pi->nwrite
  readopen,    \* pi->readopen
  writeopen,   \* pi->writeopen
  freed,       \* kfree(pi) has been called
  lock,        \* the holder of pi->lock, when it is not released in the step
  rfd,         \* the processes with a descriptor for the read end
  wfd,         \* the processes with a descriptor for the write end
  pc,          \* where the process is
  todo,        \* pipewrite(): the bytes still to write
  want,        \* piperead(): n
  killed       \* p->killed

pipeVars == <<data, nread, nwrite, readopen, writeopen, freed>>
vars == <<pipeVars, lock, rfd, wfd, pc, todo, want, killed>>

\* Bytes in the pipe, in the unsigned arithmetic of the counters.
Used == (nwrite - nread) % Wrap

\* nwrite == nread + PIPESIZE
Full == nwrite = (nread + PIPESIZE) % Wrap

Contents == [i \in 1..Used |-> data[((nread + i - 1) % Wrap) % PIPESIZE]]

\* wakeup(&pi->nread) and wakeup(&pi->nwrite), applied to pc.
WakeReaders(f) == [q \in Procs |-> IF f[q] = "rsleep" THEN "read" ELSE f[q]]
WakeWriters(f) == [q \in Procs |-> IF f[q] = "wsleep" THEN "write" ELSE f[q]]

-----------------------------------------------------------------------------
\* pipealloc(), and sys_pipe() gives both ends to its caller.
Init ==
  /\ data      = [j \in 0..PIPESIZE - 1 |-> Zero]
  /\ nread     = 0
  /\ nwrite    = 0
  /\ readopen  = TRUE
  /\ writeopen = TRUE
  /\ freed     = FALSE
  /\ lock      = NoProc
  /\ rfd       = {Creator}
  /\ wfd       = {Creator}
  /\ pc        = [p \in Procs |-> "user"]
  /\ todo      = [p \in Procs |-> <<>>]
  /\ want      = [p \in Procs |-> 0]
  /\ killed    = [p \in Procs |-> FALSE]

InUser(p) == pc[p] = "user" /\ ~killed[p]

\* fork(): a new process gets the descriptors of its parent (filedup()).
Fork(p, q) ==
  /\ InUser(p) /\ pc[q] = "user" /\ q \notin rfd \cup wfd
  /\ rfd' = IF p \in rfd THEN rfd \cup {q} ELSE rfd
  /\ wfd' = IF p \in wfd THEN wfd \cup {q} ELSE wfd
  /\ killed' = [killed EXCEPT ![q] = FALSE]
  /\ UNCHANGED <<pipeVars, lock, pc, todo, want>>

\* kill(): without pi->lock; a sleeper becomes RUNNABLE.
Kill(p) ==
  /\ Kills /\ ~killed[p] /\ p \in rfd \cup wfd
  /\ killed' = [killed EXCEPT ![p] = TRUE]
  /\ pc' = [pc EXCEPT ![p] = IF @ = "wsleep" THEN "write"
                             ELSE IF @ = "rsleep" THEN "read" ELSE @]
  /\ UNCHANGED <<pipeVars, lock, rfd, wfd, todo, want>>

-----------------------------------------------------------------------------
WriteCall(p, m) ==
  /\ InUser(p) /\ p \in wfd
  /\ pc' = [pc EXCEPT ![p] = "write"]
  /\ todo' = [todo EXCEPT ![p] = m]
  /\ UNCHANGED <<pipeVars, lock, rfd, wfd, want, killed>>

\* Variant: ++nwrite for nwrite++.
StoreShifted(p, k) ==
  /\ data' = [j \in 0..PIPESIZE - 1 |->
                IF \E i \in 1..k : ((nwrite + i) % Wrap) % PIPESIZE = j
                THEN todo[p][CHOOSE i \in 1..k :
                               ((nwrite + i) % Wrap) % PIPESIZE = j]
                ELSE data[j]]
  /\ nwrite' = (nwrite + k) % Wrap
  /\ UNCHANGED <<nread, readopen, writeopen, freed, rfd, wfd, want, killed>>

\* pipewrite(): k bytes go into the ring.
Store(p, k) ==
  /\ data' = [j \in 0..PIPESIZE - 1 |->
                IF \E i \in 1..k : ((nwrite + i - 1) % Wrap) % PIPESIZE = j
                THEN todo[p][CHOOSE i \in 1..k :
                               ((nwrite + i - 1) % Wrap) % PIPESIZE = j]
                ELSE data[j]]
  /\ nwrite' = (nwrite + k) % Wrap
  /\ UNCHANGED <<nread, readopen, writeopen, freed, rfd, wfd, want, killed>>

\* How many bytes fit before the ring is full.
Room(p) == IF Len(todo[p]) <= PIPESIZE - Used THEN Len(todo[p])
           ELSE PIPESIZE - Used

\* pipewrite(): all of it fits, or either_copyin() fails on the way: wake the
\* readers and return.
WriteDone(p, k) ==
  /\ pc[p] = "write" /\ lock = NoProc
  /\ \/ k = Len(todo[p]) /\ k = Room(p)
     \/ CopyFaults /\ k < Room(p)
  /\ Store(p, k)
  /\ pc' = WakeReaders([pc EXCEPT ![p] = "user"])
  /\ todo' = [todo EXCEPT ![p] = <<>>]
  /\ UNCHANGED lock

\* pipewrite(): the ring is full, and there is no reader or the process is
\* killed: return -1.
WriteFails(p) ==
  /\ pc[p] = "write" /\ lock = NoProc
  /\ Room(p) < Len(todo[p])
  /\ ~readopen \/ killed[p]
  /\ Store(p, Room(p))
  /\ pc' = [pc EXCEPT ![p] = "user"]
  /\ todo' = [todo EXCEPT ![p] = <<>>]
  /\ UNCHANGED lock

\* Variant: sleeps without wakeup(&pi->nread).
WriteFullQuiet(p) ==
  /\ pc[p] = "write" /\ lock = NoProc
  /\ Room(p) < Len(todo[p])
  /\ readopen /\ ~killed[p]
  /\ Store(p, Room(p))
  /\ pc' = [pc EXCEPT ![p] = "toWsleep"]
  /\ todo' = [todo EXCEPT ![p] = SubSeq(@, Room(p) + 1, Len(@))]
  /\ lock' = p

\* pipewrite(): the ring is full: wake the readers and call sleep().
WriteFull(p) ==
  /\ pc[p] = "write" /\ lock = NoProc
  /\ Room(p) < Len(todo[p])
  /\ readopen /\ ~killed[p]
  /\ Store(p, Room(p))
  /\ pc' = WakeReaders([pc EXCEPT ![p] = "toWsleep"])
  /\ todo' = [todo EXCEPT ![p] = SubSeq(@, Room(p) + 1, Len(@))]
  /\ lock' = p

\* sleep(&pi->nwrite, &pi->lock): p->lock is taken, pi->lock given up.
WriteSleep(p) ==
  /\ pc[p] = "toWsleep"
  /\ pc' = [pc EXCEPT ![p] = "wsleep"]
  /\ lock' = NoProc
  /\ UNCHANGED <<pipeVars, rfd, wfd, todo, want, killed>>

-----------------------------------------------------------------------------
ReadCall(p, n) ==
  /\ InUser(p) /\ p \in rfd
  /\ pc' = [pc EXCEPT ![p] = "read"]
  /\ want' = [want EXCEPT ![p] = n]
  /\ UNCHANGED <<pipeVars, lock, rfd, wfd, todo, killed>>

\* piperead(): nothing to read, and more may come.
MustWait == nread = nwrite /\ writeopen

\* piperead(): the process is killed: return -1.
ReadFails(p) ==
  /\ pc[p] = "read" /\ lock = NoProc
  /\ MustWait /\ killed[p]
  /\ pc' = [pc EXCEPT ![p] = "user"]
  /\ want' = [want EXCEPT ![p] = 0]
  /\ UNCHANGED <<pipeVars, lock, rfd, wfd, todo, killed>>

\* piperead(): call sleep().
ReadEmpty(p) ==
  /\ pc[p] = "read" /\ lock = NoProc
  /\ MustWait /\ ~killed[p]
  /\ pc' = [pc EXCEPT ![p] = "toRsleep"]
  /\ lock' = p
  /\ UNCHANGED <<pipeVars, rfd, wfd, todo, want, killed>>

\* sleep(&pi->nread, &pi->lock)
ReadSleep(p) ==
  /\ pc[p] = "toRsleep"
  /\ pc' = [pc EXCEPT ![p] = "rsleep"]
  /\ lock' = NoProc
  /\ UNCHANGED <<pipeVars, rfd, wfd, todo, want, killed>>

\* piperead(): take k bytes, as many as asked for and there are (the byte on
\* which either_copyout() fails is taken, too), wake the writers and return.
ReadDone(p, k) ==
  /\ pc[p] = "read" /\ lock = NoProc
  /\ ~MustWait
  /\ k <= Used /\ k <= want[p]
  /\ k \in {Used, want[p]} \/ (CopyFaults /\ k > 0)
  /\ nread' = (nread + k) % Wrap
  /\ pc' = WakeWriters([pc EXCEPT ![p] = "user"])
  /\ want' = [want EXCEPT ![p] = 0]
  /\ UNCHANGED <<data, nwrite, readopen, writeopen, freed, lock, rfd, wfd,
                 todo, killed>>

-----------------------------------------------------------------------------
\* fileclose(), under ftable.lock: the process gives up a descriptor; the last
\* one of an end goes on to pipeclose().
FilecloseRead(p) ==
  /\ pc[p] = "user" /\ p \in rfd
  /\ rfd' = rfd \ {p}
  /\ pc' = [pc EXCEPT ![p] = IF rfd = {p} THEN "closeRead" ELSE @]
  /\ UNCHANGED <<pipeVars, lock, wfd, todo, want, killed>>

FilecloseWrite(p) ==
  /\ pc[p] = "user" /\ p \in wfd
  /\ wfd' = wfd \ {p}
  /\ pc' = [pc EXCEPT ![p] = IF wfd = {p} THEN "closeWrite" ELSE @]
  /\ UNCHANGED <<pipeVars, lock, rfd, todo, want, killed>>

\* Variant: frees the pipe with the first end.
PipecloseReadFrees(p) ==
  /\ pc[p] = "closeRead" /\ lock = NoProc
  /\ readopen' = FALSE
  /\ freed' = TRUE
  /\ pc' = WakeWriters([pc EXCEPT ![p] = "user"])
  /\ UNCHANGED <<data, nread, nwrite, writeopen, lock, rfd, wfd, todo, want,
                 killed>>

\* pipeclose() of the read end: wake the writers; kfree() if the other end is
\* closed already.
PipecloseRead(p) ==
  /\ pc[p] = "closeRead" /\ lock = NoProc
  /\ readopen' = FALSE
  /\ freed' = ~writeopen
  /\ pc' = WakeWriters([pc EXCEPT ![p] = "user"])
  /\ UNCHANGED <<data, nread, nwrite, writeopen, lock, rfd, wfd, todo, want,
                 killed>>

\* Variant: no wakeup(&pi->nread).
PipecloseWriteQuiet(p) ==
  /\ pc[p] = "closeWrite" /\ lock = NoProc
  /\ writeopen' = FALSE
  /\ freed' = ~readopen
  /\ pc' = [pc EXCEPT ![p] = "user"]
  /\ UNCHANGED <<data, nread, nwrite, readopen, lock, rfd, wfd, todo, want,
                 killed>>

\* pipeclose() of the write end: wake the readers.
PipecloseWrite(p) ==
  /\ pc[p] = "closeWrite" /\ lock = NoProc
  /\ writeopen' = FALSE
  /\ freed' = ~readopen
  /\ pc' = WakeReaders([pc EXCEPT ![p] = "user"])
  /\ UNCHANGED <<data, nread, nwrite, readopen, lock, rfd, wfd, todo, want,
                 killed>>

-----------------------------------------------------------------------------
\* What a process inside the kernel goes on to do by itself.
Step(p) ==
  \/ \E k \in 0..PIPESIZE : WriteDone(p, k) \/ ReadDone(p, k)
  \/ WriteFails(p) \/ WriteFull(p) \/ WriteSleep(p)
  \/ ReadFails(p) \/ ReadEmpty(p) \/ ReadSleep(p)
  \/ PipecloseRead(p) \/ PipecloseWrite(p)

Next ==
  \E p \in Procs :
    \/ Step(p)
    \/ \E m \in Writes : WriteCall(p, m)
    \/ \E n \in Reads : ReadCall(p, n)
    \/ \E q \in Procs : Fork(p, q)
    \/ FilecloseRead(p) \/ FilecloseWrite(p)
    \/ Kill(p)

Spec == Init /\ [][Next]_vars

\* usertrap(): a killed process exits, and exit() closes its descriptors.
ExitKilled(p) == killed[p] /\ (FilecloseRead(p) \/ FilecloseWrite(p))

\* A process that is not asleep runs on (preemptive round-robin scheduler),
\* and spins on pi->lock until it has it.
Fairness == \A p \in Procs : WF_vars(Step(p)) /\ WF_vars(ExitKilled(p))

FairSpec == Spec /\ Fairness

-----------------------------------------------------------------------------
Locations == {"user", "write", "toWsleep", "wsleep", "closeWrite",
              "read", "toRsleep", "rsleep", "closeRead"}

PipeTypeOK ==
  /\ data \in [0..PIPESIZE - 1 -> Bytes]
  /\ nread \in 0..Wrap - 1 /\ nwrite \in 0..Wrap - 1
  /\ readopen \in BOOLEAN /\ writeopen \in BOOLEAN /\ freed \in BOOLEAN
  /\ lock \in Procs \cup {NoProc}
  /\ rfd \in SUBSET Procs /\ wfd \in SUBSET Procs
  /\ pc \in [Procs -> Locations]
  /\ todo \in [Procs -> Seq(Bytes)]
  /\ want \in [Procs -> Nat]
  /\ killed \in [Procs -> BOOLEAN]

\* The counters never run apart by more than the ring holds, although they
\* wrap: nothing is overwritten before it is read.
WithinRing == Used <= PIPESIZE

\* From the decision to sleep to sleep() the process holds pi->lock, and what
\* made it decide stays true: pipewrite() "pipewrite-full",
\* piperead() "pipe-empty".
DecisionStands ==
  /\ \A p \in Procs : pc[p] \in {"toWsleep", "toRsleep"} <=> lock = p
  /\ \A p \in Procs : pc[p] = "toWsleep" => Full /\ readopen
  /\ \A p \in Procs : pc[p] = "toRsleep" => nread = nwrite /\ writeopen

\* Whoever is inside has a descriptor of its end, an end with descriptors is
\* open, the last one to leave an end is alone, and a pipe is not freed before
\* both ends are closed.
EndsInUse ==
  /\ \A p \in Procs : /\ pc[p] \in {"write", "toWsleep", "wsleep"} => p \in wfd
                      /\ pc[p] \in {"read", "toRsleep", "rsleep"} => p \in rfd
                      /\ pc[p] = "closeWrite" => wfd = {} /\ writeopen
                      /\ pc[p] = "closeRead" => rfd = {} /\ readopen
  /\ \A p, q \in Procs : pc[p] = pc[q] /\ pc[p] \in {"closeRead", "closeWrite"} => p = q
  /\ rfd # {} => readopen
  /\ wfd # {} => writeopen
  /\ freed => ~readopen /\ ~writeopen

\* The inductive invariant of the pipe: nread and nwrite, as pipewrite() and
\* piperead() wrap them, are never more than PIPESIZE apart; the decision to
\* sleep stands until the sleep; and pipeclose() frees what nobody has open.
PipeInv == PipeTypeOK /\ WithinRing /\ DecisionStands /\ EndsInUse

\* pipeclose() against pipewrite() and piperead(): pi is freed when nobody is
\* inside and nobody can come back, and then only once (pipeclose() is not
\* entered again).
FreedUnused ==
  freed => /\ rfd = {} /\ wfd = {}
           /\ \A p \in Procs : pc[p] = "user"

\* Writers that sleep although there is room or nobody will read, and readers
\* that sleep although there is something to read or nobody will write.
LeftAsleep ==
  {p \in Procs : \/ pc[p] = "wsleep" /\ ~(Full /\ readopen)
                 \/ pc[p] = "rsleep" /\ ~(nread = nwrite /\ writeopen)}

\* piperead() sleeps at "pipe-empty" (its comment), pipewrite() on a full pipe:
\* no step leaves anyone asleep who could go on.  There is one exception: a
\* writer that is killed when it has filled the pipe returns without a wakeup.
NobodyLeftAsleep ==
  [][LeftAsleep' \subseteq LeftAsleep
       \/ \E q \in Procs : killed[q] /\ pc[q] = "write" /\ pc'[q] = "user"]_vars

\* Every reader sees the end of the pipe: when the last descriptor of the
\* write end is gone, nobody stays asleep or inside the pipe.
EndOfFile ==
  \A p \in Procs :
    wfd = {} /\ pc[p] \in {"read", "rsleep"} ~> pc[p] = "user"

\* The pipe implements a bounded queue of bytes.
Queue == INSTANCE Fifo WITH Capacity <- PIPESIZE, queue <- Contents
QueueSpec == Queue!Spec
=============================================================================
