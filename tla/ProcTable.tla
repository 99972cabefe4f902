----------------------------- MODULE ProcTable -----------------------------
(***************************************************************************)
(* The process table of kernel/proc.c: fork(), exit(), wait(), wait4pid(), *)
(* kill(), sleep() on p->lock, the scheduler of every CPU, and the part of *)
(* usertrap() that makes a killed process exit.                            *)
(*                                                                         *)
(* A process takes at most three p->locks at a time.  A critical section   *)
(* that takes one p->lock and no other is one step; exit() and wait() hold *)
(* one lock while they take the next, and are split at each acquire(), at  *)
(* each p->parent that they read without its lock, and at the point where  *)
(* the CPU has left the kernel stack of the process.                       *)
(*                                                                         *)
(* A definition marked "Variant" is a plausible mistake in the one that    *)
(* follows it; the properties below are shown to catch it.                 *)
(***************************************************************************)
EXTENDS Integers, FiniteSets

CONSTANTS
  NPROC,      \* slots of the process table
  CPUs,       \* the processors
  Calls,      \* the system calls that the programs make
  MapFaults   \* TRUE: vma_map() may run out of memory in fork()

AllCalls == {"fork", "wait", "wait4", "exit", "nanosleep", "kill"}

ASSUME TableAssumption ==
  /\ NPROC \in Nat \ {0}
  /\ Calls \subseteq AllCalls /\ MapFaults \in BOOLEAN

Slots == 1..NPROC
None  == 0             \* the null pointer
initproc == 1          \* initproc, the slot that userinit() gets
Ticks == NPROC + 1     \* the channel &ticks

VARIABLES
  state,    \* p->state
  parent,   \* p->parent
  chan,     \* p->chan
  killed,   \* p->killed # 0
  lock,     \* the process that holds p->lock (its CPU, in the code)
  cpu,      \* c->proc
  pc,       \* where the process is in the kernel
  call,     \* wait() or wait4pid()
  target,   \* wait4pid(): the process that has the pid, None for -1
  np,       \* the slot that a scan of the table has come to
  kid,      \* wait(): havekids, findchild(): *child
  origpar   \* exit(): original_parent

locals == <<call, target, np, kid, origpar>>
vars == <<state, parent, chan, killed, lock, cpu, pc, locals>>

\* Places where interrupts are on and no p->lock is held.
Interruptible == {"syscall", "exitWake", "exitRead", "exitParent"}

OnCpu(p)   == \E c \in CPUs : cpu[c] = p
Running(p) == OnCpu(p) /\ state[p] = "RUNNING"
At(p, loc) == Running(p) /\ pc[p] = loc
Free(s)    == lock[s] = None
Held(p)    == {s \in Slots : lock[s] = p}
Goto(p, loc) == pc' = [pc EXCEPT ![p] = loc]

-----------------------------------------------------------------------------
\* procinit() and userinit(): only initproc, about to run.
Init ==
  /\ state   = [s \in Slots |-> IF s = initproc THEN "RUNNABLE" ELSE "UNUSED"]
  /\ parent  = [s \in Slots |-> None]
  /\ chan    = [s \in Slots |-> None]
  /\ killed  = [s \in Slots |-> FALSE]
  /\ lock    = [s \in Slots |-> None]
  /\ cpu     = [c \in CPUs |-> None]
  /\ pc      = [s \in Slots |-> "user"]
  /\ call    = [s \in Slots |-> "wait"]
  /\ target  = [s \in Slots |-> None]
  /\ np      = [s \in Slots |-> None]
  /\ kid     = [s \in Slots |-> None]
  /\ origpar = [s \in Slots |-> None]

-----------------------------------------------------------------------------
(* The scheduler, yield() and sleep(). *)

\* Variant: looks at p->state without p->lock.
ScheduleUnlocked(c, p) ==
  /\ cpu[c] = None
  /\ state[p] = "RUNNABLE"
  /\ state' = [state EXCEPT ![p] = "RUNNING"]
  /\ cpu'   = [cpu EXCEPT ![c] = p]
  /\ chan'  = [chan EXCEPT ![p] = None]
  /\ lock'  = [lock EXCEPT ![p] = IF chan[p] = None THEN None ELSE p]
  /\ np'    = [np EXCEPT ![p] = IF pc[p] = "wait" THEN 1 ELSE @]
  /\ kid'   = [kid EXCEPT ![p] = None]
  /\ UNCHANGED <<parent, killed, pc, call, target, origpar>>

\* scheduler(): pick a RUNNABLE process.  It goes on where it called
\* sched(), with its lock: forkret() and yield() release it at once, sleep()
\* clears p->chan and returns to the loop of wait(), wait4pid() or
\* sys_nanosleep().
Schedule(c, p) ==
  /\ cpu[c] = None
  /\ Free(p) /\ state[p] = "RUNNABLE"
  /\ state' = [state EXCEPT ![p] = "RUNNING"]
  /\ cpu'   = [cpu EXCEPT ![c] = p]
  /\ chan'  = [chan EXCEPT ![p] = None]
  /\ lock'  = [lock EXCEPT ![p] = IF chan[p] = None THEN None ELSE p]
  /\ np'    = [np EXCEPT ![p] = IF pc[p] = "wait" THEN 1 ELSE @]
  /\ kid'   = [kid EXCEPT ![p] = None]
  /\ UNCHANGED <<parent, killed, pc, call, target, origpar>>

\* scheduler(), back from swtch(): the CPU has left the stack of the process
\* that called sched(), and releases its lock.
SwitchOut(c) ==
  /\ cpu[c] # None
  /\ state[cpu[c]] # "RUNNING"
  /\ lock' = [lock EXCEPT ![cpu[c]] = None]
  /\ cpu'  = [cpu EXCEPT ![c] = None]
  /\ UNCHANGED <<state, parent, chan, killed, pc, locals>>

\* A timer interrupt in usertrap() or kerneltrap(): yield().
Yield(p) ==
  /\ Running(p)
  /\ \/ pc[p] = "user" /\ ~killed[p]
     \/ pc[p] \in Interruptible /\ Held(p) = {}
  /\ Free(p)
  /\ lock'  = [lock EXCEPT ![p] = p]
  /\ state' = [state EXCEPT ![p] = "RUNNABLE"]
  /\ UNCHANGED <<parent, chan, killed, cpu, pc, locals>>

\* sleep(ch, &p->lock), up to the call of sched().
Sleep(p, ch) ==
  /\ chan'  = [chan EXCEPT ![p] = ch]
  /\ state' = [state EXCEPT ![p] = "SLEEPING"]

\* wakeup1(s), with s->lock held.
Wakeup1(s) == [state EXCEPT ![s] =
                 IF chan[s] = s /\ @ = "SLEEPING" THEN "RUNNABLE" ELSE @]

\* clockintr(): wakeup(&ticks), one round of its loop.
ClockWakeup(s) ==
  /\ Free(s)
  /\ state[s] = "SLEEPING" /\ chan[s] = Ticks
  /\ state' = [state EXCEPT ![s] = "RUNNABLE"]
  /\ UNCHANGED <<parent, chan, killed, lock, cpu, pc, locals>>

-----------------------------------------------------------------------------
(* System call entry and return. *)

\* usertrap(): a system call; the process is not killed when it enters.
Syscall(p) ==
  /\ At(p, "user") /\ ~killed[p]
  /\ Goto(p, "syscall")
  /\ UNCHANGED <<state, parent, chan, killed, lock, cpu, locals>>

\* usertrap(): "if (p->killed) exit(-1)", on the way in and on the way out.
KilledExit(p) ==
  /\ At(p, "user") /\ killed[p]
  /\ Goto(p, "exitWake")
  /\ UNCHANGED <<state, parent, chan, killed, lock, cpu, locals>>

\* Variant: allocproc() takes a ZOMBIE for a free slot.
ForkOverZombie(p, s) ==
  /\ "fork" \in Calls
  /\ At(p, "syscall")
  /\ state[s] \in {"UNUSED", "ZOMBIE"} /\ Free(s)
  /\ state'  = [state EXCEPT ![s] = "RUNNABLE"]
  /\ parent' = [parent EXCEPT ![s] = p]
  /\ pc'     = [pc EXCEPT ![s] = "user", ![p] = "user"]
  /\ UNCHANGED <<chan, killed, lock, cpu, locals>>

\* fork() and clone(): a slot that allocproc() finds UNUSED becomes a child.
\* The lock of the slot is held throughout and no other is taken with it.
Fork(p, s) ==
  /\ "fork" \in Calls
  /\ At(p, "syscall")
  /\ state[s] = "UNUSED" /\ Free(s)
  /\ state'  = [state EXCEPT ![s] = "RUNNABLE"]
  /\ parent' = [parent EXCEPT ![s] = p]
  /\ pc'     = [pc EXCEPT ![s] = "user", ![p] = "user"]
  /\ UNCHANGED <<chan, killed, lock, cpu, locals>>

\* fork(): no slot, or no memory for the page table of the child, which
\* freeproc() undoes.
ForkFails(p) ==
  /\ "fork" \in Calls
  /\ At(p, "syscall")
  /\ Goto(p, "user")
  /\ UNCHANGED <<state, parent, chan, killed, lock, cpu, locals>>

\* fork(): vma_map() fails, and fork() returns -1 without release(&np->lock).
ForkMapFault(p, s) ==
  /\ "fork" \in Calls /\ MapFaults
  /\ At(p, "syscall")
  /\ state[s] = "UNUSED" /\ Free(s)
  /\ lock' = [lock EXCEPT ![s] = p]
  /\ Goto(p, "user")
  /\ UNCHANGED <<state, parent, chan, killed, cpu, locals>>

\* Variant: makes any process RUNNABLE.
KillRevives(p, s) ==
  /\ "kill" \in Calls
  /\ At(p, "syscall")
  /\ s # initproc /\ state[s] # "UNUSED" /\ Free(s)
  /\ killed' = [killed EXCEPT ![s] = TRUE]
  /\ state'  = [state EXCEPT ![s] = "RUNNABLE"]
  /\ Goto(p, "user")
  /\ UNCHANGED <<parent, chan, lock, cpu, locals>>

\* kill(), reached by sys_tgkill() with any pid and by sys_kill() with the
\* caller's own.  The programs do not kill initproc.
Kill(p, s) ==
  /\ "kill" \in Calls
  /\ At(p, "syscall")
  /\ s # initproc /\ state[s] # "UNUSED" /\ Free(s)
  /\ killed' = [killed EXCEPT ![s] = TRUE]
  /\ state'  = [state EXCEPT ![s] = IF @ = "SLEEPING" THEN "RUNNABLE" ELSE @]
  /\ Goto(p, "user")
  /\ UNCHANGED <<parent, chan, lock, cpu, locals>>

-----------------------------------------------------------------------------
(* sys_nanosleep() *)

NanosleepCall(p) ==
  /\ "nanosleep" \in Calls
  /\ At(p, "syscall") /\ Free(p)
  /\ lock' = [lock EXCEPT ![p] = p]
  /\ Goto(p, "nanosleep")
  /\ UNCHANGED <<state, parent, chan, killed, cpu, locals>>

\* The loop: the time is over; or the process is killed, and the call returns
\* -1 without release(&p->lock); or it sleeps on &ticks.
NanosleepDone(p) ==
  /\ At(p, "nanosleep")
  /\ lock' = [lock EXCEPT ![p] = None]
  /\ Goto(p, "user")
  /\ UNCHANGED <<state, parent, chan, killed, cpu, locals>>

NanosleepKilled(p) ==
  /\ At(p, "nanosleep") /\ killed[p]
  /\ Goto(p, "user")
  /\ UNCHANGED <<state, parent, chan, killed, lock, cpu, locals>>

NanosleepSleep(p) ==
  /\ At(p, "nanosleep") /\ ~killed[p]
  /\ Sleep(p, Ticks)
  /\ UNCHANGED <<parent, killed, lock, cpu, pc, locals>>

-----------------------------------------------------------------------------
(* exit() *)

\* sys_exit(); initproc never exits.
ExitCall(p) ==
  /\ "exit" \in Calls
  /\ At(p, "syscall") /\ p # initproc
  /\ Goto(p, "exitWake")
  /\ UNCHANGED <<state, parent, chan, killed, lock, cpu, locals>>

\* Wake initproc, under its lock.
ExitWakeInit(p) ==
  /\ At(p, "exitWake") /\ Free(initproc)
  /\ state' = Wakeup1(initproc)
  /\ Goto(p, "exitRead")
  /\ UNCHANGED <<parent, chan, killed, lock, cpu, locals>>

\* Copy p->parent, under p->lock.
ExitReadParent(p) ==
  /\ At(p, "exitRead") /\ Free(p)
  /\ origpar' = [origpar EXCEPT ![p] = parent[p]]
  /\ Goto(p, "exitParent")
  /\ UNCHANGED <<state, parent, chan, killed, lock, cpu, call, target, np, kid>>

\* acquire(&original_parent->lock)
ExitLockParent(p) ==
  /\ At(p, "exitParent") /\ Free(origpar[p])
  /\ lock' = [lock EXCEPT ![origpar[p]] = p]
  /\ Goto(p, "exitSelf")
  /\ UNCHANGED <<state, parent, chan, killed, cpu, locals>>

\* Variant: reparent() looks at the slots behind p only.
ExitScansBehind(p) ==
  /\ At(p, "exitSelf") /\ Free(p)
  /\ lock' = [lock EXCEPT ![p] = p]
  /\ np'   = [np EXCEPT ![p] = p]
  /\ Goto(p, "reparent")
  /\ UNCHANGED <<state, parent, chan, killed, cpu, call, target, kid, origpar>>

\* acquire(&p->lock), and reparent() starts its scan.
ExitLockSelf(p) ==
  /\ At(p, "exitSelf") /\ Free(p)
  /\ lock' = [lock EXCEPT ![p] = p]
  /\ np'   = [np EXCEPT ![p] = 1]
  /\ Goto(p, "reparent")
  /\ UNCHANGED <<state, parent, chan, killed, cpu, call, target, kid, origpar>>

\* reparent(): look at pp->parent without pp->lock.
ReparentCheck(p) ==
  /\ At(p, "reparent") /\ np[p] \in Slots
  /\ IF parent[np[p]] = p
     THEN Goto(p, "reparentLock") /\ UNCHANGED np
     ELSE np' = [np EXCEPT ![p] = @ + 1] /\ UNCHANGED pc
  /\ UNCHANGED <<state, parent, chan, killed, lock, cpu, call, target, kid, origpar>>

\* reparent(): take pp->lock, give pp to initproc, release the lock.
ReparentGive(p) ==
  /\ At(p, "reparentLock") /\ Free(np[p])
  /\ parent' = [parent EXCEPT ![np[p]] = initproc]
  /\ np'     = [np EXCEPT ![p] = @ + 1]
  /\ Goto(p, "reparent")
  /\ UNCHANGED <<state, chan, killed, lock, cpu, call, target, kid, origpar>>

\* Variant: forgets a parent that sleeps in wait4pid().
ExitWakesWaitOnly(p) ==
  LET o == origpar[p] IN
  /\ At(p, "reparent") /\ np[p] \notin Slots
  /\ state' = [state EXCEPT
                 ![o] = IF chan[o] = o /\ @ = "SLEEPING"
                        THEN "RUNNABLE" ELSE @,
                 ![p] = "ZOMBIE"]
  /\ lock' = [lock EXCEPT ![o] = None]
  /\ np' = [np EXCEPT ![p] = None]
  /\ origpar' = [origpar EXCEPT ![p] = None]
  /\ Goto(p, "exited")
  /\ UNCHANGED <<parent, chan, killed, cpu, call, target, kid>>

\* Wake the parent, become a ZOMBIE, release the parent's lock, sched().
ExitZombie(p) ==
  LET o == origpar[p] IN
  /\ At(p, "reparent") /\ np[p] \notin Slots
  /\ state' = [state EXCEPT
                 ![o] = IF chan[o] \in {o, p} /\ @ = "SLEEPING"
                        THEN "RUNNABLE" ELSE @,
                 ![p] = "ZOMBIE"]
  /\ lock' = [lock EXCEPT ![o] = None]
  /\ np' = [np EXCEPT ![p] = None]
  /\ origpar' = [origpar EXCEPT ![p] = None]
  /\ Goto(p, "exited")
  /\ UNCHANGED <<parent, chan, killed, cpu, call, target, kid>>

-----------------------------------------------------------------------------
(* wait() and wait4pid() *)

\* acquire(&p->lock), and the scan starts.
WaitCall(p, c, t) ==
  /\ At(p, "syscall") /\ Free(p)
  /\ c \in {"wait", "wait4"} \cap Calls
  /\ c = "wait" => t = None
  /\ lock'   = [lock EXCEPT ![p] = p]
  /\ call'   = [call EXCEPT ![p] = c]
  /\ target' = [target EXCEPT ![p] = t]
  /\ np'     = [np EXCEPT ![p] = 1]
  /\ kid'    = [kid EXCEPT ![p] = None]
  /\ Goto(p, "wait")
  /\ UNCHANGED <<state, parent, chan, killed, cpu, origpar>>

\* Look at np->pid and np->parent without np->lock.
WaitCheck(p) ==
  /\ At(p, "wait") /\ np[p] \in Slots
  /\ IF parent[np[p]] = p /\ target[p] \in {None, np[p]}
     THEN Goto(p, "waitLock") /\ UNCHANGED np
     ELSE np' = [np EXCEPT ![p] = @ + 1] /\ UNCHANGED pc
  /\ UNCHANGED <<state, parent, chan, killed, lock, cpu, call, target, kid, origpar>>

\* The call returns to user space, its local variables are gone.
WaitReturn(p) ==
  /\ call'   = [call EXCEPT ![p] = "wait"]
  /\ target' = [target EXCEPT ![p] = None]
  /\ np'     = [np EXCEPT ![p] = None]
  /\ kid'    = [kid EXCEPT ![p] = None]
  /\ lock'   = [lock EXCEPT ![p] = None]
  /\ Goto(p, "user")
  /\ UNCHANGED origpar

\* The child is not a ZOMBIE: release its lock and look further.
WaitKid(p) ==
  /\ At(p, "waitLock") /\ Free(np[p])
  /\ state[np[p]] # "ZOMBIE"
  /\ kid' = [kid EXCEPT ![p] = np[p]]
  /\ np'  = [np EXCEPT ![p] = @ + 1]
  /\ Goto(p, "wait")
  /\ UNCHANGED <<state, parent, chan, killed, lock, cpu, call, target, origpar>>

\* The child is a ZOMBIE: freeproc().
WaitReap(p) ==
  LET s == np[p] IN
  /\ At(p, "waitLock") /\ Free(s)
  /\ state[s] = "ZOMBIE"
  /\ state'  = [state EXCEPT ![s] = "UNUSED"]
  /\ parent' = [parent EXCEPT ![s] = None]
  /\ chan'   = [chan EXCEPT ![s] = None]
  /\ killed' = [killed EXCEPT ![s] = FALSE]
  /\ WaitReturn(p)
  /\ UNCHANGED cpu

\* The child is a ZOMBIE, copyout() of its status fails: return -1 and leave
\* it a ZOMBIE.  initproc asks for no status.
WaitCopyoutFault(p) ==
  /\ At(p, "waitLock") /\ Free(np[p]) /\ p # initproc
  /\ state[np[p]] = "ZOMBIE"
  /\ WaitReturn(p)
  /\ UNCHANGED <<state, parent, chan, killed, cpu>>

\* No child; or, in wait() only, the process is killed: return -1.
WaitFails(p) ==
  /\ At(p, "wait") /\ np[p] \notin Slots
  /\ kid[p] = None \/ (call[p] = "wait" /\ killed[p])
  /\ WaitReturn(p)
  /\ UNCHANGED <<state, parent, chan, killed, cpu>>

\* Sleep on p, or in wait4pid() of one child on that child.
WaitSleep(p) ==
  /\ At(p, "wait") /\ np[p] \notin Slots
  /\ kid[p] # None /\ ~(call[p] = "wait" /\ killed[p])
  /\ Sleep(p, IF target[p] = None THEN p ELSE kid[p])
  /\ UNCHANGED <<parent, killed, lock, cpu, pc, locals>>

-----------------------------------------------------------------------------
Exit(p) ==
  \/ ExitWakeInit(p) \/ ExitReadParent(p) \/ ExitLockParent(p)
  \/ ExitLockSelf(p) \/ ReparentCheck(p)  \/ ReparentGive(p)
  \/ ExitZombie(p)

Wait(p) ==
  \/ WaitCheck(p) \/ WaitKid(p) \/ WaitReap(p) \/ WaitCopyoutFault(p)
  \/ WaitFails(p) \/ WaitSleep(p)

Nanosleep(p) == NanosleepDone(p) \/ NanosleepKilled(p) \/ NanosleepSleep(p)

\* A program makes a system call.
Program(p) ==
  \/ Syscall(p)
  \/ ForkFails(p)
  \/ ExitCall(p)
  \/ NanosleepCall(p)
  \/ \E s \in Slots : Fork(p, s) \/ ForkMapFault(p, s) \/ Kill(p, s)
  \/ \E c \in {"wait", "wait4"}, t \in Slots \cup {None} : WaitCall(p, c, t)

Next ==
  \/ \E p \in Slots :
       \/ Program(p) \/ KilledExit(p) \/ Exit(p) \/ Wait(p) \/ Nanosleep(p)
       \/ Yield(p) \/ ClockWakeup(p)
       \/ \E c \in CPUs : Schedule(c, p)
  \/ \E c \in CPUs : SwitchOut(c)

Spec == Init /\ [][Next]_vars

-----------------------------------------------------------------------------
\* No two CPUs run on one kernel stack, and a process that has given itself
\* up in yield(), sleep() or exit() keeps its lock until its CPU has left the
\* stack: no other CPU schedules it, and no parent frees it, before that.
StackInUse ==
  /\ \A c, d \in CPUs : cpu[c] = cpu[d] /\ cpu[c] # None => c = d
  /\ \A p \in Slots : state[p] = "RUNNING" => OnCpu(p)
  /\ \A p \in Slots : OnCpu(p) =>
       state[p] = "RUNNING" \/ (lock[p] = p /\ state[p] # "UNUSED")

\* The lock that a running process is about to take, None if there is none.
Wants(p) ==
  IF ~Running(p) THEN None
  ELSE CASE pc[p] = "exitWake" -> initproc
         [] pc[p] \in {"exitRead", "exitSelf"} -> p
         [] pc[p] = "exitParent" -> origpar[p]
         [] pc[p] \in {"reparentLock", "waitLock"} -> np[p]
         [] OTHER -> None

\* No circle of processes, each spinning on a p->lock that the next one holds:
\* what the parent-then-child rule of exit() and wait() is for.
NoLockCycle ==
  ~ \E S \in SUBSET Slots :
      /\ S # {}
      /\ \A p \in S : Wants(p) # None /\ lock[Wants(p)] \in S

\* wait(), reparent(): "np->parent can't change between the check and the
\* acquire() because only the parent changes it, and we're the parent".
ParentStable ==
  \A p \in Slots : pc[p] \in {"waitLock", "reparentLock"} => parent[np[p]] = p

\* Every process has a parent that can still wait for it: exit() gives away
\* all children before the process becomes a ZOMBIE, and no parent is freed
\* before.
ParentAlive ==
  \A s \in Slots \ {initproc} : state[s] # "UNUSED" =>
    /\ parent[s] \in Slots
    /\ state[parent[s]] \notin {"UNUSED", "ZOMBIE"}

\* wait(): "hold p->lock for the whole time to avoid lost wakeups from a
\* child's exit()".  No process but initproc sleeps in wait() or wait4pid()
\* while a child that it waits for is a ZOMBIE.
NoLostExit ==
  \A p \in Slots \ {initproc}, s \in Slots :
    pc[p] = "wait" /\ state[p] = "SLEEPING"
      /\ parent[s] = p /\ target[p] \in {None, s}
    => state[s] # "ZOMBIE"

\* "An exited process remains in the zombie state until its parent calls
\* wait()": no late wakeup or kill revives it, and only the process that is
\* its parent, while it holds both locks, frees the slot.
ZombieUntilWaited ==
  [][\A s \in Slots : state[s] = "ZOMBIE" /\ state'[s] # "ZOMBIE" =>
       /\ state'[s] = "UNUSED"
       /\ Free(s) /\ ~OnCpu(s)
       /\ At(parent[s], "waitLock") /\ lock[parent[s]] = parent[s]]_vars

-----------------------------------------------------------------------------
(* The inductive invariant behind the properties, part by part. *)

Places == {"user", "syscall", "nanosleep", "wait", "waitLock", "exitWake", "exitRead",
           "exitParent", "exitSelf", "reparent", "reparentLock", "exited"}

TableTypeOK ==
  /\ state   \in [Slots -> {"UNUSED", "RUNNABLE", "RUNNING", "SLEEPING", "ZOMBIE"}]
  /\ parent  \in [Slots -> Slots \cup {None}]
  /\ chan    \in [Slots -> Slots \cup {None, Ticks}]
  /\ killed  \in [Slots -> BOOLEAN]
  /\ lock    \in [Slots -> Slots \cup {None}]
  /\ cpu     \in [CPUs -> Slots \cup {None}]
  /\ pc      \in [Slots -> Places]
  /\ call    \in [Slots -> {"wait", "wait4"}]
  /\ target  \in [Slots -> Slots \cup {None}]
  /\ np      \in [Slots -> 0..NPROC + 1]
  /\ kid     \in [Slots -> Slots \cup {None}]
  /\ origpar \in [Slots -> Slots \cup {None}]

\* initproc has no parent, is never killed and never exits.
InitStays ==
  /\ state[initproc] \notin {"UNUSED", "ZOMBIE"}
  /\ ~killed[initproc] /\ parent[initproc] = None
  /\ pc[initproc] \in {"user", "syscall", "nanosleep", "wait", "waitLock"}

\* Where a process can be in which state.  A process that is not RUNNING in
\* wait() or sys_nanosleep() has a channel, and no other one has.
StateAndPlace ==
  \A p \in Slots :
    /\ state[p] \in {"UNUSED", "ZOMBIE"} => pc[p] \in {"user", "exited"}
    /\ state[p] = "UNUSED" => parent[p] = None
    /\ state[p] = "SLEEPING" => pc[p] \in {"wait", "nanosleep"}
    /\ pc[p] \in {"exitSelf", "reparent", "reparentLock", "waitLock"} => state[p] = "RUNNING"
    /\ chan[p] # None <=> state[p] # "RUNNING" /\ pc[p] \in {"wait", "nanosleep"}

\* The p->locks that a process holds between two acquire()s of its own.
LocksHeld ==
  \A p \in Slots :
    /\ state[p] = "RUNNING"
         /\ pc[p] \in {"nanosleep", "wait", "waitLock", "reparent", "reparentLock"}
       => lock[p] = p
    /\ pc[p] \in {"exitSelf", "reparent", "reparentLock"} => lock[origpar[p]] = p

\* The parent that exit() remembers is the parent still, or has exited and
\* given the process to initproc meanwhile.
OriginalParent ==
  \A p \in Slots :
    /\ parent[p] # p
    /\ pc[p] \in {"exitParent", "exitSelf", "reparent", "reparentLock"} =>
         /\ origpar[p] \in Slots \ {p}
         /\ parent[p] \in {origpar[p], initproc}

\* What the scans of reparent(), wait() and wait4pid() have established about
\* the slots behind them.
Scanned ==
  \A p \in Slots :
    /\ pc[p] \in {"waitLock", "reparentLock"} => np[p] \in Slots
    /\ pc[p] \in {"reparent", "reparentLock"} =>
         np[p] >= 1 /\ \A s \in Slots : s < np[p] => parent[s] # p
    /\ pc[p] \in {"wait", "waitLock"} /\ state[p] = "RUNNING" =>
         /\ np[p] >= 1
         /\ p # initproc => \A s \in Slots : s < np[p] /\ parent[s] = p
                              /\ target[p] \in {None, s} => state[s] # "ZOMBIE"
    /\ pc[p] = "waitLock" => target[p] \in {None, np[p]}

\* wait4pid() of one child sleeps on that child, otherwise on the process.
WaitsFor ==
  \A p \in Slots : pc[p] \in {"wait", "waitLock"} =>
    /\ kid[p] # None => target[p] \in {None, kid[p]}
    /\ state[p] = "SLEEPING" => chan[p] = IF target[p] = None THEN p ELSE target[p]

\* The inductive invariant of the process table: who holds which p->lock where,
\* what a scan has still to visit and on whom a waiting parent sleeps, with the
\* four invariants above, none of which scheduler(), fork(), exit() and wait()
\* keep on their own.
ProcInv ==
  /\ TableTypeOK /\ StackInUse /\ ParentStable /\ ParentAlive /\ NoLostExit
  /\ InitStays /\ StateAndPlace /\ LocksHeld /\ OriginalParent /\ Scanned /\ WaitsFor
=============================================================================
