------------------------------- MODULE Signals -------------------------------
(***************************************************************************)
(* Signals, sleeping on the clock and interval timers: kill() and tgkill() *)
(* of src/kernel/proc.c, src/kernel/signal.c, src/kernel/syssig.c,         *)
(* sys_sleep() and sys_kill() of src/kernel/sysproc.c, setitimer() of      *)
(* src/kernel/timer.c and the clock interrupt of src/kernel/trap.c.  A     *)
(* signal is not delivered: kill() sets p->killed, and usertrap() makes    *)
(* the process exit.  A system call is one action except where it sleeps   *)
(* or, like setitimer(), uses shared data without a lock.                  *)
(***************************************************************************)
EXTENDS Integers, FiniteSets, FiniteSetsExt

CONSTANTS NPROC,
          Tids,         \* what tgkill() is called with
          Sigs,         \* signal numbers in use, all above 0
          TgSigs,       \* the ones tgkill() is called with: 0 takes a kill back
          INTBITS,      \* width of int: 32 in the code
          Unmaskable,   \* SIGTERM, SIGKILL, SIGSTOP
          NTIMERS,
          Whichs,       \* ITIMER_REAL, ...
          TICKS,        \* 2^32 in the code: ticks wraps
          MaxSleep,     \* the longest sleep(), in ticks
          MaxPid,       \* bound on the processes
          MaxCalls      \* bound on the calls

ASSUME SignalsAssumption ==
    /\ NPROC \in Nat \ {0} /\ NTIMERS \in Nat \ {0}
    /\ Sigs \subseteq Nat \ {0} /\ TgSigs \subseteq Nat /\ Unmaskable \subseteq Sigs
    /\ INTBITS \in Nat \ {0} /\ Whichs \subseteq Nat
    /\ TICKS \in Nat /\ MaxSleep \in Nat /\ TICKS > MaxSleep

Slots == 1 .. NPROC
Timers == 1 .. NTIMERS
None == 0

VARIABLES proc,         \* the process table
          nextpid,
          ticks,
          timers,       \* [pid, which]; pid 0: free
          named,        \* the pids that kill() has been called with
          panicked,
          calls

sigVars == <<proc, nextpid, ticks, timers, named, panicked, calls>>

\* After freeproc().
Unused ==
    [state |-> "unused", pid |-> 0, parent |-> None, killed |-> 0, pending |-> {}, mask |-> {},
     act |-> [s \in Sigs |-> "default"], tick0 |-> 0, n |-> 0, timer |-> None, which |-> 0]

\* usertrap(): a system call runs only if p->killed is 0 on entry; the process
\* is in no other call (n, timer).
InCall(p) ==
    /\ ~panicked /\ calls < MaxCalls /\ calls' = calls + 1
    /\ proc[p].state = "running" /\ proc[p].killed = 0 /\ proc[p].n = 0 /\ proc[p].timer = None

---------------------------------------------------------------------------
\* kill(): the first slot with the pid, whatever its state.  1 << sig is an
\* int; killed keeps the least signal.
Hit(q, sig) ==
    [q EXCEPT !.pending = @ \cup {sig % INTBITS},
              !.killed = IF @ = 0 \/ @ > sig THEN sig ELSE @,
              !.state = IF @ = "asleep" THEN "running" ELSE @]

\* A process that has tested p->killed and not yet gone to sleep is not woken.
HitLate(q, sig) == [Hit(q, sig) EXCEPT !.state = q.state]

kill(pid, sig) ==
    /\ named' = named \cup {pid}
    /\ \/ /\ \E q \in Slots : proc[q].pid = pid
          /\ LET q == Min({q \in Slots : proc[q].pid = pid})
             IN  \E h \in {Hit(proc[q], sig), HitLate(proc[q], sig)} : proc' = [proc EXCEPT ![q] = h]
       \/ /\ \A q \in Slots : proc[q].pid # pid
          /\ UNCHANGED proc

\* sys_kill() replaces the pid by that of the caller.
sys_kill(p) ==
    \E sig \in Sigs :
        /\ InCall(p) /\ kill(proc[p].pid, sig)
        /\ UNCHANGED <<nextpid, ticks, timers, panicked>>

sys_tgkill(p) ==
    \E tid \in Tids, sig \in TgSigs :
        /\ InCall(p) /\ kill(tid, sig)
        /\ UNCHANGED <<nextpid, ticks, timers, panicked>>

\* set_sigaction(); without an action nothing is set.
sys_rt_sigaction(p) ==
    \E sig \in Sigs, act \in {"default", "handler", "none"} :
        /\ InCall(p)
        /\ proc' = IF act = "none" THEN proc ELSE [proc EXCEPT ![p].act[sig] = act]
        /\ UNCHANGED <<nextpid, ticks, timers, named, panicked>>

\* The three operations, and the &= behind them, which keeps the unmaskable
\* signals in the mask and nothing else.  Without a set the kernel uses what
\* is on its stack.
sigprocmask(mask, how, set) ==
    Unmaskable \cap (CASE how = "SIG_BLOCK" -> mask \cup set
                       [] how = "SIG_UNBLOCK" -> mask \ set
                       [] how = "SIG_SETMASK" -> set
                       [] OTHER -> mask)

sys_rt_sigprocmask(p) ==
    \E how \in {"SIG_BLOCK", "SIG_UNBLOCK", "SIG_SETMASK", "other"}, set \in SUBSET Sigs :
        /\ InCall(p)
        /\ proc' = [proc EXCEPT ![p].mask = sigprocmask(@, how, set)]
        /\ UNCHANGED <<nextpid, ticks, timers, named, panicked>>

\* rt_sigreturn() copies from p->sig_tf, which nothing sets: a fault in the
\* kernel, and kerneltrap() panics.
sys_rt_sigreturn(p) ==
    /\ InCall(p)
    /\ panicked' = TRUE
    /\ UNCHANGED <<proc, nextpid, ticks, timers, named>>

---------------------------------------------------------------------------
\* sys_sleep(): the test of the loop, under tickslock.
SleepOn(p, tick0, n) ==
    IF (ticks - tick0 + TICKS) % TICKS < n /\ proc[p].killed = 0
    THEN proc' = [proc EXCEPT ![p].state = "asleep", ![p].tick0 = tick0, ![p].n = n]
    ELSE proc' = [proc EXCEPT ![p].tick0 = 0, ![p].n = 0]

sys_sleep(p) ==
    \E n \in 0 .. MaxSleep :
        /\ InCall(p) /\ SleepOn(p, ticks, n)
        /\ UNCHANGED <<nextpid, ticks, timers, named, panicked>>

\* Variant: killed is not tested when the sleep is over.
vsys_sleep_woken(p) ==
    /\ ~panicked /\ proc[p].state = "running" /\ proc[p].n # 0
    /\ IF (ticks - proc[p].tick0 + TICKS) % TICKS < proc[p].n
       THEN proc' = [proc EXCEPT ![p].state = "asleep"]
       ELSE proc' = [proc EXCEPT ![p].tick0 = 0, ![p].n = 0]
    /\ UNCHANGED <<nextpid, ticks, timers, named, panicked, calls>>

\* n = 0: the process is not in sys_sleep().
sys_sleep_woken(p) ==
    /\ ~panicked /\ proc[p].state = "running" /\ proc[p].n # 0
    /\ SleepOn(p, proc[p].tick0, proc[p].n)
    /\ UNCHANGED <<nextpid, ticks, timers, named, panicked, calls>>

\* clockintr(), on CPU 0.
clockintr ==
    /\ ~panicked
    /\ ticks' = (ticks + 1) % TICKS
    /\ proc' = [p \in Slots |-> IF proc[p].state = "asleep" THEN [proc[p] EXCEPT !.state = "running"]
                                ELSE proc[p]]
    /\ UNCHANGED <<nextpid, timers, named, panicked, calls>>

---------------------------------------------------------------------------
\* setitimer() takes no lock: another CPU may act between the search and the
\* assignments.  A zero value sets nothing; a full table is not reported.
Own(p, which) == {i \in Timers : timers[i].pid = proc[p].pid /\ timers[i].which = which}
FreeTimers == {i \in Timers : timers[i].pid = 0}

\* Variant: every call takes a new timer.
vsys_setitimer(p) ==
    \E which \in Whichs :
        /\ InCall(p)
        /\ FreeTimers # {}
        /\ proc' = [proc EXCEPT ![p].timer = Min(FreeTimers), ![p].which = which]
        /\ UNCHANGED <<nextpid, ticks, timers, named, panicked>>

sys_setitimer(p) ==
    \E which \in Whichs :
        /\ InCall(p)
        /\ Own(p, which) \cup FreeTimers # {}
        /\ proc' = [proc EXCEPT ![p].timer = Min(IF Own(p, which) # {} THEN Own(p, which) ELSE FreeTimers),
                                ![p].which = which]
        /\ UNCHANGED <<nextpid, ticks, timers, named, panicked>>

setitimer(p) ==
    /\ ~panicked /\ proc[p].timer # None
    /\ timers' = [timers EXCEPT ![proc[p].timer] = [pid |-> proc[p].pid, which |-> proc[p].which]]
    /\ proc' = [proc EXCEPT ![p].timer = None]
    /\ UNCHANGED <<nextpid, ticks, named, panicked, calls>>

---------------------------------------------------------------------------
\* allocproc() clears the actions, the mask and the pending signals, and not
\* p->killed, which freeproc() clears.
fork(p) ==
    /\ InCall(p) /\ nextpid <= MaxPid
    /\ \E q \in Slots : proc[q].state = "unused"
    /\ LET q == Min({q \in Slots : proc[q].state = "unused"})
       IN  proc' = [proc EXCEPT ![q] = [Unused EXCEPT !.state = "running", !.pid = nextpid, !.parent = p,
                                                      !.killed = proc[q].killed]]
    /\ nextpid' = nextpid + 1
    /\ UNCHANGED <<ticks, timers, named, panicked>>

\* exit(), with the children going to init; init must not exit.
Exit(p, signal) ==
    /\ ~panicked
    /\ proc[p].state = "running" /\ proc[p].n = 0 /\ proc[p].timer = None
    /\ IF p = 1 THEN panicked' = TRUE /\ UNCHANGED proc
       ELSE /\ proc' = [q \in Slots |->
                          CASE q = p -> [proc[p] EXCEPT !.state = "zombie", !.killed = signal]
                            [] q # p /\ proc[q].parent = p -> [proc[q] EXCEPT !.parent = 1]
                            [] OTHER -> proc[q]]
            /\ UNCHANGED panicked
    /\ UNCHANGED <<nextpid, ticks, timers, named>>

\* usertrap(): killed before the call or after it.
usertrap_killed(p) == proc[p].killed # 0 /\ Exit(p, proc[p].killed) /\ UNCHANGED calls

\* usertrap(), "unexpected trapcause": the process kills itself.
usertrap_unexpected(p) == InCall(p) /\ Exit(p, 1)

\* Variant: freeproc() leaves p->killed.
vwait(p) ==
    \E q \in Slots :
        /\ InCall(p)
        /\ proc[q].state = "zombie" /\ proc[q].parent = p
        /\ proc' = [proc EXCEPT ![q] = [Unused EXCEPT !.killed = proc[q].killed]]
        /\ UNCHANGED <<nextpid, ticks, timers, named, panicked>>

\* wait(), freeproc()
wait(p) ==
    \E q \in Slots :
        /\ InCall(p)
        /\ proc[q].state = "zombie" /\ proc[q].parent = p
        /\ proc' = [proc EXCEPT ![q] = Unused]
        /\ UNCHANGED <<nextpid, ticks, timers, named, panicked>>

---------------------------------------------------------------------------
SigInit ==
    /\ proc = [p \in Slots |-> IF p = 1 THEN [Unused EXCEPT !.state = "running", !.pid = 1] ELSE Unused]
    /\ nextpid = 2 /\ ticks = TICKS - 1
    /\ timers = [i \in Timers |-> [pid |-> 0, which |-> 0]]
    /\ named = {} /\ panicked = FALSE /\ calls = 0

SigNext ==
    \/ clockintr
    \/ \E p \in Slots :
         \/ sys_kill(p) \/ sys_tgkill(p) \/ sys_rt_sigaction(p) \/ sys_rt_sigprocmask(p) \/ sys_rt_sigreturn(p)
         \/ sys_sleep(p) \/ sys_sleep_woken(p) \/ sys_setitimer(p) \/ setitimer(p)
         \/ fork(p) \/ wait(p) \/ usertrap_killed(p) \/ usertrap_unexpected(p)

\* A process that is in the kernel goes on, and the clock of CPU 0 ticks.
SigFair ==
    \A p \in Slots : /\ WF_sigVars(sys_sleep_woken(p)) /\ WF_sigVars(setitimer(p))
                     /\ WF_sigVars(usertrap_killed(p))

SigSpec == SigInit /\ [][SigNext]_sigVars /\ SigFair /\ WF_sigVars(clockintr)

---------------------------------------------------------------------------
\* kill(): "Kill the process with the given pid."  A process has p->killed
\* only if somebody named its pid.
OnlyVictims ==
    \A p \in Slots : proc[p].state \in {"running", "asleep"} /\ proc[p].killed # 0 => proc[p].pid \in named

\* A process that is killed does exit, also out of a sleep, also if the kill
\* comes between its test of p->killed and sleep(): the clock wakes it.
KilledExits ==
    \A p \in Slots \ {1} :
        proc[p].state \in {"running", "asleep"} /\ proc[p].killed # 0
            ~> (panicked \/ proc[p].state \in {"zombie", "unused"})

\* A process has at most one timer of each kind, although setitimer() takes
\* no lock.
OneTimerEach ==
    \A i, j \in Timers : timers[i] = timers[j] /\ timers[i].pid # 0 => i = j

---------------------------------------------------------------------------
(* The inductive invariant behind the two invariants, part by part. *)

ProcRecord ==
    [state : {"unused", "running", "asleep", "zombie"}, pid : Nat, parent : Slots \cup {None},
     killed : Nat, pending : SUBSET Nat, mask : SUBSET Sigs, act : [Sigs -> {"default", "handler"}],
     tick0 : Nat, n : Nat, timer : Timers \cup {None}, which : Nat]

SigTypeOK ==
    /\ proc \in [Slots -> ProcRecord]
    /\ nextpid \in Nat /\ ticks \in Nat /\ calls \in Nat /\ panicked \in BOOLEAN
    /\ timers \in [Timers -> [pid : Nat, which : Nat]]

\* allocpid() gives every process a pid of its own; an unused slot has none.
PidsDistinct ==
    /\ \A p \in Slots : /\ proc[p].pid < nextpid
                        /\ proc[p].pid = 0 <=> proc[p].state = "unused"
    /\ \A p, q \in Slots : proc[p].pid = proc[q].pid /\ proc[p].pid # 0 => p = q
    /\ \A i \in Timers : timers[i].pid < nextpid

\* Unless kill() was called with 0, the pid of the unused slots: freeproc()
\* leaves nothing of a kill, and only those that were named are killed.
KillsNamed ==
    /\ 0 \in named => 0 \in Tids
    /\ 0 \notin named =>
         OnlyVictims /\ \A p \in Slots : proc[p].state = "unused" => proc[p].killed = 0

\* Only a process in the call is in setitimer().
TimerCalls ==
    \A p \in Slots : proc[p].state \in {"unused", "zombie"} => proc[p].timer = None

\* While setitimer() is between its search and its assignments, no timer but
\* the one that it found is the process's own of that kind.
TimerFound ==
    \A p \in Slots, i \in Timers :
        /\ proc[p].timer # None
        /\ timers[i].pid = proc[p].pid /\ timers[i].which = proc[p].which
        => i = proc[p].timer

\* The processes, their kills and their timers fit together, whatever the
\* interleaving of kill(), fork(), exit(), wait(), setitimer() and the clock.
SigInv ==
    SigTypeOK /\ PidsDistinct /\ KillsNamed /\ TimerCalls /\ TimerFound /\ OneTimerEach
=============================================================================
