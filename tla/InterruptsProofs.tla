-------------------------- MODULE InterruptsProofs --------------------------
(***************************************************************************)
(* Proofs about what the UART and the clock drive, Signals.tla and         *)
(* Terminal.tla.                                                           *)
(*                                                                         *)
(* Signals, for every number of slots, timers, signals and kinds of        *)
(* timers: OneTimerEach is an invariant although setitimer() takes no      *)
(* lock, and OnlyVictims holds until somebody calls kill() with pid 0,     *)
(* which it finds in an unused slot.                                       *)
(*                                                                         *)
(* Terminal, for every size of the ring, every wrap of the indices that is *)
(* a multiple of it, wherever they start, and any number of readers and    *)
(* keys: consoleintr() and consoleread() are the line discipline.          *)
(***************************************************************************)
EXTENDS Signals, Terminal, Arithmetic

---------------------------------------------------------------------------
(* Signals and timers.                                                     *)

\* The least of a set of slots or timers is one of them.
LEMMA MinIn ==
  ASSUME NEW S, S \subseteq Nat, S # {}
  PROVE  Min(S) \in S
<1>1. \E n \in S : \A m \in S : n <= m
  BY LeastNat
<1> QED
  BY <1>1 DEF Min

\* What kill() makes of the slot that it finds.
LEMMA HitRecord ==
  ASSUME NEW q \in ProcRecord, NEW sig \in Nat,
         NEW h \in {Hit(q, sig), HitLate(q, sig)}
  PROVE  /\ h \in ProcRecord
         /\ h.pid = q.pid /\ h.timer = q.timer /\ h.which = q.which
         /\ h.state = q.state \/ (q.state = "asleep" /\ h.state = "running")
<1>1. sig % INTBITS \in Nat
  BY SignalsAssumption
<1>2. Hit(q, sig) \in ProcRecord
  BY <1>1 DEF ProcRecord, Hit
<1>3. HitLate(q, sig) \in ProcRecord
  BY <1>2 DEF ProcRecord, HitLate
<1>4. CASE h = Hit(q, sig)
  BY <1>2, <1>4 DEF ProcRecord, Hit
<1>5. CASE h = HitLate(q, sig)
  <2>1. h = [Hit(q, sig) EXCEPT !.state = q.state]
    BY <1>5 DEF HitLate
  <2>2. /\ Hit(q, sig).pid = q.pid /\ Hit(q, sig).timer = q.timer
        /\ Hit(q, sig).which = q.which
    BY <1>2 DEF ProcRecord, Hit
  <2> QED
    BY <1>2, <1>3, <1>5, <2>1, <2>2 DEF ProcRecord
<1> QED
  BY <1>4, <1>5

\* A slot after allocproc() and fork().
Fresh(pid, p, k) ==
  [Unused EXCEPT !.state = "running", !.pid = pid, !.parent = p, !.killed = k]

\* freeproc() and allocproc() leave a record of the right type.
LEMMA FreshRecord ==
  ASSUME NEW k \in Nat, NEW n \in Nat, NEW p \in Slots
  PROVE  /\ Fresh(n, p, k) \in ProcRecord /\ Unused \in ProcRecord
         /\ Fresh(n, p, k).state = "running" /\ Fresh(n, p, k).pid = n
         /\ Fresh(n, p, k).killed = k /\ Fresh(n, p, k).timer = None
<1>1. Unused \in ProcRecord
  BY DEF Unused, ProcRecord
<1>2. Unused.timer = None
  BY DEF Unused
<1> QED
  BY <1>1, <1>2 DEF ProcRecord, Fresh

\* Pids are numbers below nextpid.
LEMMA PidNat ==
  ASSUME SigInv
  PROVE  /\ nextpid \in Nat
         /\ \A p \in Slots : proc[p].pid \in Nat /\ proc[p].pid < nextpid
         /\ \A i \in Timers : timers[i].pid \in Nat /\ timers[i].pid < nextpid
<1>1. \A p \in Slots : proc[p].pid \in Nat
  BY DEF SigInv, SigTypeOK, ProcRecord
<1>2. nextpid \in Nat /\ \A i \in Timers : timers[i].pid \in Nat
  BY DEF SigInv, SigTypeOK
<1>3. /\ \A p \in Slots : proc[p].pid < nextpid
      /\ \A i \in Timers : timers[i].pid < nextpid
  BY DEF SigInv, PidsDistinct
<1> QED
  BY <1>1, <1>2, <1>3

-----------------------------------------------------------------------------
\* What may happen to slot q in a step that frees and allocates no slot and
\* sets no timer.
Stays(q) ==
  /\ proc'[q] \in ProcRecord /\ proc'[q].pid = proc[q].pid
  /\ proc'[q].state = "unused" <=> proc[q].state = "unused"
  /\ proc'[q].state \in {"unused", "zombie"} => proc'[q].timer = None
  /\ proc'[q].timer # None =>
       \A i \in Timers : timers[i].pid = proc[q].pid /\ timers[i].which = proc'[q].which
                           => i = proc'[q].timer
  /\ 0 \notin named' =>
       /\ proc'[q].state = "unused" => proc'[q].killed = 0
       /\ proc'[q].state \in {"running", "asleep"} /\ proc'[q].killed # 0 =>
            proc'[q].pid \in named'

\* A step that leaves pids, kills and timers alone keeps the invariant.
LEMMA StaysInv ==
  ASSUME SigInv, \A q \in Slots : Stays(q),
         proc' = [q \in Slots |-> proc'[q]],
         UNCHANGED <<nextpid, timers>>,
         named \subseteq named', named' = named \/ (0 \in named' => 0 \in Tids),
         ticks' \in Nat, calls' \in Nat, panicked' \in BOOLEAN
  PROVE  SigInv'
<1>1. SigTypeOK'
  BY DEF SigInv, SigTypeOK, Stays
<1>2. PidsDistinct'
  BY DEF SigInv, PidsDistinct, Stays
<1>3. TimerCalls' /\ TimerFound'
  BY DEF SigInv, TimerCalls, TimerFound, Stays
<1>4. KillsNamed'
  BY DEF SigInv, KillsNamed, OnlyVictims, Stays
<1>5. OneTimerEach'
  BY DEF SigInv, OneTimerEach
<1> QED
  BY <1>1, <1>2, <1>3, <1>4, <1>5 DEF SigInv

\* A slot that a step leaves alone, or in which it changes nothing that the
\* invariant mentions.
LEMMA SameStays ==
  ASSUME SigInv, NEW q \in Slots, proc'[q] = proc[q], named \subseteq named'
  PROVE  Stays(q)
BY DEF Stays, SigInv, SigTypeOK, PidsDistinct, TimerCalls, KillsNamed, TimerFound, OnlyVictims

\* One slot changes.
LEMMA ChangeInv ==
  ASSUME SigInv, NEW q \in Slots, NEW rec \in ProcRecord,
         proc' = [proc EXCEPT ![q] = rec], named \subseteq named', named' = named \/ (0 \in named' => 0 \in Tids), Stays(q),
         UNCHANGED <<nextpid, timers, ticks>>,
         calls' \in {calls, calls + 1}, panicked' \in BOOLEAN
  PROVE  SigInv'
<1>1. ASSUME NEW p \in Slots
      PROVE  Stays(p)
  <2>1. CASE p = q
    BY <2>1
  <2>2. CASE p # q
    <3>1. proc'[p] = proc[p]
      BY <2>2 DEF SigInv, SigTypeOK
    <3> QED
      BY <3>1, SameStays
  <2> QED
    BY <2>1, <2>2
<1>2. proc' = [p \in Slots |-> proc'[p]]
  BY DEF SigInv, SigTypeOK
<1>3. ticks' \in Nat /\ calls' \in Nat
  BY DEF SigInv, SigTypeOK
<1> QED
  BY <1>1, <1>2, <1>3, StaysInv

\* The process changes its own record, but not its pid, its kill, its timer
\* or its place in the table.
LEMMA LocalInv ==
  ASSUME SigInv, NEW p \in Slots, NEW rec \in ProcRecord, proc' = [proc EXCEPT ![p] = rec],
         rec.pid = proc[p].pid, rec.killed = proc[p].killed, rec.timer = proc[p].timer,
         rec.which = proc[p].which,
         rec.state = proc[p].state \/ {rec.state, proc[p].state} \subseteq {"running", "asleep"},
         UNCHANGED <<nextpid, timers, ticks, named>>,
         calls' \in {calls, calls + 1}, panicked' \in BOOLEAN
  PROVE  SigInv'
<1>1. proc'[p] = rec
  BY DEF SigInv, SigTypeOK
<1>2. Stays(p)
  BY <1>1 DEF Stays, SigInv, SigTypeOK, PidsDistinct, TimerCalls, KillsNamed, TimerFound, OnlyVictims
<1> QED
  BY <1>2, ChangeInv

-----------------------------------------------------------------------------
\* kill(), also with the pid 0 of an unused slot.
LEMMA KillKeeps ==
  ASSUME SigInv, NEW pid, pid = 0 => 0 \in Tids, NEW sig \in Nat, kill(pid, sig),
         UNCHANGED <<nextpid, ticks, timers, panicked>>, calls' = calls + 1
  PROVE  SigInv'
<1>1. /\ named' = named \cup {pid} /\ panicked' \in BOOLEAN
      /\ 0 \in named' => 0 \in Tids
  BY DEF kill, SigInv, SigTypeOK, KillsNamed
<1>2. CASE UNCHANGED proc
  <2>1. \A q \in Slots : Stays(q)
    BY <1>1, <1>2, SameStays
  <2>2. proc' = [q \in Slots |-> proc'[q]] /\ ticks' \in Nat /\ calls' \in Nat
    BY <1>2 DEF SigInv, SigTypeOK
  <2> QED
    BY <1>1, <2>1, <2>2, StaysInv
<1>3. CASE \E q \in Slots : proc[q].pid = pid
  <2> DEFINE q == Min({s \in Slots : proc[s].pid = pid})
  <2>1. q \in Slots /\ proc[q].pid = pid
    <3> DEFINE S == {s \in Slots : proc[s].pid = pid}
    <3>1. S \subseteq Nat /\ S # {}
      BY <1>3 DEF Slots
    <3> QED
      BY <3>1, MinIn
  <2> HIDE DEF q
  <2>2. PICK h \in {Hit(proc[q], sig), HitLate(proc[q], sig)} :
          proc' = [proc EXCEPT ![q] = h]
    BY <1>3 DEF kill, q
  <2>3. proc[q] \in ProcRecord
    BY <2>1 DEF SigInv, SigTypeOK
  <2>4. /\ h \in ProcRecord
        /\ h.pid = proc[q].pid /\ h.timer = proc[q].timer /\ h.which = proc[q].which
        /\ h.state = proc[q].state \/ (proc[q].state = "asleep" /\ h.state = "running")
    BY <2>3, HitRecord
  <2>5. proc'[q] = h /\ (pid # 0 => proc[q].state # "unused")
    BY <2>1, <2>2 DEF SigInv, SigTypeOK, PidsDistinct
  <2>6. Stays(q)
    BY <1>1, <2>1, <2>4, <2>5 DEF Stays, SigInv, TimerCalls, TimerFound
  <2> QED
    BY <1>1, <2>1, <2>2, <2>4, <2>6, ChangeInv
<1> QED
  BY <1>2, <1>3 DEF kill

\* sys_rt_sigaction(), sys_rt_sigprocmask(), sys_rt_sigreturn() and both parts
\* of sys_sleep().
LEMMA CallKeeps ==
  ASSUME SigInv, NEW p \in Slots,
         \/ sys_rt_sigaction(p) \/ sys_rt_sigprocmask(p) \/ sys_rt_sigreturn(p)
         \/ sys_sleep(p) \/ sys_sleep_woken(p)
  PROVE  SigInv'
<1>1. proc[p] \in ProcRecord /\ proc = [proc EXCEPT ![p] = proc[p]]
  BY DEF SigInv, SigTypeOK
<1>2. panicked \in BOOLEAN /\ ticks \in Nat
  BY DEF SigInv, SigTypeOK
<1>3. CASE sys_rt_sigaction(p)
  <2>1. PICK sig \in Sigs, act \in {"default", "handler", "none"} :
          /\ proc' = IF act = "none" THEN proc ELSE [proc EXCEPT ![p].act[sig] = act]
          /\ UNCHANGED <<nextpid, ticks, timers, named, panicked>>
          /\ calls' = calls + 1
    BY <1>3 DEF sys_rt_sigaction, InCall
  <2>2. CASE act = "none"
    BY <1>1, <1>2, <2>1, <2>2, LocalInv
  <2>3. CASE act # "none"
    <3> DEFINE rec == [proc[p] EXCEPT !.act[sig] = act]
    <3>1. proc' = [proc EXCEPT ![p] = rec]
      BY <1>1, <2>1, <2>3
    <3>2. rec \in ProcRecord
      BY <1>1, <2>3 DEF ProcRecord
    <3>3. /\ rec.pid = proc[p].pid /\ rec.killed = proc[p].killed /\ rec.timer = proc[p].timer
          /\ rec.which = proc[p].which /\ rec.state = proc[p].state
      BY <1>1 DEF ProcRecord
    <3> QED
      BY <1>2, <2>1, <3>1, <3>2, <3>3, LocalInv
  <2> QED
    BY <2>2, <2>3
<1>4. CASE sys_rt_sigprocmask(p)
  <2>1. PICK how \in {"SIG_BLOCK", "SIG_UNBLOCK", "SIG_SETMASK", "other"},
             set \in SUBSET Sigs :
          /\ proc' = [proc EXCEPT ![p].mask = sigprocmask(@, how, set)]
          /\ UNCHANGED <<nextpid, ticks, timers, named, panicked>>
          /\ calls' = calls + 1
    BY <1>4 DEF sys_rt_sigprocmask, InCall
  <2> DEFINE m == sigprocmask(proc[p].mask, how, set)
             rec == [proc[p] EXCEPT !.mask = m]
  <2>2. m \in SUBSET Sigs
    BY SignalsAssumption DEF sigprocmask
  <2>3. proc' = [proc EXCEPT ![p] = rec]
    BY <1>1, <2>1
  <2> HIDE DEF m
  <2>4. rec \in ProcRecord
    BY <1>1, <2>2 DEF ProcRecord
  <2>5. /\ rec.pid = proc[p].pid /\ rec.killed = proc[p].killed /\ rec.timer = proc[p].timer
        /\ rec.which = proc[p].which /\ rec.state = proc[p].state
    BY <1>1 DEF ProcRecord
  <2> QED
    BY <1>2, <2>1, <2>3, <2>4, <2>5, LocalInv
<1>5. CASE sys_rt_sigreturn(p)
  BY <1>1, <1>5, LocalInv DEF sys_rt_sigreturn, InCall
<1>6. ASSUME NEW t \in Nat, NEW n \in Nat, SleepOn(p, t, n), proc[p].state = "running",
             UNCHANGED <<nextpid, ticks, timers, named, panicked>>,
             calls' \in {calls, calls + 1}
      PROVE  SigInv'
  <2> DEFINE rec == [proc[p] EXCEPT !.state = "asleep", !.tick0 = t, !.n = n]
             z == [proc[p] EXCEPT !.tick0 = 0, !.n = 0]
  <2>1. proc' = [proc EXCEPT ![p] = rec] \/ proc' = [proc EXCEPT ![p] = z]
    BY <1>1, <1>6 DEF SleepOn
  <2>2. rec \in ProcRecord /\ z \in ProcRecord
    BY <1>1 DEF ProcRecord
  <2>3. /\ rec.pid = proc[p].pid /\ rec.killed = proc[p].killed /\ rec.timer = proc[p].timer
        /\ rec.which = proc[p].which /\ rec.state = "asleep"
    BY <1>1 DEF ProcRecord
  <2>4. /\ z.pid = proc[p].pid /\ z.killed = proc[p].killed /\ z.timer = proc[p].timer
        /\ z.which = proc[p].which /\ z.state = proc[p].state
    BY <1>1 DEF ProcRecord
  <2> HIDE DEF rec, z
  <2> QED
    BY <1>2, <1>6, <2>1, <2>2, <2>3, <2>4, LocalInv
<1>7. CASE sys_sleep(p)
  BY <1>2, <1>6, <1>7, SignalsAssumption DEF sys_sleep, InCall
<1>8. CASE sys_sleep_woken(p)
  <2>1. proc[p].tick0 \in Nat /\ proc[p].n \in Nat
    BY <1>1 DEF ProcRecord
  <2> QED
    BY <1>6, <1>8, <2>1 DEF sys_sleep_woken
<1> QED
  BY <1>3, <1>4, <1>5, <1>7, <1>8

-----------------------------------------------------------------------------
\* The search of setitimer(): if the process has a timer of the kind it is
\* the one, and otherwise there is none yet.
LEMMA SearchKeeps ==
  ASSUME SigInv, NEW p \in Slots, sys_setitimer(p)
  PROVE  SigInv'
<1>1. PICK which \in Whichs :
        /\ Own(p, which) \cup FreeTimers # {}
        /\ proc' = [proc EXCEPT
             ![p].timer = Min(IF Own(p, which) # {} THEN Own(p, which) ELSE FreeTimers),
             ![p].which = which]
        /\ UNCHANGED <<nextpid, ticks, timers, named, panicked>>
        /\ calls' = calls + 1 /\ proc[p].state = "running" /\ proc[p].killed = 0
  BY DEF sys_setitimer, InCall
<1> DEFINE S == IF Own(p, which) # {} THEN Own(p, which) ELSE FreeTimers
           i == Min(S)
           rec == [proc[p] EXCEPT !.timer = i, !.which = which]
<1>2. i \in S /\ i \in Timers
  BY <1>1, MinIn DEF Own, FreeTimers, Timers
<1>3. \A j \in Timers : timers[j].pid = proc[p].pid /\ timers[j].which = which => j = i
  <2> SUFFICES ASSUME NEW j \in Timers, timers[j].pid = proc[p].pid, timers[j].which = which
               PROVE  j = i
    OBVIOUS
  <2>1. i \in Own(p, which)
    BY <1>2 DEF Own
  <2>2. timers[i] = timers[j]
    BY <1>2, <2>1 DEF Own, SigInv, SigTypeOK
  <2>3. timers[i].pid # 0
    BY <1>1, <2>1 DEF Own, SigInv, PidsDistinct
  <2> QED
    BY <1>2, <2>2, <2>3 DEF SigInv, OneTimerEach
<1>4. proc[p] \in ProcRecord /\ which \in Nat /\ panicked \in BOOLEAN
  BY SignalsAssumption DEF SigInv, SigTypeOK
<1>5. proc' = [proc EXCEPT ![p] = rec]
  BY <1>1, <1>4
<1> HIDE DEF i
<1>6. rec \in ProcRecord
  BY <1>2, <1>4 DEF ProcRecord
<1>7. /\ rec.pid = proc[p].pid /\ rec.killed = 0 /\ rec.timer = i
      /\ rec.which = which /\ rec.state = "running"
  BY <1>1, <1>4 DEF ProcRecord
<1>8. proc'[p] = rec
  BY <1>5 DEF SigInv, SigTypeOK
<1> HIDE DEF rec
<1>9. Stays(p)
  BY <1>1, <1>3, <1>6, <1>7, <1>8 DEF Stays
<1> QED
  BY <1>1, <1>4, <1>5, <1>6, <1>9, ChangeInv

\* The assignments of setitimer(), which may overwrite the timer of another
\* process that has found the same free one.
LEMMA SetKeeps ==
  ASSUME SigInv, NEW p \in Slots, setitimer(p)
  PROVE  SigInv'
<1>1. /\ timers' = [timers EXCEPT ![proc[p].timer] =
                      [pid |-> proc[p].pid, which |-> proc[p].which]]
      /\ proc' = [proc EXCEPT ![p].timer = None]
      /\ UNCHANGED <<nextpid, ticks, named, panicked, calls>>
      /\ proc[p].timer # None
  BY DEF setitimer
<1> DEFINE rec == [proc[p] EXCEPT !.timer = None]
           i == proc[p].timer
<1>2. proc[p] \in ProcRecord /\ i \in Timers
  BY <1>1 DEF SigInv, SigTypeOK, ProcRecord
<1>3. proc' = [proc EXCEPT ![p] = rec]
  BY <1>1, <1>2
<1>4. rec \in ProcRecord
  BY <1>2 DEF ProcRecord
<1>5. /\ rec.pid = proc[p].pid /\ rec.killed = proc[p].killed /\ rec.timer = None
      /\ rec.which = proc[p].which /\ rec.state = proc[p].state
  BY <1>2 DEF ProcRecord
<1>6. /\ timers'[i].pid = proc[p].pid /\ timers'[i].which = proc[p].which
      /\ \A j \in Timers \ {i} : timers'[j] = timers[j]
  BY <1>1, <1>2 DEF SigInv, SigTypeOK
<1>7. /\ proc'[p] = rec
      /\ \A q \in Slots \ {p} : proc'[q] = proc[q]
  BY <1>3 DEF SigInv, SigTypeOK
<1>8. proc[p].pid # 0 /\ proc[p].pid \in Nat /\ proc[p].which \in Nat
  <2>1. proc[p].pid \in Nat /\ proc[p].which \in Nat
    BY <1>2 DEF ProcRecord
  <2>2. proc[p].pid # 0
    <3>1. proc[p].state # "unused"
      BY <1>1 DEF SigInv, TimerCalls
    <3> QED
      BY <3>1 DEF SigInv, PidsDistinct
  <2> QED
    BY <2>1, <2>2
<1>9. SigTypeOK'
  <2>1. proc' \in [Slots -> ProcRecord]
    BY <1>3, <1>4 DEF SigInv, SigTypeOK
  <2>2. timers' \in [Timers -> [pid : Nat, which : Nat]]
    BY <1>1, <1>2, <1>8 DEF SigInv, SigTypeOK
  <2> QED
    BY <1>1, <2>1, <2>2 DEF SigInv, SigTypeOK
<1> HIDE DEF rec, i
<1>10. PidsDistinct'
  <2>1. \A q \in Slots : proc'[q].pid = proc[q].pid /\ proc'[q].state = proc[q].state
    BY <1>5, <1>7
  <2>2. \A j \in Timers : timers'[j].pid < nextpid
    BY <1>6, PidNat
  <2> QED
    BY <1>1, <2>1, <2>2 DEF SigInv, PidsDistinct
<1>11. TimerCalls' /\ KillsNamed'
  BY <1>1, <1>5, <1>7 DEF SigInv, TimerCalls, KillsNamed, OnlyVictims
<1>12. TimerFound'
  <2> SUFFICES ASSUME NEW q \in Slots, NEW j \in Timers, proc'[q].timer # None,
                      timers'[j].pid = proc'[q].pid, timers'[j].which = proc'[q].which
               PROVE  j = proc'[q].timer
    BY DEF TimerFound
  <2>1. q # p /\ proc'[q] = proc[q]
    BY <1>5, <1>7
  <2>2. j # i
    BY <1>6, <1>8, <2>1 DEF SigInv, PidsDistinct
  <2> QED
    BY <1>6, <2>1, <2>2 DEF SigInv, TimerFound
<1>13. OneTimerEach'
  <2>1. ASSUME NEW j \in Timers \ {i}, timers'[j] = timers'[i]
        PROVE  FALSE
    <3>1. timers[j].pid = proc[p].pid /\ timers[j].which = proc[p].which
      BY <1>6, <2>1
    <3> QED
      BY <1>1, <2>1, <3>1 DEF i, SigInv, TimerFound
  <2> QED
    BY <1>6, <2>1 DEF SigInv, OneTimerEach
<1> QED
  BY <1>9, <1>10, <1>11, <1>12, <1>13 DEF SigInv

-----------------------------------------------------------------------------
\* fork(): the child gets a pid that no process and no timer has.
LEMMA ForkKeeps ==
  ASSUME SigInv, NEW p \in Slots, fork(p)
  PROVE  SigInv'
<1> DEFINE q == Min({s \in Slots : proc[s].state = "unused"})
           rec == Fresh(nextpid, p, proc[q].killed)
<1>1. /\ proc' = [proc EXCEPT ![q] = rec] /\ nextpid' = nextpid + 1
      /\ UNCHANGED <<ticks, timers, named, panicked>> /\ calls' = calls + 1
  BY DEF fork, InCall, Fresh
<1>2. q \in Slots /\ proc[q].state = "unused"
  <2> DEFINE S == {s \in Slots : proc[s].state = "unused"}
  <2>1. S \subseteq Nat /\ S # {}
    BY DEF fork, Slots
  <2> QED
    BY <2>1, MinIn
<1> HIDE DEF q
<1>3. /\ 0 \notin named => proc[q].killed = 0
      /\ proc[q].killed \in Nat /\ nextpid \in Nat
  <2>1. proc[q] \in ProcRecord /\ nextpid \in Nat
    BY <1>2 DEF SigInv, SigTypeOK
  <2> QED
    BY <1>2, <2>1 DEF SigInv, KillsNamed, ProcRecord
<1>4. /\ rec \in ProcRecord /\ rec.state = "running" /\ rec.pid = nextpid
      /\ rec.killed = proc[q].killed
      /\ rec.timer = None
  BY <1>3, FreshRecord
<1> HIDE DEF rec
<1>5. proc'[q] = rec /\ \A s \in Slots \ {q} : proc'[s] = proc[s]
  BY <1>1, <1>2 DEF SigInv, SigTypeOK
<1>6. nextpid # 0 /\ \A s \in Slots : proc[s].pid \in Nat /\ proc[s].pid < nextpid
  BY <1>2, PidNat
<1>7. SigTypeOK'
  BY <1>1, <1>2, <1>4 DEF SigInv, SigTypeOK
<1>8. PidsDistinct'
  <2>1. \A i \in Timers : timers'[i].pid < nextpid'
    BY <1>1, PidNat
  <2>2. \A s \in Slots : /\ proc'[s].pid < nextpid'
                         /\ proc'[s].pid = 0 <=> proc'[s].state = "unused"
    <3>1. ASSUME NEW s \in Slots
          PROVE  /\ proc'[s].pid < nextpid'
                 /\ proc'[s].pid = 0 <=> proc'[s].state = "unused"
      <4>1. CASE s = q
        BY <1>1, <1>3, <1>4, <1>5, <1>6, <4>1
      <4>2. CASE s # q
        BY <1>1, <1>3, <1>5, <1>6, <4>2 DEF SigInv, PidsDistinct
      <4> QED
        BY <4>1, <4>2
    <3> QED
      BY <3>1
  <2>3. \A s, t \in Slots : proc'[s].pid = proc'[t].pid /\ proc'[s].pid # 0 => s = t
    <3>1. \A s \in Slots \ {q} : proc'[s].pid # nextpid
      BY <1>3, <1>5, <1>6
    <3> QED
      BY <1>4, <1>5, <3>1 DEF SigInv, PidsDistinct
  <2> QED
    BY <2>1, <2>2, <2>3 DEF PidsDistinct
<1>9. KillsNamed' /\ TimerCalls' /\ TimerFound' /\ OneTimerEach'
  BY <1>1, <1>3, <1>4, <1>5 DEF SigInv, KillsNamed, OnlyVictims, TimerCalls, TimerFound,
     OneTimerEach
<1> QED
  BY <1>7, <1>8, <1>9 DEF SigInv

\* wait(): freeproc() leaves the pid of the child to nobody.
LEMMA WaitKeeps ==
  ASSUME SigInv, NEW p \in Slots, wait(p)
  PROVE  SigInv'
<1>1. PICK q \in Slots :
        /\ proc' = [proc EXCEPT ![q] = Unused]
        /\ UNCHANGED <<nextpid, ticks, timers, named, panicked>> /\ calls' = calls + 1
        /\ proc[q].state = "zombie"
  BY DEF wait, InCall
<1>2. /\ Unused \in ProcRecord /\ Unused.state = "unused" /\ Unused.pid = 0
      /\ Unused.killed = 0 /\ Unused.timer = None
  BY DEF Unused, ProcRecord
<1>3. proc'[q] = Unused /\ \A s \in Slots \ {q} : proc'[s] = proc[s]
  BY <1>1 DEF SigInv, SigTypeOK
<1>4. SigTypeOK'
  BY <1>1, <1>2 DEF SigInv, SigTypeOK
<1>5. PidsDistinct'
  <2>1. 0 < nextpid
    BY PidNat
  <2> QED
    BY <1>1, <1>2, <1>3, <2>1 DEF SigInv, PidsDistinct
<1>6. KillsNamed' /\ TimerCalls' /\ TimerFound' /\ OneTimerEach'
  BY <1>1, <1>2, <1>3 DEF SigInv, KillsNamed, OnlyVictims, TimerCalls, TimerFound,
     OneTimerEach
<1> QED
  BY <1>4, <1>5, <1>6 DEF SigInv

\* exit(): the process becomes a zombie, its children change their parent.
LEMMA ExitKeeps ==
  ASSUME SigInv, NEW p \in Slots, NEW signal \in Nat, Exit(p, signal),
         calls' \in {calls, calls + 1}
  PROVE  SigInv'
<1>1. UNCHANGED <<nextpid, ticks, timers, named>> /\ panicked' \in BOOLEAN
  BY DEF Exit, SigInv, SigTypeOK
<1>2. calls' \in Nat /\ ticks' \in Nat
  BY <1>1 DEF SigInv, SigTypeOK
<1>3. CASE UNCHANGED proc
  <2>1. \A q \in Slots : Stays(q)
    BY <1>1, <1>3, SameStays
  <2>2. proc' = [q \in Slots |-> proc'[q]]
    BY <1>3 DEF SigInv, SigTypeOK
  <2> QED
    BY <1>1, <1>2, <2>1, <2>2, StaysInv
<1>4. CASE p # 1
  <2> DEFINE z == [proc[p] EXCEPT !.state = "zombie", !.killed = signal]
             g(q) == [proc[q] EXCEPT !.parent = 1]
  <2>1. /\ proc' = [q \in Slots |-> CASE q = p -> z
                                      [] q # p /\ proc[q].parent = p -> g(q)
                                      [] OTHER -> proc[q]]
        /\ proc[p].state = "running" /\ proc[p].timer = None
    BY <1>4 DEF Exit
  <2>2. ASSUME NEW q \in Slots
        PROVE  Stays(q)
    <3>1. proc[q] \in ProcRecord /\ 1 \in Slots
      BY SignalsAssumption DEF SigInv, SigTypeOK, Slots
    <3>2. CASE q = p
      <4>1. proc'[q] = z
        BY <2>1, <3>2
      <4>2. /\ z \in ProcRecord /\ z.pid = proc[p].pid /\ z.state = "zombie"
            /\ z.timer = None
        BY <2>1, <3>1, <3>2 DEF ProcRecord
      <4> QED
        BY <2>1, <3>2, <4>1, <4>2 DEF Stays
    <3>3. CASE q # p /\ proc[q].parent = p
      <4>1. proc'[q] = g(q)
        BY <2>1, <3>3
      <4>2. /\ g(q) \in ProcRecord /\ g(q).pid = proc[q].pid /\ g(q).state = proc[q].state
            /\ g(q).killed = proc[q].killed /\ g(q).timer = proc[q].timer
            /\ g(q).which = proc[q].which
        BY <3>1 DEF ProcRecord
      <4> HIDE DEF g
      <4> QED
        BY <1>1, <4>1, <4>2 DEF Stays, SigInv, TimerCalls, KillsNamed, TimerFound, OnlyVictims
    <3>4. CASE q # p /\ proc[q].parent # p
      <4>1. proc'[q] = proc[q]
        BY <2>1, <3>4
      <4> QED
        BY <1>1, <4>1, SameStays
    <3> QED
      BY <3>2, <3>3, <3>4
  <2>3. proc' = [q \in Slots |-> proc'[q]]
    BY <2>1
  <2> QED
    BY <1>1, <1>2, <2>2, <2>3, StaysInv
<1> QED
  BY <1>3, <1>4 DEF Exit

\* clockintr() wakes every sleeper.
LEMMA ClockKeeps ==
  ASSUME SigInv, clockintr
  PROVE  SigInv'
<1> DEFINE woken(q) == [proc[q] EXCEPT !.state = "running"]
<1>1. /\ proc' = [q \in Slots |-> IF proc[q].state = "asleep" THEN woken(q) ELSE proc[q]]
      /\ ticks' = (ticks + 1) % TICKS
      /\ UNCHANGED <<nextpid, timers, named, panicked, calls>>
  BY DEF clockintr
<1>2. ticks' \in Nat /\ calls' \in Nat /\ panicked' \in BOOLEAN
  BY <1>1, SignalsAssumption DEF SigInv, SigTypeOK
<1>3. ASSUME NEW q \in Slots
      PROVE  Stays(q)
  <2>1. CASE proc[q].state = "asleep"
    <3>1. proc'[q] = woken(q) /\ proc[q] \in ProcRecord
      BY <1>1, <2>1 DEF SigInv, SigTypeOK
    <3>2. /\ woken(q) \in ProcRecord /\ woken(q).pid = proc[q].pid /\ woken(q).state = "running"
          /\ woken(q).killed = proc[q].killed /\ woken(q).timer = proc[q].timer
          /\ woken(q).which = proc[q].which
      BY <3>1 DEF ProcRecord
    <3> HIDE DEF woken
    <3> QED
      BY <1>1, <2>1, <3>1, <3>2 DEF Stays, SigInv, KillsNamed, TimerFound, OnlyVictims
  <2>2. CASE proc[q].state # "asleep"
    <3>1. proc'[q] = proc[q]
      BY <1>1, <2>2
    <3> QED
      BY <1>1, <3>1, SameStays
  <2> QED
    BY <2>1, <2>2
<1>4. proc' = [q \in Slots |-> proc'[q]]
  BY <1>1
<1> QED
  BY <1>1, <1>2, <1>3, <1>4, StaysInv

-----------------------------------------------------------------------------
\* procinit() and timer_init() establish the invariant.
LEMMA SigInitInv == SigInit => SigInv
<1> SUFFICES ASSUME SigInit
             PROVE  SigInv
  OBVIOUS
<1> DEFINE first == [Unused EXCEPT !.state = "running", !.pid = 1]
<1>1. /\ Unused \in ProcRecord /\ Unused.state = "unused" /\ Unused.pid = 0
      /\ Unused.killed = 0 /\ Unused.timer = None
  BY DEF Unused, ProcRecord
<1>2. /\ first \in ProcRecord /\ first.state = "running" /\ first.pid = 1
      /\ first.killed = 0 /\ first.timer = None
  BY <1>1 DEF ProcRecord
<1>3. proc = [p \in Slots |-> IF p = 1 THEN first ELSE Unused]
  BY DEF SigInit
<1> HIDE DEF first
<1>4. SigTypeOK
  <2>1. proc \in [Slots -> ProcRecord]
    BY <1>1, <1>2, <1>3
  <2>2. TICKS - 1 \in Nat
    BY SignalsAssumption
  <2> QED
    BY <2>1, <2>2 DEF SigInit, SigTypeOK
<1>5. PidsDistinct
  BY <1>1, <1>2, <1>3 DEF SigInit, PidsDistinct
<1>6. KillsNamed /\ TimerCalls /\ TimerFound /\ OneTimerEach
  BY <1>1, <1>2, <1>3 DEF SigInit, KillsNamed, OnlyVictims, TimerCalls, TimerFound,
     OneTimerEach
<1> QED
  BY <1>4, <1>5, <1>6 DEF SigInv

\* Every step of a process and every tick of the clock keeps it.
LEMMA SigNextInv ==
  ASSUME SigInv, [SigNext]_sigVars
  PROVE  SigInv'
<1>1. CASE UNCHANGED sigVars
  BY <1>1 DEF sigVars, SigInv, SigTypeOK, PidsDistinct, KillsNamed, OnlyVictims,
     TimerCalls, TimerFound, OneTimerEach
<1>2. CASE clockintr
  BY <1>2, ClockKeeps
<1>3. ASSUME NEW p \in Slots, sys_kill(p)
      PROVE  SigInv'
  <2>1. PICK sig \in Sigs : InCall(p) /\ kill(proc[p].pid, sig)
                            /\ UNCHANGED <<nextpid, ticks, timers, panicked>>
    BY <1>3 DEF sys_kill
  <2>2. proc[p].pid \in Nat /\ proc[p].pid # 0
    BY <2>1, PidNat DEF InCall, SigInv, PidsDistinct
  <2> QED
    BY <2>1, <2>2, KillKeeps, SignalsAssumption DEF InCall
<1>4. ASSUME NEW p \in Slots, sys_tgkill(p)
      PROVE  SigInv'
  BY <1>4, KillKeeps, SignalsAssumption DEF sys_tgkill, InCall
<1>5. ASSUME NEW p \in Slots,
             \/ sys_rt_sigaction(p) \/ sys_rt_sigprocmask(p) \/ sys_rt_sigreturn(p)
             \/ sys_sleep(p) \/ sys_sleep_woken(p)
      PROVE  SigInv'
  BY <1>5, CallKeeps
<1>6. ASSUME NEW p \in Slots, \/ sys_setitimer(p) \/ setitimer(p) \/ fork(p) \/ wait(p)
      PROVE  SigInv'
  BY <1>6, SearchKeeps, SetKeeps, ForkKeeps, WaitKeeps
<1>7. ASSUME NEW p \in Slots, usertrap_killed(p) \/ usertrap_unexpected(p)
      PROVE  SigInv'
  <2>1. proc[p].killed \in Nat
    BY DEF SigInv, SigTypeOK, ProcRecord
  <2> QED
    BY <1>7, <2>1, ExitKeeps DEF usertrap_killed, usertrap_unexpected, InCall
<1> QED
  BY <1>1, <1>2, <1>3, <1>4, <1>5, <1>6, <1>7 DEF SigNext

\* Processes, kills and timers fit together in every reachable state.
THEOREM SignalsInvariance == SigSpec => []SigInv
<1>1. SigInit => SigInv
  BY SigInitInv
<1>2. SigInv /\ [SigNext]_sigVars => SigInv'
  BY SigNextInv
<1> QED
  BY <1>1, <1>2, PTL DEF SigSpec

\* kill() and tgkill() hit nobody but the process whose pid they were given,
\* as long as none of them was given 0.
THEOREM OnlyNamedDie == SigSpec => [](0 \notin named => OnlyVictims)
<1>1. SigInv => (0 \notin named => OnlyVictims)
  BY DEF SigInv, KillsNamed
<1> QED
  BY <1>1, SignalsInvariance, PTL

\* If the programs never call tgkill() with 0 nobody else is ever killed.
THEOREM NoStrayKill ==
  ASSUME 0 \notin Tids
  PROVE  SigSpec => []OnlyVictims
<1>1. SigInv => OnlyVictims
  BY DEF SigInv, KillsNamed
<1> QED
  BY <1>1, SignalsInvariance, PTL

\* A process never has two timers of a kind, although setitimer() takes no
\* lock between its search and its assignments.
THEOREM OneTimerAlways == SigSpec => []OneTimerEach
<1>1. SigInv => OneTimerEach
  BY DEF SigInv
<1> QED
  BY <1>1, SignalsInvariance, PTL

---------------------------------------------------------------------------
(* The console.                                                            *)

Index == 0 .. WRAP - 1
Stored == Chars \cup {NL, EOF}

\* The sizes, without the divisibility that only the ring needs.
LEMMA Sizes ==
  /\ INPUT_BUF \in Nat \ {0} /\ WRAP \in Nat \ {0} /\ INPUT_BUF < WRAP
  BY TerminalAssumption

\* Unsigned addition and subtraction of indices.
LEMMA AddIs ==
  ASSUME NEW i \in Index, NEW k \in Index
  PROVE  Add(i, k) \in Index /\ Add(i, k) = IF i + k < WRAP THEN i + k ELSE i + k - WRAP
<1>1. (i + k) % WRAP = IF i + k < WRAP THEN i + k ELSE i + k - WRAP
  BY Sizes, UnsignedAdd DEF Index
<1> QED
  BY <1>1, Sizes DEF Add, Index

\* How far an index is ahead of another one.
LEMMA SubIs ==
  ASSUME NEW i \in Index, NEW k \in Index
  PROVE  Sub(i, k) \in Index /\ Sub(i, k) = IF i >= k THEN i - k ELSE i - k + WRAP
<1> USE Sizes DEF Index
<1>1. i >= k => (i - k + WRAP) % WRAP = i - k
  <2>1. ASSUME i >= k PROVE (i - k + WRAP) % WRAP = i - k
    <3>1. /\ i - k + WRAP \in Int /\ i - k \in 0 .. WRAP - 1 /\ 1 \in Int
          /\ i - k + WRAP = WRAP * 1 + (i - k)
      BY <2>1
    <3> QED
      BY ONLY <3>1, Sizes, ModUnique
  <2> QED
    BY <2>1
<1>2. i < k => (i - k + WRAP) % WRAP = i - k + WRAP
  <2>1. i < k => i - k + WRAP \in 0 .. WRAP - 1
    OBVIOUS
  <2> QED
    BY <2>1, ModSmall
<1> QED
  BY <1>1, <1>2 DEF Sub

\* The difference, added again.
LEMMA AddSub ==
  ASSUME NEW i \in Index, NEW j \in Index
  PROVE  Add(i, Sub(j, i)) = j /\ Sub(j, i) \in Nat
<1> DEFINE n == Sub(j, i)
<1>1. n \in Index /\ n = IF j >= i THEN j - i ELSE j - i + WRAP
  BY SubIs
<1> HIDE DEF n
<1>2. Add(i, n) = IF i + n < WRAP THEN i + n ELSE i + n - WRAP
  BY <1>1, AddIs
<1>3. Add(i, n) = j /\ n \in Nat
  BY <1>1, <1>2, Sizes DEF Index
<1> QED
  BY <1>3 DEF n

\* The place in the ring that an index means is that of the sum without wraps.
LEMMA PlaceOf ==
  ASSUME NEW i \in Index, NEW k \in Nat
  PROVE  Add(i, k) % INPUT_BUF = (i + k) % INPUT_BUF /\ Add(i, k) % INPUT_BUF \in 0 .. INPUT_BUF - 1
<1>1. i + k \in Int /\ WRAP % INPUT_BUF = 0
  BY TerminalAssumption DEF Index
<1>2. ((i + k) % WRAP) % INPUT_BUF = (i + k) % INPUT_BUF
  BY <1>1, Sizes, ModMod
<1>3. (i + k) % INPUT_BUF \in 0 .. INPUT_BUF - 1
  BY <1>1, Sizes, DivMod
<1> QED
  BY <1>2, <1>3 DEF Add

\* Two characters less than a ring apart have different places.
LEMMA PlacesApart ==
  ASSUME NEW i \in Index, NEW k \in Nat, NEW m \in Nat, k < m, m < k + INPUT_BUF
  PROVE  Add(i, k) % INPUT_BUF # Add(i, m) % INPUT_BUF
<1>1. i + k \in Int /\ i + m \in Int /\ i + k <= i + m /\ i + m < (i + k) + INPUT_BUF
  BY Sizes DEF Index
<1>2. (i + k) % INPUT_BUF # (i + m) % INPUT_BUF
  <2>1. ASSUME (i + k) % INPUT_BUF = (i + m) % INPUT_BUF PROVE FALSE
    <3>1. i + k = i + m
      BY <1>1, <2>1, Sizes, ModInjective
    <3> QED
      BY <3>1 DEF Index
  <2> QED
    BY <2>1
<1> QED
  BY <1>2, PlaceOf

\* A piece of the ring is a sequence.
LEMMA RingSeq ==
  ASSUME NEW b \in [0 .. INPUT_BUF - 1 -> Stored], NEW i \in Index, NEW j \in Index
  PROVE  /\ Ring(b, i, j) \in Seq(Stored) /\ Len(Ring(b, i, j)) = Sub(j, i) /\ Sub(j, i) \in Nat
         /\ \A k \in 1 .. Sub(j, i) : Ring(b, i, j)[k] = b[Add(i, k - 1) % INPUT_BUF]
<1>1. Sub(j, i) \in Nat
  BY SubIs DEF Index
<1>2. ASSUME NEW k \in 1 .. Sub(j, i) PROVE b[Add(i, k - 1) % INPUT_BUF] \in Stored
  <2>1. k - 1 \in Nat
    BY <1>1
  <2> QED
    BY <2>1, PlaceOf
<1>3. Ring(b, i, j) \in [1 .. Sub(j, i) -> Stored]
  BY <1>2 DEF Ring
<1>4. Ring(b, i, j) \in Seq(Stored) /\ Len(Ring(b, i, j)) = Sub(j, i)
  <2> DEFINE s == Ring(b, i, j)
             n == Sub(j, i)
  <2>1. n \in Nat /\ s \in [1 .. n -> Stored]
    BY <1>1, <1>3
  <2> HIDE DEF s, n
  <2>2. s \in Seq(Stored) /\ Len(s) = n
    BY <2>1
  <2> QED
    BY <2>2 DEF s, n
<1> QED
  BY <1>1, <1>4 DEF Ring

\* Sequences of the same length with the same elements are equal.
LEMMA SameSeq ==
  ASSUME NEW S, NEW s \in Seq(S), NEW t \in Seq(S), Len(s) = Len(t),
         \A k \in 1 .. Len(s) : s[k] = t[k]
  PROVE  s = t
  OBVIOUS

\* The elements of two sequences one behind the other.
LEMMA CatElements ==
  ASSUME NEW S, NEW s \in Seq(S), NEW t \in Seq(S)
  PROVE  /\ s \o t \in Seq(S) /\ Len(s \o t) = Len(s) + Len(t)
         /\ Len(s) \in Nat /\ Len(t) \in Nat
         /\ \A k \in 1 .. Len(s) + Len(t) : (s \o t)[k] = IF k <= Len(s) THEN s[k] ELSE t[k - Len(s)]
  OBVIOUS

\* What is left when the first of them is dropped.
LEMMA CatDrop ==
  ASSUME NEW S, NEW s \in Seq(S), NEW t \in Seq(S)
  PROVE  SubSeq(s \o t, Len(s) + 1, Len(s \o t)) = t
<1> DEFINE u == s \o t
           v == SubSeq(u, Len(s) + 1, Len(u))
<1>1. /\ u \in Seq(S) /\ Len(u) = Len(s) + Len(t)
      /\ Len(s) \in Nat /\ Len(t) \in Nat
      /\ \A k \in 1 .. Len(s) + Len(t) : u[k] = IF k <= Len(s) THEN s[k] ELSE t[k - Len(s)]
  BY CatElements
<1> HIDE DEF u
<1>2. /\ v \in Seq(S) /\ Len(v) = Len(t)
      /\ \A k \in 1 .. Len(t) : v[k] = u[Len(s) + k]
  BY <1>1
<1> HIDE DEF v
<1>3. \A k \in 1 .. Len(t) : v[k] = t[k]
  <2> SUFFICES ASSUME NEW k \in 1 .. Len(t) PROVE v[k] = t[k]
    OBVIOUS
  <2>1. Len(s) + k \in 1 .. Len(s) + Len(t) /\ ~(Len(s) + k <= Len(s)) /\ (Len(s) + k) - Len(s) = k
    BY <1>1
  <2>2. u[Len(s) + k] = IF Len(s) + k <= Len(s) THEN s[Len(s) + k] ELSE t[(Len(s) + k) - Len(s)]
    BY <1>1, <2>1
  <2> QED
    BY <1>2, <2>1, <2>2
<1>4. v = t
  BY <1>2, <1>3, SameSeq
<1> QED
  BY <1>4 DEF u, v

\* A piece of length nought is empty.
LEMMA RingEmpty ==
  ASSUME NEW b \in [0 .. INPUT_BUF - 1 -> Stored], NEW i \in Index, NEW j \in Index, Sub(j, i) = 0
  PROVE  Ring(b, i, j) = <<>>
<1>1. Ring(b, i, j) \in Seq(Stored) /\ Len(Ring(b, i, j)) = 0
  BY RingSeq
<1> QED
  BY <1>1

\* A character stored behind a piece leaves it as it is.
LEMMA RingKept ==
  ASSUME NEW b \in [0 .. INPUT_BUF - 1 -> Stored], NEW c \in Stored, NEW i \in Index, NEW j \in Index,
         NEW m \in Index, Sub(m, i) <= Sub(j, i), Sub(j, i) < INPUT_BUF
  PROVE  Ring([b EXCEPT ![j % INPUT_BUF] = c], i, m) = Ring(b, i, m)
<1> DEFINE b2 == [b EXCEPT ![j % INPUT_BUF] = c]
           n == Sub(j, i)
<1>1. b2 \in [0 .. INPUT_BUF - 1 -> Stored]
  OBVIOUS
<1>2. j = Add(i, n) /\ n \in Nat /\ Sub(m, i) \in Nat
  BY AddSub
<1>3. ASSUME NEW k \in 1 .. Sub(m, i) PROVE Ring(b2, i, m)[k] = Ring(b, i, m)[k]
  <2>1. k - 1 \in Nat /\ k - 1 < n /\ n < (k - 1) + INPUT_BUF
    BY <1>2, Sizes
  <2>2. Add(i, k - 1) % INPUT_BUF # j % INPUT_BUF
    BY <1>2, <2>1, PlacesApart
  <2>3. Add(i, k - 1) % INPUT_BUF \in 0 .. INPUT_BUF - 1
    BY <2>1, PlaceOf
  <2>4. b2[Add(i, k - 1) % INPUT_BUF] = b[Add(i, k - 1) % INPUT_BUF]
    BY <2>2, <2>3
  <2> HIDE DEF b2
  <2> QED
    BY <1>1, <2>4, RingSeq
<1>4. Ring(b2, i, m) \in Seq(Stored) /\ Len(Ring(b2, i, m)) = Sub(m, i)
  <2> HIDE DEF b2
  <2> QED
    BY <1>1, RingSeq
<1>5. Ring(b, i, m) \in Seq(Stored) /\ Len(Ring(b, i, m)) = Sub(m, i)
  BY RingSeq
<1> HIDE DEF b2
<1>6. Ring(b2, i, m) = Ring(b, i, m)
  BY <1>3, <1>4, <1>5, SameSeq
<1> QED
  BY <1>6 DEF b2

\* A character stored at the end of a piece is appended to it.
LEMMA RingPush ==
  ASSUME NEW b \in [0 .. INPUT_BUF - 1 -> Stored], NEW c \in Stored, NEW i \in Index, NEW j \in Index,
         Sub(j, i) < INPUT_BUF
  PROVE  /\ Sub(Add(j, 1), i) = Sub(j, i) + 1
         /\ Ring([b EXCEPT ![j % INPUT_BUF] = c], i, Add(j, 1)) = Append(Ring(b, i, j), c)
<1> DEFINE b2 == [b EXCEPT ![j % INPUT_BUF] = c]
           j2 == Add(j, 1)
           n == Sub(j, i)
<1>1. b2 \in [0 .. INPUT_BUF - 1 -> Stored]
  OBVIOUS
<1>2. n \in Nat /\ j2 \in Index /\ Sub(j2, i) = n + 1 /\ j = Add(i, n)
  <2>1. 1 \in Index
    BY Sizes DEF Index
  <2>2. j2 \in Index /\ j2 = IF j + 1 < WRAP THEN j + 1 ELSE j + 1 - WRAP
    BY <2>1, AddIs
  <2>3. n \in Index /\ n = IF j >= i THEN j - i ELSE j - i + WRAP
    BY SubIs
  <2>4. Sub(j2, i) = IF j2 >= i THEN j2 - i ELSE j2 - i + WRAP
    BY <2>2, SubIs
  <2>5. Add(i, n) = IF i + n < WRAP THEN i + n ELSE i + n - WRAP
    BY <2>3, AddIs
  <2> HIDE DEF n, j2
  <2>6. n < INPUT_BUF
    BY DEF n
  <2> QED
    BY <2>2, <2>3, <2>4, <2>5, <2>6, Sizes DEF Index
<1> HIDE DEF j2, n
<1>3. /\ Ring(b, i, j) \in Seq(Stored) /\ Len(Ring(b, i, j)) = n
      /\ \A k \in 1 .. n : Ring(b, i, j)[k] = b[Add(i, k - 1) % INPUT_BUF]
  BY RingSeq DEF n
<1>4. b2[j % INPUT_BUF] = c
  <2>1. j % INPUT_BUF \in 0 .. INPUT_BUF - 1
    BY <1>2, PlaceOf
  <2> QED
    BY <2>1
<1>5. Ring(b2, i, j) = Ring(b, i, j)
  <2>1. Sub(j, i) <= Sub(j, i) /\ Sub(j, i) < INPUT_BUF
    BY <1>2 DEF n
  <2> QED
    BY <2>1, RingKept
<1> HIDE DEF b2
<1>6. /\ Ring(b2, i, j2) \in Seq(Stored) /\ Len(Ring(b2, i, j2)) = n + 1
      /\ \A k \in 1 .. n + 1 : Ring(b2, i, j2)[k] = b2[Add(i, k - 1) % INPUT_BUF]
  <2>1. /\ Ring(b2, i, j2) \in Seq(Stored) /\ Len(Ring(b2, i, j2)) = Sub(j2, i)
        /\ \A k \in 1 .. Sub(j2, i) : Ring(b2, i, j2)[k] = b2[Add(i, k - 1) % INPUT_BUF]
    BY <1>1, <1>2, RingSeq
  <2> QED
    BY <1>2, <2>1
<1>7. \A k \in 1 .. n : Ring(b2, i, j)[k] = b2[Add(i, k - 1) % INPUT_BUF]
  BY <1>1, RingSeq DEF n
<1> DEFINE s == Ring(b2, i, j2)
           t == Ring(b, i, j)
<1>8. \A k \in 1 .. n + 1 : s[k] = IF k <= n THEN t[k] ELSE c
  <2> SUFFICES ASSUME NEW k \in 1 .. n + 1 PROVE s[k] = IF k <= n THEN t[k] ELSE c
    OBVIOUS
  <2>1. CASE k <= n
    <3>1. k \in 1 .. n
      BY <1>2, <2>1
    <3> QED
      BY <1>5, <1>6, <1>7, <2>1, <3>1
  <2>2. CASE ~(k <= n)
    <3>1. k - 1 = n
      BY <1>2, <2>2
    <3> QED
      BY <1>2, <1>4, <1>6, <2>2, <3>1
  <2> QED
    BY <2>1, <2>2
<1>9. s \in Seq(Stored) /\ Len(s) = n + 1 /\ t \in Seq(Stored) /\ Len(t) = n
  BY <1>3, <1>6
<1> HIDE DEF s, t
<1>10. s = Append(t, c)
  BY <1>2, <1>8, <1>9
<1> QED
  BY <1>2, <1>10 DEF s, t, b2, j2, n

\* Two pieces that follow each other are one.
LEMMA RingJoin ==
  ASSUME NEW b \in [0 .. INPUT_BUF - 1 -> Stored], NEW i \in Index, NEW m \in Index, NEW j \in Index,
         Sub(m, i) + Sub(j, m) <= INPUT_BUF
  PROVE  /\ Sub(j, i) = Sub(m, i) + Sub(j, m)
         /\ Ring(b, i, j) = Ring(b, i, m) \o Ring(b, m, j)
<1> DEFINE x == Sub(m, i)
           y == Sub(j, m)
<1>1. x \in Nat /\ y \in Nat /\ x + y < WRAP
  BY AddSub, Sizes
<1>2. Sub(j, i) = x + y
  <2>1. x = IF m >= i THEN m - i ELSE m - i + WRAP
    BY SubIs
  <2>2. y = IF j >= m THEN j - m ELSE j - m + WRAP
    BY SubIs
  <2>3. Sub(j, i) = IF j >= i THEN j - i ELSE j - i + WRAP
    BY SubIs
  <2> HIDE DEF x, y
  <2> QED
    BY <1>1, <2>1, <2>2, <2>3, Sizes DEF Index
<1>3. /\ Ring(b, i, m) \in Seq(Stored) /\ Len(Ring(b, i, m)) = x
      /\ \A k \in 1 .. x : Ring(b, i, m)[k] = b[Add(i, k - 1) % INPUT_BUF]
  BY RingSeq
<1>4. /\ Ring(b, m, j) \in Seq(Stored) /\ Len(Ring(b, m, j)) = y
      /\ \A k \in 1 .. y : Ring(b, m, j)[k] = b[Add(m, k - 1) % INPUT_BUF]
  BY RingSeq
<1>5. /\ Ring(b, i, j) \in Seq(Stored) /\ Len(Ring(b, i, j)) = Sub(j, i)
      /\ \A k \in 1 .. Sub(j, i) : Ring(b, i, j)[k] = b[Add(i, k - 1) % INPUT_BUF]
  BY RingSeq
<1>6. ASSUME NEW k \in 1 .. y PROVE Add(m, k - 1) % INPUT_BUF = Add(i, (x + k) - 1) % INPUT_BUF
  <2>1. m = Add(i, x)
    BY AddSub
  <2> HIDE DEF x, y
  <2>2. /\ i + x \in Int /\ k - 1 \in Int /\ k - 1 \in Nat /\ (x + k) - 1 \in Nat
        /\ i + ((x + k) - 1) = (i + x) + (k - 1)
    BY <1>1 DEF Index
  <2>3. Add(m, k - 1) = Add(i, (x + k) - 1)
    <3>1. (((i + x) % WRAP) + (k - 1)) % WRAP = ((i + x) + (k - 1)) % WRAP
      BY <2>2, Sizes, ModPlus
    <3> QED
      BY <2>1, <2>2, <3>1 DEF Add
  <2> QED
    BY <2>3
<1> DEFINE s == Ring(b, i, m)
           t == Ring(b, m, j)
           u == Ring(b, i, j)
<1>7. ASSUME NEW k \in 1 .. x + y PROVE u[k] = IF k <= x THEN s[k] ELSE t[k - x]
  <2>0. u[k] = b[Add(i, k - 1) % INPUT_BUF]
    BY <1>2, <1>5
  <2>1. CASE k <= x
    <3>1. k \in 1 .. x
      BY <1>1, <2>1
    <3> QED
      BY <1>3, <2>0, <2>1, <3>1
  <2>2. CASE ~(k <= x)
    <3> HIDE DEF x, y
    <3>1. k - x \in 1 .. y /\ x + (k - x) = k
      BY <1>1, <2>2
    <3>2. t[k - x] = b[Add(m, (k - x) - 1) % INPUT_BUF]
      BY <1>4, <3>1
    <3>3. Add(m, (k - x) - 1) % INPUT_BUF = Add(i, (x + (k - x)) - 1) % INPUT_BUF
      BY <1>6, <3>1
    <3> QED
      BY <2>0, <2>2, <3>1, <3>2, <3>3
  <2> QED
    BY <2>1, <2>2
<1>8. /\ s \in Seq(Stored) /\ Len(s) = x /\ t \in Seq(Stored) /\ Len(t) = y
      /\ u \in Seq(Stored) /\ Len(u) = x + y
  BY <1>2, <1>3, <1>4, <1>5
<1> HIDE DEF s, t, u, x, y
<1>9. u = s \o t
  <2>1. s \o t \in Seq(Stored) /\ Len(s \o t) = x + y
    BY <1>8
  <2>2. \A k \in 1 .. x + y : u[k] = (s \o t)[k]
    BY <1>7, <1>8, CatElements
  <2> QED
    BY <1>8, <2>1, <2>2, SameSeq
<1> QED
  BY <1>2, <1>9 DEF s, t, u, x, y

\* Reading k characters drops them from the front.
LEMMA RingDrop ==
  ASSUME NEW b \in [0 .. INPUT_BUF - 1 -> Stored], NEW i \in Index, NEW j \in Index,
         NEW k \in 0 .. Sub(j, i), Sub(j, i) <= INPUT_BUF
  PROVE  /\ Add(i, k) \in Index /\ Sub(j, Add(i, k)) = Sub(j, i) - k
         /\ Ring(b, Add(i, k), j) = SubSeq(Ring(b, i, j), k + 1, Len(Ring(b, i, j)))
<1> DEFINE m == Add(i, k)
           n == Sub(j, i)
<1>1. n \in Nat /\ n = IF j >= i THEN j - i ELSE j - i + WRAP
  BY SubIs, AddSub
<1>2. k \in Index /\ k \in Nat
  BY <1>1, Sizes DEF Index
<1>3. m \in Index /\ m = IF i + k < WRAP THEN i + k ELSE i + k - WRAP
  BY <1>2, AddIs
<1> HIDE DEF m
<1>4. Sub(m, i) = IF m >= i THEN m - i ELSE m - i + WRAP
  BY <1>3, SubIs
<1>5. Sub(j, m) = IF j >= m THEN j - m ELSE j - m + WRAP
  BY <1>3, SubIs
<1>6. Sub(m, i) = k /\ Sub(j, m) = n - k
  <2>1. k <= n /\ n < WRAP
    BY <1>1, Sizes
  <2> HIDE DEF n
  <2> QED
    BY <1>1, <1>2, <1>3, <1>4, <1>5, <2>1, Sizes DEF Index
<1>7. Ring(b, i, j) = Ring(b, i, m) \o Ring(b, m, j)
  <2>1. Sub(m, i) + Sub(j, m) <= INPUT_BUF
    BY <1>1, <1>2, <1>6
  <2>2. m \in Index
    BY <1>3
  <2> HIDE DEF n
  <2> QED
    BY <2>1, <2>2, RingJoin
<1>8. /\ Ring(b, i, m) \in Seq(Stored) /\ Len(Ring(b, i, m)) = k
      /\ Ring(b, m, j) \in Seq(Stored) /\ Len(Ring(b, m, j)) = n - k
  BY <1>3, <1>6, RingSeq
<1> DEFINE s == Ring(b, i, m)
           t == Ring(b, m, j)
<1> HIDE DEF s, t, n
<1>9. t = SubSeq(s \o t, k + 1, Len(s \o t))
  <2>1. s \in Seq(Stored) /\ t \in Seq(Stored) /\ Len(s) = k /\ Len(t) = n - k
    BY <1>8 DEF s, t
  <2> QED
    BY <2>1, CatDrop
<1> QED
  BY <1>3, <1>6, <1>7, <1>9 DEF m, n, s, t

\* Erasing a character takes it from the end.
LEMMA RingPop ==
  ASSUME NEW b \in [0 .. INPUT_BUF - 1 -> Stored], NEW i \in Index, NEW j \in Index,
         i # j, Sub(j, i) <= INPUT_BUF
  PROVE  /\ Sub(j, 1) \in Index /\ Sub(Sub(j, 1), i) = Sub(j, i) - 1
         /\ Ring(b, i, j) # <<>> /\ Ring(b, i, Sub(j, 1)) = Front(Ring(b, i, j))
<1> DEFINE m == Sub(j, 1)
           n == Sub(j, i)
<1>1. n \in Nat /\ n = IF j >= i THEN j - i ELSE j - i + WRAP
  BY SubIs, AddSub
<1>2. m \in Index /\ m = IF j >= 1 THEN j - 1 ELSE j - 1 + WRAP
  <2>1. 1 \in Index
    BY Sizes DEF Index
  <2> QED
    BY <2>1, SubIs
<1> HIDE DEF m, n
<1>3. Sub(m, i) = IF m >= i THEN m - i ELSE m - i + WRAP
  BY <1>2, SubIs
<1>4. Sub(m, i) = n - 1 /\ n >= 1
  BY <1>1, <1>2, <1>3, Sizes DEF Index
<1>5. /\ Ring(b, i, m) \in Seq(Stored) /\ Len(Ring(b, i, m)) = n - 1
      /\ \A k \in 1 .. n - 1 : Ring(b, i, m)[k] = b[Add(i, k - 1) % INPUT_BUF]
  <2>1. /\ Ring(b, i, m) \in Seq(Stored) /\ Len(Ring(b, i, m)) = Sub(m, i)
        /\ \A k \in 1 .. Sub(m, i) : Ring(b, i, m)[k] = b[Add(i, k - 1) % INPUT_BUF]
    BY <1>2, RingSeq
  <2> QED
    BY <1>4, <2>1
<1>6. /\ Ring(b, i, j) \in Seq(Stored) /\ Len(Ring(b, i, j)) = n
      /\ \A k \in 1 .. n : Ring(b, i, j)[k] = b[Add(i, k - 1) % INPUT_BUF]
  BY RingSeq DEF n
<1> DEFINE s == Ring(b, i, m)
           t == Ring(b, i, j)
<1>7. /\ s \in Seq(Stored) /\ Len(s) = n - 1 /\ t \in Seq(Stored) /\ Len(t) = n
      /\ \A k \in 1 .. n - 1 : s[k] = t[k]
  BY <1>1, <1>5, <1>6
<1> HIDE DEF s, t
<1>8. s = SubSeq(t, 1, Len(t) - 1) /\ t # <<>>
  BY <1>1, <1>4, <1>7
<1> QED
  BY <1>2, <1>4, <1>8 DEF m, n, s, t, Front

\* The least element of a set of numbers.
LEMMA MinLeast ==
  ASSUME NEW S, S \subseteq Nat, S # {}
  PROVE  Min(S) \in S /\ \A x \in S : Min(S) <= x
<1>1. \E n \in S : \A m \in S : n <= m
  BY LeastNat
<1> QED
  BY <1>1 DEF Min

-----------------------------------------------------------------------------
\* Where the ring is, and how long its two pieces are.
LEMMA Pieces ==
  ASSUME TermInv
  PROVE  /\ buf \in [0 .. INPUT_BUF - 1 -> Stored] /\ r \in Index /\ w \in Index /\ e \in Index
         /\ Sub(w, r) \in Nat /\ Sub(e, w) \in Nat /\ Sub(e, r) \in Nat
         /\ Sub(e, r) = Sub(w, r) + Sub(e, w) /\ Sub(e, r) <= INPUT_BUF
         /\ Ring(buf, r, w) \in Seq(Stored) /\ Len(Ring(buf, r, w)) = Sub(w, r)
         /\ Ring(buf, w, e) \in Seq(Stored) /\ Len(Ring(buf, w, e)) = Sub(e, w)
         /\ Ring(buf, r, e) = Ring(buf, r, w) \o Ring(buf, w, e)
<1>1. buf \in [0 .. INPUT_BUF - 1 -> Stored] /\ r \in Index /\ w \in Index /\ e \in Index
  BY DEF TermInv, TermTypeOK, Index, Stored
<1>2. Sub(w, r) + Sub(e, w) <= INPUT_BUF
  BY DEF TermInv, LinesFit
<1>3. Sub(e, r) = Sub(w, r) + Sub(e, w) /\ Ring(buf, r, e) = Ring(buf, r, w) \o Ring(buf, w, e)
  BY <1>1, <1>2, RingJoin
<1>4. /\ Ring(buf, r, w) \in Seq(Stored) /\ Len(Ring(buf, r, w)) = Sub(w, r)
      /\ Ring(buf, w, e) \in Seq(Stored) /\ Len(Ring(buf, w, e)) = Sub(e, w)
      /\ Sub(w, r) \in Nat /\ Sub(e, w) \in Nat /\ Sub(e, r) \in Nat
  BY <1>1, RingSeq
<1> QED
  BY <1>1, <1>2, <1>3, <1>4

\* wakeup() makes sleepers ready and changes nothing else of them.
LEMMA WokenReaders ==
  ASSUME TermInv, reader' = Woken \/ reader' = reader
  PROVE  /\ reader' \in [Procs -> [pc : {"out", "ready", "asleep"}, n : Nat, target : Nat]]
         /\ ReadersAsked'
<1>1. \A p \in Procs : /\ reader[p] \in [pc : {"out", "ready", "asleep"}, n : Nat, target : Nat]
                       /\ reader[p].n <= reader[p].target
  BY DEF TermInv, TermTypeOK, ReadersAsked
<1>2. CASE reader' = Woken
  <2>1. \A p \in Procs : reader'[p] \in {reader[p], [reader[p] EXCEPT !.pc = "ready"]}
    BY <1>2 DEF Woken
  <2>2. ASSUME NEW p \in Procs
        PROVE  /\ reader'[p] \in [pc : {"out", "ready", "asleep"}, n : Nat, target : Nat]
               /\ reader'[p].n <= reader'[p].target
    BY <1>1, <2>1
  <2> QED
    BY <1>2, <2>2 DEF Woken, ReadersAsked
<1>3. CASE reader' = reader
  BY <1>3 DEF TermInv, TermTypeOK, ReadersAsked
<1> QED
  BY <1>2, <1>3

\* The invariant after a step, from its parts.
LEMMA Parts ==
  ASSUME rx' \in Seq(Keys), buf' \in [0 .. INPUT_BUF - 1 -> Stored],
         r' \in Index, w' \in Index, e' \in Index,
         reader' \in [Procs -> [pc : {"out", "ready", "asleep"}, n : Nat, target : Nat]],
         ReadersAsked', LinesFit', NoNewlineInEdit'
  PROVE  TermInv'
  BY DEF TermInv, TermTypeOK, Index, Stored

\* A character is stored: it joins the line, and the line is finished by
\* newline, control-d and by the last place of the ring.
LEMMA StoreStep ==
  ASSUME TermInv, NEW c \in Stored, Sub(e, r) < INPUT_BUF, Store(c), rx' \in Seq(Keys),
         UNCHANGED taken
  PROVE  TermInv' /\ Line!Typed(c)
<1> DEFINE done == Ring(buf, r, w)
           edit == Ring(buf, w, e)
           x == Sub(w, r)
           y == Sub(e, w)
<1>0. /\ buf' = [buf EXCEPT ![e % INPUT_BUF] = c] /\ e' = Add(e, 1) /\ r' = r
      /\ c \in {NL, EOF} \/ e' = Add(r, INPUT_BUF) => w' = e' /\ reader' = Woken
      /\ ~(c \in {NL, EOF} \/ e' = Add(r, INPUT_BUF)) => w' = w /\ reader' = reader
  BY DEF Store
<1>1. /\ buf \in [0 .. INPUT_BUF - 1 -> Stored] /\ r \in Index /\ w \in Index /\ e \in Index
      /\ x \in Nat /\ y \in Nat /\ Sub(e, r) = x + y /\ x + y < INPUT_BUF
      /\ done \in Seq(Stored) /\ Len(done) = x /\ edit \in Seq(Stored) /\ Len(edit) = y
      /\ Ring(buf, r, e) = done \o edit
  BY Pieces
<1>2. buf' \in [0 .. INPUT_BUF - 1 -> Stored] /\ e' \in Index
  <2>1. 1 \in Index
    BY Sizes DEF Index
  <2> QED
    BY <1>0, <1>1, <2>1, AddIs
<1>3. Sub(e', w) = y + 1 /\ Ring(buf', w, e') = Append(edit, c)
  <2>1. Sub(e, w) < INPUT_BUF
    BY <1>1, Sizes
  <2> QED
    BY <1>0, <1>1, <2>1, RingPush
<1>4. Sub(e', r) = x + y + 1 /\ Ring(buf', r, e') = done \o Append(edit, c)
  <2>1. Sub(e', r) = x + y + 1 /\ Ring(buf', r, e') = Append(done \o edit, c)
    <3>1. Sub(e', r) = Sub(e, r) + 1 /\ Ring(buf', r, e') = Append(Ring(buf, r, e), c)
      BY <1>0, <1>1, RingPush
    <3> QED
      BY <1>1, <3>1
  <2> HIDE DEF done, edit
  <2>2. Append(done \o edit, c) = done \o Append(edit, c)
    BY <1>1
  <2> QED
    BY <2>1, <2>2
<1>5. Ring(buf', r, w) = done
  <2>1. Sub(w, r) <= Sub(e, r) /\ Sub(e, r) < INPUT_BUF
    BY <1>1
  <2> QED
    BY <1>0, <1>1, <2>1, RingKept
<1>6. e' = Add(r, INPUT_BUF) <=> x + y + 1 = INPUT_BUF
  <2>1. INPUT_BUF \in Index
    BY Sizes DEF Index
  <2>2. Add(r, INPUT_BUF) \in Index /\ Sub(Add(r, INPUT_BUF), r) = INPUT_BUF
    <3> DEFINE a == Add(r, INPUT_BUF)
    <3>1. a \in Index /\ a = IF r + INPUT_BUF < WRAP THEN r + INPUT_BUF ELSE r + INPUT_BUF - WRAP
      BY <1>1, <2>1, AddIs
    <3> HIDE DEF a
    <3>2. Sub(a, r) = IF a >= r THEN a - r ELSE a - r + WRAP
      BY <1>1, <3>1, SubIs
    <3>3. Sub(a, r) = INPUT_BUF
      BY <1>1, <3>1, <3>2, Sizes DEF Index
    <3> QED
      BY <3>1, <3>3 DEF a
  <2>3. e' = Add(r, INPUT_BUF) => x + y + 1 = INPUT_BUF
    BY <1>4, <2>2
  <2>4. x + y + 1 = INPUT_BUF => e' = Add(r, INPUT_BUF)
    BY <1>1, <1>2, <1>4, AddSub
  <2> QED
    BY <2>3, <2>4
<1>7. /\ reader' \in [Procs -> [pc : {"out", "ready", "asleep"}, n : Nat, target : Nat]]
      /\ ReadersAsked'
  BY <1>0, WokenReaders
<1>8. CASE c \in {NL, EOF} \/ e' = Add(r, INPUT_BUF)
  <2>1. w' = e' /\ r' = r
    BY <1>0, <1>8
  <2>2. Sub(e', e') = 0
    BY <1>2, SubIs DEF Index
  <2>3. Ring(buf', w', e') = <<>>
    BY <1>2, <2>1, <2>2, RingEmpty
  <2>4. LinesFit'
    <3>1. Sub(w', r') + Sub(e', w') = x + y + 1
      BY <1>1, <1>4, <2>1, <2>2
    <3> QED
      BY <1>1, <3>1, Sizes DEF LinesFit
  <2>5. NoNewlineInEdit'
    BY <2>1, <2>2 DEF NoNewlineInEdit
  <2>6. Ring(buf', r', w') = done \o Append(edit, c)
    BY <1>4, <2>1
  <2>7. Line!Typed(c)
    BY <1>1, <1>6, <1>8, <2>3, <2>6 DEF Line!Typed
  <2> QED
    BY <1>0, <1>1, <1>2, <1>7, <2>1, <2>4, <2>5, <2>7, Parts
<1>9. CASE ~(c \in {NL, EOF} \/ e' = Add(r, INPUT_BUF))
  <2>1. w' = w /\ r' = r
    BY <1>0, <1>9
  <2>2. LinesFit'
    <3>1. Sub(w', r') + Sub(e', w') = x + y + 1
      BY <1>1, <1>3, <2>1
    <3> QED
      BY <1>1, <3>1, Sizes DEF LinesFit
  <2>3. NoNewlineInEdit'
    <3> SUFFICES ASSUME NEW k \in 1 .. y + 1 PROVE Append(edit, c)[k] # NL
      BY <1>3, <2>1 DEF NoNewlineInEdit
    <3>1. \A h \in 1 .. y : edit[h] # NL
      BY DEF TermInv, NoNewlineInEdit
    <3> HIDE DEF edit, y
    <3> QED
      BY <1>1, <1>9, <3>1
  <2>4. Line!Typed(c)
    BY <1>1, <1>3, <1>5, <1>6, <1>9, <2>1 DEF Line!Typed
  <2> QED
    BY <1>0, <1>1, <1>2, <1>7, <2>1, <2>2, <2>3, <2>4, Parts
<1> QED
  BY <1>8, <1>9

\* control-u stops at cons.w: there is no newline behind it.
LEMMA KillReachesW ==
  ASSUME TermInv
  PROVE  LineStart(e) = w
<1> DEFINE y == Sub(e, w)
           S == {k \in 0 .. INPUT_BUF : Sub(e, k) = w \/ buf[Sub(e, k + 1) % INPUT_BUF] = NL}
           m == Min(S)
<1>1. /\ buf \in [0 .. INPUT_BUF - 1 -> Stored] /\ w \in Index /\ e \in Index
      /\ y \in Nat /\ y <= INPUT_BUF
  <2>1. Sub(w, r) \in Nat /\ Sub(e, w) \in Nat /\ Sub(w, r) + Sub(e, w) <= INPUT_BUF
    BY Pieces
  <2> QED
    BY <2>1, Pieces, Sizes
<1>2. y = IF e >= w THEN e - w ELSE e - w + WRAP
  BY <1>1, SubIs
<1>3. ASSUME NEW k \in 0 .. y
      PROVE  /\ Sub(e, k) = IF e >= k THEN e - k ELSE e - k + WRAP
             /\ Sub(e, k) = w <=> k = y
  <2> HIDE DEF y
  <2>1. k \in Index
    BY <1>1, Sizes DEF Index
  <2>2. Sub(e, k) = IF e >= k THEN e - k ELSE e - k + WRAP
    BY <1>1, <2>1, SubIs
  <2> QED
    BY <1>1, <1>2, <2>1, <2>2, Sizes DEF Index
<1> HIDE DEF y
<1>4. y \in S
  BY <1>1, <1>3, Sizes
<1>5. m \in S /\ m <= y
  <2>1. S \subseteq Nat /\ S # {}
    BY <1>4, Sizes
  <2> HIDE DEF S
  <2> QED
    BY <1>4, <2>1, MinLeast
<1> HIDE DEF m
<1>6. m \in 0 .. y /\ (Sub(e, m) = w \/ buf[Sub(e, m + 1) % INPUT_BUF] = NL)
  BY <1>1, <1>5, Sizes
<1>7. m = y
  <2> SUFFICES ASSUME m # y PROVE FALSE
    OBVIOUS
  <2>1. m + 1 \in 0 .. y /\ y - m \in 1 .. y /\ (y - m) - 1 \in 0 .. y
    BY <1>1, <1>6
  <2>2. buf[Sub(e, m + 1) % INPUT_BUF] = NL
    BY <1>3, <1>6
  <2>3. Sub(e, m + 1) = Add(w, (y - m) - 1)
    <3> DEFINE h == (y - m) - 1
    <3>1. h \in Index /\ h = (y - m) - 1
      BY <1>1, <2>1, Sizes DEF Index
    <3> HIDE DEF h
    <3>2. Add(w, h) = IF w + h < WRAP THEN w + h ELSE w + h - WRAP
      BY <1>1, <3>1, AddIs
    <3>3. Sub(e, m + 1) = IF e >= m + 1 THEN e - (m + 1) ELSE e - (m + 1) + WRAP
      BY <1>3, <2>1
    <3>4. Sub(e, m + 1) = Add(w, h)
      BY <1>1, <1>2, <1>6, <3>1, <3>2, <3>3, Sizes DEF Index
    <3> QED
      BY <3>1, <3>4
  <2>4. Ring(buf, w, e)[y - m] = NL
    <3>1. \A k \in 1 .. Sub(e, w) : Ring(buf, w, e)[k] = buf[Add(w, k - 1) % INPUT_BUF]
      BY <1>1, RingSeq
    <3> QED
      BY <2>1, <2>2, <2>3, <3>1 DEF y
  <2> QED
    BY <2>1, <2>4 DEF TermInv, NoNewlineInEdit, y
<1>8. LineStart(e) = Sub(e, m)
  BY DEF LineStart, m
<1> QED
  BY <1>1, <1>3, <1>7, <1>8

\* control-u and backspace.
LEMMA EditStep ==
  ASSUME TermInv, e' = LineStart(e) \/ e' = (IF e = w THEN e ELSE Sub(e, 1)),
         rx' \in Seq(Keys), UNCHANGED <<buf, r, w, reader, taken>>
  PROVE  TermInv' /\ [Line!LineNext]_(Line!lineVars)
<1>1. /\ buf \in [0 .. INPUT_BUF - 1 -> Stored] /\ r \in Index /\ w \in Index /\ e \in Index
      /\ Sub(w, r) \in Nat /\ Sub(e, w) \in Nat /\ Sub(w, r) + Sub(e, w) <= INPUT_BUF
      /\ Ring(buf, w, e) \in Seq(Stored) /\ Len(Ring(buf, w, e)) = Sub(e, w)
  BY Pieces
<1>2. /\ reader' \in [Procs -> [pc : {"out", "ready", "asleep"}, n : Nat, target : Nat]]
      /\ ReadersAsked'
  BY WokenReaders
<1>3. \A k \in 1 .. Sub(e, w) : Ring(buf, w, e)[k] # NL
  BY DEF TermInv, NoNewlineInEdit
<1>4. CASE e' = w
  <2>1. Sub(w, w) = 0
    BY <1>1, SubIs DEF Index
  <2>2. Ring(buf', w', e') = <<>>
    BY <1>1, <1>4, <2>1, RingEmpty
  <2>3. LinesFit' /\ NoNewlineInEdit'
    BY <1>1, <1>4, <2>1, Sizes DEF LinesFit, NoNewlineInEdit
  <2>4. Line!Killed
    BY <2>2 DEF Line!Killed
  <2>5. TermInv'
    BY <1>1, <1>2, <1>4, <2>3, Parts
  <2> QED
    BY <2>4, <2>5 DEF Line!LineNext
<1>5. CASE e' # w
  <2>1. e # w /\ e' = Sub(e, 1)
    BY <1>5, KillReachesW
  <2>2. Sub(e, w) <= INPUT_BUF
    BY <1>1, Sizes
  <2>3. /\ e' \in Index /\ Sub(e', w) = Sub(e, w) - 1
        /\ Ring(buf, w, e) # <<>> /\ Ring(buf, w, e') = Front(Ring(buf, w, e))
    BY <1>1, <2>1, <2>2, RingPop
  <2>4. LinesFit'
    BY <1>1, <2>3, Sizes DEF LinesFit
  <2>5. NoNewlineInEdit'
    <3> SUFFICES ASSUME NEW k \in 1 .. Sub(e, w) - 1
                 PROVE  Front(Ring(buf, w, e))[k] # NL
      BY <2>3 DEF NoNewlineInEdit
    <3> DEFINE s == Ring(buf, w, e)
               n == Sub(e, w)
    <3> HIDE DEF s, n
    <3>1. s \in Seq(Stored) /\ Len(s) = n /\ n \in Nat /\ k \in 1 .. n - 1
      BY <1>1 DEF s, n
    <3>2. Front(s)[k] = s[k] /\ k \in 1 .. n
      BY <3>1 DEF Front
    <3> QED
      BY <1>3, <3>2 DEF s, n
  <2>6. Line!Erased
    BY <2>3 DEF Line!Erased, Line!Front, Front
  <2>7. TermInv'
    BY <1>1, <1>2, <2>3, <2>4, <2>5, Parts
  <2> QED
    BY <2>6, <2>7 DEF Line!LineNext
<1> QED
  BY <1>4, <1>5

\* One stretch of consoleread(): it hands out a piece of a finished line, and
\* what it loses is a control-d alone or a character that could not be copied.
LEMMA ReadStep ==
  ASSUME TermInv, NEW p \in Procs, NEW n \in Nat, NEW target \in Nat, n <= target, NEW bad \in Int,
         GoOn(p, n, target, bad), UNCHANGED <<rx, buf, w, e>>
  PROVE  TermInv' /\ Line!HandedOut
<1> DEFINE line == Ring(buf, r, w)
           k == Min({n, Len(line)})
           S == {j \in 1 .. k : line[j] \in {NL, EOF} \/ j = bad} \cup {k + 1}
           i == Min(S)
           copied == IF i > k THEN k ELSE IF line[i] = NL /\ i # bad THEN i ELSE i - 1
           passed == CASE i > k -> k
                       [] i <= k /\ line[i] = EOF /\ n - copied < target -> i - 1
                       [] OTHER -> i
<1>0. /\ bad # 0 => i = bad /\ i <= k /\ line[i] # EOF
      /\ r' = Add(r, passed)
      /\ taken' = SubSeq(line, 1, copied)
      /\ reader' = [reader EXCEPT ![p] = IF i <= k \/ copied = n \/ p \in killed THEN Out
                                         ELSE [pc |-> "asleep", n |-> n - copied, target |-> target]]
  BY DEF GoOn
<1>1. /\ buf \in [0 .. INPUT_BUF - 1 -> Stored] /\ r \in Index /\ w \in Index /\ e \in Index
      /\ Sub(w, r) \in Nat /\ Sub(e, w) \in Nat /\ Sub(w, r) + Sub(e, w) <= INPUT_BUF
      /\ line \in Seq(Stored) /\ Len(line) = Sub(w, r)
  BY Pieces
<1>2. k \in Nat /\ k <= n /\ k <= Len(line)
  <2>1. {n, Len(line)} \subseteq Nat /\ {n, Len(line)} # {}
    BY <1>1
  <2> QED
    BY <2>1, MinLeast
<1> HIDE DEF k, line
<1>3. i \in S /\ \A j \in S : i <= j
  <2>1. S \subseteq Nat /\ S # {}
    BY <1>2
  <2> HIDE DEF S
  <2> QED
    BY <2>1, MinLeast
<1> HIDE DEF i
<1>4. /\ i \in 1 .. k + 1
      /\ i <= k => line[i] \in {NL, EOF} \/ i = bad
      /\ \A j \in 1 .. k : j < i => line[j] \notin {NL, EOF}
  BY <1>2, <1>3
<1> HIDE DEF S
<1> DEFINE lost == passed - copied
<1>5. /\ copied \in 0 .. k /\ passed \in 0 .. k /\ lost \in 0 .. 1
      /\ \A j \in 1 .. copied : line[j] # EOF /\ (line[j] = NL => j = copied)
      /\ lost = 1 /\ line[copied + 1] = EOF => copied = 0
      /\ i > k => copied = k
  <2>1. CASE i > k
    <3>1. copied = k /\ passed = k
      BY <1>2, <1>4, <2>1
    <3> HIDE DEF copied, passed
    <3> QED
      BY <1>2, <1>4, <2>1, <3>1
  <2>2. CASE i <= k /\ line[i] = NL /\ i # bad
    <3>1. copied = i
      BY <2>2, <1>2, <1>4
    <3>2. passed = i
      BY <1>2, <1>4, <2>2 DEF NL, EOF
    <3> HIDE DEF copied, passed
    <3> QED
      BY <1>2, <1>4, <2>2, <3>1, <3>2 DEF NL, EOF
  <2>3. CASE i <= k /\ line[i] = EOF
    <3>1. copied = i - 1
      BY <1>2, <1>4, <2>3 DEF NL, EOF
    <3>2. passed = IF n - copied < target THEN i - 1 ELSE i
      BY <1>2, <1>4, <2>3
    <3> HIDE DEF copied, passed
    <3> QED
      BY <1>2, <1>4, <2>3, <3>1, <3>2 DEF NL, EOF
  <2>4. CASE i <= k /\ line[i] # EOF /\ ~(line[i] = NL /\ i # bad)
    <3>1. copied = i - 1
      BY <1>2, <1>4, <2>4
    <3>2. passed = i
      BY <1>2, <1>4, <2>4
    <3> HIDE DEF copied, passed
    <3> QED
      BY <1>2, <1>4, <2>4, <3>1, <3>2
  <2> QED
    BY <1>2, <1>4, <2>1, <2>2, <2>3, <2>4
<1> HIDE DEF copied, passed
<1>6. passed \in 0 .. Sub(w, r) /\ Sub(w, r) <= INPUT_BUF
  BY <1>1, <1>2, <1>5, Sizes
<1>7. /\ r' \in Index /\ Sub(w, r') = Sub(w, r) - passed
      /\ Ring(buf, r', w) = SubSeq(line, passed + 1, Len(line))
  BY <1>0, <1>1, <1>6, RingDrop DEF line
<1>8. Line!HandedOut
  <2>1. /\ copied \in 0 .. Len(line) /\ lost \in 0 .. 1 /\ copied + lost = passed
        /\ passed <= Len(line)
    BY <1>1, <1>2, <1>5
  <2> HIDE DEF lost
  <2>2. Ring(buf', r', w') = SubSeq(line, copied + lost + 1, Len(line))
    BY <1>7, <2>1
  <2>3. UNCHANGED Ring(buf, w, e)
    OBVIOUS
  <2>4. /\ copied + lost <= Len(line)
        /\ \A j \in 1 .. copied : line[j] # EOF /\ (line[j] = NL => j = copied)
        /\ lost = 1 /\ line[copied + 1] = EOF => copied = 0
        /\ taken' = SubSeq(line, 1, copied)
    BY <1>0, <1>5, <2>1 DEF lost
  <2>5. line \in {Ring(buf, r, w)}
    BY DEF line
  <2> QED
    BY <2>1, <2>2, <2>3, <2>4, <2>5, Zenon DEF Line!HandedOut
<1>9. LinesFit' /\ NoNewlineInEdit'
  <2>1. LinesFit'
    BY <1>1, <1>6, <1>7, Sizes DEF LinesFit
  <2>2. NoNewlineInEdit'
    BY DEF TermInv, NoNewlineInEdit
  <2> QED
    BY <2>1, <2>2
<1>10. /\ reader' \in [Procs -> [pc : {"out", "ready", "asleep"}, n : Nat, target : Nat]]
       /\ ReadersAsked'
  <2> DEFINE new == IF i <= k \/ copied = n \/ p \in killed THEN Out
                    ELSE [pc |-> "asleep", n |-> n - copied, target |-> target]
  <2>1. /\ new \in [pc : {"out", "ready", "asleep"}, n : Nat, target : Nat]
        /\ new.n <= new.target
    BY <1>2, <1>5 DEF Out
  <2>2. reader' = [reader EXCEPT ![p] = new]
    BY <1>0
  <2> HIDE DEF new
  <2> QED
    BY <2>1, <2>2 DEF TermInv, TermTypeOK, ReadersAsked
<1> QED
  BY <1>1, <1>7, <1>8, <1>9, <1>10, Parts DEF TermInv, TermTypeOK

\* Before the first key the ring is empty.
LEMMA InitTerm == TermInit => TermInv /\ Line!LineInit
<1> SUFFICES ASSUME TermInit PROVE TermInv /\ Line!LineInit
  OBVIOUS
<1>1. START \in Index /\ buf \in [0 .. INPUT_BUF - 1 -> Stored]
  BY TerminalAssumption DEF TermInit, Index, Stored
<1>2. r = START /\ w = START /\ e = START /\ Sub(START, START) = 0
  BY <1>1, SubIs DEF TermInit, Index
<1>3. TermTypeOK
  BY <1>1, <1>2 DEF TermTypeOK, TermInit, Index, Stored, Out
<1>4. LinesFit /\ NoNewlineInEdit /\ ReadersAsked
  BY <1>2, Sizes DEF LinesFit, NoNewlineInEdit, ReadersAsked, TermInit, Out
<1>5. Ring(buf, r, w) = <<>> /\ Ring(buf, w, e) = <<>>
  BY <1>1, <1>2, RingEmpty
<1>6. taken = <<>>
  BY DEF TermInit
<1> QED
  BY <1>3, <1>4, <1>5, <1>6 DEF TermInv, Line!LineInit

\* A step that leaves the console alone.
LEMMA OtherStep ==
  ASSUME TermInv, rx' \in Seq(Keys), UNCHANGED <<buf, r, w, e, taken>>,
         reader' \in [Procs -> [pc : {"out", "ready", "asleep"}, n : Nat, target : Nat]],
         ReadersAsked'
  PROVE  TermInv' /\ UNCHANGED Line!lineVars
<1>1. LinesFit' /\ NoNewlineInEdit'
  BY DEF TermInv, LinesFit, NoNewlineInEdit
<1>2. TermInv'
  BY <1>1, Pieces, Parts
<1> QED
  BY <1>2 DEF Line!lineVars

\* Every step keeps the invariant and is a step of the line discipline.
LEMMA NextTerm == TermInv /\ [TermNext]_termVars => TermInv' /\ [Line!LineNext]_(Line!lineVars)
<1> SUFFICES ASSUME TermInv, [TermNext]_termVars
             PROVE  TermInv' /\ [Line!LineNext]_(Line!lineVars)
  OBVIOUS
<1>0. /\ rx \in Seq(Keys)
      /\ reader \in [Procs -> [pc : {"out", "ready", "asleep"}, n : Nat, target : Nat]]
      /\ \A p \in Procs : reader[p].n <= reader[p].target
  BY DEF TermInv, TermTypeOK, ReadersAsked
<1>1. CASE UNCHANGED termVars
  BY <1>0, <1>1, OtherStep DEF termVars, ReadersAsked
<1>2. ASSUME NEW c \in Keys, Key(c) PROVE TermInv' /\ [Line!LineNext]_(Line!lineVars)
  <2>1. rx' \in Seq(Keys)
    BY <1>0, <1>2 DEF Key
  <2> QED
    BY <1>0, <1>2, <2>1, OtherStep DEF Key, ReadersAsked
<1>3. CASE uartintr
  <2> DEFINE c == Head(rx)
  <2>1. c \in Keys /\ rx' \in Seq(Keys) /\ consoleintr(c) /\ UNCHANGED taken
    BY <1>0, <1>3 DEF uartintr
  <2> HIDE DEF c
  <2>2. CASE UNCHANGED <<buf, r, w, e, reader>>
    BY <1>0, <2>1, <2>2, OtherStep DEF ReadersAsked
  <2>3. CASE e' = LineStart(e) /\ UNCHANGED <<buf, r, w, reader>>
    BY <2>1, <2>3, EditStep
  <2>4. CASE e' = (IF e = w THEN e ELSE Sub(e, 1)) /\ UNCHANGED <<buf, r, w, reader>>
    BY <2>1, <2>4, EditStep
  <2>5. CASE /\ c \notin {DUMP, KILL, ERASE}
             /\ Sub(e, r) < INPUT_BUF /\ Store(IF c = CR THEN NL ELSE c)
    <3> DEFINE d == IF c = CR THEN NL ELSE c
    <3>1. d \in Stored
      BY <2>1, <2>5, TerminalAssumption DEF Stored
    <3>2. Sub(e, r) < INPUT_BUF /\ Store(d)
      BY <2>5
    <3> HIDE DEF d
    <3>3. TermInv' /\ Line!Typed(d)
      BY <2>1, <3>1, <3>2, StoreStep
    <3> QED
      BY <3>1, <3>3 DEF Line!LineNext, Stored
  <2> QED
    BY <2>1, <2>2, <2>3, <2>4, <2>5 DEF consoleintr
<1>4. ASSUME NEW p \in Procs, consoleread(p) PROVE TermInv' /\ [Line!LineNext]_(Line!lineVars)
  <2>1. PICK n \in Lengths, bad \in 0 .. Max(Lengths) : GoOn(p, n, n, bad)
    BY <1>4 DEF consoleread
  <2>2. n \in Nat /\ n <= n /\ bad \in Int /\ UNCHANGED <<rx, buf, w, e>>
    BY <1>4, TerminalAssumption DEF consoleread
  <2>3. TermInv' /\ Line!HandedOut
    BY <2>1, <2>2, ReadStep
  <2> QED
    BY <2>3 DEF Line!LineNext
<1>5. ASSUME NEW p \in Procs, consoleread_resumed(p)
      PROVE  TermInv' /\ [Line!LineNext]_(Line!lineVars)
  <2>1. PICK bad \in 0 .. Max(Lengths) : GoOn(p, reader[p].n, reader[p].target, bad)
    BY <1>5 DEF consoleread_resumed
  <2>2. /\ reader[p].n \in Nat /\ reader[p].target \in Nat /\ reader[p].n <= reader[p].target
        /\ bad \in Int /\ UNCHANGED <<rx, buf, w, e>>
    BY <1>0, <1>5 DEF consoleread_resumed
  <2>3. TermInv' /\ Line!HandedOut
    BY <2>1, <2>2, ReadStep
  <2> QED
    BY <2>3 DEF Line!LineNext
<1>6. ASSUME NEW p \in Killable, kill_reader(p) PROVE TermInv' /\ [Line!LineNext]_(Line!lineVars)
  <2>1. \/ reader' = reader
        \/ reader' = [reader EXCEPT ![p].pc = "ready"]
    BY <1>6 DEF kill_reader
  <2>2. /\ reader' \in [Procs -> [pc : {"out", "ready", "asleep"}, n : Nat, target : Nat]]
        /\ ReadersAsked'
    <3>1. CASE reader' = reader
      BY <1>0, <3>1 DEF ReadersAsked
    <3>2. CASE reader' = [reader EXCEPT ![p].pc = "ready"]
      BY <1>0, <3>2 DEF ReadersAsked
    <3> QED
      BY <2>1, <3>1, <3>2
  <2> QED
    BY <1>0, <1>6, <2>2, OtherStep DEF kill_reader
<1> QED
  BY <1>1, <1>2, <1>3, <1>4, <1>5, <1>6 DEF TermNext

\* The indices of cons stay where the line discipline needs them, and behind
\* cons.w there is no newline at which control-u could stop.
THEOREM TermInvariance == TermSpec => []TermInv
  BY InitTerm, NextTerm, PTL DEF TermSpec

\* The ring of the console implements the line discipline, however its indices
\* wrap and whichever readers, keys and kills interleave: typing never overwrites
\* what has not been read, editing never reaches into a finished line, and a
\* read() never runs past the end of a line or loses a control-d that ends one.
THEOREM ConsoleIsLineDiscipline == TermSpec => LineSpec
<1>1. TermInit => Line!LineInit
  BY InitTerm
<1>2. TermInv /\ [TermNext]_termVars => [Line!LineNext]_(Line!lineVars)
  BY NextTerm
<1> QED
  BY <1>1, <1>2, TermInvariance, PTL DEF TermSpec, LineSpec, Line!LineSpec

=============================================================================
