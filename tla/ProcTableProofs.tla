------------------------- MODULE ProcTableProofs -------------------------
(***************************************************************************)
(* Proofs about the process table of ProcTable.tla, for every number of    *)
(* slots and every set of CPUs: ProcInv is an inductive invariant, with it *)
(* StackInUse, ParentStable, ParentAlive and NoLostExit are invariants,    *)
(* and ZombieUntilWaited holds of every step.                              *)
(*                                                                         *)
(* The steps are grouped as in ProcTable.tla.  Under each action come the  *)
(* type, the parts that need another part of the invariant to be kept, and *)
(* then the parts that carry over by themselves.                           *)
(***************************************************************************)
EXTENDS ProcTable, TLAPS

USE TableAssumption
    DEF Slots, None, initproc, Ticks, At, Running, OnCpu, Free, Goto, locals

-----------------------------------------------------------------------------
\* procinit() and userinit() establish the invariant.
LEMMA InitProcInv == Init => ProcInv
<1> SUFFICES ASSUME Init
             PROVE  ProcInv
  OBVIOUS
<1>1. TableTypeOK
  BY DEF Init, TableTypeOK, Places
<1>2. StackInUse /\ ParentStable /\ ParentAlive /\ NoLostExit
  BY DEF Init, StackInUse, ParentStable, ParentAlive, NoLostExit
<1>3. InitStays /\ StateAndPlace /\ LocksHeld
  BY DEF Init, InitStays, StateAndPlace, LocksHeld
<1>4. OriginalParent /\ Scanned /\ WaitsFor
  BY DEF Init, OriginalParent, Scanned, WaitsFor
<1> QED
  BY <1>1, <1>2, <1>3, <1>4 DEF ProcInv

-----------------------------------------------------------------------------
\* The steps of the scheduler, of yield() and of the clock keep it.
LEMMA SchedulerKeeps ==
  ASSUME ProcInv,
         NEW q \in Slots,
         \/ Yield(q) \/ ClockWakeup(q)
         \/ \E c \in CPUs : Schedule(c, q) \/ SwitchOut(c)
  PROVE  ProcInv'
<1>1. ASSUME NEW c \in CPUs, NEW p \in Slots, Schedule(c, p)
      PROVE  ProcInv'
  <2>1. TableTypeOK'
    <3>1. lock' \in [Slots -> Slots \cup {None}]
      BY <1>1 DEF ProcInv, TableTypeOK, Schedule
    <3>2. np' \in [Slots -> 0..NPROC + 1]
      BY <1>1 DEF ProcInv, TableTypeOK, Schedule
    <3> QED
      BY <1>1, <3>1, <3>2 DEF ProcInv, TableTypeOK, Schedule
  <2>2. StackInUse'
    BY <1>1 DEF ProcInv, TableTypeOK, StackInUse, StateAndPlace, Schedule
  <2>3. LocksHeld'
    BY <1>1 DEF ProcInv, TableTypeOK, StateAndPlace, LocksHeld, Schedule
  <2>4. Scanned'
    BY <1>1 DEF ProcInv, TableTypeOK, StateAndPlace, Scanned, Schedule
  <2>5. ParentStable' /\ ParentAlive' /\ NoLostExit' /\ InitStays'
    BY <1>1 DEF ProcInv, TableTypeOK, ParentStable, ParentAlive, NoLostExit,
           InitStays, Schedule
  <2>6. StateAndPlace' /\ OriginalParent' /\ WaitsFor'
    BY <1>1 DEF ProcInv, TableTypeOK, StateAndPlace, OriginalParent, WaitsFor,
           Schedule
  <2> QED
    BY <2>1, <2>2, <2>3, <2>4, <2>5, <2>6 DEF ProcInv
<1>2. ASSUME NEW c \in CPUs, SwitchOut(c)
      PROVE  ProcInv'
  <2>1. TableTypeOK'
    BY <1>2 DEF ProcInv, TableTypeOK, Places, SwitchOut
  <2>2. LocksHeld'
    BY <1>2 DEF ProcInv, TableTypeOK, StackInUse, StateAndPlace, LocksHeld,
           SwitchOut
  <2>3. /\ StackInUse' /\ ParentStable' /\ ParentAlive'
        /\ NoLostExit' /\ InitStays'
    BY <1>2 DEF ProcInv, TableTypeOK, StackInUse, ParentStable, ParentAlive,
           NoLostExit, InitStays, SwitchOut
  <2>4. StateAndPlace' /\ OriginalParent' /\ Scanned' /\ WaitsFor'
    BY <1>2 DEF ProcInv, TableTypeOK, StateAndPlace, OriginalParent, Scanned,
           WaitsFor, SwitchOut
  <2> QED
    BY <2>1, <2>2, <2>3, <2>4 DEF ProcInv
<1>3. ASSUME NEW p \in Slots, Yield(p)
      PROVE  ProcInv'
  <2>1. TableTypeOK'
    BY <1>3 DEF ProcInv, TableTypeOK, Places, Yield, Held, Interruptible
  <2>2. /\ StackInUse' /\ ParentStable' /\ ParentAlive'
        /\ NoLostExit' /\ InitStays'
    BY <1>3 DEF ProcInv, TableTypeOK, StackInUse, ParentStable, ParentAlive,
           NoLostExit, InitStays, Yield, Held, Interruptible
  <2>3. /\ StateAndPlace' /\ LocksHeld' /\ OriginalParent'
        /\ Scanned' /\ WaitsFor'
    BY <1>3 DEF ProcInv, TableTypeOK, StateAndPlace, LocksHeld,
           OriginalParent, Scanned, WaitsFor, Yield, Held, Interruptible
  <2> QED
    BY <2>1, <2>2, <2>3 DEF ProcInv
<1>4. ASSUME NEW p \in Slots, ClockWakeup(p)
      PROVE  ProcInv'
  <2>1. TableTypeOK'
    BY <1>4 DEF ProcInv, TableTypeOK, Places, ClockWakeup
  <2>2. /\ StackInUse' /\ ParentStable' /\ ParentAlive'
        /\ NoLostExit' /\ InitStays'
    BY <1>4 DEF ProcInv, TableTypeOK, StackInUse, ParentStable, ParentAlive,
           NoLostExit, InitStays, ClockWakeup
  <2>3. /\ StateAndPlace' /\ LocksHeld' /\ OriginalParent'
        /\ Scanned' /\ WaitsFor'
    BY <1>4 DEF ProcInv, TableTypeOK, StateAndPlace, LocksHeld,
           OriginalParent, Scanned, WaitsFor, ClockWakeup
  <2> QED
    BY <2>1, <2>2, <2>3 DEF ProcInv
<1> QED
  BY <1>1, <1>2, <1>3, <1>4

-----------------------------------------------------------------------------
\* The entry of a system call, and the calls that are one step, keep it.
LEMMA ProgramKeeps ==
  ASSUME ProcInv, NEW q \in Slots, Program(q) \/ KilledExit(q)
  PROVE  ProcInv'
<1>1. ASSUME NEW p \in Slots, Syscall(p)
      PROVE  ProcInv'
  <2>1. TableTypeOK'
    BY <1>1 DEF ProcInv, TableTypeOK, Places, Syscall
  <2>2. /\ StackInUse' /\ ParentStable' /\ ParentAlive'
        /\ NoLostExit' /\ InitStays'
    BY <1>1 DEF ProcInv, TableTypeOK, StackInUse, ParentStable, ParentAlive,
           NoLostExit, InitStays, Syscall
  <2>3. /\ StateAndPlace' /\ LocksHeld' /\ OriginalParent'
        /\ Scanned' /\ WaitsFor'
    BY <1>1 DEF ProcInv, TableTypeOK, StateAndPlace, LocksHeld,
           OriginalParent, Scanned, WaitsFor, Syscall
  <2> QED
    BY <2>1, <2>2, <2>3 DEF ProcInv
<1>2. ASSUME NEW p \in Slots, KilledExit(p)
      PROVE  ProcInv'
  <2>1. TableTypeOK'
    BY <1>2 DEF ProcInv, TableTypeOK, Places, KilledExit
  <2>2. /\ StackInUse' /\ ParentStable' /\ ParentAlive'
        /\ NoLostExit' /\ InitStays'
    BY <1>2 DEF ProcInv, TableTypeOK, StackInUse, ParentStable, ParentAlive,
           NoLostExit, InitStays, KilledExit
  <2>3. /\ StateAndPlace' /\ LocksHeld' /\ OriginalParent'
        /\ Scanned' /\ WaitsFor'
    BY <1>2 DEF ProcInv, TableTypeOK, StateAndPlace, LocksHeld,
           OriginalParent, Scanned, WaitsFor, KilledExit
  <2> QED
    BY <2>1, <2>2, <2>3 DEF ProcInv
<1>3. ASSUME NEW p \in Slots, ForkFails(p)
      PROVE  ProcInv'
  <2>1. TableTypeOK'
    BY <1>3 DEF ProcInv, TableTypeOK, Places, ForkFails
  <2>2. /\ StackInUse' /\ ParentStable' /\ ParentAlive'
        /\ NoLostExit' /\ InitStays'
    BY <1>3 DEF ProcInv, TableTypeOK, StackInUse, ParentStable, ParentAlive,
           NoLostExit, InitStays, ForkFails
  <2>3. /\ StateAndPlace' /\ LocksHeld' /\ OriginalParent'
        /\ Scanned' /\ WaitsFor'
    BY <1>3 DEF ProcInv, TableTypeOK, StateAndPlace, LocksHeld,
           OriginalParent, Scanned, WaitsFor, ForkFails
  <2> QED
    BY <2>1, <2>2, <2>3 DEF ProcInv
<1>4. ASSUME NEW p \in Slots, NEW s \in Slots, Fork(p, s)
      PROVE  ProcInv'
  <2>1. TableTypeOK'
    BY <1>4 DEF ProcInv, TableTypeOK, Places, Fork
  <2>2. ParentStable'
    BY <1>4 DEF ProcInv, TableTypeOK, ParentStable, StateAndPlace, Fork
  <2>3. StackInUse'
    BY <1>4 DEF ProcInv, TableTypeOK, StackInUse, Fork
  <2>4. ParentAlive'
    BY <1>4 DEF ProcInv, TableTypeOK, ParentAlive, Fork
  <2>5. NoLostExit'
    BY <1>4 DEF ProcInv, TableTypeOK, NoLostExit, Fork
  <2>6. InitStays'
    BY <1>4 DEF ProcInv, TableTypeOK, InitStays, Fork
  <2>7. StateAndPlace'
    BY <1>4 DEF ProcInv, TableTypeOK, StateAndPlace, Fork
  <2>8. LocksHeld'
    BY <1>4 DEF ProcInv, TableTypeOK, LocksHeld, Fork
  <2>9. OriginalParent'
    BY <1>4 DEF ProcInv, TableTypeOK, OriginalParent, Fork
  <2>10. Scanned'
    BY <1>4 DEF ProcInv, TableTypeOK, Scanned, Fork
  <2>11. WaitsFor'
    BY <1>4 DEF ProcInv, TableTypeOK, WaitsFor, Fork
  <2> QED
    BY <2>1, <2>2, <2>3, <2>4, <2>5, <2>6, <2>7, <2>8, <2>9, <2>10, <2>11
       DEF ProcInv
<1>5. ASSUME NEW p \in Slots, NEW s \in Slots, ForkMapFault(p, s)
      PROVE  ProcInv'
  <2>1. TableTypeOK'
    BY <1>5 DEF ProcInv, TableTypeOK, Places, ForkMapFault
  <2>2. /\ StackInUse' /\ ParentStable' /\ ParentAlive'
        /\ NoLostExit' /\ InitStays'
    BY <1>5 DEF ProcInv, TableTypeOK, StackInUse, ParentStable, ParentAlive,
           NoLostExit, InitStays, ForkMapFault
  <2>3. /\ StateAndPlace' /\ LocksHeld' /\ OriginalParent'
        /\ Scanned' /\ WaitsFor'
    BY <1>5 DEF ProcInv, TableTypeOK, StateAndPlace, LocksHeld,
           OriginalParent, Scanned, WaitsFor, ForkMapFault
  <2> QED
    BY <2>1, <2>2, <2>3 DEF ProcInv
<1>6. ASSUME NEW p \in Slots, NEW s \in Slots, Kill(p, s)
      PROVE  ProcInv'
  <2>1. TableTypeOK'
    <3>1. state' \in [Slots -> {"UNUSED", "RUNNABLE", "RUNNING", "SLEEPING", "ZOMBIE"}]
      BY <1>6 DEF ProcInv, TableTypeOK, Places, Kill
    <3> QED
      BY <1>6, <3>1 DEF ProcInv, TableTypeOK, Places, Kill
  <2>2. StackInUse'
    BY <1>6 DEF ProcInv, TableTypeOK, StackInUse, Kill
  <2>3. ParentStable'
    BY <1>6 DEF ProcInv, TableTypeOK, ParentStable, Kill
  <2>4. ParentAlive'
    BY <1>6 DEF ProcInv, TableTypeOK, ParentAlive, Kill
  <2>5. NoLostExit'
    BY <1>6 DEF ProcInv, TableTypeOK, NoLostExit, Kill
  <2>6. InitStays'
    BY <1>6 DEF ProcInv, TableTypeOK, InitStays, Kill
  <2>7. StateAndPlace'
    BY <1>6 DEF ProcInv, TableTypeOK, StateAndPlace, Kill
  <2>8. LocksHeld'
    BY <1>6 DEF ProcInv, TableTypeOK, LocksHeld, Kill
  <2>9. OriginalParent'
    BY <1>6 DEF ProcInv, TableTypeOK, OriginalParent, Kill
  <2>10. Scanned'
    BY <1>6 DEF ProcInv, TableTypeOK, Scanned, Kill
  <2>11. WaitsFor'
    BY <1>6 DEF ProcInv, TableTypeOK, WaitsFor, Kill
  <2> QED
    BY <2>1, <2>2, <2>3, <2>4, <2>5, <2>6, <2>7, <2>8, <2>9, <2>10, <2>11
       DEF ProcInv
<1>7. ASSUME NEW p \in Slots, ExitCall(p)
      PROVE  ProcInv'
  <2>1. TableTypeOK'
    BY <1>7 DEF ProcInv, TableTypeOK, Places, ExitCall
  <2>2. /\ StackInUse' /\ ParentStable' /\ ParentAlive'
        /\ NoLostExit' /\ InitStays'
    BY <1>7 DEF ProcInv, TableTypeOK, StackInUse, ParentStable, ParentAlive,
           NoLostExit, InitStays, ExitCall
  <2>3. /\ StateAndPlace' /\ LocksHeld' /\ OriginalParent'
        /\ Scanned' /\ WaitsFor'
    BY <1>7 DEF ProcInv, TableTypeOK, StateAndPlace, LocksHeld,
           OriginalParent, Scanned, WaitsFor, ExitCall
  <2> QED
    BY <2>1, <2>2, <2>3 DEF ProcInv
<1>8. ASSUME NEW p \in Slots, NanosleepCall(p)
      PROVE  ProcInv'
  <2>1. TableTypeOK'
    BY <1>8 DEF ProcInv, TableTypeOK, Places, NanosleepCall
  <2>2. /\ StackInUse' /\ ParentStable' /\ ParentAlive'
        /\ NoLostExit' /\ InitStays'
    BY <1>8 DEF ProcInv, TableTypeOK, StackInUse, ParentStable, ParentAlive,
           NoLostExit, InitStays, NanosleepCall
  <2>3. /\ StateAndPlace' /\ LocksHeld' /\ OriginalParent'
        /\ Scanned' /\ WaitsFor'
    BY <1>8 DEF ProcInv, TableTypeOK, StateAndPlace, LocksHeld,
           OriginalParent, Scanned, WaitsFor, NanosleepCall
  <2> QED
    BY <2>1, <2>2, <2>3 DEF ProcInv
<1>9. ASSUME NEW p \in Slots, NEW c \in {"wait", "wait4"},
             NEW t \in Slots \cup {None}, WaitCall(p, c, t)
      PROVE  ProcInv'
  <2>1. TableTypeOK'
    <3>1. pc' \in [Slots -> Places] /\ np' \in [Slots -> 0..NPROC + 1]
      BY <1>9 DEF ProcInv, TableTypeOK, Places, WaitCall
    <3>2. /\ call' \in [Slots -> {"wait", "wait4"}]
          /\ target' \in [Slots -> Slots \cup {None}]
          /\ kid' \in [Slots -> Slots \cup {None}]
          /\ lock' \in [Slots -> Slots \cup {None}]
      BY <1>9 DEF ProcInv, TableTypeOK, WaitCall
    <3> QED
      BY <1>9, <3>1, <3>2 DEF ProcInv, TableTypeOK, WaitCall
  <2>2. /\ StackInUse' /\ ParentStable' /\ ParentAlive'
        /\ NoLostExit' /\ InitStays'
    BY <1>9 DEF ProcInv, TableTypeOK, StackInUse, ParentStable, ParentAlive,
           NoLostExit, InitStays, WaitCall
  <2>3. StateAndPlace' /\ LocksHeld' /\ OriginalParent'
    BY <1>9 DEF ProcInv, TableTypeOK, StateAndPlace, LocksHeld,
           OriginalParent, WaitCall
  <2>4. Scanned'
    BY <1>9 DEF ProcInv, TableTypeOK, Scanned, WaitCall
  <2>5. WaitsFor'
    BY <1>9 DEF ProcInv, TableTypeOK, WaitsFor, WaitCall
  <2> QED
    BY <2>1, <2>2, <2>3, <2>4, <2>5 DEF ProcInv
<1> QED
  BY <1>1, <1>2, <1>3, <1>4, <1>5, <1>6, <1>7, <1>8, <1>9 DEF Program

-----------------------------------------------------------------------------
\* The loop of sys_nanosleep() keeps it.
LEMMA NanosleepKeeps ==
  ASSUME ProcInv, NEW q \in Slots, Nanosleep(q)
  PROVE  ProcInv'
<1>1. ASSUME NEW p \in Slots, NanosleepDone(p)
      PROVE  ProcInv'
  <2>1. TableTypeOK'
    BY <1>1 DEF ProcInv, TableTypeOK, Places, NanosleepDone
  <2>2. /\ StackInUse' /\ ParentStable' /\ ParentAlive'
        /\ NoLostExit' /\ InitStays'
    BY <1>1 DEF ProcInv, TableTypeOK, StackInUse, ParentStable, ParentAlive,
           NoLostExit, InitStays, NanosleepDone
  <2>3. /\ StateAndPlace' /\ LocksHeld' /\ OriginalParent'
        /\ Scanned' /\ WaitsFor'
    BY <1>1 DEF ProcInv, TableTypeOK, StateAndPlace, LocksHeld,
           OriginalParent, Scanned, WaitsFor, NanosleepDone
  <2> QED
    BY <2>1, <2>2, <2>3 DEF ProcInv
<1>2. ASSUME NEW p \in Slots, NanosleepKilled(p)
      PROVE  ProcInv'
  <2>1. TableTypeOK'
    BY <1>2 DEF ProcInv, TableTypeOK, Places, NanosleepKilled
  <2>2. /\ StackInUse' /\ ParentStable' /\ ParentAlive'
        /\ NoLostExit' /\ InitStays'
    BY <1>2 DEF ProcInv, TableTypeOK, StackInUse, ParentStable, ParentAlive,
           NoLostExit, InitStays, NanosleepKilled
  <2>3. /\ StateAndPlace' /\ LocksHeld' /\ OriginalParent'
        /\ Scanned' /\ WaitsFor'
    BY <1>2 DEF ProcInv, TableTypeOK, StateAndPlace, LocksHeld,
           OriginalParent, Scanned, WaitsFor, NanosleepKilled
  <2> QED
    BY <2>1, <2>2, <2>3 DEF ProcInv
<1>3. ASSUME NEW p \in Slots, NanosleepSleep(p)
      PROVE  ProcInv'
  <2>1. TableTypeOK'
    BY <1>3 DEF ProcInv, TableTypeOK, Places, NanosleepSleep, Sleep
  <2>2. StackInUse'
    BY <1>3 DEF ProcInv, TableTypeOK, StackInUse, LocksHeld, NanosleepSleep,
           Sleep
  <2>3. /\ ParentStable' /\ ParentAlive' /\ NoLostExit'
        /\ InitStays' /\ StateAndPlace'
    BY <1>3 DEF ProcInv, TableTypeOK, ParentStable, ParentAlive, NoLostExit,
           InitStays, StateAndPlace, NanosleepSleep, Sleep
  <2>4. LocksHeld' /\ OriginalParent' /\ Scanned' /\ WaitsFor'
    BY <1>3 DEF ProcInv, TableTypeOK, LocksHeld, OriginalParent, Scanned,
           WaitsFor, NanosleepSleep, Sleep
  <2> QED
    BY <2>1, <2>2, <2>3, <2>4 DEF ProcInv
<1> QED
  BY <1>1, <1>2, <1>3 DEF Nanosleep

-----------------------------------------------------------------------------
\* Every step of exit() keeps it.  ExitZombie(p) holds the lock of the
\* remembered parent: that parent is in no scan, and is woken if it sleeps.
LEMMA ExitKeeps ==
  ASSUME ProcInv, NEW q \in Slots, Exit(q)
  PROVE  ProcInv'
<1>1. ASSUME NEW p \in Slots, ExitWakeInit(p)
      PROVE  ProcInv'
  <2>1. TableTypeOK'
    <3>1. state' \in [Slots -> {"UNUSED", "RUNNABLE", "RUNNING", "SLEEPING", "ZOMBIE"}]
      BY <1>1 DEF ProcInv, TableTypeOK, Places, ExitWakeInit, Wakeup1
    <3> QED
      BY <1>1, <3>1 DEF ProcInv, TableTypeOK, Places, ExitWakeInit, Wakeup1
  <2>2. /\ StackInUse' /\ ParentStable' /\ ParentAlive'
        /\ NoLostExit' /\ InitStays'
    BY <1>1 DEF ProcInv, TableTypeOK, StackInUse, ParentStable, ParentAlive,
           NoLostExit, InitStays, ExitWakeInit, Wakeup1
  <2>3. /\ StateAndPlace' /\ LocksHeld' /\ OriginalParent'
        /\ Scanned' /\ WaitsFor'
    BY <1>1 DEF ProcInv, TableTypeOK, StateAndPlace, LocksHeld,
           OriginalParent, Scanned, WaitsFor, ExitWakeInit, Wakeup1
  <2> QED
    BY <2>1, <2>2, <2>3 DEF ProcInv
<1>2. ASSUME NEW p \in Slots, ExitReadParent(p)
      PROVE  ProcInv'
  <2>1. TableTypeOK'
    BY <1>2 DEF ProcInv, TableTypeOK, Places, ExitReadParent
  <2>2. OriginalParent'
    BY <1>2 DEF ProcInv, TableTypeOK, StackInUse, ParentStable, ParentAlive,
           NoLostExit, InitStays, StateAndPlace, LocksHeld, OriginalParent,
           Scanned, WaitsFor, ExitReadParent
  <2>3. /\ StackInUse' /\ ParentStable' /\ ParentAlive'
        /\ NoLostExit' /\ InitStays'
    BY <1>2 DEF ProcInv, TableTypeOK, StackInUse, ParentStable, ParentAlive,
           NoLostExit, InitStays, ExitReadParent
  <2>4. StateAndPlace' /\ LocksHeld' /\ Scanned' /\ WaitsFor'
    BY <1>2 DEF ProcInv, TableTypeOK, StateAndPlace, LocksHeld, Scanned,
           WaitsFor, ExitReadParent
  <2> QED
    BY <2>1, <2>2, <2>3, <2>4 DEF ProcInv
<1>3. ASSUME NEW p \in Slots, ExitLockParent(p)
      PROVE  ProcInv'
  <2>1. TableTypeOK'
    BY <1>3 DEF ProcInv, TableTypeOK, Places, ExitLockParent
  <2>2. LocksHeld'
    BY <1>3 DEF ProcInv, TableTypeOK, LocksHeld, OriginalParent,
           ExitLockParent
  <2>3. /\ StackInUse' /\ ParentStable' /\ ParentAlive'
        /\ NoLostExit' /\ InitStays'
    BY <1>3 DEF ProcInv, TableTypeOK, StackInUse, ParentStable, ParentAlive,
           NoLostExit, InitStays, ExitLockParent
  <2>4. StateAndPlace' /\ OriginalParent' /\ Scanned' /\ WaitsFor'
    BY <1>3 DEF ProcInv, TableTypeOK, StateAndPlace, OriginalParent, Scanned,
           WaitsFor, ExitLockParent
  <2> QED
    BY <2>1, <2>2, <2>3, <2>4 DEF ProcInv
<1>4. ASSUME NEW p \in Slots, ExitLockSelf(p)
      PROVE  ProcInv'
  <2>1. TableTypeOK'
    <3>1. np' \in [Slots -> 0..NPROC + 1]
      BY <1>4 DEF ProcInv, TableTypeOK, Places, ExitLockSelf, Scanned
    <3> QED
      BY <1>4, <3>1 DEF ProcInv, TableTypeOK, Places, ExitLockSelf
  <2>2. /\ StackInUse' /\ ParentStable' /\ ParentAlive'
        /\ NoLostExit' /\ InitStays'
    BY <1>4 DEF ProcInv, TableTypeOK, StackInUse, ParentStable, ParentAlive,
           NoLostExit, InitStays, ExitLockSelf
  <2>3. /\ StateAndPlace' /\ LocksHeld' /\ OriginalParent'
        /\ Scanned' /\ WaitsFor'
    BY <1>4 DEF ProcInv, TableTypeOK, StateAndPlace, LocksHeld,
           OriginalParent, Scanned, WaitsFor, ExitLockSelf
  <2> QED
    BY <2>1, <2>2, <2>3 DEF ProcInv
<1>5. ASSUME NEW p \in Slots, ReparentCheck(p)
      PROVE  ProcInv'
  <2>1. TableTypeOK'
    <3>1. pc' \in [Slots -> Places]
      BY <1>5 DEF ProcInv, TableTypeOK, Places, ReparentCheck
    <3>2. np' \in [Slots -> 0..NPROC + 1]
      BY <1>5 DEF ProcInv, TableTypeOK, Places, ReparentCheck, Scanned
    <3> QED
      BY <1>5, <3>1, <3>2 DEF ProcInv, TableTypeOK, Places, ReparentCheck
  <2>2. Scanned'
    <3>1. CASE parent[np[p]] = p
      BY <1>5, <3>1 DEF ProcInv, TableTypeOK, Scanned, ReparentCheck
    <3>2. CASE parent[np[p]] # p
      <4>1. /\ np[p] \in Slots /\ pc[p] = "reparent"
            /\ np' = [np EXCEPT ![p] = np[p] + 1]
            /\ UNCHANGED <<pc, parent, state, target>>
        BY <1>5, <3>2 DEF ReparentCheck
      <4>2. \A s \in Slots : s < np[p] + 1 => parent[s] # p
        BY <3>2, <4>1 DEF ProcInv, Scanned
      <4> QED
        BY <4>1, <4>2 DEF ProcInv, TableTypeOK, Scanned
    <3> QED
      BY <3>1, <3>2
  <2>3. StackInUse'
    BY <1>5 DEF ProcInv, TableTypeOK, StackInUse, ReparentCheck
  <2>4. ParentStable'
    BY <1>5 DEF ProcInv, TableTypeOK, ParentStable, ReparentCheck
  <2>5. ParentAlive'
    BY <1>5 DEF ProcInv, TableTypeOK, ParentAlive, ReparentCheck
  <2>6. NoLostExit'
    BY <1>5 DEF ProcInv, TableTypeOK, NoLostExit, ReparentCheck
  <2>7. InitStays'
    BY <1>5 DEF ProcInv, TableTypeOK, InitStays, ReparentCheck
  <2>8. StateAndPlace'
    BY <1>5 DEF ProcInv, TableTypeOK, StateAndPlace, ReparentCheck
  <2>9. LocksHeld'
    BY <1>5 DEF ProcInv, TableTypeOK, LocksHeld, ReparentCheck
  <2>10. OriginalParent'
    BY <1>5 DEF ProcInv, TableTypeOK, OriginalParent, ReparentCheck
  <2>11. WaitsFor'
    BY <1>5 DEF ProcInv, TableTypeOK, WaitsFor, ReparentCheck
  <2> QED
    BY <2>1, <2>2, <2>3, <2>4, <2>5, <2>6, <2>7, <2>8, <2>9, <2>10, <2>11
       DEF ProcInv
<1>6. ASSUME NEW p \in Slots, ReparentGive(p)
      PROVE  ProcInv'
  <2>1. TableTypeOK'
    <3>1. np' \in [Slots -> 0..NPROC + 1]
      BY <1>6 DEF ProcInv, TableTypeOK, Places, ReparentGive, Scanned
    <3>2. pc' \in [Slots -> Places]
      BY <1>6 DEF ProcInv, TableTypeOK, Places, ReparentGive
    <3>3. parent' \in [Slots -> Slots \cup {None}]
      <4>1. parent' = [parent EXCEPT ![np[p]] = 1] /\ 1 \in 1..NPROC
        BY <1>6 DEF ReparentGive
      <4> QED
        BY <4>1 DEF ProcInv, TableTypeOK
    <3> QED
      BY <1>6, <3>1, <3>2, <3>3 DEF ProcInv, TableTypeOK, ReparentGive
  <2>2. ParentAlive'
    BY <1>6 DEF ProcInv, TableTypeOK, ParentAlive, InitStays, ReparentGive
  <2>3. InitStays'
    BY <1>6 DEF ProcInv, TableTypeOK, ParentStable, InitStays, StateAndPlace,
           ReparentGive
  <2>4. StateAndPlace'
    BY <1>6 DEF ProcInv, TableTypeOK, ParentStable, StateAndPlace,
           ReparentGive
  <2>5. OriginalParent'
    BY <1>6 DEF ProcInv, TableTypeOK, ParentStable, InitStays, StateAndPlace,
           OriginalParent, Scanned, ReparentGive
  <2>6. Scanned'
    <3>1. /\ np[p] \in Slots /\ pc[p] = "reparentLock" /\ p # initproc
          /\ parent' = [parent EXCEPT ![np[p]] = initproc]
          /\ np' = [np EXCEPT ![p] = np[p] + 1]
          /\ pc' = [pc EXCEPT ![p] = "reparent"]
          /\ UNCHANGED <<state, target>>
      BY <1>6 DEF ProcInv, TableTypeOK, InitStays, Scanned, ReparentGive
    <3>2. \A s \in Slots : s < np[p] + 1 => parent'[s] # p
      BY <3>1 DEF ProcInv, TableTypeOK, Scanned
    <3>3. \A r \in Slots, s \in Slots :
            r # initproc /\ parent'[s] = r => parent[s] = r
      BY <3>1 DEF ProcInv, TableTypeOK
    <3> QED
      BY <3>1, <3>2, <3>3 DEF ProcInv, TableTypeOK, InitStays, Scanned
  <2>7. StackInUse' /\ ParentStable' /\ NoLostExit' /\ LocksHeld' /\ WaitsFor'
    BY <1>6 DEF ProcInv, TableTypeOK, StackInUse, ParentStable, NoLostExit,
           LocksHeld, WaitsFor, ReparentGive
  <2> QED
    BY <2>1, <2>2, <2>3, <2>4, <2>5, <2>6, <2>7 DEF ProcInv
<1>7. ASSUME NEW p \in Slots, ExitZombie(p)
      PROVE  ProcInv'
  <2>1. TableTypeOK'
    <3>1. state' \in [Slots -> {"UNUSED", "RUNNABLE", "RUNNING", "SLEEPING", "ZOMBIE"}]
      BY <1>7 DEF ProcInv, TableTypeOK, Places, ExitZombie
    <3>2. np' \in [Slots -> 0..NPROC + 1]
      BY <1>7 DEF ProcInv, TableTypeOK, Places, ExitZombie, Scanned
    <3> QED
      BY <1>7, <3>1, <3>2 DEF ProcInv, TableTypeOK, Places, ExitZombie
  <2>2. PICK o \in Slots \ {p} :
          /\ o = origpar[p] /\ parent[p] \in {o, initproc}
          /\ lock[o] = p /\ lock[p] = p
    BY <1>7 DEF ProcInv, OriginalParent, LocksHeld, ExitZombie
  <2>3. /\ state[p] = "RUNNING" /\ pc[p] = "reparent"
        /\ \A s \in Slots : parent[s] # p
    BY <1>7 DEF ProcInv, TableTypeOK, Scanned, ExitZombie
  <2>4. /\ state'[p] = "ZOMBIE" /\ state[p] = "RUNNING"
        /\ \A s \in Slots \ {p, o} : state'[s] = state[s]
        /\ state'[o] = IF chan[o] \in {o, p} /\ state[o] = "SLEEPING"
                       THEN "RUNNABLE" ELSE state[o]
        /\ lock' = [lock EXCEPT ![o] = None]
        /\ np' = [np EXCEPT ![p] = None]
        /\ pc' = [pc EXCEPT ![p] = "exited"]
        /\ UNCHANGED <<parent, chan, cpu, target>>
    BY <1>7, <2>2 DEF ProcInv, TableTypeOK, ExitZombie
  <2>5. StackInUse'
    <3>1. \A s \in Slots : state'[s] = "RUNNING" => state[s] = "RUNNING"
      BY <2>4
    <3>2. \A s \in Slots : OnCpu(s) =>
             state'[s] = "RUNNING" \/ (lock'[s] = s /\ state'[s] # "UNUSED")
      BY <2>2, <2>4 DEF ProcInv, TableTypeOK, StackInUse
    <3> QED
      BY <2>4, <3>1, <3>2 DEF ProcInv, StackInUse
  <2>6. ParentAlive'
    BY <2>3, <2>4 DEF ProcInv, TableTypeOK, ParentAlive
  <2>7. NoLostExit'
    <3> SUFFICES ASSUME NEW r \in Slots \ {initproc}, NEW s \in Slots,
                        pc'[r] = "wait", state'[r] = "SLEEPING",
                        parent[s] = r, target[r] \in {None, s}
                 PROVE  state'[s] # "ZOMBIE"
      BY <2>4 DEF NoLostExit
    <3>1. r # p /\ pc[r] = "wait" /\ state[r] = "SLEEPING"
      BY <2>4 DEF ProcInv, TableTypeOK
    <3>2. state[s] # "ZOMBIE"
      BY <3>1 DEF ProcInv, NoLostExit
    <3>3. ASSUME s = p
          PROVE  FALSE
      <4>1. r = o
        BY <2>2, <3>3
      <4>2. chan[o] \in {o, p}
        BY <3>1, <3>3, <4>1 DEF ProcInv, WaitsFor
      <4> QED
        BY <2>4, <3>1, <4>1, <4>2
    <3> QED
      BY <2>4, <3>2, <3>3
  <2>8. Scanned'
    <3>1. ASSUME NEW r \in Slots \ {p}, state'[r] = "RUNNING",
                 pc[r] \in {"wait", "waitLock"}, r # initproc
          PROVE  parent[p] # r /\ state[r] = "RUNNING"
      <4>1. state[r] = "RUNNING" /\ lock[r] = r
        BY <2>4, <3>1 DEF ProcInv, LocksHeld
      <4> QED
        BY <2>2, <3>1, <4>1
    <3>2. \A s \in Slots : state'[s] = "ZOMBIE" => s = p \/ state[s] = "ZOMBIE"
      BY <2>4
    <3>3. \A r \in Slots : state'[r] = "RUNNING" => r # p /\ state[r] = "RUNNING"
      BY <2>4
    <3>4. \A r \in Slots \ {p} : pc'[r] = pc[r] /\ np'[r] = np[r]
      BY <2>4 DEF ProcInv, TableTypeOK
    <3>5. pc'[p] = "exited"
      BY <2>4 DEF ProcInv, TableTypeOK
    <3>6. \A r \in Slots : pc'[r] \in {"waitLock", "reparentLock"} => np'[r] \in Slots
      BY <3>4, <3>5 DEF ProcInv, Scanned
    <3>7. \A r \in Slots : pc'[r] \in {"reparent", "reparentLock"} =>
            np'[r] >= 1 /\ \A s \in Slots : s < np'[r] => parent'[s] # r
      BY <2>4, <3>4, <3>5 DEF ProcInv, Scanned
    <3>8. \A r \in Slots : pc'[r] \in {"wait", "waitLock"} /\ state'[r] = "RUNNING" =>
            /\ np'[r] >= 1
            /\ r # initproc => \A s \in Slots : s < np'[r] /\ parent'[s] = r
                                 /\ target'[r] \in {None, s} => state'[s] # "ZOMBIE"
      BY <2>4, <3>1, <3>2, <3>3, <3>4, <3>5 DEF ProcInv, Scanned
    <3>9. \A r \in Slots : pc'[r] = "waitLock" => target'[r] \in {None, np'[r]}
      BY <2>4, <3>4, <3>5 DEF ProcInv, Scanned
    <3> QED
      BY <3>6, <3>7, <3>8, <3>9 DEF Scanned
  <2>9. ParentStable' /\ InitStays' /\ StateAndPlace'
    BY <1>7 DEF ProcInv, TableTypeOK, ParentStable, InitStays, StateAndPlace,
           ExitZombie
  <2>10. LocksHeld' /\ OriginalParent' /\ WaitsFor'
    BY <1>7 DEF ProcInv, TableTypeOK, LocksHeld, OriginalParent, WaitsFor,
           ExitZombie
  <2> QED
    BY <2>1, <2>5, <2>6, <2>7, <2>8, <2>9, <2>10 DEF ProcInv
<1> QED
  BY <1>1, <1>2, <1>3, <1>4, <1>5, <1>6, <1>7 DEF Exit

-----------------------------------------------------------------------------
ReturnTypeOK ==
  /\ call \in [Slots -> {"wait", "wait4"}]
  /\ target \in [Slots -> Slots \cup {None}]
  /\ np \in [Slots -> 0..NPROC + 1]
  /\ kid \in [Slots -> Slots \cup {None}]
  /\ lock \in [Slots -> Slots \cup {None}]
  /\ pc \in [Slots -> Places]
  /\ origpar \in [Slots -> Slots \cup {None}]

\* What WaitReturn(p) leaves behind has the right types.
LEMMA ReturnType ==
  ASSUME TableTypeOK, NEW p \in Slots, WaitReturn(p)
  PROVE  ReturnTypeOK'
<1>1. /\ call'  \in [Slots -> {"wait", "wait4"}]
      /\ target' \in [Slots -> Slots \cup {None}]
      /\ kid' \in [Slots -> Slots \cup {None}]
  BY DEF TableTypeOK, WaitReturn
<1>2. np' \in [Slots -> 0..NPROC + 1] /\ pc' \in [Slots -> Places]
  BY DEF TableTypeOK, WaitReturn, Places
<1>3. /\ lock' \in [Slots -> Slots \cup {None}]
      /\ origpar' \in [Slots -> Slots \cup {None}]
  BY DEF TableTypeOK, WaitReturn
<1> QED
  BY <1>1, <1>2, <1>3 DEF ReturnTypeOK

-----------------------------------------------------------------------------
\* Every step of wait() and wait4pid() keeps it.
LEMMA WaitKeeps ==
  ASSUME ProcInv, NEW q \in Slots, Wait(q)
  PROVE  ProcInv'
<1>1. ASSUME NEW p \in Slots, WaitCheck(p)
      PROVE  ProcInv'
  <2>1. TableTypeOK'
    <3>1. pc' \in [Slots -> Places]
      BY <1>1 DEF ProcInv, TableTypeOK, Places, WaitCheck
    <3>2. np' \in [Slots -> 0..NPROC + 1]
      <4>1. np' = np \/ (np[p] \in Slots /\ np' = [np EXCEPT ![p] = np[p] + 1])
        BY <1>1 DEF WaitCheck
      <4> QED
        BY <4>1 DEF ProcInv, TableTypeOK
    <3> QED
      BY <1>1, <3>1, <3>2 DEF ProcInv, TableTypeOK, Places, WaitCheck
  <2>2. Scanned'
    <3>1. CASE parent[np[p]] = p /\ target[p] \in {None, np[p]}
      <4>1. /\ np[p] \in Slots /\ pc[p] = "wait" /\ state[p] = "RUNNING"
            /\ pc' = [pc EXCEPT ![p] = "waitLock"]
            /\ UNCHANGED <<np, parent, state, target>>
        BY <1>1, <3>1 DEF WaitCheck
      <4> QED
        BY <3>1, <4>1 DEF ProcInv, TableTypeOK, Scanned
    <3>2. CASE ~(parent[np[p]] = p /\ target[p] \in {None, np[p]})
      <4>1. /\ np[p] \in Slots /\ pc[p] = "wait" /\ state[p] = "RUNNING"
            /\ np' = [np EXCEPT ![p] = np[p] + 1]
            /\ UNCHANGED <<pc, parent, state, target>>
        BY <1>1, <3>2 DEF WaitCheck
      <4>2. p # initproc => \A s \in Slots : s < np[p] + 1 /\ parent[s] = p
                             /\ target[p] \in {None, s} => state[s] # "ZOMBIE"
        BY <3>2, <4>1 DEF ProcInv, Scanned
      <4> QED
        BY <4>1, <4>2 DEF ProcInv, TableTypeOK, Scanned
    <3> QED
      BY <3>1, <3>2
  <2>3. StackInUse'
    BY <1>1 DEF ProcInv, TableTypeOK, StackInUse, WaitCheck
  <2>4. ParentStable'
    BY <1>1 DEF ProcInv, TableTypeOK, ParentStable, WaitCheck
  <2>5. ParentAlive'
    BY <1>1 DEF ProcInv, TableTypeOK, ParentAlive, WaitCheck
  <2>6. NoLostExit'
    BY <1>1 DEF ProcInv, TableTypeOK, NoLostExit, WaitCheck
  <2>7. InitStays'
    BY <1>1 DEF ProcInv, TableTypeOK, InitStays, WaitCheck
  <2>8. StateAndPlace'
    BY <1>1 DEF ProcInv, TableTypeOK, StateAndPlace, WaitCheck
  <2>9. LocksHeld'
    BY <1>1 DEF ProcInv, TableTypeOK, LocksHeld, WaitCheck
  <2>10. OriginalParent'
    BY <1>1 DEF ProcInv, TableTypeOK, OriginalParent, WaitCheck
  <2>11. WaitsFor'
    BY <1>1 DEF ProcInv, TableTypeOK, WaitsFor, WaitCheck
  <2> QED
    BY <2>1, <2>2, <2>3, <2>4, <2>5, <2>6, <2>7, <2>8, <2>9, <2>10, <2>11
       DEF ProcInv
<1>2. ASSUME NEW p \in Slots, WaitKid(p)
      PROVE  ProcInv'
  <2>1. TableTypeOK'
    <3>1. np' \in [Slots -> 0..NPROC + 1]
      BY <1>2 DEF ProcInv, TableTypeOK, Places, WaitKid, Scanned
    <3>2. kid' \in [Slots -> Slots \cup {None}]
      BY <1>2 DEF ProcInv, TableTypeOK, Places, WaitKid, Scanned
    <3> QED
      BY <1>2, <3>1, <3>2 DEF ProcInv, TableTypeOK, Places, WaitKid
  <2>2. WaitsFor'
    BY <1>2 DEF ProcInv, TableTypeOK, ParentStable, InitStays, StateAndPlace,
           Scanned, WaitsFor, WaitKid
  <2>3. StackInUse'
    BY <1>2 DEF ProcInv, TableTypeOK, StackInUse, WaitKid
  <2>4. ParentStable'
    BY <1>2 DEF ProcInv, TableTypeOK, ParentStable, WaitKid
  <2>5. ParentAlive'
    BY <1>2 DEF ProcInv, TableTypeOK, ParentAlive, WaitKid
  <2>6. NoLostExit'
    BY <1>2 DEF ProcInv, TableTypeOK, NoLostExit, WaitKid
  <2>7. InitStays'
    BY <1>2 DEF ProcInv, TableTypeOK, InitStays, WaitKid
  <2>8. StateAndPlace'
    BY <1>2 DEF ProcInv, TableTypeOK, StateAndPlace, WaitKid
  <2>9. LocksHeld'
    BY <1>2 DEF ProcInv, TableTypeOK, LocksHeld, WaitKid
  <2>10. OriginalParent'
    BY <1>2 DEF ProcInv, TableTypeOK, OriginalParent, WaitKid
  <2>11. Scanned'
    BY <1>2 DEF ProcInv, TableTypeOK, Scanned, WaitKid
  <2> QED
    BY <2>1, <2>2, <2>3, <2>4, <2>5, <2>6, <2>7, <2>8, <2>9, <2>10, <2>11
       DEF ProcInv
<1>3. ASSUME NEW p \in Slots, WaitReap(p)
      PROVE  ProcInv'
  <2>1. TableTypeOK'
    <3>1. ReturnTypeOK'
      BY <1>3, ReturnType DEF ProcInv, WaitReap
    <3> QED
      BY <1>3, <3>1 DEF ProcInv, TableTypeOK, ReturnTypeOK, WaitReap
  <2>2. OriginalParent'
    <3>1. np[p] \in Slots /\ pc[np[p]] \in {"user", "exited"}
      BY <1>3 DEF ProcInv, TableTypeOK, StateAndPlace, Scanned, WaitReap
    <3>2. /\ parent' = [parent EXCEPT ![np[p]] = None]
          /\ pc' = [pc EXCEPT ![p] = "user"]
          /\ origpar' = origpar
      BY <1>3 DEF WaitReap, WaitReturn
    <3> QED
      BY <3>1, <3>2 DEF ProcInv, TableTypeOK, OriginalParent
  <2>3. /\ StackInUse' /\ ParentStable' /\ ParentAlive'
        /\ NoLostExit' /\ InitStays'
    BY <1>3 DEF ProcInv, TableTypeOK, StackInUse, ParentStable, ParentAlive,
           NoLostExit, InitStays, WaitReap, WaitReturn
  <2>4. StateAndPlace'
    BY <1>3 DEF ProcInv, TableTypeOK, StateAndPlace, WaitReap, WaitReturn
  <2>5. LocksHeld'
    BY <1>3 DEF ProcInv, TableTypeOK, LocksHeld, WaitReap, WaitReturn
  <2>6. Scanned'
    BY <1>3 DEF ProcInv, TableTypeOK, Scanned, WaitReap, WaitReturn
  <2>7. WaitsFor'
    BY <1>3 DEF ProcInv, TableTypeOK, WaitsFor, WaitReap, WaitReturn
  <2> QED
    BY <2>1, <2>2, <2>3, <2>4, <2>5, <2>6, <2>7 DEF ProcInv
<1>4. ASSUME NEW p \in Slots, WaitCopyoutFault(p)
      PROVE  ProcInv'
  <2>1. TableTypeOK'
    <3>1. ReturnTypeOK'
      BY <1>4, ReturnType DEF ProcInv, WaitCopyoutFault
    <3> QED
      BY <1>4, <3>1 DEF ProcInv, TableTypeOK, ReturnTypeOK, WaitCopyoutFault
  <2>2. /\ StackInUse' /\ ParentStable' /\ ParentAlive'
        /\ NoLostExit' /\ InitStays'
    BY <1>4 DEF ProcInv, TableTypeOK, StackInUse, ParentStable, ParentAlive,
           NoLostExit, InitStays, WaitCopyoutFault, WaitReturn
  <2>3. /\ StateAndPlace' /\ LocksHeld' /\ OriginalParent'
        /\ Scanned' /\ WaitsFor'
    BY <1>4 DEF ProcInv, TableTypeOK, StateAndPlace, LocksHeld,
           OriginalParent, Scanned, WaitsFor, WaitCopyoutFault, WaitReturn
  <2> QED
    BY <2>1, <2>2, <2>3 DEF ProcInv
<1>5. ASSUME NEW p \in Slots, WaitFails(p)
      PROVE  ProcInv'
  <2>1. TableTypeOK'
    <3>1. ReturnTypeOK'
      BY <1>5, ReturnType DEF ProcInv, WaitFails
    <3> QED
      BY <1>5, <3>1 DEF ProcInv, TableTypeOK, ReturnTypeOK, WaitFails
  <2>2. /\ StackInUse' /\ ParentStable' /\ ParentAlive'
        /\ NoLostExit' /\ InitStays'
    BY <1>5 DEF ProcInv, TableTypeOK, StackInUse, ParentStable, ParentAlive,
           NoLostExit, InitStays, WaitFails, WaitReturn
  <2>3. /\ StateAndPlace' /\ LocksHeld' /\ OriginalParent'
        /\ Scanned' /\ WaitsFor'
    BY <1>5 DEF ProcInv, TableTypeOK, StateAndPlace, LocksHeld,
           OriginalParent, Scanned, WaitsFor, WaitFails, WaitReturn
  <2> QED
    BY <2>1, <2>2, <2>3 DEF ProcInv
<1>6. ASSUME NEW p \in Slots, WaitSleep(p)
      PROVE  ProcInv'
  <2>1. TableTypeOK'
    <3>1. chan' \in [Slots -> Slots \cup {None, Ticks}]
      BY <1>6 DEF ProcInv, TableTypeOK, Places, WaitSleep, Sleep
    <3> QED
      BY <1>6, <3>1 DEF ProcInv, TableTypeOK, Places, WaitSleep, Sleep
  <2>2. StackInUse'
    BY <1>6 DEF ProcInv, TableTypeOK, StackInUse, LocksHeld, WaitSleep, Sleep
  <2>3. NoLostExit'
    BY <1>6 DEF ProcInv, TableTypeOK, ParentStable, NoLostExit, InitStays,
           StateAndPlace, Scanned, WaitSleep, Sleep
  <2>4. ParentStable' /\ ParentAlive' /\ InitStays' /\ StateAndPlace'
    BY <1>6 DEF ProcInv, TableTypeOK, ParentStable, ParentAlive, InitStays,
           StateAndPlace, WaitSleep, Sleep
  <2>5. LocksHeld' /\ OriginalParent' /\ Scanned' /\ WaitsFor'
    BY <1>6 DEF ProcInv, TableTypeOK, LocksHeld, OriginalParent, Scanned,
           WaitsFor, WaitSleep, Sleep
  <2> QED
    BY <2>1, <2>2, <2>3, <2>4, <2>5 DEF ProcInv
<1> QED
  BY <1>1, <1>2, <1>3, <1>4, <1>5, <1>6 DEF Wait

-----------------------------------------------------------------------------
\* Every step of the process table keeps the invariant.
LEMMA NextProcInv ==
  ASSUME ProcInv, [Next]_vars
  PROVE  ProcInv'
<1>1. CASE UNCHANGED vars
  <2>1. TableTypeOK' /\ InitStays' /\ StateAndPlace' /\ LocksHeld'
    BY <1>1 DEF vars, ProcInv, TableTypeOK, InitStays, StateAndPlace, LocksHeld
  <2>2. StackInUse' /\ ParentStable' /\ ParentAlive' /\ NoLostExit'
    BY <1>1 DEF vars, ProcInv, StackInUse, ParentStable, ParentAlive, NoLostExit
  <2>3. OriginalParent' /\ WaitsFor'
    BY <1>1 DEF vars, ProcInv, OriginalParent, WaitsFor
  <2>4. Scanned'
    BY <1>1 DEF vars, ProcInv, Scanned
  <2> QED
    BY <2>1, <2>2, <2>3, <2>4 DEF ProcInv
<1>2. ASSUME NEW p \in Slots,
             \/ Program(p) \/ KilledExit(p) \/ Exit(p) \/ Wait(p) \/ Nanosleep(p)
      PROVE  ProcInv'
  BY <1>2, ProgramKeeps, ExitKeeps, WaitKeeps, NanosleepKeeps
<1>3. ASSUME NEW p \in Slots,
             \/ Yield(p) \/ ClockWakeup(p)
             \/ \E c \in CPUs : Schedule(c, p)
      PROVE  ProcInv'
  BY <1>3, SchedulerKeeps
<1>4. ASSUME NEW c \in CPUs, SwitchOut(c)
      PROVE  ProcInv'
  <2>1. initproc \in Slots
    OBVIOUS
  <2> QED
    BY <1>4, <2>1, SchedulerKeeps
<1> QED
  BY <1>1, <1>2, <1>3, <1>4 DEF Next

\* In every reachable state of the process table ProcInv holds: the places,
\* states, locks and channels of all processes fit together, whatever the
\* interleaving of fork(), exit(), wait(), kill(), the clock and the CPUs.
THEOREM ProcInvariance == Spec => []ProcInv
<1>1. Init => ProcInv
  BY InitProcInv
<1>2. ProcInv /\ [Next]_vars => ProcInv'
  BY NextProcInv
<1> QED
  BY <1>1, <1>2, PTL DEF Spec

\* The stack of a process is used by one CPU at a time, and p->lock keeps it
\* from being scheduled or freed until its CPU has left it in scheduler().
THEOREM StackInUseAlways == Spec => []StackInUse
<1>1. ProcInv => StackInUse
  BY DEF ProcInv
<1> QED
  BY <1>1, ProcInvariance, PTL

\* The unlocked look at pp->parent in wait(), wait4pid() and reparent() is
\* still good when the lock of the child has been taken.
THEOREM ParentStableAlways == Spec => []ParentStable
<1>1. ProcInv => ParentStable
  BY DEF ProcInv
<1> QED
  BY <1>1, ProcInvariance, PTL

\* exit() leaves no process with a parent that can no longer wait for it.
THEOREM ParentAliveAlways == Spec => []ParentAlive
<1>1. ProcInv => ParentAlive
  BY DEF ProcInv
<1> QED
  BY <1>1, ProcInvariance, PTL

\* No process but initproc sleeps through the exit() of a child for which it
\* is waiting.
THEOREM NoExitLost == Spec => []NoLostExit
<1>1. ProcInv => NoLostExit
  BY DEF ProcInv
<1> QED
  BY <1>1, ProcInvariance, PTL

\* A ZOMBIE leaves that state only when its parent frees it in wait() or
\* wait4pid(), holding its own lock, and no CPU is on its stack then.
THEOREM ZombiesWaitedFor == Spec => ZombieUntilWaited
<1> DEFINE Freed(s) ==
      state[s] = "ZOMBIE" /\ state'[s] # "ZOMBIE" =>
        /\ state'[s] = "UNUSED"
        /\ Free(s) /\ ~OnCpu(s)
        /\ At(parent[s], "waitLock") /\ lock[parent[s]] = parent[s]
<1>1. ASSUME ProcInv, [Next]_vars, NEW s \in Slots
      PROVE  Freed(s)
  <2> SUFFICES ASSUME state[s] = "ZOMBIE", state'[s] # "ZOMBIE", Next
               PROVE  \E p \in Slots : WaitReap(p) /\ np[p] = s
    <3>1. ASSUME NEW p \in Slots, WaitReap(p), np[p] = s
          PROVE  Freed(s)
      <4>1. state'[s] = "UNUSED" /\ Free(s) /\ At(p, "waitLock")
        BY <1>1, <3>1 DEF ProcInv, TableTypeOK, WaitReap
      <4>2. parent[s] = p /\ lock[p] = p
        BY <1>1, <3>1, <4>1 DEF ProcInv, ParentStable, LocksHeld
      <4>3. ~OnCpu(s)
        BY <1>1, <3>1, <4>1 DEF ProcInv, StackInUse, WaitReap
      <4> QED
        BY <4>1, <4>2, <4>3
    <3>2. CASE state' = state
      BY <3>2
    <3> QED
      BY <1>1, <3>1, <3>2 DEF vars
  <2>1. ASSUME NEW p \in Slots,
               \/ Program(p) \/ KilledExit(p) \/ Nanosleep(p)
        PROVE  state'[s] = "ZOMBIE"
    BY <1>1, <2>1 DEF ProcInv, TableTypeOK, Program, KilledExit, Nanosleep, Syscall,
       ForkFails, ExitCall, NanosleepCall, Fork, ForkMapFault, Kill, WaitCall,
       NanosleepDone, NanosleepKilled, NanosleepSleep, Sleep
  <2>2. ASSUME NEW p \in Slots, Exit(p)
        PROVE  state'[s] = "ZOMBIE"
    BY <1>1, <2>2 DEF ProcInv, TableTypeOK, Exit, ExitWakeInit, Wakeup1,
       ExitReadParent, ExitLockParent, ExitLockSelf, ReparentCheck, ReparentGive,
       ExitZombie
  <2>3. ASSUME NEW p \in Slots, Wait(p), ~(WaitReap(p) /\ np[p] = s)
        PROVE  state'[s] = "ZOMBIE"
    BY <1>1, <2>3 DEF ProcInv, TableTypeOK, Wait, WaitCheck, WaitKid, WaitReap,
       WaitCopyoutFault, WaitFails, WaitSleep, Sleep
  <2>4. ASSUME NEW p \in Slots,
               \/ Yield(p) \/ ClockWakeup(p)
               \/ \E c \in CPUs : Schedule(c, p) \/ SwitchOut(c)
        PROVE  state'[s] = "ZOMBIE"
    BY <1>1, <2>4 DEF ProcInv, TableTypeOK, Yield, ClockWakeup, Schedule, SwitchOut
  <2> QED
    BY <2>1, <2>2, <2>3, <2>4 DEF Next
<1>2. ProcInv /\ [Next]_vars =>
        [\A s \in Slots : Freed(s)]_vars
  BY <1>1
<1> QED
  BY <1>2, ProcInvariance, PTL DEF Spec, ZombieUntilWaited
=============================================================================
