---------------------------- MODULE MCInterrupts ----------------------------
(***************************************************************************)
(* An instance for TLC of what the UART and the clock wake: the readers of *)
(* the console (Terminal) and the sleepers, signals and timers (Signals).  *)
(* A behaviour of Parts is one of the one or of the other.                 *)
(*                                                                         *)
(* Two readers and a ring of three characters whose indices wrap at six;   *)
(* three slots, two timers, two signals of which one cannot be masked.     *)
(***************************************************************************)
EXTENDS Terminal, Signals

VARIABLE part

PartsInit == part \in {"console", "signals"} /\ TermInit /\ SigInit
ConsoleStep == part = "console" /\ TermNext /\ UNCHANGED <<part, sigVars>>
SignalsStep == part = "signals" /\ SigNext /\ UNCHANGED <<part, termVars>>

\* The fairness of each part holds while it is the one that runs.
Typing == part = "console"
Ticking == part = "signals"
Parts ==
    /\ PartsInit /\ [][ConsoleStep \/ SignalsStep]_<<part, termVars, sigVars>>
    /\ WF_termVars(Typing /\ uartintr)
    /\ \A p \in Procs : WF_termVars(Typing /\ consoleread_resumed(p))
    /\ WF_sigVars(Ticking /\ clockintr)
    /\ \A p \in Slots : /\ WF_sigVars(Ticking /\ sys_sleep_woken(p)) /\ WF_sigVars(Ticking /\ setitimer(p))
                         /\ WF_sigVars(Ticking /\ usertrap_killed(p))
=============================================================================
