------------------------------ MODULE Terminal ------------------------------
(***************************************************************************)
(* Console input: the receiver of the UART, uartintr() (src/kernel/uart.c) *)
(* as devintr() (src/kernel/trap.c) calls it, and consoleintr() and        *)
(* consoleread() (src/kernel/console.c) over the ring cons.buf, whose      *)
(* indices are unsigned and wrap.  cons.lock is held from one sleep() to   *)
(* the next, so each such stretch is one action; interrupts of the UART    *)
(* go to one CPU.  Output (consolewrite(), echo) keeps no state and is     *)
(* left out; nothing calls uartputc(), so the transmit ring stays empty.   *)
(***************************************************************************)
EXTENDS Integers, Sequences, SequencesExt, FiniteSetsExt

CONSTANTS Procs,
          Chars,        \* ordinary characters
          Keys,         \* the keys that are struck
          INPUT_BUF,
          WRAP,         \* 2^32 in the code, a multiple of INPUT_BUF
          START,        \* the indices when the run begins
          Killable,     \* processes that may be killed
          FIFO,         \* characters that the receiver of the UART holds
          Lengths,      \* lengths that read() is called with
          MaxKeys       \* bound on the keys

NL == "newline"
CR == "return"
EOF == "^D"
KILL == "^U"
ERASE == "^H"
DUMP == "^P"

ASSUME TerminalAssumption ==
    /\ INPUT_BUF \in Nat \ {0} /\ WRAP \in Nat /\ WRAP % INPUT_BUF = 0 /\ WRAP > INPUT_BUF
    /\ START \in 0 .. WRAP - 1
    /\ Keys \subseteq Chars \cup {NL, CR, EOF, KILL, ERASE, DUMP}
    /\ Lengths \subseteq Nat

VARIABLES rx,           \* the receiver's FIFO
          buf, r, w, e, \* cons
          reader,       \* consoleread() of each process
          killed,       \* processes with p->killed
          taken,        \* what the last stretch of consoleread() copied to the user
          keys          \* keys struck

termVars == <<rx, buf, r, w, e, reader, killed, taken, keys>>
cons == <<buf, r, w, e>>

Out == [pc |-> "out", n |-> 0, target |-> 0]

\* Arithmetic of uint, and a piece of the ring.
Add(i, k) == (i + k) % WRAP
Sub(i, k) == (i - k + WRAP) % WRAP
Ring(b, i, j) == [k \in 1 .. Sub(j, i) |-> b[Add(i, k - 1) % INPUT_BUF]]

---------------------------------------------------------------------------
\* A key is struck; a full FIFO drops it.
Key(c) ==
    /\ keys < MaxKeys /\ keys' = keys + 1
    /\ rx' = IF Len(rx) < FIFO THEN Append(rx, c) ELSE rx
    /\ UNCHANGED <<buf, r, w, e, reader, killed, taken>>

\* wakeup(&cons.r)
Woken == [p \in Procs |-> IF reader[p].pc = "asleep" THEN [reader[p] EXCEPT !.pc = "ready"]
                          ELSE reader[p]]

\* Variant: a ring that is full without a newline is handed to nobody.
vStore(c) ==
    /\ buf' = [buf EXCEPT ![e % INPUT_BUF] = c]
    /\ e' = Add(e, 1)
    /\ IF c \in {NL, EOF}
       THEN w' = e' /\ reader' = Woken
       ELSE UNCHANGED <<w, reader>>
    /\ UNCHANGED r

\* The default case of consoleintr().
Store(c) ==
    /\ buf' = [buf EXCEPT ![e % INPUT_BUF] = c]
    /\ e' = Add(e, 1)
    /\ IF c \in {NL, EOF} \/ e' = Add(r, INPUT_BUF)
       THEN w' = e' /\ reader' = Woken
       ELSE UNCHANGED <<w, reader>>
    /\ UNCHANGED r

\* control-u: back to the last newline or to cons.w.
LineStart(i) ==
    Sub(i, Min({k \in 0 .. INPUT_BUF : Sub(i, k) = w \/ buf[Sub(i, k + 1) % INPUT_BUF] = NL}))

consoleintr(c) ==
    CASE c = DUMP -> UNCHANGED <<buf, r, w, e, reader>>
      [] c = KILL -> e' = LineStart(e) /\ UNCHANGED <<buf, r, w, reader>>
      [] c = ERASE -> e' = (IF e = w THEN e ELSE Sub(e, 1)) /\ UNCHANGED <<buf, r, w, reader>>
      [] OTHER -> IF Sub(e, r) < INPUT_BUF THEN Store(IF c = CR THEN NL ELSE c)
                  ELSE UNCHANGED <<buf, r, w, e, reader>>

\* One turn of the loop of uartintr(), on the interrupt of the UART or on the
\* clock of CPU 0, whichever comes first.
uartintr ==
    /\ rx # <<>>
    /\ rx' = Tail(rx)
    /\ consoleintr(Head(rx))
    /\ UNCHANGED <<killed, taken, keys>>

---------------------------------------------------------------------------
\* Variant: the end of file is not put back after a part of a line.
vGoOn(p, n, target, bad) ==
    LET line == Ring(buf, r, w)
        k == Min({n, Len(line)})
        i == Min({j \in 1 .. k : line[j] \in {NL, EOF} \/ j = bad} \cup {k + 1})
        copied == IF i > k THEN k ELSE IF line[i] = NL /\ i # bad THEN i ELSE i - 1
    IN  /\ bad # 0 => i = bad /\ i <= k /\ line[i] # EOF
        /\ r' = Add(r, IF i > k THEN k ELSE i)
        /\ taken' = SubSeq(line, 1, copied)
        /\ reader' = [reader EXCEPT ![p] = IF i <= k \/ copied = n \/ p \in killed THEN Out
                                           ELSE [pc |-> "asleep", n |-> n - copied, target |-> target]]

\* consoleread() from where it holds the lock to its next sleep() or return,
\* with n of target bytes still to read; the copy of byte number bad fails.
GoOn(p, n, target, bad) ==
    LET line == Ring(buf, r, w)
        k == Min({n, Len(line)})
        i == Min({j \in 1 .. k : line[j] \in {NL, EOF} \/ j = bad} \cup {k + 1})
        copied == IF i > k THEN k ELSE IF line[i] = NL /\ i # bad THEN i ELSE i - 1
    IN  /\ bad # 0 => i = bad /\ i <= k /\ line[i] # EOF
        /\ r' = Add(r, CASE i > k -> k
                         [] i <= k /\ line[i] = EOF /\ n - copied < target -> i - 1  \* put back
                         [] OTHER -> i)
        /\ taken' = SubSeq(line, 1, copied)
        /\ reader' = [reader EXCEPT ![p] = IF i <= k \/ copied = n \/ p \in killed THEN Out
                                           ELSE [pc |-> "asleep", n |-> n - copied, target |-> target]]

consoleread(p) ==
    /\ reader[p].pc = "out"
    /\ \E n \in Lengths, bad \in 0 .. Max(Lengths) : GoOn(p, n, n, bad)
    /\ UNCHANGED <<rx, buf, w, e, killed, keys>>

\* sleep() has returned; p->killed is tested only while there is no input.
consoleread_resumed(p) ==
    /\ reader[p].pc = "ready"
    /\ \E bad \in 0 .. Max(Lengths) : GoOn(p, reader[p].n, reader[p].target, bad)
    /\ UNCHANGED <<rx, buf, w, e, killed, keys>>

\* kill_reader() wakes the process, unless it comes between the test of p->killed
\* and sleep(): then the process sleeps on.
kill_reader(p) ==
    /\ p \notin killed /\ killed' = killed \cup {p}
    /\ \/ UNCHANGED reader
       \/ /\ reader[p].pc = "asleep"
          /\ reader' = [reader EXCEPT ![p].pc = "ready"]
    /\ UNCHANGED <<rx, buf, r, w, e, taken, keys>>

---------------------------------------------------------------------------
TermInit ==
    /\ rx = <<>>
    /\ buf = [i \in 0 .. INPUT_BUF - 1 |-> NL]
    /\ r = START /\ w = START /\ e = START
    /\ reader = [p \in Procs |-> Out]
    /\ killed = {}
    /\ taken = <<>>
    /\ keys = 0

TermNext ==
    \/ \E c \in Keys : Key(c)
    \/ uartintr
    \/ \E p \in Procs : consoleread(p) \/ consoleread_resumed(p)
    \/ \E p \in Killable : kill_reader(p)

\* The interrupt is taken, and a process that is ready gets the CPU.
TermFair == WF_termVars(uartintr) /\ \A p \in Procs : WF_termVars(consoleread_resumed(p))

TermSpec == TermInit /\ [][TermNext]_termVars /\ TermFair

---------------------------------------------------------------------------
(* The inductive invariant *)

TermTypeOK ==
    /\ rx \in Seq(Keys)
    /\ buf \in [0 .. INPUT_BUF - 1 -> Chars \cup {NL, EOF}]
    /\ r \in 0 .. WRAP - 1 /\ w \in 0 .. WRAP - 1 /\ e \in 0 .. WRAP - 1
    /\ reader \in [Procs -> [pc : {"out", "ready", "asleep"}, n : Nat, target : Nat]]

\* The finished lines and the line that is typed lie behind each other and
\* overlap nowhere.
LinesFit == Sub(w, r) + Sub(e, w) <= INPUT_BUF

\* A newline ends the line: control-u has none to stop at.
NoNewlineInEdit == \A k \in 1 .. Sub(e, w) : Ring(buf, w, e)[k] # NL

\* What is left to read is not more than what was asked for.
ReadersAsked == \A p \in Procs : reader[p].n <= reader[p].target

TermInv == TermTypeOK /\ LinesFit /\ NoNewlineInEdit /\ ReadersAsked

---------------------------------------------------------------------------
\* The ring with its three indices is the line discipline, however they wrap:
\* typing never overwrites what has not been read, editing never reaches into
\* a finished line, and a read never runs past the end of a line.
Line == INSTANCE LineDiscipline WITH done <- Ring(buf, r, w), edit <- Ring(buf, w, e), Size <- INPUT_BUF
LineSpec == Line!LineSpec

\* A newline that has reached the UART wakes a process that sleeps in read(),
\* even if the characters before it fill the ring.
NewlineWakes ==
    \A p \in Procs :
        reader[p].pc = "asleep" /\ (\E i \in DOMAIN rx : rx[i] \in {NL, CR}) ~> reader[p].pc # "asleep"

=============================================================================
