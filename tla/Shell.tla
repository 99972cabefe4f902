-------------------------------- MODULE Shell --------------------------------
(***************************************************************************)
(* The shell, src/user/sh.c, and src/user/init.c that starts it: processes *)
(* with their descriptors, what runcmd() does with a parsed line, and the  *)
(* ends of the pipes that the processes hold.  The programs that are run   *)
(* are outside: one reads its standard input to the end and exits.         *)
(***************************************************************************)
EXTENDS ShellParser, FiniteSets, FiniteSetsExt

CONSTANTS NPROC,
          NOFILE,       \* descriptors of a process
          NENVS,        \* 16 in the code
          Scripts,      \* what may be typed: sequences of lines
          Programs,     \* the files that exec() can run: <<directory, word>>; "" is the word as typed
          Assignments,  \* the words with '=': word -> [name, value]; name "": not a name
          BadFiles      \* files that open() refuses

ASSUME ShellAssumption ==
    /\ NPROC >= 3 /\ NOFILE >= 5 /\ NENVS >= 1
    /\ \A t \in Scripts : Len(t) > 0

Slots == 1 .. NPROC
Fds == 0 .. NOFILE - 1
Init1 == 1

VARIABLES proc,         \* [st, parent, pc, cmd, envs, fds, at]; at: where in the line's tree, for the properties
          script, typed,  \* what is typed, and how much of it has been read
          cmds,         \* the tree of each line, for the properties
          short         \* a fork1() has failed

shellVars == <<proc, script, typed, cmds, short>>

Closed == <<"closed", <<0>>>>
Console == <<"console", <<0>>>>
File(f) == <<"file", <<0, f>>>>
ReadEnd(at) == <<"read", at>>
WriteEnd(at) == <<"write", at>>

\* envs is a sequence of [name, value].
Unused == [st |-> "unused", parent |-> 0, pc |-> "", cmd |-> NoCmd, envs |-> <<>>,
           fds |-> [d \in Fds |-> Closed], at |-> <<0>>]
Running(p, pc) == proc[p].st = "running" /\ proc[p].pc = pc

---------------------------------------------------------------------------
\* The system calls, as the shell sees them.
Lowest(fds) == Min({d \in Fds : fds[d] = Closed})
close(fds, d) == [fds EXCEPT ![d] = Closed]
Opened(fds, what) == [fds EXCEPT ![Lowest(fds)] = what]
Ends(fds, at) == {d \in Fds : fds[d] \in {ReadEnd(at), WriteEnd(at)}}

\* exit(): the descriptors close, the children go to init.
Exited(ps, p) ==
    [q \in Slots |-> CASE q = p -> [ps[p] EXCEPT !.st = "zombie", !.pc = "", !.cmd = NoCmd, !.envs = <<>>,
                                            !.fds = Unused.fds]
                       [] q # p /\ ps[q].parent = p -> [ps[q] EXCEPT !.parent = Init1]
                       [] OTHER -> ps[q]]

\* fork1(): the child has c to do, from pc on; without a free process panic()
\* ends the caller.
fork1(p, me, pc, c, at) ==
    LET free == {q \in Slots : proc[q].st = "unused"}
    IN  IF free = {} THEN proc' = Exited(proc, p) /\ short' = TRUE
        ELSE /\ proc' = [proc EXCEPT ![p] = me,
                                     ![Min(free)] = [me EXCEPT !.parent = p, !.pc = pc, !.cmd = c, !.at = at]]
             /\ UNCHANGED short

\* wait(0): a child that has exited, or no child at all.
wait(p, me) ==
    LET kids == {q \in Slots : proc[q].st # "unused" /\ proc[q].parent = p}
    IN  \/ \E q \in kids : proc[q].st = "zombie" /\ proc' = [proc EXCEPT ![p] = me, ![q] = Unused]
        \/ kids = {} /\ proc' = [proc EXCEPT ![p] = me]

---------------------------------------------------------------------------
\* replace(): a variable that is set twice gives both values, one that is
\* not set gives nothing.
Value(envs, name) ==
    FoldLeft(LAMBDA v, e : IF e.name = name THEN v \o e.value ELSE v, "", envs)

replace(envs, line) ==
    SelectSeq([i \in DOMAIN line |-> IF line[i] = "$N" THEN Value(envs, "N") ELSE line[i]], LAMBDA t : t # "")

\* export(argv): -p and what is no assignment to a name change nothing.
export(envs, argv) ==
    IF Len(argv) = 1 \/ Len(envs) = NENVS THEN envs
    ELSE IF argv[2] \in DOMAIN Assignments /\ Assignments[argv[2]].name # "" THEN Append(envs, Assignments[argv[2]])
    ELSE envs

\* A word without '=': the loop copies what follows the word until it meets
\* one.  The name that it then has is refused; when there is none within the
\* 32 bytes of name[], the stack is overwritten and the shell is killed.
export_overrun(envs, argv) ==
    Len(argv) > 1 /\ Len(envs) # NENVS /\ argv[2] \notin DOMAIN Assignments \cup {"-p"}

\* main(): one line, up to the fork.  cd and export are for the shell itself,
\* and so is a syntax error: the shell parses, and panic() ends it.
main_line(p) ==
    /\ Running(p, "main") /\ typed < Len(script)
    /\ typed' = typed + 1 /\ UNCHANGED script
    /\ \E s \in {replace(proc[p].envs, script[typed'])} :
         \E c \in {parsecmd(s)}, cd \in {Len(s) > 1 /\ s[1] = "cd"} :
             /\ cmds' = Append(cmds, [line |-> s, cmd |-> c])
             /\ \/ /\ cd \/ c = execcmd(<<>>)
                   /\ UNCHANGED <<proc, short>>
                \/ /\ ~cd /\ c = NoCmd
                   /\ proc' = Exited(proc, p) /\ UNCHANGED short
                \/ /\ c.type = "EXEC" /\ Tok(c.argv, 1) = "export"
                   /\ UNCHANGED short
                   /\ \/ proc' = [proc EXCEPT ![p].envs = export(@, c.argv)]
                      \/ export_overrun(proc[p].envs, c.argv) /\ proc' = Exited(proc, p)
                \/ /\ ~cd /\ c # NoCmd /\ (c.type = "EXEC" => Tok(c.argv, 1) \notin {"", "export"})
                   /\ fork1(p, [proc[p] EXCEPT !.pc = "main_wait"], "runcmd", c, <<typed'>>)

main_wait(p) ==
    /\ Running(p, "main_wait") /\ wait(p, [proc[p] EXCEPT !.pc = "main"])
    /\ UNCHANGED <<script, typed, cmds, short>>

\* getcmd() finds the end of the input.
main_eof(p) ==
    /\ Running(p, "main") /\ typed = Len(script)
    /\ typed' = typed + 1
    /\ proc' = Exited(proc, p)
    /\ UNCHANGED <<script, cmds, short>>

---------------------------------------------------------------------------
\* runcmd(), one case each.
Todo(p, type) == Running(p, "runcmd") /\ proc[p].cmd.type = type

\* exec() of the word as it is, then in every variable's directory.
Found(envs, w) == \E d \in {""} \cup {envs[i].value : i \in DOMAIN envs} : <<d, w>> \in Programs

runcmd_exec(p) ==
    /\ Todo(p, "EXEC")
    /\ IF proc[p].cmd.argv # <<>> /\ Found(proc[p].envs, proc[p].cmd.argv[1])
       THEN proc' = [proc EXCEPT ![p].pc = "program"]
       ELSE proc' = Exited(proc, p)
    /\ UNCHANGED <<script, typed, cmds, short>>

runcmd_redir(p) ==
    /\ Todo(p, "REDIR")
    /\ LET c == proc[p].cmd
       IN  IF c.file \in BadFiles THEN proc' = Exited(proc, p)
           ELSE proc' = [proc EXCEPT ![p].fds = Opened(close(@, c.fd), File(c.file)),
                                     ![p].cmd = c.cmd, ![p].at = Append(@, "redir")]
    /\ UNCHANGED <<script, typed, cmds, short>>

runcmd_list(p) ==
    /\ Todo(p, "LIST")
    /\ fork1(p, [proc[p] EXCEPT !.pc = "list_wait"], "runcmd", proc[p].cmd.left, Append(proc[p].at, "first"))
    /\ UNCHANGED <<script, typed, cmds>>

\* Variant: no wait(0) before the right side.
vlist_wait(p) ==
    /\ Running(p, "list_wait")
    /\ proc' = [proc EXCEPT ![p].pc = "runcmd", ![p].cmd = @.right, ![p].at = Append(@, "then")]
    /\ UNCHANGED <<script, typed, cmds, short>>

list_wait(p) ==
    /\ Running(p, "list_wait")
    /\ wait(p, [proc[p] EXCEPT !.pc = "runcmd", !.cmd = @.right, !.at = Append(@, "then")])
    /\ UNCHANGED <<script, typed, cmds, short>>

\* pipe() and the first fork1(); panic("pipe") if the descriptors run out.
runcmd_pipe(p) ==
    /\ Todo(p, "PIPE")
    /\ LET me == proc[p]
       IN  IF Cardinality({d \in Fds : me.fds[d] = Closed}) < 2
           THEN proc' = Exited(proc, p) /\ UNCHANGED short
           ELSE LET fds == Opened(Opened(me.fds, ReadEnd(me.at)), WriteEnd(me.at))
                IN  fork1(p, [me EXCEPT !.pc = "pipe_right", !.fds = fds], "plumb_left", me.cmd.left,
                          Append(me.at, "left"))
    /\ UNCHANGED <<script, typed, cmds>>

CloseBoth(fds, at) == [d \in Fds |-> IF d \in Ends(fds, at) THEN Closed ELSE fds[d]]

\* The second fork1().
pipe_right(p) ==
    /\ Running(p, "pipe_right")
    /\ LET me == proc[p]
       IN  fork1(p, [me EXCEPT !.pc = "pipe_close"], "plumb_right", me.cmd.right, Append(me.at, "right"))
    /\ UNCHANGED <<script, typed, cmds>>

\* Variant: the write end stays open.
vpipe_close(p) ==
    /\ Running(p, "pipe_close")
    /\ proc' = [proc EXCEPT ![p].pc = "pipe_wait",
                            ![p].fds = [d \in Fds |-> IF @[d] = ReadEnd(proc[p].at) THEN Closed ELSE @[d]]]
    /\ UNCHANGED <<script, typed, cmds, short>>

pipe_close(p) ==
    /\ Running(p, "pipe_close")
    /\ proc' = [proc EXCEPT ![p].pc = "pipe_wait", ![p].fds = CloseBoth(@, proc[p].at)]
    /\ UNCHANGED <<script, typed, cmds, short>>

pipe_wait(p) ==
    /\ Running(p, "pipe_wait") /\ wait(p, [proc[p] EXCEPT !.pc = "pipe_wait2"])
    /\ UNCHANGED <<script, typed, cmds, short>>

pipe_wait2(p) ==
    /\ Running(p, "pipe_wait2") /\ wait(p, [proc[p] EXCEPT !.pc = "exit"])
    /\ UNCHANGED <<script, typed, cmds, short>>

\* Variant: the end that was duplicated is closed, the other one is not.
vPlumb(p, pc, d, end) ==
    /\ Running(p, pc)
    /\ LET at == Front(proc[p].at)
           dup == Opened(close(proc[p].fds, d), <<end, at>>)
       IN  proc' = [proc EXCEPT ![p].fds = [e \in Fds |-> IF e > 2 /\ dup[e] = <<end, at>> THEN Closed ELSE dup[e]],
                                ![p].pc = "runcmd"]
    /\ UNCHANGED <<script, typed, cmds, short>>

\* close(1); dup(p[1]); close(p[0]); close(p[1]), and the same on the right
\* with 0 and p[0].  The pipe belongs to the node above.
Plumb(p, pc, d, end) ==
    /\ Running(p, pc)
    /\ LET at == Front(proc[p].at)
           dup == Opened(close(proc[p].fds, d), <<end, at>>)
           old == Ends(proc[p].fds, at)
       IN  proc' = [proc EXCEPT ![p].fds = [e \in Fds |-> IF e \in old THEN Closed ELSE dup[e]],
                                ![p].pc = "runcmd"]
    /\ UNCHANGED <<script, typed, cmds, short>>

plumb_left(p) == Plumb(p, "plumb_left", 1, "write")
plumb_right(p) == Plumb(p, "plumb_right", 0, "read")

runcmd_back(p) ==
    /\ Todo(p, "BACK")
    /\ fork1(p, [proc[p] EXCEPT !.pc = "exit"], "runcmd", proc[p].cmd.cmd, Append(proc[p].at, "back"))
    /\ UNCHANGED <<script, typed, cmds>>

\* exit(0) behind the switch.
runcmd_exit(p) ==
    /\ Running(p, "exit")
    /\ proc' = Exited(proc, p)
    /\ UNCHANGED <<script, typed, cmds, short>>

\* A program ends when it has read its input: the end of a pipe is seen when
\* nobody has the other end any more.
Held(at) == \E q \in Slots : \E d \in Fds : proc[q].fds[d] = WriteEnd(at)

program(p) ==
    /\ Running(p, "program")
    /\ proc[p].fds[0][1] = "read" => ~Held(proc[p].fds[0][2])
    /\ proc' = Exited(proc, p)
    /\ UNCHANGED <<script, typed, cmds, short>>

---------------------------------------------------------------------------
\* init: fork and exec of the shell, which opens the console until it has
\* three descriptors and sets SHELL=/bin.
Fresh == [d \in Fds |-> IF d <= 2 THEN Console ELSE Closed]

init_fork ==
    /\ Running(Init1, "init_fork")
    /\ \E free \in {{q \in Slots : proc[q].st = "unused"}} :
         IF free = {} THEN proc' = Exited(proc, Init1)
         ELSE   proc' = [proc EXCEPT ![Init1].pc = "init_wait", ![Init1].at = <<Min(free)>>,
                                    ![Min(free)] = [Unused EXCEPT !.st = "running", !.parent = Init1, !.pc = "main",
                                                                  !.fds = Fresh,
                                                                  !.envs = <<[name |-> "SHELL", value |-> "/bin"]>>]]
    /\ UNCHANGED <<script, typed, cmds, short>>

\* init remembers the shell's pid (in at).
init_wait ==
    /\ Running(Init1, "init_wait")
    /\ \E q \in Slots :
         /\ proc[q].st = "zombie" /\ proc[q].parent = Init1
         /\ proc' = [proc EXCEPT ![q] = Unused,
                                 ![Init1].pc = IF <<q>> = proc[Init1].at THEN "init_fork" ELSE "init_wait"]
    /\ UNCHANGED <<script, typed, cmds, short>>

ShellInit ==
    /\ proc = [p \in Slots |->
                 IF p = Init1 THEN [Unused EXCEPT !.st = "running", !.pc = "init_fork", !.fds = Fresh] ELSE Unused]
    /\ script \in Scripts /\ typed = 0 /\ cmds = <<>> /\ short = FALSE

Steps(p) ==
    \/ main_wait(p)
    \/ runcmd_exec(p) \/ runcmd_redir(p) \/ runcmd_list(p) \/ list_wait(p)
    \/ runcmd_pipe(p) \/ pipe_right(p) \/ pipe_close(p) \/ pipe_wait(p) \/ pipe_wait2(p)
    \/ plumb_left(p) \/ plumb_right(p) \/ runcmd_back(p) \/ runcmd_exit(p) \/ program(p)

ShellNext ==
    \/ init_fork \/ init_wait
    \/ \E p \in Slots : main_line(p) \/ main_eof(p) \/ Steps(p)

\* Every process gets its turn; nobody has to type.
ShellFair == WF_shellVars(init_wait) /\ \A p \in Slots : WF_shellVars(Steps(p))

ShellSpec == ShellInit /\ [][ShellNext]_shellVars /\ WF_shellVars(init_fork) /\ ShellFair

---------------------------------------------------------------------------
\* parsecmd() accepts the lines of the grammar and no other, and gives the
\* one tree that the grammar has for the line.
ParsedAsGrammar ==
    [][cmds' # cmds =>
         LET new == Last(cmds') IN LineTrees(new.line) = IF new.cmd = NoCmd THEN {} ELSE {new.cmd}]_shellVars

\* What the descriptors should be at a place of the tree, without any open,
\* dup or close: a pipe changes 1 on the left and 0 on the right.
RECURSIVE Plumbing(_, _, _)
Plumbing(c, at, n) ==
    IF n > Len(at) THEN Fresh
    ELSE LET down == at[n]
             sub == CASE down \in {"left", "first"} -> c.left
                      [] down \in {"right", "then"} -> c.right
                      [] OTHER -> c.cmd
             below == Plumbing(sub, at, n + 1)
             here == CASE down = "left" -> [d |-> 1, what |-> WriteEnd(SubSeq(at, 1, n - 1))]
                       [] down = "right" -> [d |-> 0, what |-> ReadEnd(SubSeq(at, 1, n - 1))]
                       [] down = "redir" -> [d |-> c.fd, what |-> File(c.file)]
                       [] OTHER -> [d |-> 2, what |-> Console]
         IN  IF below[here.d] = Console THEN [below EXCEPT ![here.d] = here.what] ELSE below

\* A program starts with exactly the three descriptors that its place in the
\* line gives it, whatever pipes and files are open around it: no end of any
\* pipe is left open in it (runcmd(), cases PIPE and REDIR).
ProgramSeesItsPlace ==
    \A p \in Slots :
        Running(p, "program") => proc[p].fds = Plumbing(cmds[proc[p].at[1]].cmd, proc[p].at, 2)

\* a ; b: b starts when a, pipelines and lists in it included, has ended; only
\* what a puts into the background may still run.
ListInOrder ==
    short \/ \A p \in Slots : \A n \in {i \in 2 .. Len(proc[p].at) : proc[p].at[i] = "then"} :
        LET first == [SubSeq(proc[p].at, 1, n) EXCEPT ![n] = "first"]
            busy(q) == /\ proc[q].st = "running" /\ Len(proc[q].at) >= n
                       /\ SubSeq(proc[q].at, 1, n) = first
                       /\ \A m \in n + 1 .. Len(proc[q].at) : proc[q].at[m] # "back"
        IN  proc[p].st = "running" => \A q \in Slots : ~busy(q)

\* The prompt comes back: no process of a line waits for a pipe whose write
\* end another waiting process has kept.
PromptReturns ==
    (\E p \in Slots : Running(p, "main_wait")) ~> (\A p \in Slots : ~Running(p, "main_wait"))

=============================================================================
