------------------------------- MODULE MCPipes -------------------------------
(***************************************************************************)
(* An instance for TLC of pipes, as the kernel keeps them (Pipe) and as    *)
(* the shell connects programs with them (Shell).  A behaviour of Parts is *)
(* one of the one or of the other.                                         *)
(***************************************************************************)
EXTENDS Pipe, Shell

CONSTANTS a, b

VARIABLE part

\* One byte, and more than a ring of two holds.
MCWrites == {<<a>>, <<b, a, b>>}

\* All lines of up to three tokens, longer ones that have the cases, and
\* scripts of several lines for what the shell keeps from line to line.
MCTokens == {"a", "<", ">", "|", "&", ";", "(", ")"}
MCShort == UNION {[1 .. n -> MCTokens] : n \in 0 .. 3}
MCLong ==
    {<<"(", "a", ";", "a", ")", "|", "a">>, <<"(", "a", "|", "a", ")", ";", "a">>,
     <<"a", "|", "a", "&">>, <<"(", "a", "|", "a", ")", ">", "f">>, <<"(", "a", "&", ")", "|", "a">>,
     <<"a", ">", "f", ">>", "g">>, <<"a", "<", "bad">>, <<"a", "a", "a">>, <<"a", "&", ";", "a">>,
     <<"a", "&", "&", ";", "a">>, <<"x">>, <<"b">>, <<"cd", "f">>, <<"cd">>, <<"export">>,
     <<"(", "(", "a", ")", ")">>, <<"a", "|", "(", "a", ";", "a", ")", "<", "f">>}
MCSet == <<"export", "N=b">>
MCUse == <<"$N", "&">>
MCScripts ==
    {<<l>> : l \in MCShort \cup MCLong}
    \cup {<<MCUse>>, <<MCSet, MCUse>>, <<MCSet, MCSet, MCUse>>, <<<<"export", "bad=">>, MCUse>>,
          <<<<"export", "a">>, MCSet, MCUse>>, <<<<"export", "-p">>>>,
          <<<<"a", "&">>, <<"a", "|", "b", "|", "a">>>>, <<<<"(">>, MCSet, MCUse>>}
MCPrograms == {<<"", "a">>, <<"/bin", "b">>}
MCAssignments ==
    [w \in {"N=b", "bad="} |->
        IF w = "N=b" THEN [name |-> "N", value |-> "b"] ELSE [name |-> "", value |-> ""]]

PartsInit ==
    /\ part \in {"pipe", "shell"} /\ Init /\ ShellInit
    /\ part = "pipe" => script = <<MCUse>>
PipeStep == part = "pipe" /\ Next /\ UNCHANGED <<part, shellVars>>
ShellStep == part = "shell" /\ ShellNext /\ UNCHANGED <<part, vars>>

\* The fairness of each part holds while it is the one that runs.
Piping == part = "pipe"
Shelling == part = "shell"
Parts ==
    /\ PartsInit /\ [][PipeStep \/ ShellStep]_<<part, vars, shellVars>>
    /\ \A p \in Procs : WF_vars(Piping /\ Step(p)) /\ WF_vars(Piping /\ ExitKilled(p))
    /\ WF_shellVars(Shelling /\ init_fork) /\ WF_shellVars(Shelling /\ init_wait)
    /\ \A p \in Slots : WF_shellVars(Shelling /\ Steps(p))
=============================================================================
