----------------------------- MODULE ShellParser -----------------------------
(***************************************************************************)
(* The parser of src/user/sh.c, over a line that is already cut into       *)
(* tokens: a word is any token that is not one of the symbols.  s is the   *)
(* line, i the place that *ps points to; a result is [cmd, i], or Failed   *)
(* where the code calls panic().  Trees() is the grammar, written down     *)
(* independently: the set of trees of a token sequence.                    *)
(***************************************************************************)
EXTENDS Integers, Sequences, SequencesExt

CONSTANT MAXARGS        \* 10 in the code

symbols == {"<", ">", ">>", "|", "&", ";", "(", ")"}
Directions == {"<", ">", ">>"}
IsWord(t) == t \notin symbols \cup {""}

\* "" stands for the character 0 at the end of the line.
Tok(s, i) == IF i <= Len(s) THEN s[i] ELSE ""
peek(s, i, toks) == Tok(s, i) \in toks

---------------------------------------------------------------------------
\* Constructors.  A redirection opens the file on descriptor 0 or 1.
NoCmd == [type |-> "none"]
execcmd(argv) == [type |-> "EXEC", argv |-> argv]
redircmd(c, tok, file) ==
    [type |-> "REDIR", cmd |-> c, file |-> file, mode |-> tok, fd |-> IF tok = "<" THEN 0 ELSE 1]
pipecmd(l, r) == [type |-> "PIPE", left |-> l, right |-> r]
listcmd(l, r) == [type |-> "LIST", left |-> l, right |-> r]
backcmd(c) == [type |-> "BACK", cmd |-> c]

Failed == [cmd |-> NoCmd, i |-> 0]

---------------------------------------------------------------------------
RECURSIVE parseline(_, _)
RECURSIVE parsepipe(_, _)
RECURSIVE parseredirs(_, _, _)
RECURSIVE parseargs(_, _, _, _)
RECURSIVE Ampersands(_, _, _)

\* panic("missing file for redirection")
parseredirs(c, s, i) ==
    CASE ~peek(s, i, Directions) -> [cmd |-> c, i |-> i]
      [] peek(s, i, Directions) /\ ~IsWord(Tok(s, i + 1)) -> Failed
      [] OTHER -> parseredirs(redircmd(c, s[i], s[i + 1]), s, i + 2)

\* The loop of parseexec(): the arguments go to the command inside ret.
RECURSIVE AddArg(_, _)
AddArg(c, w) == IF c.type = "REDIR" THEN [c EXCEPT !.cmd = AddArg(@, w)]
                ELSE [c EXCEPT !.argv = Append(@, w)]

parseargs(ret, argc, s, i) ==
    IF peek(s, i, {"|", ")", "&", ";", ""}) THEN [cmd |-> ret, i |-> i]
    ELSE IF ~IsWord(Tok(s, i)) \/ argc + 1 >= MAXARGS THEN Failed
    ELSE LET r == parseredirs(AddArg(ret, s[i]), s, i + 1)
         IN  IF r = Failed THEN Failed ELSE parseargs(r.cmd, argc + 1, s, r.i)

parseblock(s, i) ==
    LET r == parseline(s, i + 1)
    IN  IF r = Failed \/ ~peek(s, r.i, {")"}) THEN Failed ELSE parseredirs(r.cmd, s, r.i + 1)

parseexec(s, i) ==
    IF peek(s, i, {"("}) THEN parseblock(s, i)
    ELSE LET r == parseredirs(execcmd(<<>>), s, i)
         IN  IF r = Failed THEN Failed ELSE parseargs(r.cmd, 0, s, r.i)

\* Variant: a pipeline has two commands at most.
vparsepipe(s, i) ==
    LET l == parseexec(s, i)
        r == parseexec(s, l.i + 1)
    IN  CASE l = Failed \/ ~peek(s, l.i, {"|"}) -> l
          [] r = Failed -> Failed
          [] OTHER -> [cmd |-> pipecmd(l.cmd, r.cmd), i |-> r.i]

parsepipe(s, i) ==
    LET l == parseexec(s, i)
        r == parsepipe(s, l.i + 1)
    IN  CASE l = Failed \/ ~peek(s, l.i, {"|"}) -> l
          [] r = Failed -> Failed
          [] OTHER -> [cmd |-> pipecmd(l.cmd, r.cmd), i |-> r.i]

Ampersands(c, s, i) == IF peek(s, i, {"&"}) THEN Ampersands(backcmd(c), s, i + 1) ELSE [cmd |-> c, i |-> i]

parseline(s, i) ==
    LET p == parsepipe(s, i)
        l == IF p = Failed THEN Failed ELSE Ampersands(p.cmd, s, p.i)
        r == parseline(s, l.i + 1)
    IN  CASE l = Failed \/ ~peek(s, l.i, {";"}) -> l
          [] r = Failed -> Failed
          [] OTHER -> [cmd |-> listcmd(l.cmd, r.cmd), i |-> r.i]

\* "leftovers": what parseline() does not take.
parsecmd(s) ==
    LET r == parseline(s, 1)
    IN  IF r = Failed \/ r.i # Len(s) + 1 THEN NoCmd ELSE r.cmd

---------------------------------------------------------------------------
Before(s, i) == SubSeq(s, 1, i - 1)
After(s, i) == SubSeq(s, i + 1, Len(s))
At(s, t) == {i \in 1 .. Len(s) : s[i] = t}

\* line   ::= jobs | jobs ";" line        jobs ::= pipe | jobs "&"
\* pipe   ::= command | command "|" pipe
\* command::= simple | "(" line ")" redirections
RECURSIVE LineTrees(_)
RECURSIVE JobTrees(_)
RECURSIVE PipeTrees(_)

\* Every symbol is the operator of a redirection.
Redirections(s) == {i \in 1 .. Len(s) - 1 : s[i] \in Directions /\ IsWord(s[i + 1])}
IsSimple(s) == \A i \in 1 .. Len(s) : IsWord(s[i]) \/ i \in Redirections(s)
IsFile(s, i) == i - 1 \in Redirections(s)
Arguments(s) == {i \in 1 .. Len(s) : IsWord(s[i]) /\ ~IsFile(s, i)}

\* The first redirection is the innermost.
Wrapped(s, c) ==
    FoldLeft(LAMBDA d, i : redircmd(d, s[i], s[i + 1]), c, SetToSortSeq(Redirections(s), <))

Words(s) == [k \in DOMAIN SetToSortSeq(Arguments(s), <) |-> s[SetToSortSeq(Arguments(s), <)[k]]]

CommandTrees(s) ==
    (IF IsSimple(s) /\ Len(Words(s)) < MAXARGS THEN {Wrapped(s, execcmd(Words(s)))} ELSE {})
    \cup
    UNION {{Wrapped(After(s, j), c) : c \in LineTrees(SubSeq(s, 2, j - 1))} :
             j \in {j \in At(s, ")") : s[1] = "(" /\ IsSimple(After(s, j)) /\ Arguments(After(s, j)) = {}}}

PipeTrees(s) ==
    CommandTrees(s)
    \cup UNION {{pipecmd(l, r) : l \in CommandTrees(Before(s, i)), r \in PipeTrees(After(s, i))} : i \in At(s, "|")}

JobTrees(s) ==
    PipeTrees(s) \cup (IF Len(s) \in At(s, "&") THEN {backcmd(c) : c \in JobTrees(Before(s, Len(s)))} ELSE {})

LineTrees(s) ==
    JobTrees(s)
    \cup UNION {{listcmd(l, r) : l \in JobTrees(Before(s, i)), r \in LineTrees(After(s, i))} : i \in At(s, ";")}

=============================================================================
