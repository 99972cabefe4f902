--------------------------- MODULE LineDiscipline ---------------------------
(***************************************************************************)
(* What the console promises: characters are edited in a line; a finished  *)
(* line can no longer be changed and is handed out in order, never beyond  *)
(* its end in one piece.                                                   *)
(***************************************************************************)
EXTENDS Naturals, Sequences, SequencesExt

CONSTANTS Chars,        \* ordinary characters
          NL, EOF,      \* newline and control-d
          Size          \* characters that the console holds

VARIABLES done,         \* finished and not yet read
          edit,         \* the line that is being typed
          taken         \* the piece handed out last

lineVars == <<done, edit, taken>>

LineInit == done = <<>> /\ edit = <<>> /\ taken = <<>>

\* A character joins the line; the line is finished by newline, control-d, or
\* when there is no room for more.
Typed(c) ==
    /\ Len(done) + Len(edit) < Size
    /\ IF c \in {NL, EOF} \/ Len(done) + Len(edit) + 1 = Size
       THEN done' = done \o Append(edit, c) /\ edit' = <<>>
       ELSE edit' = Append(edit, c) /\ UNCHANGED done
    /\ UNCHANGED taken

Erased == edit # <<>> /\ edit' = Front(edit) /\ UNCHANGED <<done, taken>>
Killed == edit' = <<>> /\ UNCHANGED <<done, taken>>

\* A piece is handed out: newline only at its end, control-d not at all.  The
\* character behind it may be lost with it: control-d alone, or one that
\* could not be copied.
HandedOut ==
    \E line \in {done} : \E k \in 0 .. Len(line), lost \in 0 .. 1 :
        /\ k + lost <= Len(line)
        /\ \A i \in 1 .. k : line[i] # EOF /\ (line[i] = NL => i = k)
        /\ lost = 1 /\ line[k + 1] = EOF => k = 0
        /\ taken' = SubSeq(line, 1, k)
        /\ done' = SubSeq(line, k + lost + 1, Len(line))
        /\ UNCHANGED edit

LineNext == (\E c \in Chars \cup {NL, EOF} : Typed(c)) \/ Erased \/ Killed \/ HandedOut

LineSpec == LineInit /\ [][LineNext]_lineVars

=============================================================================
