----------------------------- MODULE LineService -----------------------------
(***************************************************************************)
(* What the serial line promises a terminal: its lines are taken one at a  *)
(* time and in order, each as a whole; one that is longer than the limit   *)
(* is taken as too long, never as its beginning or its end.  Only when the *)
(* sketch switches serial control off does the line it has begun to read   *)
(* lose what was read of it.                                               *)
(***************************************************************************)
EXTENDS Naturals, Sequences

CONSTANTS
    Pieces,     \* what a terminal may send in one go
    Limit,      \* words of the longest line
    TooLong     \* stands for every longer line

VARIABLES
    lines,      \* complete lines not yet taken
    current,    \* what has arrived of the next one
    begun,      \* the oldest of these lines has been read in part
    taken       \* the line the last step took, or <<>>

vars == <<lines, current, begun, taken>>

Extend(line, p) ==
    IF line = TooLong THEN TooLong
    ELSE IF Len(line) + Len(p) > Limit THEN TooLong ELSE line \o p

Init == lines = <<>> /\ current = <<>> /\ begun = FALSE /\ taken = <<>>

Arrive ==
    /\ \E p \in Pieces :
         \/ current' = Extend(current, p) /\ UNCHANGED lines
         \/ lines' = Append(lines, Extend(current, p)) /\ current' = <<>>
    /\ taken' = <<>>
    /\ UNCHANGED begun

Read == begun' \in BOOLEAN /\ (begun => begun') /\ taken' = <<>> /\ UNCHANGED <<lines, current>>

Take ==
    /\ lines # <<>>
    /\ taken' = Head(lines) /\ lines' = Tail(lines)
    /\ begun' = FALSE
    /\ UNCHANGED current

Cut ==
    /\ begun /\ begun' = FALSE
    /\ IF lines = <<>> THEN lines' = <<>>
       ELSE /\ Len(lines') = Len(lines) /\ Tail(lines') = Tail(lines)
            /\ UNCHANGED current
    /\ taken' = <<>>

\* Nothing arrives and nothing is taken: the last line has been seen to.
Rest == taken' = <<>> /\ UNCHANGED <<lines, current, begun>>

Spec == Init /\ [][Arrive \/ Read \/ Take \/ Cut \/ Rest]_vars

=============================================================================
