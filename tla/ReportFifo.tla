----------------------------- MODULE ReportFifo -----------------------------
(***************************************************************************)
(* What the reports between the session core and the sketch go through: a  *)
(* queue that keeps their order and, when full, refuses the newest.        *)
(***************************************************************************)
EXTENDS Naturals, Sequences

CONSTANTS Items, Bound

VARIABLE queue

Init == queue = <<>>

Put == Len(queue) < Bound /\ \E r \in Items : queue' = Append(queue, r)

Take == queue # <<>> /\ queue' = Tail(queue)

Spec == Init /\ [][Put \/ Take]_queue

=============================================================================
