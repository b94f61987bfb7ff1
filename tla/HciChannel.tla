----------------------------- MODULE HciChannel -----------------------------
(***************************************************************************)
(* What the HCI queues promise the session core: packets reach the         *)
(* controller, and events reach handleHciData, unchanged, once, and in the *)
(* order in which the queue took them.                                     *)
(***************************************************************************)
EXTENDS Sequences

CONSTANTS Packets, NoPacket

VARIABLES
    outgoing,   \* taken for the controller and not yet handed to it
    incoming,   \* taken from the controller and not yet handled
    sent,       \* the packet the controller was handed last
    handled     \* the packet handleHciData was given last

Init == outgoing = <<>> /\ incoming = <<>> /\ sent = NoPacket /\ handled = NoPacket

Submit ==
    /\ \E p \in Packets : outgoing' = Append(outgoing, p)
    /\ UNCHANGED <<incoming, sent, handled>>

Arrive ==
    /\ \E p \in Packets : incoming' = Append(incoming, p)
    /\ UNCHANGED <<outgoing, sent, handled>>

Transmit ==
    /\ outgoing # <<>>
    /\ sent' = Head(outgoing)
    /\ outgoing' = Tail(outgoing)
    /\ UNCHANGED <<incoming, handled>>

Handle ==
    /\ incoming # <<>>
    /\ handled' = Head(incoming)
    /\ incoming' = Tail(incoming)
    /\ UNCHANGED <<outgoing, sent>>

Next == Submit \/ Arrive \/ Transmit \/ Handle

vars == <<outgoing, incoming, sent, handled>>
Spec == Init /\ [][Next]_vars

=============================================================================
