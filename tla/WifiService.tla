---------------------------- MODULE WifiService ----------------------------
(***************************************************************************)
(* What Wi-Fi control promises its users: it is off, starting, ready, or   *)
(* closing to apply what a request asked; the server listens only while    *)
(* the service is wanted, always while it is ready, and at least until the *)
(* answer to the request at hand is sent.                                  *)
(***************************************************************************)

VARIABLES
    phase,      \* "off", "starting", "ready" or "closing"
    serving,    \* the HTTP server listens
    answering   \* a request is being handled

Init == phase = "off" /\ ~serving /\ ~answering

\* A command of the sketch or the serial line takes effect at once.
Order ==
    /\ ~answering
    /\ \/ phase = "closing" /\ UNCHANGED phase
       \/ phase # "closing" /\ phase' \in {"off", "starting"}
    /\ ~serving'
    /\ UNCHANGED answering

\* A request may ask for a stop or a restart; the server stays for its answer.
Ask ==
    /\ answering
    /\ phase' = "closing"
    /\ UNCHANGED <<serving, answering>>

Close ==
    /\ phase = "closing" /\ ~answering
    /\ phase' \in {"off", "starting"}
    /\ ~serving'
    /\ UNCHANGED answering

Listen ==
    /\ phase = "starting"
    /\ serving'
    /\ UNCHANGED <<phase, answering>>

BecomeReady ==
    /\ phase = "starting" /\ serving
    /\ phase' = "ready"
    /\ UNCHANGED <<serving, answering>>

GiveUp ==
    /\ phase = "starting" /\ ~serving
    /\ phase' = "off"
    /\ UNCHANGED <<serving, answering>>

Accept ==
    /\ serving /\ ~answering
    /\ answering'
    /\ UNCHANGED <<phase, serving>>

Answered ==
    /\ answering
    /\ ~answering'
    /\ UNCHANGED <<phase, serving>>

Next == Order \/ Ask \/ Close \/ Listen \/ BecomeReady \/ GiveUp \/ Accept \/ Answered

vars == <<phase, serving, answering>>
Spec == Init /\ [][Next]_vars

=============================================================================
