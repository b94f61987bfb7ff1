--------------------------- MODULE MCSerialControl ---------------------------
(* Instances of SerialControl for TLC. *)
EXTENDS SerialControl

\* Every verb, with good, bad and missing arguments.
Commands ==
    {<<"wm">>, <<"wm", "nonsense">>, <<"hello", "led">>, <<"wm", "wifi-status">>,
     <<"wm", "status">>, <<"wm", "request-status">>, <<"wm", "wifi-restart">>,
     <<"wm", "disconnect">>, <<"wm", "disconnect", "x">>,
     <<"wm", "mode", "7", "on">>, <<"wm", "mode", "7", "x">>,
     <<"wm", "reconnect", "clear">>, <<"wm", "reconnect", "on">>,
     <<"wm", "discover", "start">>, <<"wm", "discover", "stop">>, <<"wm", "discover", "x">>,
     <<"wm", "scan", "0">>, <<"wm", "wifi-mode", "rest">>,
     <<"wm", "wifi-set-network", "x", "x">>,
     <<"wm", "wifi-set-token", "x">>}
    \cup {<<"wm", v, w>> : v \in {"led", "accel", "scan", "wifi-control"}, w \in {"on", "7"}}
    \cup {<<"wm", v>> : v \in {"led", "discover"}}

Unlocks ==
    {<<"wm", "unlock", "token">>, <<"wm", "unlock", "other">>,
     <<"wm", "unlock", "token", "0">>, <<"wm", "unlock", "token", "7">>,
     <<"wm", "unlock", "token", "x">>}

\* A command behind too many words, and at the end of a line too long.
LongLines ==
    {<<"wm", "led", "7", "x", "x", "x">>, <<"x", "x", "x", "x", "x", "wm", "led", "7">>}

MCSplitLines == LongLines \cup {<<"wm", "led", "7">>}
MCLines == Commands \cup Unlocks \cup LongLines \cup MCSplitLines
=============================================================================
