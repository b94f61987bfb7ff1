------------------------------ MODULE MCWebApi ------------------------------
(* Instances of WebApi for TLC. *)
EXTENDS WebApi, SequencesExt

Get(path) == [method |-> "GET", path |-> path, id |-> -1, auth |-> TRUE, body |-> <<>>]
Status(n) == [Get("command-status") EXCEPT !.id = n]
Post(path, body) ==
    [method |-> "POST", path |-> path, id |-> -1, auth |-> TRUE, body |-> body]
Denied(r) == [r EXCEPT !.auth = FALSE]

Verb(v) == <<"{", "command", ":", v, "}">>
With(key, value) == <<"{", "command", ":", "x", ",", key, ":", value, "}">>
Twice(key, v1, v2) ==
    <<"{", key, ":", v1, ",", key, ":", v2, ",", "command", ":", "x", "}">>
Both(k1, v1, k2, v2) ==
    <<"{", k1, ":", v1, ",", k2, ":", v2, ",", "command", ":", "x", "}">>

\* Each route with a good body, a bad one and one with a field missing.
Commands ==
    {Post("leds", With("mask", v)) : v \in {"7", "300"}}
    \cup {Post("reporting-mode", With("mode", v)) : v \in {"7", "x"}}
    \cup {Post(p, With("enabled", "1")) : p \in {"accelerometer", "reconnect-policy", "wifi-control"}}
    \cup {Post(p, Verb("x")) : p \in WiimoteRoutes \cup WifiRoutes}
    \cup {Post("scan", Verb(v)) : v \in {"scan_start", "scan_stop"}}
    \cup {Post("discovery", Verb(v)) : v \in {"discovery_start", "discovery_stop"}}
    \cup {Post("disconnect", With("reason", v)) : v \in {"7", "x"}}
    \cup {Post("delivery-mode", With("mode", v)) : v \in {"rest-ws", "7"}}
    \cup {Post("network", Both("ssid", "x", "password", v)) : v \in {"x", ""}}
    \cup {Post("token", With("token", v)) : v \in {"x", ""}}
    \cup {Post("leds", Twice("mask", v, "7")) : v \in {"x", "0"}}

Reads ==
    {Get(p) : p \in {"/", "openapi.json", "status", "input-events", "nowhere", "leds"}}
    \cup {Status(n) : n \in {-1, 0, 1, 2, 3}}

MCRequests ==
    Commands \cup Reads \cup {Denied(Post("disconnect", Verb("x"))), Denied(Get("/")), Denied(Status(1))}

\* Every body of few tokens, everything short that may follow one member or
\* two, and an object of three with one token missing or replaced.
Alphabet == {ObjectStart, ObjectEnd, Colon, Comma, Error, "command", "mask", ""}
Upto(n) == UNION {[1..k -> Alphabet] : k \in 0..n}
OneMember == <<"{", "command", ":", "mask">>
OneMore == <<",", "mask", ":", "7">>
TwoMembers == OneMember \o OneMore
ThreeMembers == TwoMembers \o <<",", "command", ":", "leds", "}">>
Damaged(body) ==
    {RemoveAt(body, i) : i \in DOMAIN body}
    \cup {ReplaceAt(body, i, token) : i \in DOMAIN body, token \in Alphabet}
MCFirstRequests ==
    {Post("leds", body) : body \in
        Upto(3) \cup {OneMember \o e : e \in Upto(3)} \cup {TwoMembers \o e : e \in Upto(2)}
        \cup {TwoMembers \o OneMore \o e : e \in Upto(1)}
        \cup {TwoMembers \o OneMore \o OneMore \o e : e \in Upto(1)}
        \cup Damaged(ThreeMembers)}

MCContexts ==
    {[queue |-> FALSE, stream |-> FALSE, tokenMutation |-> FALSE],
     [queue |-> TRUE, stream |-> TRUE, tokenMutation |-> TRUE]}
=============================================================================
