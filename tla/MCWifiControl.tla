--------------------------- MODULE MCWifiControl ---------------------------
EXTENDS WifiControl

Configuration(serial, api, fallback, wifi, m, n) ==
    [serial |-> serial, api |-> api, fallback |-> fallback, wifi |-> wifi, mode |-> m, network |-> n]

\* An enabled configuration, one that leaves everything out, and one that asks
\* for the websocket.
SomeConfigurations ==
    {Configuration(TRUE, TRUE, TRUE, TRUE, "RestOnly", "station"),
     Configuration(FALSE, FALSE, TRUE, FALSE, "RestOnly", "none"),
     Configuration(TRUE, FALSE, FALSE, FALSE, "RestAndWebSocket", "station")}

\* The token comes from the serial one.
FallbackConfigurations ==
    {Configuration(TRUE, FALSE, TRUE, TRUE, "RestOnly", "station")}

=============================================================================
