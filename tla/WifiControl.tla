---------------------------- MODULE WifiControl ----------------------------
(***************************************************************************)
(* The Wi-Fi control lifecycle of ESP32Wiimote.cpp and the HTTP server it  *)
(* owns (wifi/http_server.cpp): the staged start that one call of task()   *)
(* advances by one stage, the commands that stop or restart it, and the    *)
(* requests that reach those commands from inside the server's own         *)
(* handler.                                                                *)
(*                                                                         *)
(* pc is the place in the main loop: the sketch's own code, then task():   *)
(* the serial line, processWifiControl, the poll of the HTTP server and,   *)
(* when a client waits, the dispatch of its request and the reply.         *)
(***************************************************************************)
EXTENDS Integers

CONSTANTS
    Configurations,  \* what the sketch passes to the constructor and to configure()
    Sources,         \* who issues lifecycle commands
    Faults           \* the failures the network and the server may produce

Modes == {"RestOnly", "RestAndWebSocket"}
Networks == {"none", "mockFail", "station"}   \* no credentials, ssid "__fail__", any other
Tokens == {"none", "serial", "api"}

\* ESP32WiimoteConfig: whether each token is given, the fallback and the wifi block
Config == [serial : BOOLEAN, api : BOOLEAN, fallback : BOOLEAN,
           wifi : BOOLEAN, mode : Modes, network : Networks]

ASSUME WifiControlAssumption ==
    /\ Configurations \subseteq Config
    /\ Sources \subseteq {"sketch", "setup", "configure", "serial", "web"}
    /\ Faults \subseteq {"join", "bind"}

VARIABLES
    pc,             \* the step of the main loop
    config,         \* config_, networkCredentials_ and wifiEnabled_ (= config_.wifi.enabled)
    token,          \* what wifiApiToken_ points to
    mode,           \* wifiDeliveryMode_
    enabled,        \* wifiControlEnabled_
    pending,        \* wifiLifecycleStopPending_, wifiLifecycleRestartPending_
    life,           \* the lifecycle flags that resetWifiLifecycleState clears
    http,           \* the server's started_
    station,        \* the join WiFi.begin started, against the 15 s timer
    request,        \* the request being dispatched
    status          \* its response

settings == <<config, token>>
lifecycle == <<mode, enabled, pending, life, http>>
exchange == <<request, status>>
vars == <<pc, settings, lifecycle, station, exchange>>

----------------------------------------------------------------------------
Stages == {"StartWifi", "WaitNetworkConnected", "RegisterStaticRoutes", "RegisterApiRoutes",
           "RegisterWebSocketRoutes", "Ready"}
Routes == {"static", "api", "websocket"}

Lifecycles == [initializing : BOOLEAN, ready : BOOLEAN, attempted : BOOLEAN, joined : BOOLEAN,
               joinFailed : BOOLEAN, stage : Stages, layer : BOOLEAN, routes : SUBSET Routes,
               serverStarted : BOOLEAN, bindFailed : BOOLEAN]

\* the constructor's values
Fresh == [initializing |-> FALSE, ready |-> FALSE, attempted |-> FALSE, joined |-> FALSE,
          joinFailed |-> FALSE, stage |-> "StartWifi", layer |-> FALSE, routes |-> {},
          serverStarted |-> FALSE, bindFailed |-> FALSE]

\* Mutated form: the reset forgets wifiInitStage_.
Stopped_KeepsStage == [Fresh EXCEPT !.stage = life.stage]

\* resetWifiLifecycleState
Stopped == Fresh

\* The lifecycle commands; "other" is every request that changes nothing here.
Operation ==
    [op : {"enable", "disable", "restart", "other"}, mode : {"RestOnly"}, network : {"none"}]
    \cup [op : {"mode"}, mode : Modes, network : {"none"}]
    \cup [op : {"network"}, mode : {"RestOnly"}, network : Networks \ {"none"}]

Request == [operation : Operation, token : Tokens]
NoRequest == [operation |-> [op |-> "other", mode |-> "RestOnly", network |-> "none"],
              token |-> "none"]
Replies == {"none", "done", "unauthorized", "rejected"}

ActiveToken(c) ==
    IF c.api THEN "api" ELSE IF c.fallback /\ c.serial THEN "serial" ELSE "none"

Init ==
    /\ pc = "sketch"
    /\ config \in Configurations
    /\ token = ActiveToken(config)
    /\ mode = config.mode
    /\ enabled = FALSE /\ pending = "none" /\ life = Fresh /\ http = FALSE
    /\ station = "idle"
    /\ request = NoRequest /\ status = "none"

----------------------------------------------------------------------------
(* The commands, shared by the sketch, the serial line and the requests.   *)

\* Mutated form: a command acts at once even inside the server's own handler
QueueLifecycleAction_AtOnce(restart) ==
    /\ life' = [Stopped EXCEPT !.initializing = restart]
    /\ http' = FALSE
    /\ UNCHANGED pending

StopHttpServer == http' = FALSE

\* A stop or restart asked for by a request waits for the next task(); any
\* other is done at once, and leaves an older pending one in place.
QueueLifecycleAction(restart) ==
    \/ /\ pc = "dispatch"
       /\ pending' = IF restart THEN "restart" ELSE "stop"
       /\ UNCHANGED <<life, http>>
    \/ /\ pc # "dispatch"
       /\ life' = [Stopped EXCEPT !.initializing = restart]
       /\ StopHttpServer
       /\ UNCHANGED pending

\* Mutated form: a disabled lifecycle keeps its server
Disable_KeepsServer(m) ==
    /\ mode' = m
    /\ enabled' = FALSE
    /\ UNCHANGED <<pending, life, http, settings>>

\* enableWifiControl(false, m)
Disable(m) ==
    /\ mode' = m
    /\ enabled' = FALSE
    /\ QueueLifecycleAction(FALSE)
    /\ UNCHANGED settings

\* enableWifiControl(true, m)
Enable(m) ==
    /\ mode' = m
    /\ config' = [config EXCEPT !.wifi = TRUE]
    /\ \/ /\ enabled /\ life.ready /\ mode = m
          /\ UNCHANGED <<enabled, pending, life, http>>
       \/ /\ ~(enabled /\ life.ready /\ mode = m)
          /\ enabled' = TRUE
          /\ QueueLifecycleAction(TRUE)
    /\ UNCHANGED token

RestartIfEnabled ==
    \/ enabled /\ QueueLifecycleAction(TRUE)
    \/ ~enabled /\ UNCHANGED <<pending, life, http>>

\* Mutated form: the mode changes without a restart of the stages
SetDeliveryMode_NoRestart(m) ==
    /\ config' = [config EXCEPT !.mode = m]
    /\ mode' = m
    /\ UNCHANGED <<enabled, token, pending, life, http>>

SetDeliveryMode(m) ==
    /\ config' = [config EXCEPT !.mode = m]
    /\ mode' = m
    /\ RestartIfEnabled
    /\ UNCHANGED <<enabled, token>>

UpdateNetworkCredentials(n) ==
    /\ config' = [config EXCEPT !.network = n]
    /\ RestartIfEnabled
    /\ UNCHANGED <<mode, enabled, token>>

Restart ==
    /\ RestartIfEnabled
    /\ UNCHANGED <<mode, enabled, settings>>

\* The serial line and the requests have no mode of their own: they enable and
\* disable with the mode of config_.
RemoteOperation(o) ==
    \/ o.op = "enable" /\ Enable(config.mode)
    \/ o.op = "disable" /\ Disable(config.mode)
    \/ o.op = "mode" /\ SetDeliveryMode(o.mode)
    \/ o.op = "network" /\ UpdateNetworkCredentials(o.network)
    \/ o.op = "restart" /\ Restart
    \/ o.op = "other" /\ UNCHANGED <<settings, lifecycle>>

----------------------------------------------------------------------------
(* The sketch.                                                             *)

SketchEnables == \E m \in Modes : Enable(m)
SketchDisables == \E m \in Modes : Disable(m)

\* The sketch alone may replace the token.
SketchUpdatesToken ==
    /\ config' = [config EXCEPT !.api = TRUE]
    /\ token' = "api"
    /\ UNCHANGED lifecycle

SketchCommand ==
    /\ pc = "sketch" /\ "sketch" \in Sources
    /\ \/ SketchEnables
       \/ SketchDisables
       \/ SketchUpdatesToken
       \/ Restart
       \/ \E m \in Modes : SetDeliveryMode(m)
       \/ \E n \in Networks \ {"none"} : UpdateNetworkCredentials(n)
    /\ UNCHANGED <<pc, station, exchange>>

\* configure(c): what c omits keeps its value
Merged(c) ==
    [serial |-> config.serial \/ c.serial,
     api |-> config.api \/ c.api,
     fallback |-> IF c.serial \/ c.api \/ ~c.fallback THEN c.fallback ELSE config.fallback,
     wifi |-> config.wifi \/ c.wifi,
     mode |-> IF c.mode = "RestAndWebSocket" THEN c.mode ELSE config.mode,
     network |-> IF c.network = "none" THEN config.network ELSE c.network]

\* "setup" is the documented use, before Wi-Fi control is enabled.
Configure(c) ==
    /\ pc = "sketch"
    /\ "configure" \in Sources \/ ("setup" \in Sources /\ ~enabled /\ pending = "none")
    /\ config' = Merged(c)
    /\ token' = ActiveToken(Merged(c))
    /\ mode' = Merged(c).mode
    /\ \/ /\ ~Merged(c).wifi
          /\ enabled' = FALSE
          /\ QueueLifecycleAction(FALSE)
       \/ /\ Merged(c).wifi
          /\ UNCHANGED <<enabled, pending, life, http>>
    /\ UNCHANGED <<pc, station, exchange>>

----------------------------------------------------------------------------
(* task().                                                                 *)

ApplyQueuedLifecycleAction ==
    /\ pc = "sketch" /\ pc' = "serial"
    /\ \/ pending = "none" /\ UNCHANGED <<life, http>>
       \/ /\ pending # "none"
          /\ life' = [Stopped EXCEPT !.initializing = (pending = "restart")]
          /\ StopHttpServer
    /\ pending' = "none"
    /\ UNCHANGED <<settings, mode, enabled, station, exchange>>

\* At most one line of the serial port; none before the Bluetooth controller runs.
ProcessSerialControl ==
    /\ pc = "serial" /\ pc' = "process"
    /\ \E o \in Operation :
        /\ o.op = "other" \/ "serial" \in Sources
        /\ RemoteOperation(o)
    /\ UNCHANGED <<station, exchange>>

\* The start has failed: the lifecycle is disabled and the flag says why.
Fail(l) ==
    /\ enabled' = FALSE
    /\ life' = [l EXCEPT !.initializing = FALSE]

Advance(l, stage) ==
    /\ life' = [l EXCEPT !.initializing = TRUE, !.stage = stage]
    /\ UNCHANGED enabled

StartWifi ==
    /\ life.stage = "StartWifi"
    /\ UNCHANGED http
    /\ \/ /\ config.network # "station"
          /\ Fail([life EXCEPT !.attempted = TRUE, !.joinFailed = TRUE])
          /\ UNCHANGED station
       \/ /\ config.network = "station"
          /\ Advance([life EXCEPT !.attempted = TRUE, !.joined = FALSE, !.joinFailed = FALSE,
                                  !.layer = TRUE], "WaitNetworkConnected")
          /\ station' = "joining"

\* Mutated form: the timeout stops the lifecycle without its flag
WaitNetworkConnected_SilentTimeout ==
    /\ life.stage = "WaitNetworkConnected"
    /\ \/ /\ station = "joined"
          /\ Advance([life EXCEPT !.joined = TRUE, !.joinFailed = FALSE], "RegisterStaticRoutes")
       \/ station = "expired" /\ Fail(life)
       \/ station \notin {"joined", "expired"} /\ Advance(life, life.stage)
    /\ UNCHANGED <<http, station>>

\* Mutated form: the join has no timeout
WaitNetworkConnected_NoTimeout ==
    /\ life.stage = "WaitNetworkConnected"
    /\ \/ /\ station = "joined"
          /\ Advance([life EXCEPT !.joined = TRUE, !.joinFailed = FALSE], "RegisterStaticRoutes")
       \/ station # "joined" /\ Advance(life, life.stage)
    /\ UNCHANGED <<http, station>>

\* A join that comes after the timer, before the stage looks, still counts.
WaitNetworkConnected ==
    /\ life.stage = "WaitNetworkConnected"
    /\ \/ /\ station = "joined"
          /\ Advance([life EXCEPT !.joined = TRUE, !.joinFailed = FALSE], "RegisterStaticRoutes")
       \/ station = "expired" /\ Fail([life EXCEPT !.joinFailed = TRUE])
       \/ station \notin {"joined", "expired"} /\ Advance(life, life.stage)
    /\ UNCHANGED <<http, station>>

RegisterStaticRoutes ==
    /\ life.stage = "RegisterStaticRoutes"
    /\ Advance([life EXCEPT !.routes = @ \cup {"static"}], "RegisterApiRoutes")
    /\ UNCHANGED <<http, station>>

\* startWifiHttpServer: a server that runs is kept; a new one fails when begin()
\* has no memory for it.
StartHttpServer(up) ==
    /\ http' = up
    /\ life.serverStarted \/ http \/ "bind" \notin Faults => up

\* Mutated form: the result of startWifiHttpServer is ignored
RegisterApiRoutes_IgnoresServer ==
    /\ life.stage = "RegisterApiRoutes"
    /\ http' \in BOOLEAN /\ StartHttpServer(http')
    /\ Advance([life EXCEPT !.routes = @ \cup {"api"}, !.serverStarted = http',
                            !.bindFailed = ~http'],
               IF mode = "RestAndWebSocket" THEN "RegisterWebSocketRoutes" ELSE "Ready")
    /\ UNCHANGED station

RegisterApiRoutes ==
    /\ life.stage = "RegisterApiRoutes"
    /\ LET served == [life EXCEPT !.routes = @ \cup {"api"}] IN
       \/ /\ StartHttpServer(TRUE)
          /\ Advance([served EXCEPT !.serverStarted = TRUE, !.bindFailed = FALSE],
                     IF mode = "RestAndWebSocket" THEN "RegisterWebSocketRoutes" ELSE "Ready")
       \/ /\ StartHttpServer(FALSE)
          /\ Fail([served EXCEPT !.serverStarted = FALSE, !.bindFailed = TRUE])
    /\ UNCHANGED station

RegisterWebSocketRoutes ==
    /\ life.stage = "RegisterWebSocketRoutes"
    /\ Advance([life EXCEPT !.routes = @ \cup {"websocket"}], "Ready")
    /\ UNCHANGED <<http, station>>

BecomeReady ==
    /\ life.stage = "Ready"
    /\ life' = [life EXCEPT !.initializing = FALSE, !.ready = TRUE]
    /\ UNCHANGED <<enabled, http, station>>

ProcessWifiControl ==
    /\ pc = "process" /\ pc' = "poll"
    /\ \/ /\ ~enabled \/ ~config.wifi \/ life.ready
          /\ UNCHANGED <<enabled, life, http, station>>
       \/ /\ enabled /\ config.wifi /\ ~life.ready
          /\ \/ StartWifi \/ WaitNetworkConnected \/ RegisterStaticRoutes
             \/ RegisterApiRoutes \/ RegisterWebSocketRoutes \/ BecomeReady
    /\ UNCHANGED <<settings, mode, pending, exchange>>

\* WifiHttpServer::poll, with and without a client waiting
Poll ==
    /\ pc = "poll"
    /\ \/ pc' = "sketch" /\ UNCHANGED request
       \/ /\ http /\ "web" \in Sources
          /\ pc' = "dispatch"
          /\ request' \in Request
    /\ UNCHANGED <<settings, lifecycle, station, status>>

\* makeWebApiContext and webAuthValidate: the token the router asks for
ContextToken == IF config.api THEN "api" ELSE "none"
Authorised == request.token # "none" /\ request.token = ContextToken

\* handleWifiHttpRequest, inside the server's own call of the handler
Dispatch ==
    /\ pc = "dispatch" /\ pc' = "reply"
    /\ \/ /\ ~Authorised
          /\ status' = "unauthorized"
          /\ UNCHANGED <<settings, lifecycle>>
       \/ /\ Authorised
          /\ RemoteOperation(request.operation)
          /\ status' = IF request.operation.op = "restart" /\ ~enabled THEN "rejected" ELSE "done"
       \/ /\ request.operation.op = "other"   \* tryServeStatic asks for no token
          /\ status' = "done"
          /\ UNCHANGED <<settings, lifecycle>>
    /\ UNCHANGED <<station, request>>

\* activeServer->send; the server would be gone had the handler ended it
Reply ==
    /\ pc = "reply" /\ pc' = "sketch"
    /\ request' = NoRequest /\ status' = "none"
    /\ UNCHANGED <<settings, lifecycle, station>>

----------------------------------------------------------------------------
\* The radio joins, or 15 s pass first; it may still join after that.
StationSettles ==
    /\ \/ station \in {"joining", "expired"} /\ station' = "joined"
       \/ station = "joining" /\ "join" \in Faults /\ station' = "expired"
    /\ UNCHANGED <<pc, settings, lifecycle, exchange>>

Task == \/ ApplyQueuedLifecycleAction \/ ProcessSerialControl \/ ProcessWifiControl
        \/ Poll \/ Dispatch \/ Reply
Sketch == SketchCommand \/ \E c \in Configurations : Configure(c)
Next == Sketch \/ Task \/ StationSettles

Spec == Init /\ [][Next]_vars

\* The main loop calls task() for ever, the join ends or times out.
FairSpec == Spec /\ WF_vars(Task) /\ WF_vars(station = "joining" /\ StationSettles)

----------------------------------------------------------------------------
(* Properties.                                                             *)

TypeOK ==
    /\ pc \in {"sketch", "serial", "process", "poll", "dispatch", "reply"}
    /\ config \in Config
    /\ token \in Tokens
    /\ mode \in Modes
    /\ enabled \in BOOLEAN
    /\ pending \in {"none", "stop", "restart"}
    /\ life \in Lifecycles
    /\ http \in BOOLEAN
    /\ station \in {"idle", "joining", "joined", "expired"}
    /\ request \in Request
    /\ status \in Replies

\* The server outlives the request it is dispatching: a request that stops or
\* restarts Wi-Fi control must not delete the server whose handler runs it, nor
\* lose its own answer (isDispatchingRequest in queueWifiLifecycleAction).
RequestKeepsServer == pc \in {"dispatch", "reply"} => http

\* Wi-Fi control is ready only with a server that listens, after a join, with
\* the pages and the API registered, and never while it still initialises
\* (isWifiControlReady, whatever commands came between the stages).
ReadyIsServing ==
    life.ready =>
        /\ http /\ life.serverStarted
        /\ life.joined /\ ~life.joinFailed /\ ~life.bindFailed /\ ~life.initializing
        /\ {"static", "api"} \subseteq life.routes
        /\ enabled \/ pending # "none"

\* the stages past the join, and those past the start of the server
Joined == {"RegisterStaticRoutes", "RegisterApiRoutes", "RegisterWebSocketRoutes", "Ready"}
Listening == {"RegisterWebSocketRoutes", "Ready"}

\* The flags and the server agree with the stage reached, across every reset:
\* what getWifiControlState reports is what the stages did since the last one.
StageProgress ==
    /\ life.stage # "StartWifi" => life.attempted /\ life.layer
    /\ life.stage \in Joined <=> life.joined
    /\ life.joinFailed => life.stage \in {"StartWifi", "WaitNetworkConnected"}
    /\ life.bindFailed => life.stage = "RegisterApiRoutes"
    /\ ("static" \in life.routes) <=> (life.stage \in Joined \ {"RegisterStaticRoutes"})
    /\ ("api" \in life.routes) <=> (life.stage \in Listening \/ life.bindFailed)
    /\ http <=> life.stage \in Listening
    /\ http <=> life.serverStarted
    /\ life.ready => life.stage = "Ready"

\* A ready lifecycle that no restart awaits offers the websocket routes exactly
\* when its delivery mode asks for them.
ReadyMatchesMode ==
    life.ready /\ pending = "none"
        => (("websocket" \in life.routes) <=> (mode = "RestAndWebSocket"))

\* A lifecycle that was started and is off again, without a command, says why;
\* one that is on or stopped by a command reports no failure.
FailureIsReported ==
    pending = "none" =>
        ((life.joinFailed \/ life.bindFailed) <=> (life.attempted /\ ~enabled))

\* A command changes the lifecycle outside ProcessWifiControl and the loop's own steps.
Command ==
    /\ \/ pc = "sketch" /\ pc' = "sketch"
       \/ pc \in {"serial", "dispatch"}
    /\ <<config, lifecycle>>' # <<config, lifecycle>>

\* Once the commands cease, a lifecycle that is enabled becomes ready or gives
\* up, however the join and the server turn out: no stage waits for ever.
StartSettles ==
    <>[][~Command]_vars => (enabled ~> (life.ready \/ ~enabled))

\* API.md:113-114: a request that bears the token in force, the fallback
\* included, is not refused as unauthorised.
TokenInForceIsAccepted ==
    pc = "reply" /\ token # "none" /\ request.token = token => status # "unauthorized"

\* What a user of Wi-Fi control may rely on.
Phase == IF pending # "none" THEN "closing"
         ELSE IF ~enabled THEN "off"
         ELSE IF life.ready THEN "ready" ELSE "starting"

Service == INSTANCE WifiService
    WITH phase <- Phase, serving <- http, answering <- pc \in {"dispatch", "reply"}

\* The lifecycle implements WifiService.
ImplementsService == Service!Spec

=============================================================================
