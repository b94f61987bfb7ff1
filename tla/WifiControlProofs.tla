------------------------- MODULE WifiControlProofs -------------------------
(***************************************************************************)
(* Proofs about WifiControl, for any configurations, sources and faults,   *)
(* configure() at run time included.                                       *)
(***************************************************************************)
EXTENDS WifiControl, TLAPS

\* A request's stop or restart waits only between the request and the next task().
PendingIsShort == pending # "none" => pc \in {"reply", "sketch"}

\* The server listens, and the lifecycle is ready, only while they are wanted.
WantedOnly ==
    /\ http => enabled \/ pending # "none"
    /\ life.ready => ~life.initializing /\ (enabled \/ pending # "none")

\* The inductive invariant.
Inv == /\ TypeOK /\ StageProgress /\ PendingIsShort
       /\ RequestKeepsServer /\ WantedOnly /\ FailureIsReported

----------------------------------------------------------------------------
\* The values of a lifecycle just reset are well typed and agree with each other.
LEMMA ResetLife ==
    ASSUME NEW restart \in BOOLEAN
    PROVE  LET l == [Stopped EXCEPT !.initializing = restart] IN
           /\ l \in Lifecycles
           /\ ~l.ready /\ ~l.attempted /\ ~l.joined /\ ~l.joinFailed /\ ~l.bindFailed
           /\ ~l.serverStarted /\ l.stage = "StartWifi" /\ l.routes = {}
BY DEF Stopped, Fresh, Lifecycles, Stages, Routes

\* The token in force is a token, whatever the configuration.
LEMMA TokenType == \A c : ActiveToken(c) \in Tokens
BY DEF ActiveToken, Tokens

\* Merging a configuration keeps the type.
LEMMA MergedType ==
    ASSUME config \in Config, NEW c \in Config
    PROVE  Merged(c) \in Config
BY DEF Merged, Config

\* A queued action either waits for the next task() or resets the lifecycle.
LEMMA QueueEffect ==
    ASSUME TypeOK, NEW restart \in BOOLEAN, QueueLifecycleAction(restart)
    PROVE  \/ /\ pc = "dispatch" /\ pending' \in {"stop", "restart"}
              /\ life' = life /\ http' = http
           \/ /\ pc # "dispatch" /\ pending' = pending /\ http' = FALSE
              /\ life' \in Lifecycles
              /\ ~life'.ready /\ ~life'.attempted /\ ~life'.joined /\ ~life'.joinFailed
              /\ ~life'.bindFailed /\ ~life'.serverStarted /\ life'.stage = "StartWifi"
              /\ life'.routes = {}
BY ResetLife DEF QueueLifecycleAction, StopHttpServer

----------------------------------------------------------------------------
\* What a command does to the lifecycle: it waits for the next task(), resets
\* the lifecycle, or leaves it alone.  Only a reset or a wait changes enabled.
Effect ==
    \/ /\ pc = "dispatch" /\ pending' \in {"stop", "restart"}
       /\ life' = life /\ http' = http
    \/ /\ pc # "dispatch" /\ pending' = pending /\ http' = FALSE
       /\ life' \in Lifecycles
       /\ ~life'.ready /\ ~life'.attempted /\ ~life'.joined /\ ~life'.joinFailed
       /\ ~life'.bindFailed /\ ~life'.serverStarted /\ life'.stage = "StartWifi"
       /\ life'.routes = {}
    \/ UNCHANGED <<enabled, pending, life, http>>

CommandTypes ==
    config' \in Config /\ token' \in Tokens /\ mode' \in Modes /\ enabled' \in BOOLEAN

\* Every command of the sketch, the serial line or a request has one of the
\* three effects.
LEMMA CommandEffect ==
    ASSUME TypeOK
    PROVE  /\ \A m \in Modes : Enable(m) => Effect /\ CommandTypes
           /\ \A m \in Modes : Disable(m) => Effect /\ CommandTypes
           /\ Restart => Effect /\ CommandTypes
           /\ \A m \in Modes : SetDeliveryMode(m) => Effect /\ CommandTypes
           /\ \A n \in Networks : UpdateNetworkCredentials(n) => Effect /\ CommandTypes
           /\ SketchUpdatesToken => Effect /\ CommandTypes
<1> USE DEF CommandTypes
<1>1. \A r \in BOOLEAN : QueueLifecycleAction(r) => Effect
  BY QueueEffect DEF Effect
<1>2. ASSUME RestartIfEnabled, UNCHANGED enabled PROVE Effect
  BY <1>1, <1>2 DEF RestartIfEnabled, Effect
<1>3. ASSUME NEW m \in Modes, Enable(m) PROVE Effect /\ CommandTypes
  <2>1. Effect
    BY <1>1, <1>3 DEF Enable, Effect
  <2>2. CommandTypes
    BY <1>3 DEF Enable, TypeOK, Config, settings
  <2> QED BY <2>1, <2>2
<1>4. ASSUME NEW m \in Modes, Disable(m) PROVE Effect /\ CommandTypes
  BY <1>1, <1>4 DEF Disable, TypeOK, settings
<1>5. ASSUME Restart PROVE Effect /\ CommandTypes
  BY <1>2, <1>5 DEF Restart, TypeOK, settings
<1>6. ASSUME NEW m \in Modes, SetDeliveryMode(m) PROVE Effect /\ CommandTypes
  BY <1>2, <1>6 DEF SetDeliveryMode, TypeOK, Config
<1>7. ASSUME NEW n \in Networks, UpdateNetworkCredentials(n) PROVE Effect /\ CommandTypes
  BY <1>2, <1>7 DEF UpdateNetworkCredentials, TypeOK, Config
<1>8. ASSUME SketchUpdatesToken PROVE Effect /\ CommandTypes
  BY <1>8 DEF SketchUpdatesToken, TypeOK, Config, Tokens, lifecycle, Effect
<1> QED BY <1>3, <1>4, <1>5, <1>6, <1>7, <1>8

\* A remote operation too.
LEMMA RemoteEffect ==
    ASSUME TypeOK, NEW o \in Operation, RemoteOperation(o)
    PROVE  Effect /\ CommandTypes
<1>1. config.mode \in Modes /\ o.mode \in Modes /\ o.network \in Networks
  BY DEF TypeOK, Config, Operation, Modes, Networks
<1>2. CASE o.op = "other" /\ UNCHANGED <<settings, lifecycle>>
  BY <1>2 DEF TypeOK, settings, lifecycle, Effect, CommandTypes
<1> QED BY <1>1, <1>2, CommandEffect DEF RemoteOperation

\* An effect keeps the invariant, in each place of the main loop that has commands.
LEMMA EffectKeepsInv ==
    ASSUME Inv, Effect, CommandTypes,
           station' = station, request' = request, status' \in Replies,
           \/ pc = "sketch" /\ pc' = "sketch"
           \/ pc = "serial" /\ pc' = "process"
           \/ pc = "dispatch" /\ pc' = "reply"
    PROVE  Inv'
<1>1. TypeOK'
  BY DEF Inv, TypeOK, Effect, CommandTypes
<1>2. CASE pc = "dispatch" /\ pending' \in {"stop", "restart"} /\ life' = life /\ http' = http
  BY <1>1, <1>2 DEF Inv, StageProgress, PendingIsShort, RequestKeepsServer, WantedOnly,
       FailureIsReported
<1>3. CASE UNCHANGED <<enabled, pending, life, http>>
  BY <1>1, <1>3 DEF Inv, StageProgress, PendingIsShort, RequestKeepsServer, WantedOnly,
       FailureIsReported
<1>4. CASE /\ pc # "dispatch" /\ pending' = pending /\ http' = FALSE
           /\ life' \in Lifecycles
           /\ ~life'.ready /\ ~life'.attempted /\ ~life'.joined /\ ~life'.joinFailed
           /\ ~life'.bindFailed /\ ~life'.serverStarted /\ life'.stage = "StartWifi"
           /\ life'.routes = {}
  BY <1>1, <1>4 DEF Inv, StageProgress, PendingIsShort, RequestKeepsServer, WantedOnly,
       FailureIsReported, Joined, Listening
<1> QED BY <1>2, <1>3, <1>4 DEF Effect

----------------------------------------------------------------------------
\* A stage that advances changes the stage alone.
LEMMA AdvanceFields ==
    ASSUME NEW l \in Lifecycles, NEW s \in Stages, Advance(l, s)
    PROVE  /\ life' \in Lifecycles /\ enabled' = enabled /\ life'.stage = s
           /\ life'.ready = l.ready /\ life'.attempted = l.attempted /\ life'.joined = l.joined
           /\ life'.joinFailed = l.joinFailed /\ life'.layer = l.layer /\ life'.routes = l.routes
           /\ life'.serverStarted = l.serverStarted /\ life'.bindFailed = l.bindFailed
BY DEF Advance, Lifecycles

\* A stage that fails leaves Wi-Fi control off, with nothing reached.
LEMMA FailFields ==
    ASSUME NEW l \in Lifecycles, Fail(l)
    PROVE  /\ life' \in Lifecycles /\ enabled' = FALSE /\ life'.stage = l.stage
           /\ ~life'.initializing
           /\ life'.ready = l.ready /\ life'.attempted = l.attempted /\ life'.joined = l.joined
           /\ life'.joinFailed = l.joinFailed /\ life'.layer = l.layer /\ life'.routes = l.routes
           /\ life'.serverStarted = l.serverStarted /\ life'.bindFailed = l.bindFailed
BY DEF Fail, Lifecycles

StageStep == \/ StartWifi \/ WaitNetworkConnected \/ RegisterStaticRoutes
             \/ RegisterApiRoutes \/ RegisterWebSocketRoutes \/ BecomeReady

\* One stage of the start keeps the invariant: failures disable the lifecycle
\* before a server exists, and the server starts where the later stages begin.
LEMMA StageKeepsInv ==
    ASSUME Inv, pc = "process", pc' = "poll", enabled, ~life.ready,
           UNCHANGED <<settings, mode, pending, exchange>>, StageStep
    PROVE  Inv'
<1>1. /\ life \in Lifecycles /\ pending = "none" /\ pending' = "none"
      /\ StageProgress /\ ~life.joinFailed /\ ~life.bindFailed
      /\ http \in BOOLEAN /\ enabled = TRUE
  BY DEF Inv, TypeOK, PendingIsShort, FailureIsReported
<1>2. /\ config' \in Config /\ token' \in Tokens /\ mode' \in Modes
      /\ request' \in Request /\ status' \in Replies /\ mode \in Modes
      /\ station \in {"idle", "joining", "joined", "expired"}
  BY DEF Inv, TypeOK, settings, exchange
<1> SUFFICES /\ enabled' \in BOOLEAN /\ life' \in Lifecycles /\ http' \in BOOLEAN
             /\ station' \in {"idle", "joining", "joined", "expired"}
             /\ StageProgress' /\ WantedOnly' /\ FailureIsReported'
  BY <1>1, <1>2 DEF Inv, TypeOK, PendingIsShort, RequestKeepsServer
<1> USE DEF StageProgress, WantedOnly, FailureIsReported, Joined, Listening
<1>3. CASE StartWifi
  <2>1. CASE Fail([life EXCEPT !.attempted = TRUE, !.joinFailed = TRUE]) /\ UNCHANGED <<http, station>>
    <3> DEFINE l == [life EXCEPT !.attempted = TRUE, !.joinFailed = TRUE]
    <3>1. /\ l \in Lifecycles /\ l.attempted /\ l.joinFailed /\ l.stage = life.stage
          /\ l.ready = life.ready /\ l.joined = life.joined /\ l.layer = life.layer
          /\ l.routes = life.routes /\ l.serverStarted = life.serverStarted
          /\ l.bindFailed = life.bindFailed
      BY <1>1 DEF Lifecycles
    <3>2. /\ Fail(l) /\ UNCHANGED <<http, station>> /\ life.stage = "StartWifi"
      BY <1>3, <2>1 DEF StartWifi
    <3> HIDE DEF l
    <3> QED BY <1>1, <1>2, <3>1, <3>2, FailFields
  <2>2. CASE /\ Advance([life EXCEPT !.attempted = TRUE, !.joined = FALSE, !.joinFailed = FALSE,
                                  !.layer = TRUE], "WaitNetworkConnected")
             /\ station' = "joining" /\ UNCHANGED http
    <3> DEFINE l == [life EXCEPT !.attempted = TRUE, !.joined = FALSE, !.joinFailed = FALSE,
                                 !.layer = TRUE]
    <3>1. /\ l \in Lifecycles /\ l.attempted /\ ~l.joinFailed /\ l.stage = life.stage
          /\ l.ready = life.ready /\ ~l.joined /\ l.layer
          /\ l.routes = life.routes /\ l.serverStarted = life.serverStarted
          /\ l.bindFailed = life.bindFailed
      BY <1>1 DEF Lifecycles
    <3>2. Advance(l, "WaitNetworkConnected") /\ "WaitNetworkConnected" \in Stages
      BY <2>2 DEF Stages
    <3> HIDE DEF l
    <3>3. /\ life' \in Lifecycles /\ enabled' = enabled /\ life'.stage = "WaitNetworkConnected"
          /\ ~life'.ready /\ life'.attempted /\ ~life'.joined /\ ~life'.joinFailed /\ life'.layer
          /\ life'.routes = life.routes /\ ~life'.bindFailed
          /\ life'.serverStarted = life.serverStarted
      BY <1>1, <3>1, <3>2, AdvanceFields
    <3>4. life.stage = "StartWifi" /\ http' = http /\ station' = "joining"
      BY <1>3, <2>2 DEF StartWifi
    <3> QED BY <1>1, <1>2, <3>3, <3>4
  <2> QED BY <1>3, <2>1, <2>2 DEF StartWifi
<1>4. CASE WaitNetworkConnected
  <2>1. CASE station = "joined"
    <3> DEFINE l == [life EXCEPT !.joined = TRUE, !.joinFailed = FALSE]
    <3>1. /\ l \in Lifecycles /\ l.attempted = life.attempted /\ ~l.joinFailed /\ l.joined
          /\ l.ready = life.ready /\ l.layer = life.layer
          /\ l.routes = life.routes /\ l.serverStarted = life.serverStarted
          /\ l.bindFailed = life.bindFailed
      BY <1>1 DEF Lifecycles
    <3>2. Advance(l, "RegisterStaticRoutes") /\ "RegisterStaticRoutes" \in Stages
      BY <1>4, <2>1 DEF WaitNetworkConnected, Stages
    <3>3. life.stage = "WaitNetworkConnected" /\ UNCHANGED <<http, station>>
      BY <1>4 DEF WaitNetworkConnected
    <3> HIDE DEF l
    <3> QED BY <1>1, <1>2, <3>1, <3>2, <3>3, AdvanceFields
  <2>2. CASE Fail([life EXCEPT !.joinFailed = TRUE])
    <3> DEFINE l == [life EXCEPT !.joinFailed = TRUE]
    <3>1. /\ l \in Lifecycles /\ l.attempted = life.attempted /\ l.joinFailed
          /\ l.joined = life.joined /\ l.stage = life.stage
          /\ l.ready = life.ready /\ l.layer = life.layer
          /\ l.routes = life.routes /\ l.serverStarted = life.serverStarted
          /\ l.bindFailed = life.bindFailed
      BY <1>1 DEF Lifecycles
    <3>2. Fail(l) /\ life.stage = "WaitNetworkConnected" /\ UNCHANGED <<http, station>>
      BY <1>4, <2>2 DEF WaitNetworkConnected
    <3> HIDE DEF l
    <3> QED BY <1>1, <1>2, <3>1, <3>2, FailFields
  <2>3. CASE Advance(life, life.stage)
    <3>1. life.stage = "WaitNetworkConnected" /\ UNCHANGED <<http, station>> /\ life.stage \in Stages
      BY <1>4 DEF WaitNetworkConnected, Stages
    <3> QED BY <1>1, <1>2, <2>3, <3>1, AdvanceFields
  <2> QED BY <1>4, <2>1, <2>2, <2>3 DEF WaitNetworkConnected
<1>5. CASE RegisterStaticRoutes
  <2> DEFINE l == [life EXCEPT !.routes = @ \cup {"static"}]
  <2>1. /\ l \in Lifecycles /\ l.routes = life.routes \cup {"static"}
        /\ l.attempted = life.attempted /\ l.joinFailed = life.joinFailed /\ l.joined = life.joined
        /\ l.ready = life.ready /\ l.layer = life.layer
        /\ l.serverStarted = life.serverStarted /\ l.bindFailed = life.bindFailed
    BY <1>1 DEF Lifecycles, Routes
  <2>2. /\ Advance(l, "RegisterApiRoutes") /\ "RegisterApiRoutes" \in Stages
        /\ life.stage = "RegisterStaticRoutes" /\ UNCHANGED <<http, station>>
    BY <1>5 DEF RegisterStaticRoutes, Stages
  <2> HIDE DEF l
  <2>3. /\ life' \in Lifecycles /\ enabled' = enabled /\ life'.stage = "RegisterApiRoutes"
        /\ ~life'.ready /\ life'.attempted /\ life'.joined /\ ~life'.joinFailed /\ life'.layer
        /\ life'.routes = life.routes \cup {"static"} /\ ~life'.bindFailed
        /\ ~life'.serverStarted /\ "api" \notin life.routes /\ http' = FALSE
    BY <1>1, <2>1, <2>2, AdvanceFields
  <2> QED BY <1>1, <1>2, <2>2, <2>3
<1>6. CASE RegisterApiRoutes
  <2> DEFINE served == [life EXCEPT !.routes = @ \cup {"api"}]
             next == IF mode = "RestAndWebSocket" THEN "RegisterWebSocketRoutes" ELSE "Ready"
  <2>1. /\ life.stage = "RegisterApiRoutes" /\ station' = station /\ next \in Listening \cap Stages
    BY <1>6 DEF RegisterApiRoutes, Stages
  <2>2. CASE StartHttpServer(TRUE) /\ Advance([served EXCEPT !.serverStarted = TRUE, !.bindFailed = FALSE], next)
    <3> DEFINE l == [served EXCEPT !.serverStarted = TRUE, !.bindFailed = FALSE]
    <3>1. /\ l \in Lifecycles /\ l.routes = life.routes \cup {"api"}
          /\ l.attempted = life.attempted /\ l.joinFailed = life.joinFailed /\ l.joined = life.joined
          /\ l.ready = life.ready /\ l.layer = life.layer /\ l.serverStarted /\ ~l.bindFailed
      BY <1>1 DEF Lifecycles, Routes
    <3>2. Advance(l, next) /\ http' = TRUE
      BY <2>2 DEF StartHttpServer
    <3> HIDE DEF l, next, served
    <3> QED BY <1>1, <1>2, <2>1, <3>1, <3>2, AdvanceFields
  <2>3. CASE StartHttpServer(FALSE) /\ Fail([served EXCEPT !.serverStarted = FALSE, !.bindFailed = TRUE])
    <3> DEFINE l == [served EXCEPT !.serverStarted = FALSE, !.bindFailed = TRUE]
    <3>1. /\ l \in Lifecycles /\ l.routes = life.routes \cup {"api"} /\ l.stage = life.stage
          /\ l.attempted = life.attempted /\ l.joinFailed = life.joinFailed /\ l.joined = life.joined
          /\ l.ready = life.ready /\ l.layer = life.layer /\ ~l.serverStarted /\ l.bindFailed
      BY <1>1 DEF Lifecycles, Routes
    <3>2. Fail(l) /\ http' = FALSE
      BY <2>3 DEF StartHttpServer
    <3> HIDE DEF l, next, served
    <3> QED BY <1>1, <1>2, <2>1, <3>1, <3>2, FailFields
  <2> QED BY <1>6, <2>2, <2>3 DEF RegisterApiRoutes
<1>7. CASE RegisterWebSocketRoutes
  <2> DEFINE l == [life EXCEPT !.routes = @ \cup {"websocket"}]
  <2>1. /\ l \in Lifecycles /\ l.routes = life.routes \cup {"websocket"}
        /\ l.attempted = life.attempted /\ l.joinFailed = life.joinFailed /\ l.joined = life.joined
        /\ l.ready = life.ready /\ l.layer = life.layer
        /\ l.serverStarted = life.serverStarted /\ l.bindFailed = life.bindFailed
    BY <1>1 DEF Lifecycles, Routes
  <2>2. /\ Advance(l, "Ready") /\ "Ready" \in Stages
        /\ life.stage = "RegisterWebSocketRoutes" /\ UNCHANGED <<http, station>>
    BY <1>7 DEF RegisterWebSocketRoutes, Stages
  <2> HIDE DEF l
  <2> QED BY <1>1, <1>2, <2>1, <2>2, AdvanceFields
<1>8. CASE BecomeReady
  BY <1>1, <1>2, <1>8 DEF BecomeReady, Lifecycles
<1> QED BY <1>3, <1>4, <1>5, <1>6, <1>7, <1>8 DEF StageStep

\* The merged configuration takes effect like a command.
LEMMA ConfigureEffect ==
    ASSUME TypeOK, NEW c \in Configurations, Configure(c)
    PROVE  Effect /\ CommandTypes
<1>1. c \in Config
  BY WifiControlAssumption DEF WifiControlAssumption
<1>2. Merged(c) \in Config
  BY <1>1, MergedType DEF TypeOK
<1>3. Effect /\ enabled' \in BOOLEAN
  BY QueueEffect DEF Configure, Effect, TypeOK
<1>4. config' \in Config /\ token' \in Tokens /\ mode' \in Modes
  BY <1>2, TokenType DEF Configure, Config
<1> QED BY <1>3, <1>4 DEF CommandTypes

\* Every step of the main loop and of the radio keeps the invariant.
LEMMA NextKeepsInv ==
    ASSUME Inv, [Next]_vars
    PROVE  Inv'
<1>1. TypeOK
  BY DEF Inv
<1>2. CASE SketchCommand
  <2>1. Effect /\ CommandTypes
    BY <1>1, <1>2, CommandEffect DEF SketchCommand, SketchEnables, SketchDisables
  <2> QED BY <1>1, <1>2, <2>1, EffectKeepsInv DEF SketchCommand, exchange, TypeOK
<1>3. ASSUME NEW c \in Configurations, Configure(c) PROVE Inv'
  <2>1. Effect /\ CommandTypes
    BY <1>1, <1>3, ConfigureEffect
  <2> QED BY <1>1, <1>3, <2>1, EffectKeepsInv DEF Configure, exchange, TypeOK
<1>4. CASE ApplyQueuedLifecycleAction
  <2>1. CASE pending = "none" /\ UNCHANGED <<life, http>>
    BY <1>4, <2>1 DEF ApplyQueuedLifecycleAction, settings, exchange, Inv, TypeOK, StageProgress,
         PendingIsShort, RequestKeepsServer, WantedOnly, FailureIsReported
  <2>2. CASE /\ pending # "none" /\ StopHttpServer
             /\ life' = [Stopped EXCEPT !.initializing = (pending = "restart")]
    <3>1. /\ life' \in Lifecycles
          /\ ~life'.ready /\ ~life'.attempted /\ ~life'.joined /\ ~life'.joinFailed
          /\ ~life'.bindFailed /\ ~life'.serverStarted /\ life'.stage = "StartWifi"
          /\ life'.routes = {} /\ http' = FALSE
      BY <2>2, ResetLife DEF StopHttpServer
    <3> QED BY <1>4, <3>1 DEF ApplyQueuedLifecycleAction, settings, exchange, Inv, TypeOK, StageProgress,
         PendingIsShort, RequestKeepsServer, WantedOnly, FailureIsReported, Joined, Listening
  <2> QED BY <1>4, <2>1, <2>2 DEF ApplyQueuedLifecycleAction
<1>5. CASE ProcessSerialControl
  <2>1. Effect /\ CommandTypes
    BY <1>1, <1>5, RemoteEffect DEF ProcessSerialControl
  <2> QED BY <1>1, <1>5, <2>1, EffectKeepsInv DEF ProcessSerialControl, exchange, TypeOK
<1>6. CASE ProcessWifiControl
  <2>1. CASE UNCHANGED <<enabled, life, http, station>>
    BY <1>6, <2>1 DEF ProcessWifiControl, settings, exchange, Inv, TypeOK, StageProgress,
         PendingIsShort, RequestKeepsServer, WantedOnly, FailureIsReported
  <2>2. CASE ~ UNCHANGED <<enabled, life, http, station>>
    BY <1>6, <2>2, StageKeepsInv DEF ProcessWifiControl, StageStep
  <2> QED BY <2>1, <2>2
<1>7. CASE Poll
  BY <1>7 DEF Poll, settings, lifecycle, Inv, TypeOK, StageProgress,
       PendingIsShort, RequestKeepsServer, WantedOnly, FailureIsReported
<1>8. CASE Dispatch
  <2>1. request \in Request /\ request.operation \in Operation
    BY <1>1 DEF TypeOK, Request
  <2>2. Effect /\ CommandTypes
    BY <1>1, <1>8, <2>1, RemoteEffect DEF Dispatch, TypeOK, settings, lifecycle, Effect, CommandTypes
  <2>3. status' \in Replies
    BY <1>8 DEF Dispatch, Replies
  <2> QED BY <1>8, <2>2, <2>3, EffectKeepsInv DEF Dispatch
<1>9. CASE Reply
  <2>1. NoRequest \in Request
    BY DEF NoRequest, Request, Operation, Tokens
  <2> QED BY <1>9, <2>1 DEF Reply, settings, lifecycle, Inv, TypeOK, StageProgress, Replies,
       PendingIsShort, RequestKeepsServer, WantedOnly, FailureIsReported
<1>10. CASE StationSettles
  BY <1>10 DEF StationSettles, settings, lifecycle, exchange, Inv, TypeOK, StageProgress,
       PendingIsShort, RequestKeepsServer, WantedOnly, FailureIsReported
<1>11. CASE UNCHANGED vars
  BY <1>11 DEF vars, settings, lifecycle, exchange, Inv, TypeOK, StageProgress,
       PendingIsShort, RequestKeepsServer, WantedOnly, FailureIsReported
<1> QED
  BY <1>2, <1>3, <1>4, <1>5, <1>6, <1>7, <1>8, <1>9, <1>10, <1>11 DEF Next, Task, Sketch

\* The constructor's state satisfies the invariant.
LEMMA InitEstablishesInv ==
    ASSUME Init
    PROVE  Inv
<1>1. config \in Config
  BY WifiControlAssumption DEF Init, WifiControlAssumption
<1>2. mode \in Modes /\ token \in Tokens
  BY <1>1, TokenType DEF Init, Config
<1>3. life \in Lifecycles /\ NoRequest \in Request
  BY DEF Init, Fresh, Lifecycles, Stages, Routes, NoRequest, Request, Operation, Tokens
<1> QED BY <1>1, <1>2, <1>3 DEF Init, Fresh, Inv, TypeOK, StageProgress, PendingIsShort,
       RequestKeepsServer, WantedOnly, FailureIsReported, Joined, Listening, Replies

\* The invariant holds in every reachable state, for any configurations,
\* command sources and faults.
THEOREM Invariance == Spec => []Inv
<1>1. Init => Inv
  BY InitEstablishesInv
<1>2. Inv /\ [Next]_vars => Inv'
  BY NextKeepsInv
<1> QED BY <1>1, <1>2, PTL DEF Spec

\* A request that stops or restarts Wi-Fi control always finds the server that
\* must carry its answer (isDispatchingRequest in queueWifiLifecycleAction).
THEOREM RequestKeepsServerInvariant == Spec => []RequestKeepsServer
<1>1. Inv => RequestKeepsServer
  BY DEF Inv
<1> QED BY <1>1, Invariance, PTL

\* Wi-Fi control is ready only while its server listens, after a join and with
\* the pages and the API registered (processWifiControl).
THEOREM ReadyIsServingInvariant == Spec => []ReadyIsServing
<1>1. Inv => ReadyIsServing
  BY DEF Inv, ReadyIsServing, StageProgress, WantedOnly, Joined, Listening
<1> QED BY <1>1, Invariance, PTL

\* What getWifiControlState reports agrees with the stage reached.
THEOREM StageProgressInvariant == Spec => []StageProgress
<1>1. Inv => StageProgress
  BY DEF Inv
<1> QED BY <1>1, Invariance, PTL

\* A start that ended without a command reports its failure.
THEOREM FailureIsReportedInvariant == Spec => []FailureIsReported
<1>1. Inv => FailureIsReported
  BY DEF Inv
<1> QED BY <1>1, Invariance, PTL

----------------------------------------------------------------------------
(* WifiControl implements WifiService.                                     *)

\* The four ways a stage ends, in the terms of WifiService.
LEMMA StageOutcome ==
    ASSUME Inv, pc = "process", enabled, ~life.ready, StageStep
    PROVE  \/ ~enabled' /\ ~http /\ http' = http
           \/ enabled' = enabled /\ http' = TRUE /\ ~life'.ready
           \/ enabled' = enabled /\ http' = http /\ ~life'.ready
           \/ enabled' = enabled /\ http /\ http' = http /\ life'.ready
<1>1. /\ life \in Lifecycles /\ http \in BOOLEAN /\ enabled \in BOOLEAN
      /\ http <=> life.stage \in Listening
  BY DEF Inv, TypeOK, StageProgress
<1>2. CASE StartWifi
  BY <1>1, <1>2 DEF StartWifi, Advance, Fail, Lifecycles, Listening
<1>3. CASE WaitNetworkConnected
  BY <1>1, <1>3 DEF WaitNetworkConnected, Advance, Fail, Lifecycles, Listening
<1>4. CASE RegisterStaticRoutes
  BY <1>1, <1>4 DEF RegisterStaticRoutes, Advance, Lifecycles
<1>5. CASE RegisterApiRoutes
  BY <1>1, <1>5 DEF RegisterApiRoutes, StartHttpServer, Advance, Fail, Lifecycles, Listening
<1>6. CASE RegisterWebSocketRoutes
  BY <1>1, <1>6 DEF RegisterWebSocketRoutes, Advance, Lifecycles
<1>7. CASE BecomeReady
  BY <1>1, <1>7 DEF BecomeReady, Lifecycles, Listening
<1> QED BY <1>2, <1>3, <1>4, <1>5, <1>6, <1>7 DEF StageStep

\* A command of the sketch or the serial line is an order; one inside a request
\* asks the service to close.
LEMMA EffectRefines ==
    ASSUME Inv, Effect, CommandTypes,
           \/ pc = "sketch" /\ pc' = "sketch"
           \/ pc = "serial" /\ pc' = "process"
           \/ pc = "dispatch" /\ pc' = "reply"
    PROVE  [Service!Next]_(Service!vars)
<1> USE DEF Inv, TypeOK, Phase, Service!Next, Service!vars
<1>1. CASE pc = "dispatch" /\ pending' \in {"stop", "restart"} /\ life' = life /\ http' = http
  <2>1. Service!Ask
    BY <1>1 DEF Service!Ask
  <2> QED BY <2>1
<1>2. CASE UNCHANGED <<enabled, pending, life, http>>
  BY <1>2
<1>3. CASE pc # "dispatch" /\ pending' = pending /\ http' = FALSE /\ ~life'.ready
  <2>1. Service!Order
    BY <1>3 DEF Service!Order, CommandTypes
  <2> QED BY <2>1
<1> QED BY <1>1, <1>2, <1>3 DEF Effect

\* Every step is a step of WifiService or leaves its variables alone.
LEMMA StepRefines ==
    ASSUME Inv, Inv', [Next]_vars
    PROVE  [Service!Next]_(Service!vars)
<1> USE DEF Service!Next, Service!vars
<1>1. TypeOK
  BY DEF Inv
<1>2. CASE SketchCommand
  <2>1. Effect /\ CommandTypes
    BY <1>1, <1>2, CommandEffect DEF SketchCommand, SketchEnables, SketchDisables
  <2> QED BY <1>2, <2>1, EffectRefines DEF SketchCommand
<1>3. ASSUME NEW c \in Configurations, Configure(c) PROVE [Service!Next]_(Service!vars)
  <2>1. Effect /\ CommandTypes
    BY <1>1, <1>3, ConfigureEffect
  <2> QED BY <1>3, <2>1, EffectRefines DEF Configure
<1>4. CASE ApplyQueuedLifecycleAction
  <2>1. CASE pending = "none" /\ UNCHANGED <<life, http>>
    BY <1>4, <2>1 DEF ApplyQueuedLifecycleAction, Phase
  <2>2. CASE /\ pending # "none" /\ StopHttpServer
             /\ life' = [Stopped EXCEPT !.initializing = (pending = "restart")]
    <3>1. ~life'.ready /\ ~http'
      BY <2>2, ResetLife DEF StopHttpServer
    <3>2. pending' = "none" /\ pc = "sketch" /\ pc' = "serial"
      BY <1>4 DEF ApplyQueuedLifecycleAction
    <3>3. Service!Close
      BY <2>2, <3>1, <3>2 DEF Phase, Service!Close
    <3> QED BY <3>3
  <2> QED BY <1>4, <2>1, <2>2 DEF ApplyQueuedLifecycleAction
<1>5. CASE ProcessSerialControl
  <2>1. Effect /\ CommandTypes
    BY <1>1, <1>5, RemoteEffect DEF ProcessSerialControl
  <2> QED BY <1>5, <2>1, EffectRefines DEF ProcessSerialControl
<1>6. CASE ProcessWifiControl
  <2>1. CASE UNCHANGED <<enabled, life, http, station>>
    BY <1>6, <2>1 DEF ProcessWifiControl, Phase
  <2>2. CASE enabled /\ ~life.ready /\ StageStep
    <3>1. /\ pending = "none" /\ pending' = "none" /\ pc = "process" /\ pc' = "poll"
          /\ enabled \in BOOLEAN
      BY <1>6 DEF ProcessWifiControl, Inv, PendingIsShort, TypeOK
    <3>2. CASE ~enabled' /\ ~http /\ http' = http
      <4>1. Service!GiveUp
        BY <2>2, <3>1, <3>2 DEF Phase, Service!GiveUp
      <4> QED BY <4>1
    <3>3. CASE enabled' = enabled /\ http' = TRUE /\ ~life'.ready
      <4>1. Service!Listen
        BY <2>2, <3>1, <3>3 DEF Phase, Service!Listen
      <4> QED BY <4>1
    <3>4. CASE enabled' = enabled /\ http' = http /\ ~life'.ready
      BY <2>2, <3>1, <3>4 DEF Phase
    <3>5. CASE enabled' = enabled /\ http /\ http' = http /\ life'.ready
      <4>1. Service!BecomeReady
        BY <2>2, <3>1, <3>5 DEF Phase, Service!BecomeReady
      <4> QED BY <4>1
    <3> QED BY <2>2, <3>1, <3>2, <3>3, <3>4, <3>5, StageOutcome
  <2> QED BY <1>6, <2>1, <2>2 DEF ProcessWifiControl, StageStep
<1>7. CASE Poll
  <2>1. CASE pc' = "sketch"
    BY <1>7, <2>1 DEF Poll, lifecycle, Phase
  <2>2. CASE http /\ pc' = "dispatch"
    <3>1. Service!Accept
      BY <1>7, <2>2 DEF Poll, lifecycle, Phase, Service!Accept
    <3> QED BY <3>1
  <2> QED BY <1>7, <2>1, <2>2 DEF Poll
<1>8. CASE Dispatch
  <2>1. request \in Request /\ request.operation \in Operation
    BY <1>1 DEF TypeOK, Request
  <2>2. Effect /\ CommandTypes
    BY <1>1, <1>8, <2>1, RemoteEffect DEF Dispatch, TypeOK, settings, lifecycle, Effect, CommandTypes
  <2> QED BY <1>8, <2>2, EffectRefines DEF Dispatch
<1>9. CASE Reply
  <2>1. Service!Answered
    BY <1>9 DEF Reply, lifecycle, Phase, Service!Answered
  <2> QED BY <2>1
<1>10. CASE StationSettles
  BY <1>10 DEF StationSettles, lifecycle, Phase
<1>11. CASE UNCHANGED vars
  BY <1>11 DEF vars, lifecycle, Phase
<1> QED
  BY <1>2, <1>3, <1>4, <1>5, <1>6, <1>7, <1>8, <1>9, <1>10, <1>11 DEF Next, Task, Sketch

\* The lifecycle of ESP32Wiimote.cpp does what WifiService promises: the server
\* listens only while Wi-Fi control is wanted, whenever it is ready, and until
\* the request at hand is answered.
THEOREM Implementation == Spec => ImplementsService
<1>1. Init => Service!Init
  BY DEF Init, Service!Init, Phase
<1>2. Inv /\ Inv' /\ [Next]_vars => [Service!Next]_(Service!vars)
  BY StepRefines
<1> QED BY <1>1, <1>2, Invariance, PTL DEF Spec, ImplementsService, Service!Spec

----------------------------------------------------------------------------
(* The websocket routes follow the delivery mode unless configure() is     *)
(* called at run time.                                                     *)

\* Unless an action waits: the routes past the API follow the mode, and the
\* stages that decided on the mode are left only by a reset.
RoutesFollowMode ==
    pending = "none" =>
        /\ "websocket" \in life.routes => life.stage = "Ready"
        /\ life.stage = "RegisterWebSocketRoutes" => mode = "RestAndWebSocket"
        /\ life.stage = "Ready" => ("websocket" \in life.routes <=> mode = "RestAndWebSocket")

\* A command waits for the next task(), resets the lifecycle, or leaves it alone
\* and then keeps the mode unless the lifecycle is off.
ModeEffect ==
    \/ pc = "dispatch" /\ pending' # "none"
    \/ pending' = pending /\ life'.stage = "StartWifi" /\ life'.routes = {}
    \/ UNCHANGED <<pending, life>> /\ (mode' = mode \/ ~enabled)

\* Every command of the sketch, the serial line or a request, configure() at run
\* time aside, changes the mode only while control is off or with a restart.
LEMMA CommandModeEffect ==
    ASSUME TypeOK
    PROVE  /\ \A m \in Modes : Enable(m) => ModeEffect
           /\ \A m \in Modes : Disable(m) => ModeEffect
           /\ Restart => ModeEffect
           /\ \A m \in Modes : SetDeliveryMode(m) => ModeEffect
           /\ \A n \in Networks : UpdateNetworkCredentials(n) => ModeEffect
           /\ SketchUpdatesToken => ModeEffect
<1>1. \A r \in BOOLEAN : QueueLifecycleAction(r) => ModeEffect
  BY QueueEffect DEF ModeEffect
<1>2. RestartIfEnabled /\ (mode' = mode \/ ~enabled) => ModeEffect
  BY <1>1 DEF RestartIfEnabled, ModeEffect
<1>3. RestartIfEnabled /\ enabled => ModeEffect
  BY <1>1 DEF RestartIfEnabled
<1>4. \A m \in Modes : Enable(m) => ModeEffect
  BY <1>1 DEF Enable, ModeEffect
<1>5. \A m \in Modes : SetDeliveryMode(m) => ModeEffect
  BY <1>2, <1>3 DEF SetDeliveryMode
<1>6. Restart \/ (\E n \in Networks : UpdateNetworkCredentials(n)) => ModeEffect
  BY <1>2 DEF Restart, UpdateNetworkCredentials
<1>7. SketchUpdatesToken => ModeEffect
  BY DEF SketchUpdatesToken, lifecycle, ModeEffect
<1>8. \A m \in Modes : Disable(m) => ModeEffect
  BY <1>1 DEF Disable
<1> QED BY <1>4, <1>5, <1>6, <1>7, <1>8

\* So does every operation the serial line and the web share.
LEMMA RemoteModeEffect ==
    ASSUME TypeOK, NEW o \in Operation, RemoteOperation(o)
    PROVE  ModeEffect
<1>1. config.mode \in Modes /\ o.mode \in Modes /\ o.network \in Networks
  BY DEF TypeOK, Config, Operation, Modes, Networks
<1>2. CASE o.op = "other" /\ UNCHANGED <<settings, lifecycle>>
  BY <1>2 DEF lifecycle, ModeEffect
<1> QED BY <1>1, <1>2, CommandModeEffect DEF RemoteOperation

\* Such an effect keeps the routes with the mode: while the lifecycle is off its
\* server is down, so no stage past the API is reached.
LEMMA ModeEffectKeepsRoutes ==
    ASSUME Inv, RoutesFollowMode, ModeEffect
    PROVE  RoutesFollowMode'
BY DEF Inv, RoutesFollowMode, ModeEffect, StageProgress, WantedOnly, Listening

\* With every command but configure() at run time, the routes follow the mode.
LEMMA StepKeepsRoutes ==
    ASSUME Inv, RoutesFollowMode, "configure" \notin Sources, [Next]_vars
    PROVE  RoutesFollowMode'
<1>1. TypeOK /\ StageProgress /\ PendingIsShort
  BY DEF Inv
<1>2. CASE SketchCommand
  BY <1>1, <1>2, CommandModeEffect, ModeEffectKeepsRoutes DEF SketchCommand, SketchEnables, SketchDisables
<1>3. ASSUME NEW c \in Configurations, Configure(c) PROVE RoutesFollowMode'
  <2>1. ModeEffect
    BY <1>1, <1>3, QueueEffect DEF Configure, ModeEffect
  <2> QED BY <2>1, ModeEffectKeepsRoutes
<1>4. CASE ApplyQueuedLifecycleAction
  <2>1. CASE pending = "none" /\ UNCHANGED <<life, http>>
    BY <1>4, <2>1 DEF ApplyQueuedLifecycleAction, RoutesFollowMode
  <2>2. CASE life' = [Stopped EXCEPT !.initializing = (pending = "restart")]
    <3>1. life'.stage = "StartWifi" /\ life'.routes = {}
      BY <2>2, ResetLife
    <3> QED BY <3>1 DEF RoutesFollowMode
  <2> QED BY <1>4, <2>1, <2>2 DEF ApplyQueuedLifecycleAction
<1>5. CASE ProcessSerialControl
  BY <1>1, <1>5, RemoteModeEffect, ModeEffectKeepsRoutes DEF ProcessSerialControl
<1>6. CASE ProcessWifiControl
  <2>1. life \in Lifecycles /\ pending = "none" /\ mode' = mode /\ mode \in Modes
    BY <1>1, <1>6 DEF ProcessWifiControl, TypeOK, PendingIsShort
  <2> USE DEF RoutesFollowMode, StageProgress, Joined, Listening
  <2>2. CASE UNCHANGED <<enabled, life, http, station>>
    BY <1>6, <2>1, <2>2 DEF ProcessWifiControl
  <2>3. CASE StartWifi
    <3>1. life'.stage \in {"StartWifi", "WaitNetworkConnected"} /\ life'.routes = life.routes
      BY <2>1, <2>3 DEF StartWifi, Advance, Fail, Lifecycles
    <3> QED BY <2>1, <2>3, <3>1 DEF StartWifi
  <2>4. CASE WaitNetworkConnected
    <3>1. /\ life'.stage \in {"WaitNetworkConnected", "RegisterStaticRoutes"}
          /\ life'.routes = life.routes
      BY <2>1, <2>4 DEF WaitNetworkConnected, Advance, Fail, Lifecycles
    <3> QED BY <2>1, <2>4, <3>1 DEF WaitNetworkConnected
  <2>5. CASE RegisterStaticRoutes
    <3>1. life'.stage = "RegisterApiRoutes" /\ life'.routes = life.routes \cup {"static"}
      BY <2>1, <2>5 DEF RegisterStaticRoutes, Advance, Lifecycles
    <3> QED BY <2>1, <2>5, <3>1 DEF RegisterStaticRoutes
  <2>6. CASE RegisterApiRoutes
    <3>1. /\ life'.routes = life.routes \cup {"api"}
          /\ \/ life'.stage = "RegisterApiRoutes"
             \/ mode = "RestAndWebSocket" /\ life'.stage = "RegisterWebSocketRoutes"
             \/ mode # "RestAndWebSocket" /\ life'.stage = "Ready"
      BY <2>1, <2>6 DEF RegisterApiRoutes, Advance, Fail, Lifecycles
    <3> QED BY <2>1, <2>6, <3>1 DEF RegisterApiRoutes
  <2>7. CASE RegisterWebSocketRoutes
    <3>1. life'.stage = "Ready" /\ life'.routes = life.routes \cup {"websocket"}
      BY <2>1, <2>7 DEF RegisterWebSocketRoutes, Advance, Lifecycles
    <3> QED BY <2>1, <2>7, <3>1 DEF RegisterWebSocketRoutes
  <2>8. CASE BecomeReady
    <3>1. life'.stage = "Ready" /\ life'.routes = life.routes
      BY <2>1, <2>8 DEF BecomeReady, Lifecycles
    <3> QED BY <2>1, <2>8, <3>1 DEF BecomeReady
  <2> QED BY <1>6, <2>2, <2>3, <2>4, <2>5, <2>6, <2>7, <2>8 DEF ProcessWifiControl
<1>7. CASE Dispatch
  <2>1. request \in Request /\ request.operation \in Operation
    BY <1>1 DEF TypeOK, Request
  <2>2. ModeEffect
    BY <1>1, <1>7, <2>1, RemoteModeEffect DEF Dispatch, lifecycle, ModeEffect
  <2> QED BY <2>2, ModeEffectKeepsRoutes
<1>8. CASE Poll \/ Reply \/ StationSettles \/ UNCHANGED vars
  BY <1>8 DEF Poll, Reply, StationSettles, vars, lifecycle, RoutesFollowMode
<1> QED BY <1>2, <1>3, <1>4, <1>5, <1>6, <1>7, <1>8 DEF Next, Task, Sketch

\* Without configure() at run time, a ready lifecycle offers the websocket routes
\* exactly when its delivery mode asks for them.
THEOREM ReadyMatchesModeInvariant ==
    ASSUME "configure" \notin Sources
    PROVE  Spec => []ReadyMatchesMode
<1>1. Init => RoutesFollowMode
  BY DEF Init, Fresh, RoutesFollowMode
<1>2. Inv /\ RoutesFollowMode /\ [Next]_vars => RoutesFollowMode'
  BY StepKeepsRoutes
<1>3. Inv /\ RoutesFollowMode => ReadyMatchesMode
  BY DEF Inv, StageProgress, RoutesFollowMode, ReadyMatchesMode
<1> QED BY <1>1, <1>2, <1>3, Invariance, PTL DEF Spec
=============================================================================
