------------------------------- MODULE WebApi -------------------------------
(***************************************************************************)
(* The REST interface: the router and its handlers                         *)
(* (wifi/web_api_router.cpp), the command queue                            *)
(* (wifi/web_command_queue.cpp) and the context ESP32Wiimote.cpp gives     *)
(* them; WebParser has the parser.  One request is handled at a time,      *)
(* inside the server's poll.  The text of an answer is left out; its       *)
(* status, its reason and the id it promises are kept.                     *)
(***************************************************************************)
EXTENDS WebParser, CommandTarget

CONSTANTS
    Requests,       \* the requests a client sends
    FirstRequests,  \* more of them, sent only as the first
    Contexts,       \* [queue, stream, tokenMutation : BOOLEAN]: what WebApiContext holds
    QueueCapacity   \* kWebCommandQueueCapacity

ASSUME WebAssumption ==
    /\ QueueCapacity \in Nat \ {0}
    /\ Contexts \subseteq [queue : BOOLEAN, stream : BOOLEAN, tokenMutation : BOOLEAN]
    /\ \A r \in Requests \cup FirstRequests : r.body \in Seq(STRING)

VARIABLES
    ctx,        \* WebApiContext, one for the life of the device
    entries,    \* WebCommandQueue: the slots in use
    nextId,     \* WebCommandQueue
    promised,   \* history: the route of each id an answer has promised
    did         \* history: the last request's body, its answer and its effect

vars == <<ctx, entries, nextId, promised, did>>

----------------------------------------------------------------------------
(* Answers.                                                                *)

HttpStatus(reason) ==
    CASE reason = "ok" -> 200
      [] reason = "queued" -> 202
      [] reason \in {"bad_argument", "missing_argument", "invalid_verb"} -> 400
      [] reason = "unauthorized" -> 401
      [] reason = "policy_blocked" -> 403
      [] reason = "not_found" -> 404
      [] reason = "no_upgrade" -> 501
      [] reason = "queue_full" -> 503
      [] OTHER -> 409

\* The answer to a request that asks nothing of the device.
Answer(reason) ==
    [reason |-> reason, status |-> HttpStatus(reason), op |-> "none", done |-> FALSE, id |-> 0]

WiimoteReason(t) ==
    IF ~t.connected THEN "not_connected"
    ELSE IF ~t.handle THEN "no_active_connection" ELSE "rejected"

DiscoveryStartReason(t) ==
    IF ~t.started THEN "controller_not_initialized"
    ELSE IF ~t.connected /\ t.scanning THEN "discovery_already_active" ELSE "rejected"

DiscoveryStopReason(t) ==
    IF ~t.started THEN "controller_not_initialized"
    ELSE IF ~t.scanning THEN "discovery_not_active" ELSE "rejected"

DisconnectReason(t) ==
    IF ~t.started THEN "controller_not_initialized" ELSE WiimoteReason(t)

Refusal(op, t) ==
    CASE op = "startDiscovery" -> DiscoveryStartReason(t)
      [] op = "stopDiscovery" -> DiscoveryStopReason(t)
      [] op = "disconnect" -> DisconnectReason(t)
      [] op \in {"setLeds", "setReportingMode", "requestStatus"} -> WiimoteReason(t)
      [] OTHER -> "rejected"

\* The operations whose callbacks return nothing.
Unanswered == {"scanOn", "scanOff", "setAutoReconnect"}

\* Mutated form: disconnect is one of them.
Perform_Unchecked(op, t) ==
    LET reason == IF Accepts(op, t) \/ op \in Unanswered \cup {"disconnect"}
                  THEN "ok" ELSE Refusal(op, t)
    IN [Answer(reason) EXCEPT !.op = op, !.done = Accepts(op, t)]

Perform(op, t) ==
    LET reason == IF Accepts(op, t) \/ op \in Unanswered THEN "ok" ELSE Refusal(op, t)
    IN [Answer(reason) EXCEPT !.op = op, !.done = Accepts(op, t)]

----------------------------------------------------------------------------
(* The handlers: what a command is worth before anything is done about it, *)
(* a refusal or the operation it asks for.                                 *)

Refuse(reason) == [reason |-> reason, op |-> "none"]
Wants(op) == [reason |-> "ok", op |-> op]

Has(cmd, key) == \E i \in DOMAIN cmd.fields : cmd.fields[i][1] = key

\* findField: the first of that name.
Field(cmd, key) ==
    LET i == CHOOSE i \in DOMAIN cmd.fields :
                /\ cmd.fields[i][1] = key
                /\ \A j \in 1..(i - 1) : cmd.fields[j][1] # key
    IN cmd.fields[i][2]

Uint8s == {"0", "7"}
DeliveryModes == {"rest", "rest-ws", "rest-websocket"}

Needs(cmd, key, verdict) == IF Has(cmd, key) THEN verdict ELSE Refuse("missing_argument")

Valid(cmd, key, Values, verdict) ==
    IF Field(cmd, key) \in Values THEN verdict ELSE Refuse("bad_argument")

Filled(cmd, keys, verdict) ==
    IF \E key \in keys : ~Has(cmd, key) THEN Refuse("missing_argument")
    ELSE IF \E key \in keys : Field(cmd, key) = "" THEN Refuse("bad_argument")
    ELSE verdict

PostScan(cmd) ==
    CASE cmd.verb = "scan_start" -> Wants("scanOn")
      [] cmd.verb = "scan_stop" -> Wants("scanOff")
      [] OTHER -> Refuse("invalid_verb")

PostDiscovery(cmd) ==
    CASE cmd.verb = "discovery_start" -> Wants("startDiscovery")
      [] cmd.verb = "discovery_stop" -> Wants("stopDiscovery")
      [] OTHER -> Refuse("invalid_verb")

PostDisconnect(cmd) ==
    IF Has(cmd, "reason") THEN Valid(cmd, "reason", Uint8s, Wants("disconnect"))
    ELSE Wants("disconnect")

\* parseBool takes every value: what is neither true nor 1 is false.
PostWifiToken(cmd) ==
    IF ~ctx.tokenMutation THEN Refuse("policy_blocked")
    ELSE Filled(cmd, {"token"}, Wants("setWifiToken"))

WiimoteRoutes ==
    {"leds", "reporting-mode", "accelerometer", "request-status", "scan", "discovery",
     "disconnect", "reconnect-policy"}
WifiRoutes == {"wifi-control", "delivery-mode", "network", "restart", "token"}

Verdict(path, cmd) ==
    CASE path = "leds" -> Needs(cmd, "mask", Valid(cmd, "mask", Uint8s, Wants("setLeds")))
      [] path = "reporting-mode" ->
            Needs(cmd, "mode", Valid(cmd, "mode", Uint8s, Wants("setReportingMode")))
      [] path = "accelerometer" -> Needs(cmd, "enabled", Wants("setAccelerometer"))
      [] path = "request-status" -> Wants("requestStatus")
      [] path = "scan" -> PostScan(cmd)
      [] path = "discovery" -> PostDiscovery(cmd)
      [] path = "disconnect" -> PostDisconnect(cmd)
      [] path = "reconnect-policy" -> Needs(cmd, "enabled", Wants("setAutoReconnect"))
      [] path = "wifi-control" -> Needs(cmd, "enabled", Wants("setWifiControl"))
      [] path = "delivery-mode" ->
            Needs(cmd, "mode", Valid(cmd, "mode", DeliveryModes, Wants("setWifiMode")))
      [] path = "network" -> Filled(cmd, {"ssid", "password"}, Wants("setWifiNetwork"))
      [] path = "restart" -> Wants("restartWifi")
      [] path = "token" -> PostWifiToken(cmd)

----------------------------------------------------------------------------
(* The command queue.  Nothing frees a slot.                               *)

Entry(path, id) == [id |-> id, path |-> path, state |-> "queued"]

\* webCommandQueueGet
Finds(id) == id # 0 /\ \E i \in DOMAIN entries : entries[i].id = id

WorkerStates == {"running", "completed"}

\* webCommandQueueUpdate, for whoever works the queue: no caller in the library.
Update(id, state) ==
    /\ entries' = [i \in DOMAIN entries |->
                     IF entries[i].id = id THEN [entries[i] EXCEPT !.state = state]
                     ELSE entries[i]]
    /\ UNCHANGED <<ctx, nextId, promised, did>>

----------------------------------------------------------------------------
(* The router.                                                             *)

StaticPaths == {"/", "app.js", "styles.css", "openapi.json"}
ReadPaths == {"status", "config", "wifi-state"}
StreamPaths == {"input-events", "status-events"}

Did(body, answer) ==
    [body |-> body, reason |-> answer.reason, status |-> answer.status, op |-> answer.op,
     done |-> answer.done, id |-> answer.id]

Finish(r, answer) ==
    /\ did' = Did(IF r.path \in WiimoteRoutes \cup WifiRoutes THEN r.body ELSE <<>>, answer)
    /\ UNCHANGED <<ctx, entries, nextId, promised>>

IsStatic(r) == r.method = "GET" /\ r.path \in StaticPaths
IsCommand(r) == r.method = "POST" /\ r.path \in WiimoteRoutes \cup WifiRoutes

ServeStatic(r) == IsStatic(r) /\ Finish(r, Answer("ok"))

Unauthorized(r) == ~IsStatic(r) /\ ~r.auth /\ Finish(r, Answer("unauthorized"))

Admitted(r) == ~IsStatic(r) /\ r.auth

\* GET /api/commands/<id>/status; an id that is no number is -1.
GetCommandStatus(r) ==
    /\ Admitted(r) /\ r.method = "GET" /\ r.path = "command-status"
    /\ Finish(r, IF r.id <= 0 THEN Answer("bad_argument")
                 ELSE IF ~ctx.queue \/ ~Finds(r.id) THEN Answer("not_found")
                 ELSE [Answer("ok") EXCEPT !.id = r.id])

\* The router answers 101, handleWifiHttpRequest makes it 501.
Upgrade(r) ==
    /\ Admitted(r) /\ r.method = "GET" /\ r.path \in StreamPaths /\ ctx.stream
    /\ Finish(r, Answer("no_upgrade"))

Read(r) ==
    /\ Admitted(r) /\ r.method = "GET" /\ r.path \in ReadPaths
    /\ Finish(r, Answer("ok"))

BadBody(r, cmd) ==
    IF r.body = <<>> THEN Finish(r, Answer("missing_argument"))
    ELSE ~cmd.ok /\ Finish(r, Answer("bad_argument"))

RefuseCommand(r, v) == v.reason # "ok" /\ Finish(r, Answer(v.reason))

Queued(r) == ctx.queue /\ r.path \in WiimoteRoutes

\* Mutated form: the queue's limit is not looked at, its oldest entry goes.
QueueCommand_Evicts(r) ==
    /\ Queued(r)
    /\ entries' = Append(IF Len(entries) < QueueCapacity THEN entries ELSE Tail(entries),
                         Entry(r.path, nextId))
    /\ nextId' = nextId + 1
    /\ promised' = Append(promised, r.path)
    /\ did' = Did(r.body, [Answer("queued") EXCEPT !.id = nextId])
    /\ UNCHANGED ctx

\* enqueueCommandIfConfigured, webCommandQueueEnqueue
QueueCommand(r) ==
    /\ Queued(r)
    /\ IF Len(entries) >= QueueCapacity THEN Finish(r, Answer("queue_full"))
       ELSE /\ entries' = Append(entries, Entry(r.path, nextId))
            /\ nextId' = nextId + 1
            /\ promised' = Append(promised, r.path)
            /\ did' = Did(r.body, [Answer("queued") EXCEPT !.id = nextId])
            /\ UNCHANGED ctx

\* The server is polled only while Wi-Fi control is enabled.
RunCommand(r, op) ==
    /\ ~Queued(r)
    /\ \E t \in {t \in Targets : t.wifi} : Finish(r, Perform(op, t))

Command(r) ==
    /\ Admitted(r) /\ IsCommand(r)
    /\ LET cmd == Parse(r.body) IN
       \/ BadBody(r, cmd)
       \/ /\ cmd.ok
          /\ LET v == Verdict(r.path, cmd) IN
             \/ RefuseCommand(r, v)
             \/ v.reason = "ok" /\ (QueueCommand(r) \/ RunCommand(r, v.op))

Known(r) ==
    \/ IsCommand(r)
    \/ r.method = "GET" /\ r.path \in ReadPaths \cup {"command-status"}
    \/ r.method = "GET" /\ r.path \in StreamPaths /\ ctx.stream

NotFound(r) == Admitted(r) /\ ~Known(r) /\ Finish(r, Answer("not_found"))

\* webApiRoute
Route(r) ==
    \/ ServeStatic(r) \/ Unauthorized(r) \/ GetCommandStatus(r) \/ Upgrade(r) \/ Read(r)
    \/ Command(r) \/ NotFound(r)

----------------------------------------------------------------------------
Nothing == Did(<<>>, Answer("none"))

Init ==
    /\ ctx \in Contexts
    /\ entries = <<>> /\ nextId = 1
    /\ promised = <<>>
    /\ did = Nothing

Next ==
    \/ \E r \in Requests : Route(r)
    \/ did = Nothing /\ \E r \in FirstRequests : Route(r)
    \/ \E id \in 1..QueueCapacity, state \in WorkerStates : Finds(id) /\ Update(id, state)

Spec == Init /\ [][Next]_vars

----------------------------------------------------------------------------
(* Properties.                                                             *)

\* The answer tells the effect, whatever stage of the router it comes from: 200
\* to a command means it was done, except for scan and reconnect-policy, whose
\* callbacks return nothing and which answer 200 to what the session core
\* rejects; 202 means it is queued under the id of the answer; and a request
\* refused for any reason has done nothing and promises nothing.
AnswerTellsEffect ==
    [][did' # did =>
        /\ did'.status = 200 /\ did'.op \notin Unanswered \cup {"none"} => did'.done
        /\ did'.status # 200 => ~did'.done
        /\ did'.status = 202 <=> Len(entries') > Len(entries)
        /\ did'.status = 202 => did'.id = nextId /\ entries'[Len(entries')].id = did'.id]_vars

\* An id that was promised stays findable, with the route it was promised for,
\* however full the queue, and no id is promised twice.
PromisedIdsAreFound ==
    /\ \A id \in DOMAIN promised :
         \E i \in DOMAIN entries : entries[i].id = id /\ entries[i].path = promised[id]
    /\ \A i, j \in DOMAIN entries : entries[i].id = entries[j].id => i = j

\* A command runs or is refused on its merits exactly when its body begins with
\* an object of at most MaxFields fields that names a verb, and the verb it
\* runs is the last one named.
BodyIsObject ==
    did.body # <<>> =>
        LET cmd == Parse(did.body)
            sizes == {n \in 0..Len(did.body) : IsObject(did.body, n)}
        IN  cmd.ok <=>
              \E n \in sizes :
                /\ VerbOf(did.body, n) # "" /\ VerbOf(did.body, n) = cmd.verb
                /\ Cardinality(Fields(did.body, n)) <= MaxFields
                /\ Len(did.body) <= MaxBody

=============================================================================
