---------------------------- MODULE SerialControl ----------------------------
(***************************************************************************)
(* The serial line: the reader of ESP32Wiimote.cpp (processSerialControl), *)
(* the parser, the unlock session and the dispatcher of serial/, and the   *)
(* operations Esp32SerialCommandTarget makes of a command.                 *)
(*                                                                         *)
(* A line is a sequence of words; lengths count words where the code       *)
(* counts characters.  The terminal sends a line in one piece or two, and  *)
(* what it has sent stays in the UART until the reader takes it.  A        *)
(* command may find the device in any state: CommandTarget has them.  The  *)
(* line is read by task() once the controller is started.                  *)
(***************************************************************************)
EXTENDS Integers, Sequences, CommandTarget

CONSTANTS
    Lines,              \* the lines a terminal sends
    SplitLines,         \* those that may arrive in two pieces
    MaxWaiting,         \* bound on complete lines in the UART
    MaxLine,            \* kSerialMaxLineLength, in words
    MaxTokens,          \* kSerialMaxTokens
    RequireUnlock,      \* serialPrivilegedCommandsRequireUnlock_
    ClockSpan,          \* millis() counts modulo this (2^32 in the code)
    DefaultWindow       \* 60 s, in ticks

\* No terminal types what stands for a line too long.
Words == STRING \ {"too long"}

ASSUME SerialAssumption ==
    /\ SplitLines \subseteq Lines
    /\ \A line \in Lines : line \in Seq(Words) /\ line # <<>>
    /\ MaxWaiting \in Nat /\ MaxLine \in Nat /\ MaxTokens \in Nat
    /\ RequireUnlock \in BOOLEAN
    /\ ClockSpan \in Nat \ {0} /\ DefaultWindow \in 1..(ClockSpan - 1)

VARIABLES
    waiting,        \* UART: the lines with their end, the first maybe in part
    partial,        \* UART: what follows them
    rest,           \* what the terminal has still to send of its line
    serialControlEnabled,
    inputLine, inputOverflow,               \* serialInputLine_, serialInputOverflow_
    token,                                  \* serialPrivilegedToken_
    unlocked, unlockedAt, unlockDuration,   \* SerialCommandSession
    now,                                    \* millis()
    age,            \* history: ticks since the last unlock, up to ClockSpan
    did             \* history: what the last step took, answered and performed

uartVars == <<waiting, partial, rest>>
readerVars == <<serialControlEnabled, inputLine, inputOverflow>>
sessionVars == <<unlocked, unlockedAt, unlockDuration>>
vars == <<uartVars, readerVars, token, sessionVars, now, age, did>>

Tokens == {"token", "other"}
Bools == {"on", "0"}
Uint8s == {"0", "7"}
Uint16s == {"0", "7", "300"}
DeliveryModes == {"rest"}

----------------------------------------------------------------------------
(* The dispatcher: the answer, the operation it asked for and whether the  *)
(* target performed it.                                                    *)

Answer(reply) == [reply |-> reply, op |-> "none", done |-> FALSE]

\* An operation whose result the handler returns, with the reason of a refusal.
Ask(op, t, reason) ==
    [reply |-> IF Accepts(op, t) THEN "ok" ELSE reason, op |-> op, done |-> Accepts(op, t)]

\* An operation without a result: ok whatever became of it.
Tell(op, t) == [reply |-> "ok", op |-> op, done |-> Accepts(op, t)]

WiimoteReason(t) ==
    IF ~t.connected THEN "not_connected"
    ELSE IF ~t.handle THEN "no_active_connection" ELSE "rejected"

DiscoveryStartReason(t) ==
    IF ~t.started THEN "controller_not_initialized"
    ELSE IF ~t.connected /\ t.scanning THEN "discovery_already_active" ELSE "rejected"

DiscoveryStopReason(t) ==
    IF ~t.started THEN "controller_not_initialized"
    ELSE IF ~t.scanning THEN "discovery_not_active" ELSE "rejected"

DisconnectReason(t) ==
    IF ~t.started THEN "controller_not_initialized" ELSE WiimoteReason(t)

\* The argument at position i, when the verb needs one of Valid there.
Needs(line, i, Valid, outcome) ==
    IF Len(line) < i THEN Answer("missing_argument")
    ELSE IF line[i] \notin Valid THEN Answer("bad_argument") ELSE outcome

MayHave(line, i, Valid, outcome) ==
    IF Len(line) >= i /\ line[i] \notin Valid THEN Answer("bad_argument") ELSE outcome

WhenConnected(t, outcome) == IF ~t.connected THEN Answer("not_connected") ELSE outcome

HandleLed(line, t) ==
    Needs(line, 3, Uint8s, WhenConnected(t, Ask("setLeds", t, WiimoteReason(t))))

HandleMode(line, t) ==
    Needs(line, 3, Uint8s, MayHave(line, 4, Bools,
        WhenConnected(t, Ask("setReportingMode", t, WiimoteReason(t)))))

HandleAccel(line, t) == Needs(line, 3, Bools, Ask("setAccelerometer", t, WiimoteReason(t)))

HandleRequestStatus(line, t) == WhenConnected(t, Ask("requestStatus", t, WiimoteReason(t)))

HandleScan(line, t) ==
    Needs(line, 3, Bools, Tell(IF line[3] = "on" THEN "scanOn" ELSE "scanOff", t))

HandleDiscover(line, t) ==
    IF Len(line) < 3 THEN Answer("missing_argument")
    ELSE CASE line[3] = "start" -> Ask("startDiscovery", t, DiscoveryStartReason(t))
           [] line[3] = "stop" -> Ask("stopDiscovery", t, DiscoveryStopReason(t))
           [] OTHER -> Answer("invalid_verb")

\* Mutated form: the connection is not looked at before the target is asked.
HandleDisconnect_Unchecked(line, t) ==
    MayHave(line, 3, Uint8s, Tell("disconnect", t))

HandleDisconnect(line, t) ==
    MayHave(line, 3, Uint8s, WhenConnected(t, Ask("disconnect", t, DisconnectReason(t))))

HandleReconnect(line, t) ==
    Needs(line, 3, Bools \cup {"clear"},
          Tell(IF line[3] = "clear" THEN "clearReconnectCache" ELSE "setAutoReconnect", t))

HandleWifiControl(line, t) == Needs(line, 3, Bools, Ask("setWifiControl", t, "rejected"))

HandleWifiMode(line, t) == Needs(line, 3, DeliveryModes, Ask("setWifiMode", t, "rejected"))

HandleWifiSetNetwork(line, t) ==
    IF Len(line) < 4 THEN Answer("missing_argument") ELSE Ask("setWifiNetwork", t, "rejected")

HandleWifiRestart(line, t) == Ask("restartWifi", t, "wifi_control_disabled")

\* isWifiApiTokenMutationAllowed() is false.
HandleWifiSetToken(line, t) ==
    IF Len(line) < 3 THEN Answer("missing_argument") ELSE Answer("policy_blocked")

Verbs == {"status", "led", "mode", "accel", "request-status", "scan", "discover", "disconnect",
          "reconnect", "wifi-control", "wifi-mode", "wifi-set-network", "wifi-restart",
          "wifi-set-token"}

\* serialCommandIsPrivileged
Privileged == Verbs \ {"status", "request-status"}

Handle(line, t) ==
    CASE line[2] = "status" -> Answer("ok")
      [] line[2] = "led" -> HandleLed(line, t)
      [] line[2] = "mode" -> HandleMode(line, t)
      [] line[2] = "accel" -> HandleAccel(line, t)
      [] line[2] = "request-status" -> HandleRequestStatus(line, t)
      [] line[2] = "scan" -> HandleScan(line, t)
      [] line[2] = "discover" -> HandleDiscover(line, t)
      [] line[2] = "disconnect" -> HandleDisconnect(line, t)
      [] line[2] = "reconnect" -> HandleReconnect(line, t)
      [] line[2] = "wifi-control" -> HandleWifiControl(line, t)
      [] line[2] = "wifi-mode" -> HandleWifiMode(line, t)
      [] line[2] = "wifi-set-network" -> HandleWifiSetNetwork(line, t)
      [] line[2] = "wifi-restart" -> HandleWifiRestart(line, t)
      [] line[2] = "wifi-set-token" -> HandleWifiSetToken(line, t)
      [] OTHER -> Answer("unknown_command")

----------------------------------------------------------------------------
(* The session.                                                            *)

\* Mutated form: the deadline is compared, which wraps, not what has passed.
IsUnlocked_Deadline == unlocked /\ now < (unlockedAt + unlockDuration) % ClockSpan

IsUnlocked == unlocked /\ (now - unlockedAt) % ClockSpan < unlockDuration

LockSession == unlocked' = FALSE /\ unlockedAt' = 0 /\ unlockDuration' = 0

Ticks(seconds) == CASE seconds = "0" -> 0 [] seconds = "7" -> 1 [] OTHER -> ClockSpan - 1

Unlock(duration) ==
    IF duration = 0 THEN LockSession /\ UNCHANGED age
    ELSE unlocked' = TRUE /\ unlockedAt' = now /\ unlockDuration' = duration /\ age' = 0

Did(line, a) == [line |-> line, reply |-> a.reply, op |-> a.op, done |-> a.done]
Silent == Answer("none")
Nothing == Did(<<>>, Silent)

UnlockReply(line) ==
    IF Len(line) < 3 THEN "missing_argument"
    ELSE IF line[3] # token THEN "bad_credentials"
    ELSE IF Len(line) >= 4 /\ line[4] \notin Uint16s THEN "bad_argument" ELSE "ok"

HandleUnlock(line) ==
    /\ did' = Did(line, Answer(UnlockReply(line)))
    /\ IF UnlockReply(line) # "ok" THEN UNCHANGED <<sessionVars, age>>
       ELSE Unlock(IF Len(line) >= 4 THEN Ticks(line[4]) ELSE DefaultWindow)

Locked(line) == RequireUnlock /\ line[2] \in Privileged /\ ~IsUnlocked

\* serialCommandDispatch, and wifi-status, which never reaches it.
Dispatch(line) ==
    IF Len(line) >= 2 /\ line[2] = "unlock" THEN HandleUnlock(line)
    ELSE /\ \E t \in {t \in Targets : t.started} :
              did' = Did(line, IF Len(line) < 2 THEN Answer("unknown_command")
                               ELSE IF line[2] = "wifi-status" THEN Answer("wifi")
                               ELSE IF Locked(line) THEN Answer("locked")
                               ELSE Handle(line, t))
         /\ UNCHANGED <<sessionVars, age>>

----------------------------------------------------------------------------
(* The reader and the parser.                                              *)

TooLong == <<"too long">>

\* serialCommandParse and processSerialCommandLine on a line with its end.
CommandLine(line) ==
    IF line = TooLong
    THEN did' = Did(line, Answer("line_too_long")) /\ UNCHANGED <<sessionVars, age>>
    ELSE IF line = <<>> \/ Head(line) # "wm"
    THEN did' = Did(line, Silent) /\ UNCHANGED <<sessionVars, age>>
    ELSE IF Len(line) > MaxTokens
    THEN did' = Did(line, Answer("too_many_tokens")) /\ UNCHANGED <<sessionVars, age>>
    ELSE Dispatch(line)

\* Mutated form: a line that does not fit starts over with what does not fit.
Fill_StartsOver(words) ==
    IF Len(inputLine \o words) > MaxLine THEN words ELSE inputLine \o words

\* The buffer after words, or TooLong.
Fill(words) ==
    IF inputOverflow \/ Len(inputLine \o words) > MaxLine THEN TooLong ELSE inputLine \o words

\* Mutated form: one word more than the buffer holds.
Buffered_OffByOne(words) ==
    LET all == inputLine \o words IN
    IF Len(all) > MaxLine THEN SubSeq(all, 1, MaxLine + 1) ELSE all

Buffered(words) ==
    LET all == inputLine \o words IN
    IF Len(all) > MaxLine THEN SubSeq(all, 1, MaxLine) ELSE all

ClearInput == inputLine' = <<>> /\ inputOverflow' = FALSE

\* task(): at most one completed line, and otherwise all there is of the next.
ProcessSerialControl ==
    /\ serialControlEnabled
    /\ IF waiting # <<>>
       THEN /\ CommandLine(Fill(Head(waiting)))
            /\ ClearInput
            /\ waiting' = Tail(waiting)
            /\ UNCHANGED partial
       ELSE /\ partial # <<>>
            /\ inputLine' = IF inputOverflow THEN inputLine ELSE Buffered(partial)
            /\ inputOverflow' = (Fill(partial) = TooLong)
            /\ partial' = <<>>
            /\ did' = Nothing
            /\ UNCHANGED <<waiting, sessionVars, age>>
    /\ UNCHANGED <<rest, serialControlEnabled, token, now>>

----------------------------------------------------------------------------
(* The sketch.                                                             *)

\* Mutated form: the session outlives serial control.
EnableSerialControl_KeepsSession(enabled) ==
    /\ serialControlEnabled' = enabled
    /\ IF enabled THEN UNCHANGED <<inputLine, inputOverflow>> ELSE ClearInput
    /\ did' = Nothing
    /\ UNCHANGED <<uartVars, token, sessionVars, now, age>>

EnableSerialControl(enabled) ==
    /\ serialControlEnabled' = enabled
    /\ IF enabled THEN UNCHANGED <<inputLine, inputOverflow, sessionVars>>
       ELSE ClearInput /\ LockSession
    /\ did' = Nothing
    /\ UNCHANGED <<uartVars, token, now, age>>

\* applyRuntimeConfig: a session opened with the old token stays open.
Configure ==
    /\ token' \in Tokens
    /\ did' = Nothing
    /\ UNCHANGED <<uartVars, readerVars, sessionVars, now, age>>

SketchStep == (\E enabled \in BOOLEAN : EnableSerialControl(enabled)) \/ Configure

----------------------------------------------------------------------------
(* The terminal and the clock.                                             *)

Prefix(line, k) == SubSeq(line, 1, k)
Suffix(line, k) == SubSeq(line, k + 1, Len(line))

SendLine ==
    /\ rest = <<>> /\ Len(waiting) < MaxWaiting
    /\ \E line \in Lines : waiting' = Append(waiting, line)
    /\ UNCHANGED <<partial, rest>>

SendBeginning ==
    /\ rest = <<>>
    /\ \E line \in SplitLines : \E k \in 1..(Len(line) - 1) :
         partial' = Prefix(line, k) /\ rest' = Suffix(line, k)
    /\ UNCHANGED waiting

SendEnd ==
    /\ rest # <<>> /\ Len(waiting) < MaxWaiting
    /\ waiting' = Append(waiting, partial \o rest)
    /\ partial' = <<>> /\ rest' = <<>>

Terminal ==
    /\ SendLine \/ SendBeginning \/ SendEnd
    /\ did' = Nothing
    /\ UNCHANGED <<readerVars, token, sessionVars, now, age>>

Tick ==
    /\ now' = (now + 1) % ClockSpan
    /\ age' = IF age < ClockSpan THEN age + 1 ELSE age
    /\ did' = Nothing
    /\ UNCHANGED <<uartVars, readerVars, token, sessionVars>>

Init ==
    /\ waiting = <<>> /\ partial = <<>> /\ rest = <<>>
    /\ serialControlEnabled = FALSE
    /\ inputLine = <<>> /\ inputOverflow = FALSE
    /\ token = "token"
    /\ unlocked = FALSE /\ unlockedAt = 0 /\ unlockDuration = 0
    /\ now \in 0..(ClockSpan - 1)
    /\ age = 0
    /\ did = Nothing

Next == ProcessSerialControl \/ SketchStep \/ Terminal \/ Tick

Spec == Init /\ [][Next]_vars

----------------------------------------------------------------------------
(* Properties.                                                             *)

\* Every variable has its type; the buffer holds no more than a line.
TypeOK ==
    /\ serialControlEnabled \in BOOLEAN /\ inputOverflow \in BOOLEAN /\ unlocked \in BOOLEAN
    /\ Len(inputLine) <= MaxLine /\ Len(waiting) <= MaxWaiting
    /\ token \in Tokens
    /\ unlockedAt \in 0..(ClockSpan - 1) /\ unlockDuration \in 0..(ClockSpan - 1)
    /\ now \in 0..(ClockSpan - 1) /\ age \in 0..ClockSpan

\* API.md, Serial Control: privileged commands are accepted in a time-bounded
\* window after an unlock.  Whatever is typed, disabled and configured between,
\* no privileged operation is asked for unless the window is open, measured by
\* the time that really passed; after a whole turn of the clock it opens again,
\* because isUnlocked never marks an expired session.
PrivilegedOnlyInWindow ==
    [][did'.op \notin {"none", "requestStatus"} /\ RequireUnlock
       => unlocked /\ (age < unlockDuration \/ age = ClockSpan)]_vars

\* API.md, enableSerialControl: disabling clears the session.  A session that
\* is open was opened since serial control was last enabled, by an unlock
\* typed with the token of that moment.
DisableLocks ==
    [][unlocked' => /\ serialControlEnabled'
                    /\ ~unlocked => /\ did'.line # <<>> /\ did'.line[2] = "unlock"
                                    /\ did'.line[3] = token /\ did'.reply = "ok"]_vars

\* ok means done and any other answer means nothing was done, except for scan
\* and reconnect, whose operations return nothing: they answer ok to a command
\* the session core rejects.  A refusal names a cause that holds: the model
\* finds no use of "rejected" beside discovery while connected or before the
\* Bluetooth task has set deviceInited.
AnswerTellsOutcome ==
    /\ did.op \notin {"none", "scanOn", "scanOff", "setAutoReconnect", "clearReconnectCache"}
         => (did.reply = "ok") = did.done
    /\ did.reply \notin {"ok", "none"} => ~did.done
    /\ did.reply = "rejected" => did.op \in {"startDiscovery", "stopDiscovery"}

\* What is on its way of the oldest line, with what has been read of it.
Begun == inputLine # <<>> \/ inputOverflow
Whole(line) == IF Len(line) > MaxLine THEN TooLong ELSE line
PendingLines ==
    [i \in DOMAIN waiting |-> IF i = 1 THEN Fill(waiting[1]) ELSE Whole(waiting[i])]
PendingCurrent == IF waiting = <<>> THEN Fill(partial) ELSE Whole(partial)

Pieces ==
    Lines \cup UNION {{Prefix(line, k) : k \in 1..(Len(line) - 1)}
                         \cup {Suffix(line, k) : k \in 1..(Len(line) - 1)} : line \in SplitLines}

Service == INSTANCE LineService WITH Limit <- MaxLine, lines <- PendingLines,
               current <- PendingCurrent, begun <- Begun, taken <- did.line

\* The line buffer, its overflow flag and one line per task() implement
\* LineService: no line is run in part, merged with another, skipped or run
\* twice, unless serial control is disabled while it is being read.
ImplementsLines == Service!Spec

=============================================================================
