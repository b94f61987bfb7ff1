-------------------------- MODULE WiimoteExtensions --------------------------
(***************************************************************************)
(* The detection of the Wiimote's extension                                *)
(* (tinywiimote/protocol/wiimote_extensions.cpp) over the output reports   *)
(* of wiimote_protocol.cpp, with the commands of TinyWiimote.cpp that use  *)
(* the same reports, against a Wiimote whose extension is plugged and      *)
(* unplugged.  HciLink models how the link comes and goes; here it is up   *)
(* or down.                                                                *)
(*                                                                         *)
(* out carries output reports to the Wiimote and inp its input reports,    *)
(* both in order; a lost link reaches the host behind the reports that     *)
(* came before it.                                                         *)
(***************************************************************************)
EXTENDS Integers, Sequences

CONSTANTS
    UseAccelerometer,   \* state->getUseAccelerometer()
    SketchModes,        \* the reporting modes the sketch may ask for
    AckLengths,         \* bytes an acknowledge report 0x22 may have
    MaxTraffic          \* reports under way beyond which nobody adds one on his own

ASSUME ExtensionsAssumption ==
    /\ UseAccelerometer \in BOOLEAN
    /\ SketchModes \subseteq {"0x30", "0x31", "0x32", "0x35"}
    /\ AckLengths \subseteq Nat
    /\ MaxTraffic \in Nat

VARIABLES
    controllerReportState,
    connected,          \* wiimoteState.isConnected()
    nunchukConnected,   \* wiimoteState.isNunchukConnected()
    ackDropped,         \* history: the present wait has lost an acknowledgement to MinReport
    out, inp,
    linked,             \* the link is up, its channel in the connection table
    plugged,            \* the extension in the Wiimote's port
    unlocked,           \* writes of the unencrypted start the extension has taken
    mode,               \* reporting mode of the Wiimote and who asked for it
    silent              \* it reports no data before its mode is set again

hostVars == <<controllerReportState, connected, nunchukConnected, ackDropped>>
wiimoteVars == <<linked, plugged, unlocked, mode, silent>>
vars == <<hostVars, out, inp, wiimoteVars>>

Extensions == {"none", "nunchuk", "other"}
Registers == {"F0", "FB", "user"}          \* 0xA400F0, 0xA400FB, what the sketch writes
Addresses == {"FA", "eepromFA", "user"}    \* 0xA400FA, EEPROM 0x0000FA, what the sketch reads

DefaultMode == IF UseAccelerometer THEN "0x31" ELSE "0x30"
NunchukMode == IF UseAccelerometer THEN "0x35" ELSE "0x32"
Modes == {"0x30", "0x31", "0x32", "0x35"}

\* Input reports: 0x20, 0x22, 0x21, a data report, and the end of the link.
\* ok: the flag of the extension (0x20), no error (0x22), its identity is that
\* of a Nunchuk (0x21).  fa: the low 16 bits of the address are 00 FA.
\* len: the bytes handleReport is given.
Report(kind, ok, fa) ==
    [kind |-> kind, ok |-> ok, fa |-> fa, len |-> IF kind = "read" THEN 23 ELSE 8]
Ack(ok, len) == [kind |-> "ack", ok |-> ok, fa |-> FALSE, len |-> len]
Status == Report("status", plugged # "none", FALSE)

Reports ==
    [kind : {"status", "data", "lost"}, ok : BOOLEAN, fa : BOOLEAN, len : {8}]
    \cup [kind : {"read"}, ok : BOOLEAN, fa : BOOLEAN, len : {23}]
    \cup [kind : {"ack"}, ok : BOOLEAN, fa : BOOLEAN, len : AckLengths]

\* Output reports.  by tells the host's own reports from the sketch's.
Command(op, arg, by) == [op |-> op, arg |-> arg, by |-> by]
SetMode(m, by) == <<Command("mode", m, by)>>
Write(register, by) == <<Command("write", register, by)>>
Read(address, by) == <<Command("read", address, by)>>
RequestStatus(by) == <<Command("status", "none", by)>>
SetLeds(by) == <<Command("leds", "none", by)>>

\* An output report needs the connection table's entry.
Queue(outputs) == IF linked THEN out \o outputs ELSE out

Room == Len(out) + Len(inp) < MaxTraffic

Init ==
    /\ controllerReportState = "Init"
    /\ connected = FALSE /\ nunchukConnected = FALSE /\ ackDropped = FALSE
    /\ out = <<>> /\ inp = <<>>
    /\ linked = FALSE
    /\ plugged \in Extensions
    /\ unlocked = 0
    /\ mode = [mode |-> "0x30", by |-> "host"]
    /\ silent = FALSE

----------------------------------------------------------------------------
(* WiimoteExtensions::handleReport, one definition per state: what it      *)
(* sends, the state it goes to and what it finds of the Nunchuk.           *)

Step(outputs, next, nunchuk) == [outputs |-> outputs, next |-> next, nunchuk |-> nunchuk]
Ignore == Step(<<>>, controllerReportState, nunchukConnected)

\* Mutated form: a report of an empty port forgets to set the mode again.
InInit_NoMode(r) ==
    IF r.kind # "status" THEN Ignore
    ELSE IF r.ok THEN Step(Write("F0", "host"), "WaitAckOutReport", nunchukConnected)
    ELSE Step(<<>>, "Init", FALSE)

InInit(r) ==
    IF r.kind # "status" THEN Ignore
    ELSE IF r.ok THEN Step(Write("F0", "host"), "WaitAckOutReport", nunchukConnected)
    ELSE Step(SetMode(DefaultMode, "host"), "Init", FALSE)

\* Mutated form: an acknowledged write ends the detection in a state of its own.
InWaitAck_NoState(r) ==
    IF r.kind # "ack" THEN Ignore
    ELSE IF r.ok THEN Step(Write("FB", "host"), "Acked", nunchukConnected)
    ELSE Step(<<>>, "Init", nunchukConnected)

InWaitAck(r) ==
    IF r.kind # "ack" THEN Ignore
    ELSE IF r.ok THEN Step(Write("FB", "host"), "WaitReadControllerType", nunchukConnected)
    ELSE Step(<<>>, "Init", nunchukConnected)

InWaitControllerType(r) ==
    IF r.kind # "ack" THEN Ignore
    ELSE IF r.ok THEN Step(Read("FA", "host"), "WaitReadResponse", nunchukConnected)
    ELSE Step(<<>>, "Init", nunchukConnected)

\* Mutated form: only the identity of a Nunchuk ends the wait.
InWaitReadResponse_OnlyNunchuk(r) ==
    IF r.kind # "read" \/ ~r.fa \/ ~r.ok THEN Ignore
    ELSE Step(SetMode(NunchukMode, "host"), "Init", TRUE)

\* The error nibble of 0x21 is not read: a failed read is no Nunchuk's identity.
InWaitReadResponse(r) ==
    IF r.kind # "read" \/ ~r.fa THEN Ignore
    ELSE IF r.ok THEN Step(SetMode(NunchukMode, "host"), "Init", TRUE)
    ELSE Step(<<>>, "Init", nunchukConnected)

MinReport == 8

HandleReport(r) ==
    IF r.len < MinReport THEN Ignore
    ELSE CASE controllerReportState = "Init" -> InInit(r)
           [] controllerReportState = "WaitAckOutReport" -> InWaitAck(r)
           [] controllerReportState = "WaitReadControllerType" -> InWaitControllerType(r)
           [] controllerReportState = "WaitReadResponse" -> InWaitReadResponse(r)

AckStates == {"WaitAckOutReport", "WaitReadControllerType"}

\* An acknowledgement that is too short to be looked at while one is awaited.
Missed(r) == controllerReportState \in AckStates /\ r.kind = "ack" /\ r.len < MinReport

\* The outputs of the first input report of a connection.
Detected ==
    IF connected THEN <<>>
    ELSE SetLeds("host") \o RequestStatus("host")
         \o (IF UseAccelerometer THEN SetMode("0x31", "host") ELSE <<>>)

\* handleL2capData with the prefix of an input report.
InputReport ==
    /\ inp # <<>> /\ Head(inp).kind # "lost"
    /\ LET s == HandleReport(Head(inp)) IN
       /\ out' = Queue(Detected \o s.outputs)
       /\ controllerReportState' = s.next
       /\ nunchukConnected' = s.nunchuk
       /\ ackDropped' = (s.next = controllerReportState /\ (ackDropped \/ Missed(Head(inp))))
    /\ connected' = TRUE
    /\ inp' = Tail(inp)
    /\ UNCHANGED wiimoteVars

\* Mutated form: the device is reset without wiimoteState.reset.
OnDisconnected_KeepsNunchuk ==
    /\ inp # <<>> /\ Head(inp).kind = "lost"
    /\ controllerReportState' = "Init"
    /\ connected' = FALSE /\ ackDropped' = FALSE /\ UNCHANGED nunchukConnected
    /\ inp' = Tail(inp)
    /\ UNCHANGED <<out, wiimoteVars>>

\* Mutated form: the state of the detection survives the loss of the link.
HostStep_KeepsDetection ==
    \/ InputReport
    \/ /\ inp # <<>> /\ Head(inp).kind = "lost"
       /\ connected' = FALSE /\ nunchukConnected' = FALSE /\ ackDropped' = FALSE
       /\ inp' = Tail(inp)
       /\ UNCHANGED <<controllerReportState, out, wiimoteVars>>

\* onDisconnected: wiimoteState.reset and resetDeviceInternal.
OnDisconnected ==
    /\ inp # <<>> /\ Head(inp).kind = "lost"
    /\ controllerReportState' = "Init"
    /\ connected' = FALSE /\ nunchukConnected' = FALSE /\ ackDropped' = FALSE
    /\ inp' = Tail(inp)
    /\ UNCHANGED <<out, wiimoteVars>>

HostStep == InputReport \/ OnDisconnected

----------------------------------------------------------------------------
(* The sketch: accepted while a Wiimote is connected.                      *)

SketchSends(outputs) ==
    /\ connected /\ Room
    /\ out' = Queue(outputs)
    /\ UNCHANGED <<hostVars, inp, wiimoteVars>>

TinyWiimoteRequestStatus == SketchSends(RequestStatus("sketch"))
TinyWiimoteSetLeds == SketchSends(SetLeds("sketch"))
TinyWiimoteSetReportingMode == \E m \in SketchModes : SketchSends(SetMode(m, "sketch"))
TinyWiimoteWriteMemory == SketchSends(Write("user", "sketch"))
TinyWiimoteReadMemory == \E a \in Addresses : SketchSends(Read(a, "sketch"))

SketchStep ==
    \/ TinyWiimoteRequestStatus \/ TinyWiimoteSetLeds \/ TinyWiimoteSetReportingMode
    \/ TinyWiimoteWriteMemory \/ TinyWiimoteReadMemory

----------------------------------------------------------------------------
(* The Wiimote: it answers output reports in order, tells a change of its  *)
(* extension, and then reports no data until its mode is set.              *)

Takes(op) == out # <<>> /\ Head(out).op = op /\ out' = Tail(out)

WiimoteAnswersStatus ==
    /\ Takes("status")
    /\ inp' = Append(inp, Status)
    /\ UNCHANGED <<hostVars, wiimoteVars>>

\* A register of the extension takes a write only with an extension; what the
\* sketch writes may be refused.
WiimoteWrites ==
    /\ Takes("write")
    /\ LET register == Head(out).arg IN
       \E ok \in (IF register = "user" THEN BOOLEAN ELSE {plugged # "none"}), n \in AckLengths :
         /\ inp' = Append(inp, Ack(ok, n))
         /\ unlocked' = IF ok /\ register = "F0" THEN 1
                        ELSE IF ok /\ register = "FB" /\ unlocked = 1 THEN 2 ELSE unlocked
    /\ UNCHANGED <<hostVars, linked, plugged, mode, silent>>

\* The identity is plain only after both writes.
WiimoteReads ==
    /\ Takes("read")
    /\ LET address == Head(out).arg IN
       inp' = Append(inp, Report("read", address = "FA" /\ plugged = "nunchuk" /\ unlocked = 2,
                                 address \in {"FA", "eepromFA"}))
    /\ UNCHANGED <<hostVars, wiimoteVars>>

WiimoteSetsMode ==
    /\ Takes("mode")
    /\ mode' = [mode |-> Head(out).arg, by |-> Head(out).by]
    /\ silent' = FALSE
    /\ UNCHANGED <<hostVars, inp, linked, plugged, unlocked>>

WiimoteSetsLeds == Takes("leds") /\ UNCHANGED <<hostVars, inp, wiimoteVars>>

WiimoteStep ==
    \/ WiimoteAnswersStatus \/ WiimoteWrites \/ WiimoteReads \/ WiimoteSetsMode \/ WiimoteSetsLeds

WiimoteReportsData ==
    /\ linked /\ ~silent /\ Room
    /\ inp' = Append(inp, Report("data", FALSE, FALSE))
    /\ UNCHANGED <<hostVars, out, wiimoteVars>>

\* An extension is plugged into the empty port, or pulled out of it.
ExtensionChanges ==
    /\ Room
    /\ plugged' \in (IF plugged = "none" THEN Extensions \ {"none"} ELSE {"none"})
    /\ unlocked' = 0
    /\ IF linked THEN silent' = TRUE /\ inp' = Append(inp, Status') ELSE UNCHANGED <<inp, silent>>
    /\ UNCHANGED <<hostVars, out, linked, mode>>

LinkLost ==
    /\ linked /\ Room
    /\ linked' = FALSE
    /\ out' = <<>>
    /\ inp' = Append(inp, Report("lost", FALSE, FALSE))
    /\ UNCHANGED <<hostVars, plugged, unlocked, mode, silent>>

\* HciLink brings the next link up once the end of the last one is handled.
LinkUp ==
    /\ ~linked /\ inp = <<>>
    /\ linked' = TRUE
    /\ mode' = [mode |-> "0x30", by |-> "host"]
    /\ silent' = FALSE
    /\ UNCHANGED <<hostVars, out, inp, plugged, unlocked>>

Next ==
    \/ HostStep \/ SketchStep \/ WiimoteStep
    \/ WiimoteReportsData \/ ExtensionChanges \/ LinkLost \/ LinkUp

Spec == Init /\ [][Next]_vars

\* The main loop handles what arrives, and a linked Wiimote answers.
Fairness == WF_vars(HostStep) /\ WF_vars(WiimoteStep)
FairSpec == Spec /\ Fairness

----------------------------------------------------------------------------
(* Properties.                                                             *)

\* Every variable has its type.
TypeOK ==
    /\ controllerReportState \in
         {"Init", "WaitAckOutReport", "WaitReadControllerType", "WaitReadResponse"}
    /\ connected \in BOOLEAN /\ nunchukConnected \in BOOLEAN /\ ackDropped \in BOOLEAN
    /\ out \in Seq([op : {"leds", "status", "mode", "write", "read"},
                    arg : {"none"} \cup Modes \cup Registers \cup Addresses,
                    by : {"host", "sketch"}])
    /\ inp \in Seq(Reports)
    /\ linked \in BOOLEAN /\ silent \in BOOLEAN
    /\ plugged \in Extensions /\ unlocked \in 0..2
    /\ mode \in [mode : Modes, by : {"host", "sketch"}]

Outgoing(P(_)) == \E i \in DOMAIN out : P(out[i])
Incoming(P(_)) == \E i \in DOMAIN inp : P(inp[i])

IsMode(c) == c.op = "mode"
IsWrite(c) == c.op = "write"
IsReadFA(c) == c.op = "read" /\ c.arg \in {"FA", "eepromFA"}
IsAck(r) == r.kind = "ack"
IsIdentity(r) == r.kind = "read" /\ r.fa
IsLost(r) == r.kind = "lost"

\* handleReport waits in vain only by its own check of the length: in a waiting
\* state the awaited answer, or the request of it, or the news that the link is
\* gone is on its way, or an acknowledgement has come and was dropped as shorter
\* than eight bytes, which those of a Wiimote are (six, what the handlers' own
\* check admits).  There is no timeout, so without an answer the detection hangs.
AnswerIsComing ==
    \/ Incoming(IsLost)
    \/ /\ controllerReportState \in AckStates
            => ackDropped \/ Outgoing(IsWrite) \/ Incoming(IsAck)
       /\ controllerReportState = "WaitReadResponse"
            => Outgoing(IsReadFA) \/ Incoming(IsIdentity)

\* The mode command of out behind which there is no other.
LastModeAsked(i) ==
    out[i].op = "mode" /\ \A j \in DOMAIN out : j > i => out[j].op # "mode"

\* While the host takes the Nunchuk for connected, the last mode it asked for
\* carries extension bytes, whatever detection came between; only the sketch
\* may have replaced it.  What was asked for is in out, or taken already.
NunchukModeInForce ==
    nunchukConnected /\ linked =>
        \/ \E i \in DOMAIN out :
              LastModeAsked(i) /\ (out[i].by = "sketch" \/ out[i].arg = NunchukMode)
        \/ ~Outgoing(IsMode) /\ (mode.by = "sketch" \/ mode.mode = NunchukMode)

\* A detection ends, or hangs where an acknowledgement was dropped for its
\* length: otherwise the state comes back to Init, where status reports are read
\* (battery, extension flag), whatever the sketch sends meanwhile.
DetectionEnds ==
    controllerReportState # "Init" ~>
        controllerReportState = "Init" \/ (controllerReportState \in AckStates /\ ackDropped)

ForeignTraffic ==
    \/ Outgoing(LAMBDA c : c.op \in {"write", "read"})
    \/ Incoming(LAMBDA r : r.kind \in {"ack", "read"})
SketchTraffic == Outgoing(LAMBDA c : c.by = "sketch" /\ c.op \in {"write", "read"})

Tells(e) ==
    /\ controllerReportState = "Init" /\ inp # <<>>
    /\ Head(inp) = Report("status", e # "none", FALSE)
    /\ plugged = e /\ linked /\ ~ForeignTraffic

\* A status report read in Init is followed by what its flag announced.  An
\* empty port: the Nunchuk is forgotten and data reported again (after a change
\* of the port the Wiimote waits for a mode).  A Nunchuk: it is found, and data
\* reported again, or the detection lost an acknowledgement to the check of the
\* length (see NunchukIsDetected).  Both unless the port changes once more, the
\* link goes, or the sketch accesses memory meanwhile (the answer to the sketch
\* is then taken for the detection's).  Of any other extension handleReport
\* sets no mode: the Wiimote stays silent.
PortIsRecognised ==
    \A e \in {"none", "nunchuk"} :
        Tells(e) ~> \/ nunchukConnected = (e = "nunchuk") /\ ~silent
                    \/ plugged # e \/ ~linked \/ SketchTraffic
                    \/ e = "nunchuk" /\ ackDropped

\* ARCHITECTURE.md:192, of the Wiimote protocol layer: "Handle extension
\* controller detection".  A Nunchuk that is announced and stays is found: false
\* of the code when acknowledgements have the six bytes a Wiimote sends.
NunchukIsDetected ==
    Tells("nunchuk") ~> nunchukConnected \/ plugged # "nunchuk" \/ ~linked \/ SketchTraffic

=============================================================================
