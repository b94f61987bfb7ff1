---------------------- MODULE WiimoteExtensionsProofs ----------------------
(***************************************************************************)
(* Proofs about WiimoteExtensions, for either use of the accelerometer,    *)
(* every set of modes of the sketch, all lengths of acknowledgements and   *)
(* any traffic.                                                            *)
(***************************************************************************)
EXTENDS WiimoteExtensions, SequenceTheorems, TLAPS

States == {"Init", "WaitAckOutReport", "WaitReadControllerType", "WaitReadResponse"}
Commands ==
    [op : {"leds", "status", "mode", "write", "read"},
     arg : {"none"} \cup Modes \cup Registers \cup Addresses,
     by : {"host", "sketch"}]

\* What is asked for as a mode is one.
ModesAreModes == \A i \in DOMAIN out : out[i].op = "mode" => out[i].arg \in Modes

\* The end of a link is the last that is heard of it, nothing is on its way to
\* the Wiimote any more, and the host forgets it before the next link.
LinkEnds ==
    /\ \A i \in DOMAIN inp : inp[i].kind = "lost" => i = Len(inp)
    /\ linked => ~Incoming(IsLost)
    /\ ~linked =>
         /\ out = <<>>
         /\ \/ Incoming(IsLost)
            \/ inp = <<>> /\ controllerReportState = "Init" /\ ~nunchukConnected

\* The Nunchuk is that of a connected Wiimote.
NunchukIsOfWiimote == nunchukConnected => connected

LinkInvariant == TypeOK /\ ModesAreModes /\ LinkEnds /\ NunchukIsOfWiimote

----------------------------------------------------------------------------
(* What the host sends.                                                    *)

\* Every output report is a command.
LEMMA OutputsAreCommands ==
    /\ DefaultMode \in Modes /\ NunchukMode \in Modes /\ SketchModes \subseteq Modes
    /\ \A by \in {"host", "sketch"} :
         /\ \A m \in Modes : Command("mode", m, by) \in Commands
         /\ \A r \in Registers : Command("write", r, by) \in Commands
         /\ \A a \in Addresses : Command("read", a, by) \in Commands
         /\ Command("status", "none", by) \in Commands /\ Command("leds", "none", by) \in Commands
  BY ExtensionsAssumption DEF DefaultMode, NunchukMode, Modes, Command, Commands

\* The commands sent stand behind those on their way.
LEMMA CommandsQueued ==
    ASSUME out \in Seq(Commands), NEW m \in Seq(Commands), out' = out \o m
    PROVE  /\ out' \in Seq(Commands) /\ Len(out) \in Nat
           /\ \A i \in DOMAIN out : i \in DOMAIN out' /\ out'[i] = out[i] /\ i \in Nat /\ i <= Len(out)
           /\ \A j \in DOMAIN m : Len(out) + j \in DOMAIN out' /\ out'[Len(out) + j] = m[j] /\ j \in Nat \ {0}
           /\ \A i \in DOMAIN out' : i \in DOMAIN out \/ \E j \in DOMAIN m : i = Len(out) + j
  <1>1. \A i \in DOMAIN out : i \in DOMAIN out' /\ out'[i] = out[i] /\ i \in Nat /\ i <= Len(out)
    OBVIOUS
  <1>2. \A j \in DOMAIN m : Len(out) + j \in DOMAIN out' /\ out'[Len(out) + j] = m[j] /\ j \in Nat \ {0}
    OBVIOUS
  <1>3. \A i \in DOMAIN out' : i \in DOMAIN out \/ \E j \in DOMAIN m : i = Len(out) + j
    <2> SUFFICES ASSUME NEW i \in DOMAIN out', i \notin DOMAIN out
                 PROVE  \E j \in DOMAIN m : i = Len(out) + j
      OBVIOUS
    <2>1. i - Len(out) \in DOMAIN m /\ i = Len(out) + (i - Len(out))
      OBVIOUS
    <2> QED BY <2>1
  <1> QED BY <1>1, <1>2, <1>3

\* One command is sent behind those of d.
LEMMA OneMore ==
    ASSUME NEW d \in Seq(Commands), NEW c \in Commands, NEW m, m = d \o <<c>>
    PROVE  /\ m \in Seq(Commands) /\ m # <<>> /\ Len(m) \in DOMAIN m /\ m[Len(m)] = c
           /\ \A j \in DOMAIN m : (j \in DOMAIN d /\ m[j] = d[j]) \/ m[j] = c
  OBVIOUS

\* The first report of a connection is answered with the LEDs, a status request
\* and perhaps a mode; later ones with nothing.
LEMMA DetectedCommands ==
    ASSUME TypeOK
    PROVE  /\ Detected \in Seq(Commands)
           /\ \A j \in DOMAIN Detected : Detected[j].op = "mode" => Detected[j].arg \in Modes
           /\ connected => Detected = <<>>
  <1>1. /\ Command("leds", "none", "host") \in Commands /\ Command("status", "none", "host") \in Commands
        /\ Command("mode", "0x31", "host") \in Commands
    BY OutputsAreCommands DEF Modes
  <1>2. Detected \in Seq(Commands)
    BY <1>1 DEF Detected, SetLeds, RequestStatus, SetMode
  <1>3. ASSUME NEW j \in DOMAIN Detected
        PROVE  Detected[j].op = "mode" => Detected[j].arg \in Modes
    BY <1>3 DEF Detected, SetLeds, RequestStatus, SetMode, Command, Modes
  <1> QED BY <1>2, <1>3 DEF Detected

\* What handleReport may do with a report: nothing, or one step of its detection.
LEMMA HandlerCases ==
    ASSUME TypeOK, NEW r \in Reports
    PROVE  \/ /\ HandleReport(r) = Ignore
              /\ controllerReportState \in {"WaitAckOutReport", "WaitReadControllerType"} =>
                   r.kind # "ack" \/ Missed(r)
              /\ controllerReportState = "WaitReadResponse" => ~IsIdentity(r)
           \/ HandleReport(r) = Step(Write("F0", "host"), "WaitAckOutReport", nunchukConnected)
           \/ HandleReport(r) = Step(SetMode(DefaultMode, "host"), "Init", FALSE)
           \/ HandleReport(r) = Step(Write("FB", "host"), "WaitReadControllerType", nunchukConnected)
           \/ HandleReport(r) = Step(Read("FA", "host"), "WaitReadResponse", nunchukConnected)
           \/ HandleReport(r) = Step(SetMode(NunchukMode, "host"), "Init", TRUE)
           \/ HandleReport(r) = Step(<<>>, "Init", nunchukConnected)
  <1>1. CASE r.len < MinReport
    <2>1. HandleReport(r) = Ignore
      BY <1>1 DEF HandleReport
    <2>2. controllerReportState \in AckStates => r.kind # "ack" \/ Missed(r)
      BY <1>1 DEF Missed
    <2>3. r.kind # "read"
      BY <1>1 DEF Reports, MinReport
    <2> QED BY <2>1, <2>2, <2>3 DEF IsIdentity, AckStates
  <1>2. CASE ~(r.len < MinReport) /\ controllerReportState = "Init"
    <2>1. HandleReport(r) = InInit(r)
      BY <1>2 DEF HandleReport
    <2> QED BY <1>2, <2>1, Zenon DEF InInit
  <1>3. CASE ~(r.len < MinReport) /\ controllerReportState = "WaitAckOutReport"
    <2>1. HandleReport(r) = InWaitAck(r)
      BY <1>3 DEF HandleReport
    <2>2. controllerReportState # "WaitReadResponse"
      BY <1>3
    <2> QED BY <2>1, <2>2, Zenon DEF InWaitAck
  <1>4. CASE ~(r.len < MinReport) /\ controllerReportState = "WaitReadControllerType"
    <2>1. HandleReport(r) = InWaitControllerType(r)
      BY <1>4 DEF HandleReport
    <2>2. controllerReportState # "WaitReadResponse"
      BY <1>4
    <2> QED BY <2>1, <2>2, Zenon DEF InWaitControllerType
  <1>5. CASE ~(r.len < MinReport) /\ controllerReportState = "WaitReadResponse"
    <2>1. HandleReport(r) = InWaitReadResponse(r)
      BY <1>5 DEF HandleReport
    <2>2. controllerReportState \notin {"WaitAckOutReport", "WaitReadControllerType"}
      BY <1>5
    <2> QED BY <2>1, <2>2, Zenon DEF InWaitReadResponse, IsIdentity
  <1> QED BY <1>1, <1>2, <1>3, <1>4, <1>5 DEF TypeOK

\* What the host may do about report r: it sends m, goes to state next, and the
\* Nunchuk is there or not.
Answers(r, m, next, nunchuk) ==
    /\ m \in Seq(Commands) /\ next \in States /\ nunchuk \in BOOLEAN
    /\ \A j \in DOMAIN m : m[j].op = "mode" => m[j].arg \in Modes
    /\ nunchuk =>
         \/ Len(m) \in DOMAIN m /\ m[Len(m)].op = "mode" /\ m[Len(m)].arg = NunchukMode
         \/ nunchukConnected /\ (connected => \A j \in DOMAIN m : m[j].op # "mode")
    /\ next \in {"WaitAckOutReport", "WaitReadControllerType"} =>
         \/ \E j \in DOMAIN m : IsWrite(m[j])
         \/ next = controllerReportState /\ (r.kind # "ack" \/ Missed(r))
    /\ next = "WaitReadResponse" =>
         \/ \E j \in DOMAIN m : IsReadFA(m[j])
         \/ next = controllerReportState /\ ~IsIdentity(r)

\* One command sent behind those of Detected is an answer.
LEMMA AnswersWithOne ==
    ASSUME TypeOK, NEW r, NEW c \in Commands, NEW next \in States, NEW nunchuk \in BOOLEAN,
           c.op = "mode" => c.arg \in Modes,
           nunchuk => \/ c.op = "mode" /\ c.arg = NunchukMode
                      \/ nunchukConnected /\ c.op # "mode",
           next \in {"WaitAckOutReport", "WaitReadControllerType"} => IsWrite(c),
           next = "WaitReadResponse" => IsReadFA(c)
    PROVE  Answers(r, Detected \o <<c>>, next, nunchuk)
  <1> DEFINE m == Detected \o <<c>>
  <1>1. /\ m \in Seq(Commands) /\ Len(m) \in DOMAIN m /\ m[Len(m)] = c
        /\ \A j \in DOMAIN m : (j \in DOMAIN Detected /\ m[j] = Detected[j]) \/ m[j] = c
    BY OneMore, DetectedCommands
  <1>2. /\ \A j \in DOMAIN Detected : Detected[j].op = "mode" => Detected[j].arg \in Modes
        /\ connected => DOMAIN Detected = {}
    BY DetectedCommands
  <1> HIDE DEF m
  <1>3. \A j \in DOMAIN m : m[j].op = "mode" => m[j].arg \in Modes
    BY <1>1, <1>2
  <1>4. connected /\ c.op # "mode" => \A j \in DOMAIN m : m[j].op # "mode"
    BY <1>1, <1>2
  <1>5. nunchuk => \/ Len(m) \in DOMAIN m /\ m[Len(m)].op = "mode" /\ m[Len(m)].arg = NunchukMode
                   \/ nunchukConnected /\ (connected => \A j \in DOMAIN m : m[j].op # "mode")
    BY <1>1, <1>4, Zenon
  <1>6. /\ next \in {"WaitAckOutReport", "WaitReadControllerType"} => \E j \in DOMAIN m : IsWrite(m[j])
        /\ next = "WaitReadResponse" => \E j \in DOMAIN m : IsReadFA(m[j])
    BY <1>1, Zenon
  <1>7. Answers(r, m, next, nunchuk)
    BY <1>1, <1>3, <1>5, <1>6, Zenon DEF Answers
  <1> QED BY <1>7 DEF m

\* Nothing but the commands of Detected are an answer when the awaited one is
\* not there, or ends the detection.
LEMMA AnswersWithNone ==
    ASSUME TypeOK, NEW r, NEW next \in States,
           next \in {"WaitAckOutReport", "WaitReadControllerType"} =>
             next = controllerReportState /\ (r.kind # "ack" \/ Missed(r)),
           next = "WaitReadResponse" => next = controllerReportState /\ ~IsIdentity(r)
    PROVE  Answers(r, Detected \o <<>>, next, nunchukConnected)
  <1>1. /\ Detected \in Seq(Commands)
        /\ connected => DOMAIN Detected = {}
        /\ \A j \in DOMAIN Detected : Detected[j].op = "mode" => Detected[j].arg \in Modes
    BY DetectedCommands
  <1>2. Detected \o <<>> = Detected
    BY <1>1
  <1>3. nunchukConnected \in BOOLEAN
    BY DEF TypeOK
  <1>4. nunchukConnected =>
          \/ /\ Len(Detected) \in DOMAIN Detected
             /\ Detected[Len(Detected)].op = "mode" /\ Detected[Len(Detected)].arg = NunchukMode
          \/ nunchukConnected /\ (connected => \A j \in DOMAIN Detected : Detected[j].op # "mode")
    <2>1. ASSUME connected, NEW j \in DOMAIN Detected
          PROVE  Detected[j].op # "mode"
      BY <1>1, <2>1
    <2> QED BY <2>1, Zenon
  <1>5. Answers(r, Detected, next, nunchukConnected)
    BY <1>1, <1>3, <1>4, Zenon DEF Answers
  <1> QED BY <1>2, <1>5

\* What an input report makes the host do.
LEMMA HostAnswers ==
    ASSUME TypeOK, InputReport
    PROVE  /\ \E m : out' = Queue(m) /\ Answers(Head(inp), m, controllerReportState', nunchukConnected')
           /\ ackDropped' = (controllerReportState' = controllerReportState
                               /\ (ackDropped \/ Missed(Head(inp))))
  <1> DEFINE r == Head(inp)
             s == HandleReport(r)
             m == Detected \o s.outputs
  <1>1. inp # <<>>
    BY DEF InputReport
  <1>2. r \in Reports
    <2>1. inp \in Seq(Reports)
      BY DEF TypeOK, Reports
    <2> QED BY <1>1, <2>1
  <1>3. /\ out' = Queue(m) /\ controllerReportState' = s.next /\ nunchukConnected' = s.nunchuk
        /\ ackDropped' = (s.next = controllerReportState /\ (ackDropped \/ Missed(Head(inp))))
    BY Zenon DEF InputReport
  <1>4. /\ controllerReportState \in States /\ nunchukConnected \in BOOLEAN
        /\ {"Init", "WaitAckOutReport", "WaitReadControllerType", "WaitReadResponse"} \subseteq States
    BY DEF TypeOK, States
  <1>5. \A outputs, next, nunchuk :
          s = Step(outputs, next, nunchuk) =>
             s.outputs = outputs /\ s.next = next /\ s.nunchuk = nunchuk
    BY DEF Step
  <1> HIDE DEF m, s
  <1>5a. ackDropped' = (controllerReportState' = controllerReportState
                          /\ (ackDropped \/ Missed(Head(inp))))
    BY <1>3
  <1> SUFFICES Answers(r, m, s.next, s.nunchuk)
    BY <1>3, <1>5a, Zenon
  <1> USE DEF m
  <1> HIDE DEF r
  <1>6. CASE /\ s = Ignore
             /\ controllerReportState \in {"WaitAckOutReport", "WaitReadControllerType"} =>
                  r.kind # "ack" \/ Missed(r)
             /\ controllerReportState = "WaitReadResponse" => ~IsIdentity(r)
    <2>1. s.outputs = <<>> /\ s.next = controllerReportState /\ s.nunchuk = nunchukConnected
      BY <1>5, <1>6 DEF Ignore
    <2>2. Answers(r, Detected \o <<>>, controllerReportState, nunchukConnected)
      BY <1>4, <1>6, AnswersWithNone
    <2> QED BY <2>1, <2>2
  <1>7. CASE s = Step(<<>>, "Init", nunchukConnected)
    <2>1. s.outputs = <<>> /\ s.next = "Init" /\ s.nunchuk = nunchukConnected
      BY <1>5, <1>7
    <2>2. Answers(r, Detected \o <<>>, "Init", nunchukConnected)
      BY <1>4, AnswersWithNone
    <2> QED BY <2>1, <2>2
  <1>8. ASSUME NEW c \in Commands, NEW next \in States, NEW nunchuk \in BOOLEAN,
               s = Step(<<c>>, next, nunchuk),
               Answers(r, Detected \o <<c>>, next, nunchuk)
        PROVE  Answers(r, m, s.next, s.nunchuk)
    <2>1. s.outputs = <<c>> /\ s.next = next /\ s.nunchuk = nunchuk
      BY <1>5, <1>8
    <2> QED BY <1>8, <2>1
  <1>9. CASE \/ s = Step(Write("F0", "host"), "WaitAckOutReport", nunchukConnected)
             \/ s = Step(Write("FB", "host"), "WaitReadControllerType", nunchukConnected)
    <2>1. PICK register \in {"F0", "FB"}, next \in {"WaitAckOutReport", "WaitReadControllerType"} :
            s = Step(<<Command("write", register, "host")>>, next, nunchukConnected)
      BY <1>9, Zenon DEF Write
    <2> DEFINE c == Command("write", register, "host")
    <2>2. c \in Commands /\ c.op = "write" /\ IsWrite(c)
      BY OutputsAreCommands DEF Registers, Command, IsWrite
    <2> HIDE DEF c
    <2>3. Answers(r, Detected \o <<c>>, next, nunchukConnected)
      BY <1>4, <2>2, AnswersWithOne
    <2> QED BY <1>4, <1>8, <2>1, <2>2, <2>3 DEF c
  <1>10. CASE s = Step(Read("FA", "host"), "WaitReadResponse", nunchukConnected)
    <2> DEFINE c == Command("read", "FA", "host")
    <2>1. c \in Commands /\ c.op = "read" /\ IsReadFA(c)
      BY OutputsAreCommands DEF Addresses, Command, IsReadFA
    <2>2. s = Step(<<c>>, "WaitReadResponse", nunchukConnected)
      BY <1>10 DEF Read
    <2> HIDE DEF c
    <2>3. Answers(r, Detected \o <<c>>, "WaitReadResponse", nunchukConnected)
      BY <1>4, <2>1, AnswersWithOne
    <2> QED BY <1>4, <1>8, <2>1, <2>2, <2>3
  <1>11. CASE s = Step(SetMode(DefaultMode, "host"), "Init", FALSE)
    <2> DEFINE c == Command("mode", DefaultMode, "host")
    <2>1. c \in Commands /\ c.arg \in Modes
      BY OutputsAreCommands DEF Command
    <2>2. s = Step(<<c>>, "Init", FALSE)
      BY <1>11 DEF SetMode
    <2> HIDE DEF c
    <2>3. Answers(r, Detected \o <<c>>, "Init", FALSE)
      BY <1>4, <2>1, AnswersWithOne
    <2> QED BY <1>4, <1>8, <2>1, <2>2, <2>3
  <1>12. CASE s = Step(SetMode(NunchukMode, "host"), "Init", TRUE)
    <2> DEFINE c == Command("mode", NunchukMode, "host")
    <2>1. c \in Commands /\ c.op = "mode" /\ c.arg = NunchukMode /\ c.arg \in Modes
      BY OutputsAreCommands DEF Command
    <2>2. s = Step(<<c>>, "Init", TRUE)
      BY <1>12 DEF SetMode
    <2> HIDE DEF c
    <2>3. Answers(r, Detected \o <<c>>, "Init", TRUE)
      BY <1>4, <2>1, AnswersWithOne
    <2> QED BY <1>4, <1>8, <2>1, <2>2, <2>3
  <1> QED
    BY <1>2, <1>6, <1>7, <1>9, <1>10, <1>11, <1>12, HandlerCases, Zenon DEF s

----------------------------------------------------------------------------
(* What the other steps do to the reports on their way.                    *)

\* The head of a queue leaves, the others move up by one.
LEMMA HeadLeaves ==
    ASSUME NEW S, NEW q \in Seq(S), q # <<>>, NEW p, p = Tail(q)
    PROVE  /\ p \in Seq(S) /\ 1 \in DOMAIN q /\ Head(q) = q[1] /\ Head(q) \in S
           /\ Len(q) \in Nat \ {0} /\ Len(p) = Len(q) - 1
           /\ \A i \in DOMAIN p : i \in Nat \ {0} /\ i + 1 \in DOMAIN q /\ p[i] = q[i + 1]
           /\ \A i \in DOMAIN q : i \in Nat \ {0} /\ (i # 1 => i - 1 \in DOMAIN p /\ p[i - 1] = q[i])
  OBVIOUS

\* An element is added at the end of a queue.
LEMMA EndGrows ==
    ASSUME NEW S, NEW q \in Seq(S), NEW e \in S, NEW p, p = Append(q, e)
    PROVE  /\ p \in Seq(S) /\ p # <<>> /\ Len(q) \in Nat /\ Len(p) = Len(q) + 1
           /\ Len(p) \in DOMAIN p /\ p[Len(p)] = e
           /\ \A i \in DOMAIN q : i \in DOMAIN p /\ p[i] = q[i] /\ i \in Nat /\ i < Len(p)
           /\ \A i \in DOMAIN p : i \in DOMAIN q \/ i = Len(p)
  OBVIOUS

\* The queues as the lemmas need them.
LEMMA Queues ==
    ASSUME TypeOK
    PROVE  out \in Seq(Commands) /\ inp \in Seq(Reports)
  BY DEF TypeOK, Commands

\* What a report is made of.
LEMMA ReportFields ==
    /\ \A kind \in {"status", "data", "lost", "read"}, ok \in BOOLEAN, fa \in BOOLEAN :
          LET e == Report(kind, ok, fa) IN
          e \in Reports /\ e.kind = kind /\ (e.fa <=> fa)
    /\ \A ok \in BOOLEAN, len \in AckLengths : Ack(ok, len) \in Reports /\ Ack(ok, len).kind = "ack"
  BY DEF Report, Ack, Reports

\* A command of the sketch goes to the end of out, if there is a link.
LEMMA SketchMay ==
    ASSUME TypeOK, SketchStep
    PROVE  /\ connected /\ UNCHANGED <<hostVars, inp, wiimoteVars>>
           /\ \E c \in Commands :
                /\ out' = Queue(<<c>>) /\ c.by = "sketch"
                /\ c.op = "mode" => c.arg \in Modes
  <1>1. ASSUME NEW c \in Commands, SketchSends(<<c>>), c.by = "sketch",
               c.op = "mode" => c.arg \in Modes
        PROVE  /\ connected /\ UNCHANGED <<hostVars, inp, wiimoteVars>>
               /\ \E e \in Commands :
                    /\ out' = Queue(<<e>>) /\ e.by = "sketch"
                    /\ e.op = "mode" => e.arg \in Modes
    BY <1>1, Zenon DEF SketchSends
  <1>2. \A op, arg : LET c == Command(op, arg, "sketch") IN
          c.op = op /\ c.arg = arg /\ c.by = "sketch"
    BY DEF Command
  <1>3. CASE TinyWiimoteRequestStatus
    <2>1. Command("status", "none", "sketch") \in Commands
      BY OutputsAreCommands
    <2>2. SketchSends(<<Command("status", "none", "sketch")>>)
      BY <1>3 DEF TinyWiimoteRequestStatus, RequestStatus
    <2> QED BY <1>1, <1>2, <2>1, <2>2
  <1>4. CASE TinyWiimoteSetLeds
    <2>1. Command("leds", "none", "sketch") \in Commands
      BY OutputsAreCommands
    <2>2. SketchSends(<<Command("leds", "none", "sketch")>>)
      BY <1>4 DEF TinyWiimoteSetLeds, SetLeds
    <2> QED BY <1>1, <1>2, <2>1, <2>2
  <1>5. CASE TinyWiimoteSetReportingMode
    <2>1. PICK m \in SketchModes : SketchSends(<<Command("mode", m, "sketch")>>)
      BY <1>5 DEF TinyWiimoteSetReportingMode, SetMode
    <2>2. m \in Modes /\ Command("mode", m, "sketch") \in Commands
      BY OutputsAreCommands
    <2>3. PICK c \in Commands : c = Command("mode", m, "sketch")
      BY <2>2
    <2>4. c.by = "sketch" /\ c.arg \in Modes
      BY <1>2, <2>2, <2>3
    <2> QED BY <1>1, <2>1, <2>3, <2>4
  <1>6. CASE TinyWiimoteWriteMemory
    <2>1. Command("write", "user", "sketch") \in Commands
      BY OutputsAreCommands DEF Registers
    <2>2. SketchSends(<<Command("write", "user", "sketch")>>)
      BY <1>6 DEF TinyWiimoteWriteMemory, Write
    <2> QED BY <1>1, <1>2, <2>1, <2>2
  <1>7. CASE TinyWiimoteReadMemory
    <2>1. PICK a \in Addresses : SketchSends(<<Command("read", a, "sketch")>>)
      BY <1>7 DEF TinyWiimoteReadMemory, Read
    <2>2. Command("read", a, "sketch") \in Commands
      BY OutputsAreCommands
    <2> QED BY <1>1, <1>2, <2>1, <2>2
  <1> QED BY <1>3, <1>4, <1>5, <1>6, <1>7 DEF SketchStep

\* The Wiimote takes the first command and answers a write with an
\* acknowledgement, a read of an identity with one.
LEMMA WiimoteMay ==
    ASSUME TypeOK, ModesAreModes, WiimoteStep
    PROVE  /\ out # <<>> /\ out' = Tail(out) /\ UNCHANGED <<hostVars, linked, plugged>>
           /\ unlocked' \in 0..2 /\ silent' \in BOOLEAN
           /\ \/ /\ Head(out).op = "mode" /\ inp' = inp
                 /\ mode' = [mode |-> Head(out).arg, by |-> Head(out).by]
              \/ /\ Head(out).op # "mode" /\ mode' = mode
                 /\ \/ Head(out).op = "leds" /\ inp' = inp
                    \/ \E e \in Reports :
                         /\ inp' = Append(inp, e) /\ e.kind # "lost"
                         /\ IsWrite(Head(out)) => IsAck(e)
                         /\ IsReadFA(Head(out)) => IsIdentity(e)
  <1>1. \A op : Takes(op) => out # <<>> /\ out' = Tail(out) /\ Head(out).op = op
    BY DEF Takes
  <1>2. unlocked \in 0..2 /\ silent \in BOOLEAN
    BY DEF TypeOK
  <1>3. \A kind \in {"status", "read"}, ok \in BOOLEAN, fa \in BOOLEAN :
          LET e == Report(kind, ok, fa) IN
          e \in Reports /\ e.kind = kind /\ (e.fa <=> fa)
    BY ReportFields
  <1>4. CASE WiimoteAnswersStatus
    <2>1. Takes("status") /\ inp' = Append(inp, Status) /\ UNCHANGED <<hostVars, wiimoteVars>>
      BY <1>4 DEF WiimoteAnswersStatus
    <2>2. Status \in Reports /\ Status.kind # "lost"
      <3>1. Status.kind = "status" /\ Status \in Reports
        BY <1>3 DEF Status
      <3> QED BY <3>1
    <2> QED BY <1>1, <1>2, <2>1, <2>2 DEF wiimoteVars, IsWrite, IsReadFA
  <1>5. CASE WiimoteWrites
    <2>1. PICK ok \in BOOLEAN, n \in AckLengths :
            /\ inp' = Append(inp, Ack(ok, n))
            /\ unlocked' = IF ok /\ Head(out).arg = "F0" THEN 1
                           ELSE IF ok /\ Head(out).arg = "FB" /\ unlocked = 1 THEN 2 ELSE unlocked
      BY <1>5, Zenon DEF WiimoteWrites
    <2>2. Takes("write") /\ UNCHANGED <<hostVars, linked, plugged, mode, silent>>
      BY <1>5 DEF WiimoteWrites
    <2>3. unlocked' \in {unlocked, 1, 2}
      BY <2>1, Zenon
    <2>4. unlocked' \in 0..2
      BY <1>2, <2>3
    <2>5. PICK e \in Reports : inp' = Append(inp, e) /\ e.kind = "ack"
      BY <2>1, ReportFields
    <2>6. Head(out).op = "write" /\ out # <<>> /\ out' = Tail(out)
      BY <1>1, <2>2
    <2> QED BY <1>2, <2>2, <2>4, <2>5, <2>6 DEF IsReadFA, IsAck
  <1>6. CASE WiimoteReads
    <2> DEFINE ok == Head(out).arg = "FA" /\ plugged = "nunchuk" /\ unlocked = 2
               fa == Head(out).arg \in {"FA", "eepromFA"}
               e == Report("read", ok, fa)
    <2>1. Takes("read") /\ inp' = Append(inp, e) /\ UNCHANGED <<hostVars, wiimoteVars>>
      BY <1>6 DEF WiimoteReads
    <2>2. ok \in BOOLEAN /\ fa \in BOOLEAN
      OBVIOUS
    <2>3. e \in Reports /\ e.kind = "read" /\ (e.fa <=> fa)
      <3> HIDE DEF ok, fa
      <3> QED BY <1>3, <2>2
    <2>4. IsReadFA(Head(out)) => IsIdentity(e)
      BY <2>3, Zenon DEF IsReadFA, IsIdentity
    <2> HIDE DEF e
    <2> QED BY <1>1, <1>2, <2>1, <2>3, <2>4 DEF wiimoteVars, IsWrite
  <1>7. CASE WiimoteSetsMode
    BY <1>1, <1>2, <1>7 DEF WiimoteSetsMode
  <1>8. CASE WiimoteSetsLeds
    BY <1>1, <1>2, <1>8 DEF WiimoteSetsLeds, wiimoteVars
  <1> QED BY <1>4, <1>5, <1>6, <1>7, <1>8 DEF WiimoteStep

\* Data and news of the port go to the end of inp; out stays as it is.
LEMMA PortMay ==
    ASSUME TypeOK, WiimoteReportsData \/ ExtensionChanges
    PROVE  /\ UNCHANGED <<hostVars, out, linked, mode>>
           /\ plugged' \in Extensions /\ unlocked' \in 0..2 /\ silent' \in BOOLEAN
           /\ \/ inp' = inp
              \/ linked /\ \E e \in Reports : inp' = Append(inp, e) /\ e.kind # "lost"
  <1>1. plugged \in Extensions /\ unlocked \in 0..2 /\ silent \in BOOLEAN
    BY DEF TypeOK
  <1>2. CASE WiimoteReportsData
    <2>1. Report("data", FALSE, FALSE) \in Reports /\ Report("data", FALSE, FALSE).kind # "lost"
      BY ReportFields
    <2> QED BY <1>1, <1>2, <2>1 DEF WiimoteReportsData, wiimoteVars
  <1>3. CASE ExtensionChanges
    <2>1. plugged' \in Extensions
      BY <1>3 DEF ExtensionChanges, Extensions
    <2>2. \/ linked /\ silent' = TRUE /\ inp' = Append(inp, Status')
          \/ UNCHANGED <<inp, silent>>
      BY <1>3, Zenon DEF ExtensionChanges
    <2>3. PICK ok \in BOOLEAN : Status' = Report("status", ok, FALSE)
      BY Zenon DEF Status
    <2>4. Status' \in Reports /\ (Status').kind # "lost"
      BY <2>3, ReportFields
    <2>5. UNCHANGED <<hostVars, out, linked, mode>> /\ unlocked' = 0
      BY <1>3 DEF ExtensionChanges
    <2>6. silent' \in BOOLEAN
      BY <1>1, <2>2, Zenon
    <2> QED BY <2>1, <2>2, <2>4, <2>5, <2>6
  <1> QED BY <1>2, <1>3

----------------------------------------------------------------------------
(* Links.                                                                  *)

\* Commands sent, all of them with a mode for an argument if they set one.
LEMMA ModesQueued ==
    ASSUME TypeOK, ModesAreModes, NEW m \in Seq(Commands), out' = Queue(m),
           \A j \in DOMAIN m : m[j].op = "mode" => m[j].arg \in Modes
    PROVE  out' \in Seq(Commands) /\ ModesAreModes'
  <1>1. out \in Seq(Commands)
    BY Queues
  <1>2. CASE out' = out \o m
    BY <1>1, <1>2, CommandsQueued DEF ModesAreModes
  <1>3. CASE out' = out
    BY <1>1, <1>3 DEF ModesAreModes
  <1> QED BY <1>2, <1>3 DEF Queue

\* What is added to inp while the link is up is not its end.
LEMMA ReportsKept ==
    ASSUME TypeOK, LinkEnds, linked,
           \/ inp' = inp
           \/ \E e \in Reports : inp' = Append(inp, e) /\ e.kind # "lost"
    PROVE  /\ inp' \in Seq(Reports)
           /\ \A i \in DOMAIN inp' : inp'[i].kind = "lost" => i = Len(inp')
           /\ ~Incoming(IsLost)'
  <1>1. inp \in Seq(Reports) /\ \A i \in DOMAIN inp : inp[i].kind # "lost"
    BY Queues DEF LinkEnds, Incoming, IsLost
  <1>2. CASE inp' = inp
    BY <1>1, <1>2 DEF Incoming, IsLost
  <1>3. ASSUME NEW e \in Reports, inp' = Append(inp, e), e.kind # "lost"
        PROVE  /\ inp' \in Seq(Reports)
               /\ \A i \in DOMAIN inp' : inp'[i].kind # "lost"
    BY <1>1, <1>3, EndGrows
  <1> QED BY <1>2, <1>3 DEF Incoming, IsLost

\* A report is taken from inp that is not the end of the link.
LEMMA ReportTaken ==
    ASSUME TypeOK, LinkEnds, inp # <<>>, Head(inp).kind # "lost", inp' = Tail(inp)
    PROVE  /\ inp' \in Seq(Reports)
           /\ \A i \in DOMAIN inp' : inp'[i].kind = "lost" => i = Len(inp')
           /\ Incoming(IsLost)' <=> Incoming(IsLost)
  <1>1. inp \in Seq(Reports)
    BY Queues
  <1>2. /\ inp' \in Seq(Reports) /\ Len(inp') = Len(inp) - 1 /\ Len(inp) \in Nat
        /\ inp[1].kind # "lost"
        /\ \A i \in DOMAIN inp' : i \in Nat /\ i + 1 \in DOMAIN inp /\ inp'[i] = inp[i + 1]
        /\ \A i \in DOMAIN inp : i # 1 => i - 1 \in DOMAIN inp' /\ inp'[i - 1] = inp[i]
    BY <1>1, HeadLeaves
  <1>3. \A i \in DOMAIN inp' : inp'[i].kind = "lost" => i = Len(inp')
    BY <1>2 DEF LinkEnds
  <1>4. ASSUME Incoming(IsLost)
        PROVE  Incoming(IsLost)'
    <2>1. PICK i \in DOMAIN inp : inp[i].kind = "lost"
      BY <1>4 DEF Incoming, IsLost
    <2>2. i - 1 \in DOMAIN inp' /\ inp'[i - 1] = inp[i]
      BY <1>2, <2>1
    <2> QED BY <2>1, <2>2 DEF Incoming, IsLost
  <1>5. ASSUME Incoming(IsLost)'
        PROVE  Incoming(IsLost)
    BY <1>2, <1>5 DEF Incoming, IsLost
  <1> QED BY <1>2, <1>3, <1>4, <1>5

\* The types, the modes, the end of a link and the Nunchuk under every step.
LEMMA LinkStep ==
    ASSUME LinkInvariant, Next
    PROVE  LinkInvariant'
  <1> USE DEF LinkInvariant
  <1> DEFINE Rest == /\ controllerReportState \in States
                     /\ connected \in BOOLEAN /\ nunchukConnected \in BOOLEAN
                     /\ ackDropped \in BOOLEAN
                     /\ linked \in BOOLEAN /\ silent \in BOOLEAN
                     /\ plugged \in Extensions /\ unlocked \in 0..2
                     /\ mode \in [mode : Modes, by : {"host", "sketch"}]
  <1>1. Rest /\ out \in Seq(Commands) /\ inp \in Seq(Reports)
    BY Queues DEF TypeOK, States
  <1>2. Rest' /\ out' \in Seq(Commands) /\ inp' \in Seq(Reports) => TypeOK'
    BY DEF TypeOK, Commands, States
  <1>3. CASE InputReport
    <2>1. /\ inp # <<>> /\ Head(inp).kind # "lost" /\ inp' = Tail(inp)
          /\ connected' = TRUE /\ UNCHANGED wiimoteVars
      BY <1>3 DEF InputReport
    <2>2. PICK m : out' = Queue(m) /\ Answers(Head(inp), m, controllerReportState', nunchukConnected')
      BY <1>3, HostAnswers
    <2>3. /\ m \in Seq(Commands) /\ controllerReportState' \in States /\ nunchukConnected' \in BOOLEAN
          /\ \A j \in DOMAIN m : m[j].op = "mode" => m[j].arg \in Modes
          /\ ackDropped' \in BOOLEAN
      BY <1>3, <2>2, HostAnswers DEF Answers
    <2>4. out' \in Seq(Commands) /\ ModesAreModes'
      BY <2>2, <2>3, ModesQueued
    <2>5. LinkEnds'
      <3>1. ~linked => out' = out
        BY <2>2 DEF Queue
      <3>2. ~linked => Incoming(IsLost)
        BY <2>1 DEF LinkEnds
      <3> QED BY <2>1, <3>1, <3>2, ReportTaken DEF LinkEnds, wiimoteVars
    <2> QED BY <1>1, <1>2, <2>1, <2>3, <2>4, <2>5, ReportTaken DEF wiimoteVars, NunchukIsOfWiimote
  <1>4. CASE OnDisconnected
    <2>1. /\ inp # <<>> /\ Head(inp).kind = "lost" /\ inp' = Tail(inp)
          /\ controllerReportState' = "Init" /\ connected' = FALSE /\ nunchukConnected' = FALSE
          /\ ackDropped' = FALSE
          /\ UNCHANGED <<out, wiimoteVars>>
      BY <1>4 DEF OnDisconnected
    <2>2. /\ inp' \in Seq(Reports) /\ Len(inp') = Len(inp) - 1 /\ 1 \in DOMAIN inp
          /\ inp[1].kind = "lost"
      BY <1>1, <2>1, HeadLeaves
    <2>3. Incoming(IsLost) /\ Len(inp) = 1
      BY <2>2 DEF Incoming, IsLost, LinkEnds
    <2>4. inp' = <<>> /\ ~linked
      BY <2>2, <2>3 DEF LinkEnds
    <2>5. LinkEnds'
      BY <2>1, <2>4 DEF LinkEnds, wiimoteVars
    <2>6. NunchukIsOfWiimote' /\ ModesAreModes'
      BY <2>1 DEF NunchukIsOfWiimote, ModesAreModes
    <2> QED BY <1>1, <1>2, <2>1, <2>2, <2>5, <2>6 DEF wiimoteVars, States
  <1>5. CASE SketchStep
    <2>1. UNCHANGED <<hostVars, inp, wiimoteVars>>
      BY <1>5, SketchMay
    <2>2. PICK c \in Commands : out' = Queue(<<c>>) /\ (c.op = "mode" => c.arg \in Modes)
      BY <1>5, SketchMay
    <2>3. <<c>> \in Seq(Commands) /\ \A j \in DOMAIN <<c>> : <<c>>[j] = c
      OBVIOUS
    <2>4. out' \in Seq(Commands) /\ ModesAreModes'
      BY <2>2, <2>3, ModesQueued
    <2>5. ~linked => out' = out
      BY <2>2 DEF Queue
    <2>6. LinkEnds' /\ NunchukIsOfWiimote'
      BY <2>1, <2>5 DEF LinkEnds, NunchukIsOfWiimote, Incoming, hostVars, wiimoteVars
    <2> QED BY <1>1, <1>2, <2>1, <2>4, <2>6 DEF hostVars, wiimoteVars
  <1>6. CASE WiimoteStep
    <2>1. /\ out # <<>> /\ out' = Tail(out) /\ UNCHANGED <<hostVars, linked, plugged>>
          /\ unlocked' \in 0..2 /\ silent' \in BOOLEAN
      BY <1>6, WiimoteMay
    <2>2. /\ out' \in Seq(Commands) /\ Head(out) \in Commands /\ Head(out) = out[1] /\ 1 \in DOMAIN out
          /\ \A i \in DOMAIN out' : i + 1 \in DOMAIN out /\ out'[i] = out[i + 1]
      BY <1>1, <2>1, HeadLeaves
    <2>3. mode' \in [mode : Modes, by : {"host", "sketch"}]
      <3>1. CASE mode' = mode
        BY <1>1, <3>1
      <3>2. CASE Head(out).op = "mode" /\ mode' = [mode |-> Head(out).arg, by |-> Head(out).by]
        BY <2>2, <3>2 DEF ModesAreModes, Commands
      <3> QED BY <1>6, <3>1, <3>2, WiimoteMay
    <2>4. \/ inp' = inp
          \/ \E e \in Reports : inp' = Append(inp, e) /\ e.kind # "lost"
      BY <1>6, WiimoteMay
    <2>5. linked
      BY <2>1 DEF LinkEnds
    <2>6. inp' \in Seq(Reports) /\ LinkEnds'
      BY <2>1, <2>4, <2>5, ReportsKept DEF LinkEnds
    <2>7. ModesAreModes' /\ NunchukIsOfWiimote'
      BY <2>1, <2>2 DEF ModesAreModes, NunchukIsOfWiimote, hostVars
    <2> QED BY <1>1, <1>2, <2>1, <2>2, <2>3, <2>6, <2>7 DEF hostVars
  <1>7. CASE WiimoteReportsData \/ ExtensionChanges
    <2>1. /\ UNCHANGED <<hostVars, out, linked, mode>>
          /\ plugged' \in Extensions /\ unlocked' \in 0..2 /\ silent' \in BOOLEAN
          /\ \/ inp' = inp
             \/ linked /\ \E e \in Reports : inp' = Append(inp, e) /\ e.kind # "lost"
      BY <1>7, PortMay
    <2>2. inp' \in Seq(Reports) /\ LinkEnds'
      <3>1. CASE linked
        BY <2>1, <3>1, ReportsKept DEF LinkEnds
      <3>2. CASE inp' = inp
        BY <1>1, <2>1, <3>2 DEF LinkEnds, Incoming, hostVars
      <3> QED BY <2>1, <3>1, <3>2
    <2>3. ModesAreModes' /\ NunchukIsOfWiimote'
      BY <2>1 DEF ModesAreModes, NunchukIsOfWiimote, hostVars
    <2> QED BY <1>1, <1>2, <2>1, <2>2, <2>3 DEF hostVars
  <1>8. CASE LinkLost
    <2>1. /\ linked /\ linked' = FALSE /\ out' = <<>>
          /\ inp' = Append(inp, Report("lost", FALSE, FALSE))
          /\ UNCHANGED <<hostVars, plugged, unlocked, mode, silent>>
      BY <1>8 DEF LinkLost
    <2>2. PICK e \in Reports : inp' = Append(inp, e) /\ e.kind = "lost"
      BY <2>1, ReportFields
    <2>3. /\ inp' \in Seq(Reports) /\ Len(inp') \in DOMAIN inp' /\ inp'[Len(inp')].kind = "lost"
          /\ \A i \in DOMAIN inp' : (i \in DOMAIN inp /\ inp'[i] = inp[i]) \/ i = Len(inp')
      BY <1>1, <2>2, EndGrows
    <2>4. \A i \in DOMAIN inp' : inp'[i].kind = "lost" => i = Len(inp')
      BY <2>1, <2>3 DEF LinkEnds, Incoming, IsLost
    <2>5. Incoming(IsLost)'
      BY <2>3 DEF Incoming, IsLost
    <2>6. LinkEnds'
      BY <2>1, <2>4, <2>5 DEF LinkEnds
    <2>7. ModesAreModes' /\ NunchukIsOfWiimote' /\ out' \in Seq(Commands)
      BY <2>1 DEF ModesAreModes, NunchukIsOfWiimote, hostVars
    <2> QED BY <1>1, <1>2, <2>1, <2>3, <2>6, <2>7 DEF hostVars
  <1>9. CASE LinkUp
    <2>1. /\ ~linked /\ inp = <<>> /\ linked' = TRUE /\ silent' = FALSE
          /\ mode' = [mode |-> "0x30", by |-> "host"]
          /\ UNCHANGED <<hostVars, out, inp, plugged, unlocked>>
      BY <1>9 DEF LinkUp
    <2>2. mode' \in [mode : Modes, by : {"host", "sketch"}]
      BY <2>1 DEF Modes
    <2>3. LinkEnds'
      BY <2>1 DEF LinkEnds, Incoming
    <2>4. ModesAreModes' /\ NunchukIsOfWiimote'
      BY <2>1 DEF ModesAreModes, NunchukIsOfWiimote, hostVars
    <2> QED BY <1>1, <1>2, <2>1, <2>2, <2>3, <2>4 DEF hostVars
  <1> QED BY <1>3, <1>4, <1>5, <1>6, <1>7, <1>8, <1>9 DEF Next, HostStep

\* The end of a link is the last of its reports, and the types hold.
THEOREM LinkInvariance == Spec => []LinkInvariant
<1>1. Init => LinkInvariant
  <2> SUFFICES ASSUME Init
               PROVE  LinkInvariant
    OBVIOUS
  <2>1. TypeOK
    <3>1. plugged \in Extensions /\ mode \in [mode : Modes, by : {"host", "sketch"}]
      BY DEF Init, Modes
    <3>2. \A S : <<>> \in Seq(S)
      OBVIOUS
    <3>3. unlocked \in 0..2
      BY DEF Init
    <3> QED BY <3>1, <3>2, <3>3 DEF Init, TypeOK
  <2> QED BY <2>1 DEF LinkInvariant, Init, ModesAreModes, LinkEnds, Incoming, NunchukIsOfWiimote
<1>2. LinkInvariant /\ [Next]_vars => LinkInvariant'
  <2>1. CASE UNCHANGED vars
    BY <2>1 DEF LinkInvariant, vars, hostVars, wiimoteVars, TypeOK, ModesAreModes, LinkEnds,
        Incoming, NunchukIsOfWiimote
  <2> QED BY <2>1, LinkStep
<1> QED BY <1>1, <1>2, PTL DEF Spec

\* Every variable has its type.
THEOREM TypeCorrectness == Spec => []TypeOK
<1>1. LinkInvariant => TypeOK
  BY DEF LinkInvariant
<1> QED BY <1>1, LinkInvariance, PTL

----------------------------------------------------------------------------
(* Answers.                                                                *)

Waiting ==
    /\ controllerReportState \in AckStates => ackDropped \/ Outgoing(IsWrite) \/ Incoming(IsAck)
    /\ controllerReportState = "WaitReadResponse"
         => Outgoing(IsReadFA) \/ Incoming(IsIdentity)

\* What an input report leaves of the answers on their way.
LEMMA AnswerHandled ==
    ASSUME LinkInvariant, linked, Waiting, InputReport
    PROVE  Waiting'
  <1>1. TypeOK
    BY DEF LinkInvariant
  <1>2. inp # <<>> /\ inp' = Tail(inp)
    BY DEF InputReport
  <1>3. PICK m : out' = Queue(m) /\ Answers(Head(inp), m, controllerReportState', nunchukConnected')
    BY <1>1, HostAnswers
  <1>4. out' = out \o m /\ m \in Seq(Commands)
    BY <1>3 DEF Queue, Answers
  <1>5. /\ \A i \in DOMAIN out : i \in DOMAIN out' /\ out'[i] = out[i]
        /\ \A j \in DOMAIN m : Len(out) + j \in DOMAIN out' /\ out'[Len(out) + j] = m[j]
    BY <1>1, <1>4, Queues, CommandsQueued
  <1>6. /\ inp[1] = Head(inp)
        /\ \A i \in DOMAIN inp : i # 1 => i - 1 \in DOMAIN inp' /\ inp'[i - 1] = inp[i]
    BY <1>1, <1>2, Queues, HeadLeaves
  <1>7. ASSUME controllerReportState' \in AckStates
        PROVE  ackDropped' \/ Outgoing(IsWrite)' \/ Incoming(IsAck)'
    <2>1. CASE \E j \in DOMAIN m : IsWrite(m[j])
      BY <1>5, <2>1 DEF Outgoing, IsWrite
    <2>2. CASE controllerReportState' = controllerReportState /\ Head(inp).kind # "ack"
      <3>1. CASE Outgoing(IsWrite)
        BY <1>5, <3>1 DEF Outgoing, IsWrite
      <3>2. CASE Incoming(IsAck)
        <4>1. PICK i \in DOMAIN inp : inp[i].kind = "ack"
          BY <3>2 DEF Incoming, IsAck
        <4>2. i - 1 \in DOMAIN inp' /\ inp'[i - 1].kind = "ack"
          BY <1>6, <2>2, <4>1
        <4> QED BY <4>2 DEF Incoming, IsAck
      <3>3. CASE ackDropped
        BY <1>1, <2>2, <3>3, HostAnswers
      <3> QED BY <1>7, <2>2, <3>1, <3>2, <3>3 DEF Waiting
    <2>3. CASE controllerReportState' = controllerReportState /\ Missed(Head(inp))
      BY <1>1, <2>3, HostAnswers
    <2> QED BY <1>3, <1>7, <2>1, <2>2, <2>3 DEF Answers, AckStates
  <1>8. ASSUME controllerReportState' = "WaitReadResponse"
        PROVE  Outgoing(IsReadFA)' \/ Incoming(IsIdentity)'
    <2>1. CASE \E j \in DOMAIN m : IsReadFA(m[j])
      BY <1>5, <2>1 DEF Outgoing, IsReadFA
    <2>2. CASE controllerReportState' = controllerReportState /\ ~IsIdentity(Head(inp))
      <3>1. CASE Outgoing(IsReadFA)
        BY <1>5, <3>1 DEF Outgoing, IsReadFA
      <3>2. CASE Incoming(IsIdentity)
        <4>1. PICK i \in DOMAIN inp : IsIdentity(inp[i])
          BY <3>2 DEF Incoming
        <4>2. i # 1
          BY <1>6, <2>2, <4>1
        <4>3. i - 1 \in DOMAIN inp' /\ inp'[i - 1] = inp[i]
          BY <1>6, <4>1, <4>2
        <4> QED BY <4>1, <4>3 DEF Incoming, IsIdentity
      <3> QED BY <1>8, <2>2, <3>1, <3>2 DEF Waiting
    <2> QED BY <1>3, <1>8, <2>1, <2>2 DEF Answers
  <1> QED BY <1>7, <1>8 DEF Waiting

\* What the Wiimote's step leaves of them: it answers what it takes.
LEMMA AnswerGiven ==
    ASSUME LinkInvariant, Waiting, WiimoteStep
    PROVE  Waiting'
  <1>1. TypeOK /\ ModesAreModes
    BY DEF LinkInvariant
  <1>2. out # <<>> /\ out' = Tail(out) /\ UNCHANGED <<controllerReportState, ackDropped>>
    BY <1>1, WiimoteMay DEF hostVars
  <1>3. /\ out[1] = Head(out)
        /\ \A i \in DOMAIN out : i # 1 => i - 1 \in DOMAIN out' /\ out'[i - 1] = out[i]
    BY <1>1, <1>2, Queues, HeadLeaves
  <1>4. \/ /\ inp' = inp
           /\ ~IsWrite(Head(out)) /\ ~IsReadFA(Head(out))
        \/ \E e \in Reports :
             /\ inp' = Append(inp, e)
             /\ IsWrite(Head(out)) => IsAck(e)
             /\ IsReadFA(Head(out)) => IsIdentity(e)
    BY <1>1, WiimoteMay DEF IsWrite, IsReadFA
  <1>5. \A i \in DOMAIN inp : i \in DOMAIN inp' /\ inp'[i] = inp[i]
    BY <1>1, <1>4, Queues, EndGrows
  <1>6. /\ IsWrite(Head(out)) => Incoming(IsAck)'
        /\ IsReadFA(Head(out)) => Incoming(IsIdentity)'
    <2>1. CASE inp' = inp /\ ~IsWrite(Head(out)) /\ ~IsReadFA(Head(out))
      BY <2>1
    <2>2. ASSUME NEW e \in Reports, inp' = Append(inp, e),
                 IsWrite(Head(out)) => IsAck(e),
                 IsReadFA(Head(out)) => IsIdentity(e)
          PROVE  /\ IsWrite(Head(out)) => Incoming(IsAck)'
                 /\ IsReadFA(Head(out)) => Incoming(IsIdentity)'
      <3>1. \E i \in DOMAIN inp' : inp'[i] = e
        BY <1>1, <2>2, Queues, EndGrows
      <3>2. IsAck(e) => Incoming(IsAck)'
        BY <3>1 DEF Incoming, IsAck
      <3>3. IsIdentity(e) => Incoming(IsIdentity)'
        BY <3>1 DEF Incoming, IsIdentity
      <3> QED BY <2>2, <3>2, <3>3
    <2> QED BY <1>4, <2>1, <2>2
  <1>7. Outgoing(IsWrite) => Outgoing(IsWrite)' \/ IsWrite(Head(out))
    BY <1>3 DEF Outgoing, IsWrite
  <1>8. Outgoing(IsReadFA) => Outgoing(IsReadFA)' \/ IsReadFA(Head(out))
    BY <1>3 DEF Outgoing, IsReadFA
  <1>9. /\ Incoming(IsAck) => Incoming(IsAck)'
        /\ Incoming(IsIdentity) => Incoming(IsIdentity)'
    BY <1>5 DEF Incoming, IsAck, IsIdentity
  <1> QED BY <1>2, <1>6, <1>7, <1>8, <1>9 DEF Waiting

\* A waiting state of handleReport has its answer coming, whatever the lengths of
\* the acknowledgements, unless wiimote_extensions.cpp:42 has dropped one: no
\* other order of reports, commands, changes of the port and links makes it wait
\* in vain.
THEOREM AnswerIsComingInvariant == Spec => []AnswerIsComing
<1>1. LinkInvariant => (AnswerIsComing <=> Incoming(IsLost) \/ Waiting)
  BY DEF AnswerIsComing, Waiting
<1>2. Init => AnswerIsComing
  BY DEF Init, AnswerIsComing, AckStates
<1>3. ASSUME LinkInvariant, Incoming(IsLost) \/ Waiting, Next
      PROVE  (Incoming(IsLost) \/ Waiting)'
  <2>1. TypeOK /\ LinkEnds
    BY <1>3 DEF LinkInvariant
  <2>2. CASE InputReport
    <3>1. inp # <<>> /\ Head(inp).kind # "lost" /\ inp' = Tail(inp)
      BY <2>2 DEF InputReport
    <3>2. CASE Incoming(IsLost)
      BY <2>1, <3>1, <3>2, ReportTaken
    <3>3. CASE ~Incoming(IsLost)
      <4>1. linked
        BY <2>1, <3>1, <3>3 DEF LinkEnds
      <4> QED BY <1>3, <2>2, <3>3, <4>1, AnswerHandled
    <3> QED BY <3>2, <3>3
  <2>3. CASE OnDisconnected \/ LinkUp
    <3>1. controllerReportState' = "Init" /\ "Init" \notin AckStates
      BY <2>1, <2>3 DEF OnDisconnected, LinkUp, LinkEnds, Incoming, hostVars, AckStates
    <3> QED BY <3>1 DEF Waiting
  <2>4. CASE SketchStep
    <3>1. UNCHANGED <<controllerReportState, ackDropped, inp>>
      BY <2>1, <2>4, SketchMay DEF hostVars
    <3>2. PICK c \in Commands : out' = Queue(<<c>>)
      BY <2>1, <2>4, SketchMay
    <3>3. \A i \in DOMAIN out : i \in DOMAIN out' /\ out'[i] = out[i]
      <4>1. <<c>> \in Seq(Commands)
        OBVIOUS
      <4> QED BY <2>1, <3>2, <4>1, Queues, CommandsQueued DEF Queue
    <3>4. /\ Outgoing(IsWrite) => Outgoing(IsWrite)'
          /\ Outgoing(IsReadFA) => Outgoing(IsReadFA)'
      BY <3>3 DEF Outgoing, IsWrite, IsReadFA
    <3>5. /\ Incoming(IsLost)' = Incoming(IsLost) /\ Incoming(IsAck)' = Incoming(IsAck)
          /\ Incoming(IsIdentity)' = Incoming(IsIdentity)
      BY <3>1 DEF Incoming, IsLost, IsAck, IsIdentity
    <3> QED BY <1>3, <3>1, <3>4, <3>5 DEF Waiting
  <2>5. CASE WiimoteStep
    <3>1. ~Incoming(IsLost)
      <4>1. out # <<>>
        BY <1>3, <2>5, WiimoteMay DEF LinkInvariant
      <4> QED BY <2>1, <4>1 DEF LinkEnds
    <3> QED BY <1>3, <2>5, <3>1, AnswerGiven
  <2>6. CASE WiimoteReportsData \/ ExtensionChanges
    <3>1. UNCHANGED <<controllerReportState, ackDropped, out>>
      BY <2>1, <2>6, PortMay DEF hostVars
    <3>2. inp' = inp \/ \E e \in Reports : inp' = Append(inp, e)
      BY <2>1, <2>6, PortMay
    <3>3. \A i \in DOMAIN inp : i \in DOMAIN inp' /\ inp'[i] = inp[i]
      BY <2>1, <3>2, Queues, EndGrows
    <3>4. /\ Incoming(IsLost) => Incoming(IsLost)'
          /\ Incoming(IsAck) => Incoming(IsAck)'
          /\ Incoming(IsIdentity) => Incoming(IsIdentity)'
      BY <3>3 DEF Incoming, IsLost, IsAck, IsIdentity
    <3>5. /\ Outgoing(IsWrite)' = Outgoing(IsWrite)
          /\ Outgoing(IsReadFA)' = Outgoing(IsReadFA)
      BY <3>1 DEF Outgoing, IsWrite, IsReadFA
    <3> QED BY <1>3, <3>1, <3>4, <3>5 DEF Waiting
  <2>7. CASE LinkLost
    <3>1. inp' = Append(inp, Report("lost", FALSE, FALSE))
      BY <2>7 DEF LinkLost
    <3>2. PICK e \in Reports : inp' = Append(inp, e) /\ e.kind = "lost"
      BY <3>1, ReportFields
    <3>3. \E i \in DOMAIN inp' : inp'[i] = e
      BY <2>1, <3>2, Queues, EndGrows
    <3> QED BY <3>2, <3>3 DEF Incoming, IsLost
  <2> QED BY <1>3, <2>2, <2>3, <2>4, <2>5, <2>6, <2>7 DEF Next, HostStep
<1>4. LinkInvariant /\ LinkInvariant' /\ AnswerIsComing /\ [Next]_vars => AnswerIsComing'
  <2>1. CASE UNCHANGED vars
    BY <2>1 DEF vars, hostVars, AnswerIsComing, Incoming, Outgoing
  <2>2. ASSUME LinkInvariant, AnswerIsComing, Next
        PROVE  AnswerIsComing'
    <3>1. Incoming(IsLost) \/ Waiting
      BY <1>1, <2>2
    <3>2. (Incoming(IsLost) \/ Waiting)'
      BY <1>3, <2>2, <3>1
    <3> QED BY <3>2 DEF AnswerIsComing, Waiting
  <2> QED BY <2>1, <2>2
<1> QED BY <1>2, <1>4, LinkInvariance, PTL DEF Spec

----------------------------------------------------------------------------
(* The mode in force.                                                      *)

\* A command that keeps the Nunchuk's bytes in the reports, or is the sketch's.
Keeps(c) == c.by = "sketch" \/ c.arg = NunchukMode

\* The last mode asked for keeps them: a command in out, or the mode taken.
InForce ==
    \/ \E i \in DOMAIN out : LastModeAsked(i) /\ Keeps(out[i])
    \/ ~Outgoing(IsMode) /\ (mode.by = "sketch" \/ mode.mode = NunchukMode)

\* A new command that keeps them is the last.
LEMMA NewModeInForce ==
    ASSUME TypeOK, NEW m \in Seq(Commands), out' = out \o m,
           Len(m) \in DOMAIN m, m[Len(m)].op = "mode", Keeps(m[Len(m)])
    PROVE  InForce'
  <1>1. out \in Seq(Commands)
    BY Queues
  <1>2. PICK k \in Nat :
          k \in DOMAIN out' /\ out'[k] = m[Len(m)] /\ \A j \in DOMAIN out' : ~(j > k)
    <2>1. /\ Len(out) + Len(m) \in Nat /\ Len(out) + Len(m) \in DOMAIN out'
          /\ out'[Len(out) + Len(m)] = m[Len(m)]
          /\ \A j \in DOMAIN out' : ~(j > Len(out) + Len(m))
      BY <1>1
    <2> QED BY <2>1
  <1>3. LastModeAsked(k)'
    BY <1>2 DEF LastModeAsked
  <1> QED BY <1>2, <1>3 DEF InForce, Keeps

\* Other commands leave it the last.
LEMMA ModeStaysInForce ==
    ASSUME TypeOK, InForce, NEW m \in Seq(Commands), out' = out \o m, mode' = mode,
           \A j \in DOMAIN m : m[j].op # "mode"
    PROVE  InForce'
  <1>1. /\ Len(out) \in Nat
        /\ \A i \in DOMAIN out : i \in DOMAIN out' /\ out'[i] = out[i]
        /\ \A i \in DOMAIN out' : i \in DOMAIN out \/ out'[i].op # "mode"
    <2>1. out \in Seq(Commands)
      BY Queues
    <2> QED BY <2>1, CommandsQueued
  <1>2. ASSUME NEW i \in DOMAIN out, LastModeAsked(i), Keeps(out[i])
        PROVE  InForce'
    <2>1. LastModeAsked(i)'
      BY <1>1, <1>2 DEF LastModeAsked
    <2> QED BY <1>1, <1>2, <2>1 DEF InForce, Keeps
  <1>3. ASSUME ~Outgoing(IsMode), mode.by = "sketch" \/ mode.mode = NunchukMode
        PROVE  InForce'
    <2>1. \A i \in DOMAIN out' : out'[i].op # "mode"
      BY <1>1, <1>3 DEF Outgoing, IsMode
    <2> QED BY <1>3, <2>1 DEF InForce, Outgoing, IsMode
  <1> QED BY <1>2, <1>3 DEF InForce

\* The Wiimote takes the last mode, or another command.
LEMMA ModeTaken ==
    ASSUME LinkInvariant, InForce, WiimoteStep
    PROVE  InForce'
  <1>1. TypeOK /\ ModesAreModes
    BY DEF LinkInvariant
  <1>2. out # <<>> /\ out' = Tail(out)
    BY <1>1, WiimoteMay
  <1>3. \/ /\ out[1].op = "mode"
           /\ mode' = [mode |-> out[1].arg, by |-> out[1].by]
        \/ out[1].op # "mode" /\ mode' = mode
    <2>1. Head(out) = out[1]
      BY <1>1, <1>2, Queues, HeadLeaves
    <2> QED BY <1>1, <2>1, WiimoteMay
  <1>4. /\ 1 \in DOMAIN out
        /\ \A i \in DOMAIN out' : i \in Nat \ {0} /\ i + 1 \in DOMAIN out /\ out'[i] = out[i + 1]
        /\ \A i \in DOMAIN out : i \in Nat \ {0} /\ (i # 1 => i - 1 \in DOMAIN out' /\ out'[i - 1] = out[i])
    BY <1>1, <1>2, Queues, HeadLeaves
  <1>5. ASSUME NEW i \in DOMAIN out, LastModeAsked(i), Keeps(out[i])
        PROVE  InForce'
    <2>1. CASE i = 1
      <3>1. \A j \in DOMAIN out' : out'[j].op # "mode"
        BY <1>4, <1>5, <2>1 DEF LastModeAsked
      <3>2. mode'.by = "sketch" \/ mode'.mode = NunchukMode
        BY <1>3, <1>5, <2>1 DEF LastModeAsked, Keeps
      <3> QED BY <3>1, <3>2 DEF InForce, Outgoing, IsMode, NunchukMode
    <2>2. CASE i # 1
      <3>1. i - 1 \in DOMAIN out' /\ out'[i - 1] = out[i]
        BY <1>4, <2>2
      <3>2. LastModeAsked(i - 1)'
        BY <1>4, <1>5, <3>1 DEF LastModeAsked
      <3>3. Keeps(out[i - 1])'
        BY <1>5, <3>1 DEF Keeps
      <3> QED BY <3>1, <3>2, <3>3 DEF InForce
    <2> QED BY <2>1, <2>2
  <1>6. ASSUME ~Outgoing(IsMode), mode.by = "sketch" \/ mode.mode = NunchukMode
        PROVE  InForce'
    <2>1. mode' = mode
      BY <1>3, <1>4, <1>6 DEF Outgoing, IsMode
    <2>2. \A i \in DOMAIN out' : out'[i].op # "mode"
      BY <1>4, <1>6 DEF Outgoing, IsMode
    <2> QED BY <1>6, <2>1, <2>2 DEF InForce, Outgoing, IsMode
  <1> QED BY <1>5, <1>6 DEF InForce

\* While the host takes the Nunchuk for connected, the last mode that was asked
\* for carries its bytes, or is the sketch's (TinyWiimote.cpp and the detection
\* send modes over one queue, and the link may be lost and come back).
THEOREM NunchukModeInForceInvariant == Spec => []NunchukModeInForce
<1>1. NunchukModeInForce <=> (nunchukConnected /\ linked => InForce)
  BY DEF NunchukModeInForce, InForce, Keeps
<1>2. Init => NunchukModeInForce
  BY DEF Init, NunchukModeInForce
<1>3. ASSUME LinkInvariant, nunchukConnected /\ linked => InForce, Next, nunchukConnected', linked'
      PROVE  InForce'
  <2>1. TypeOK /\ LinkEnds /\ NunchukIsOfWiimote
    BY <1>3 DEF LinkInvariant
  <2>2. CASE InputReport
    <3>1. UNCHANGED <<linked, mode>>
      BY <2>2 DEF InputReport, wiimoteVars
    <3>2. PICK m : out' = Queue(m) /\ Answers(Head(inp), m, controllerReportState', nunchukConnected')
      BY <2>1, <2>2, HostAnswers
    <3>3. out' = out \o m /\ m \in Seq(Commands)
      BY <1>3, <3>1, <3>2 DEF Queue, Answers
    <3>4. CASE Len(m) \in DOMAIN m /\ m[Len(m)].op = "mode" /\ m[Len(m)].arg = NunchukMode
      BY <2>1, <3>3, <3>4, NewModeInForce DEF Keeps
    <3>5. CASE nunchukConnected /\ (connected => \A j \in DOMAIN m : m[j].op # "mode")
      BY <1>3, <2>1, <3>1, <3>3, <3>5, ModeStaysInForce DEF NunchukIsOfWiimote
    <3> QED BY <1>3, <3>2, <3>4, <3>5 DEF Answers
  <2>3. CASE OnDisconnected \/ LinkUp
    <3>1. ~OnDisconnected
      BY <1>3, Zenon DEF OnDisconnected
    <3>2. ~linked /\ inp = <<>> /\ nunchukConnected' = nunchukConnected
      BY <2>3, <3>1 DEF LinkUp, hostVars
    <3>3. ~nunchukConnected
      BY <2>1, <3>2 DEF LinkEnds, Incoming
    <3> QED BY <1>3, <3>2, <3>3, Zenon
  <2>4. CASE SketchStep
    <3>1. UNCHANGED <<nunchukConnected, linked, mode>>
      BY <2>1, <2>4, SketchMay DEF hostVars, wiimoteVars
    <3>2. PICK c \in Commands : out' = Queue(<<c>>) /\ c.by = "sketch"
      BY <2>1, <2>4, SketchMay
    <3>3. PICK m \in Seq(Commands) :
            out' = out \o m /\ Len(m) = 1 /\ DOMAIN m = {1} /\ m[1] = c
      <4>1. out' = out \o <<c>>
        BY <1>3, <3>1, <3>2 DEF Queue
      <4>2. <<c>> \in Seq(Commands) /\ Len(<<c>>) = 1 /\ DOMAIN <<c>> = {1} /\ <<c>>[1] = c
        OBVIOUS
      <4> QED BY <4>1, <4>2
    <3>4. CASE c.op = "mode"
      BY <2>1, <3>2, <3>3, <3>4, NewModeInForce DEF Keeps
    <3>5. CASE c.op # "mode"
      BY <1>3, <2>1, <3>1, <3>3, <3>5, ModeStaysInForce
    <3> QED BY <3>4, <3>5
  <2>5. CASE WiimoteStep
    <3>1. UNCHANGED <<nunchukConnected, linked>>
      BY <1>3, <2>5, WiimoteMay DEF LinkInvariant, hostVars
    <3> QED BY <1>3, <2>5, <3>1, ModeTaken
  <2>6. CASE WiimoteReportsData \/ ExtensionChanges
    <3>1. UNCHANGED <<nunchukConnected, linked, out, mode>>
      BY <2>1, <2>6, PortMay DEF hostVars
    <3> QED BY <1>3, <3>1 DEF InForce, LastModeAsked, Keeps, Outgoing
  <2>7. CASE LinkLost
    BY <1>3, <2>7 DEF LinkLost
  <2> QED BY <1>3, <2>2, <2>3, <2>4, <2>5, <2>6, <2>7 DEF Next, HostStep
<1>4. LinkInvariant /\ NunchukModeInForce /\ [Next]_vars => NunchukModeInForce'
  <2>1. CASE UNCHANGED vars
    BY <2>1 DEF vars, hostVars, wiimoteVars, NunchukModeInForce, LastModeAsked, Outgoing
  <2>2. ASSUME LinkInvariant, NunchukModeInForce, Next
        PROVE  NunchukModeInForce'
    <3>1. nunchukConnected' /\ linked' => InForce'
      BY <1>1, <1>3, <2>2
    <3> QED BY <3>1 DEF NunchukModeInForce, InForce, Keeps
  <2> QED BY <2>1, <2>2
<1> QED BY <1>2, <1>4, LinkInvariance, PTL DEF Spec

=============================================================================
