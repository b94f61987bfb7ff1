--------------------------- MODULE HciLinkProofs ---------------------------
(***************************************************************************)
(* Proofs about HciLink, for any devices, handles, commands, faults and    *)
(* bounds.                                                                 *)
(***************************************************************************)
EXTENDS HciLinkPhases, SequenceTheorems, TLAPS

----------------------------------------------------------------------------
\* A pending fast reconnect is always the attempt at the cached Wiimote
\* (pendingFastReconnect, currentConnectTarget and lastWiimote of hci_events.cpp
\* are written by different handlers and by clearReconnectCache).
LEMMA FastReconnectTargetInvariant == Spec => []FastReconnectTarget
<1>1. Init => FastReconnectTarget
  BY DEF Init, FastReconnectTarget
<1>2. FastReconnectTarget /\ [Next]_vars => FastReconnectTarget'
  <2> SUFFICES ASSUME FastReconnectTarget, [Next]_vars
               PROVE  FastReconnectTarget'
    OBVIOUS
  <2> USE DEF FastReconnectTarget
  <2>1. CASE HandleEvent
    <3>1. CASE WriteScanEnableComplete
      BY <3>1 DEF WriteScanEnableComplete, StartCreateConnection, StartInquiry, CacheIsValid
    <3>2. CASE RemoteNameComplete
      BY <3>2 DEF RemoteNameComplete, StartCreateConnection
    <3>3. CASE ConnectionComplete
      BY <3>3 DEF ConnectionComplete
    <3>4. CASE ConnectionFailed
      BY <3>4 DEF ConnectionFailed, FallBackToInquiry
    <3>5. CASE InitStepComplete \/ CommandFailed \/ InquiryComplete \/ InquiryResult
               \/ DisconnectionComplete \/ L2capConnectionResponse
               \/ L2capConfigurationRequest \/ InputReport
      BY <3>5 DEF InitStepComplete, CommandFailed, InquiryComplete, InquiryResult,
           DisconnectionComplete, L2capConnectionResponse, L2capConfigurationRequest,
           InputReport, ctxVars
    <3> QED BY <2>1, <3>1, <3>2, <3>3, <3>4, <3>5 DEF HandleEvent
  <2>2. CASE SketchStep
    BY <2>2 DEF SketchStep, SetScanEnabled, StartDiscovery, StopDiscovery,
         DisconnectController, SetAutoReconnectEnabled, ClearReconnectCache, SendOutput, ctxVars
  <2>3. CASE BtTaskResets \/ BtTaskMarksInited \/ CacheAges
    BY <2>3 DEF BtTaskResets, BtTaskMarksInited, CacheAges
  <2>4. CASE ControllerStep
    BY <2>4 DEF ControllerStep, CtlReset, CtlSetup, CtlInquiry, CtlInquiryCancel,
         CtlRemoteNameRequest, CtlCreateConnection, CtlDisconnect, WiimoteAcceptsChannel,
         WiimoteTakesPacket, hostVars, ctxVars
  <2>5. CASE RadioStep
    BY <2>5 DEF RadioStep, InquiryFinds, InquiryEnds, NameResolves, PageEnds, LinkLost,
         WiimoteReports, hostVars, ctxVars
  <2>6. CASE UNCHANGED vars
    BY <2>6 DEF vars, ctxVars
  <2> QED BY <2>1, <2>2, <2>3, <2>4, <2>5, <2>6 DEF Next
<1> QED BY <1>1, <1>2, PTL DEF Spec

----------------------------------------------------------------------------
(* Types.  The inductive invariant is SessionType(Wiimotes): only Wiimotes *)
(* are asked for a name, so only Wiimotes answer one, so only Wiimotes are *)
(* paged, connected and cached.  It implies TypeOK and OnlyWiimotes.       *)

\* The devices, handles and tables of the constants are of the sorts the model uses.
LEMMA Constants ==
    /\ Wiimotes \subseteq Devices /\ NoDevice \notin Devices /\ NoHandle \notin Handles
    /\ MaxTable \in Nat /\ MaxTable > 0
BY HciLinkAssumption DEF HciLinkAssumption

\* The packets the host sends have their type.
LEMMA PacketTypes ==
    /\ \A op \in {"Reset", "ReadBdAddr", "WriteLocalName", "WriteClassOfDevice",
                 "WriteScanEnable", "Inquiry", "InquiryCancel"} : Cmd(op) \in HostPacket(Wiimotes)
    /\ \A op \in {"RemoteNameRequest", "CreateConnection"}, d \in Wiimotes :
          DeviceCmd(op, d) \in HostPacket(Wiimotes)
    /\ \A op \in {"L2capConnectionRequest", "L2capConfigurationRequest",
                 "L2capConfigurationResponse", "HidOutput", "Disconnect"}, h \in Handles :
          LinkCmd(op, h) \in HostPacket(Wiimotes)
BY DEF HostPacket, Cmd, DeviceCmd, LinkCmd, HciCommands, DevicePackets, LinkPackets, AclPackets

\* The events the controller sends have their type.
LEMMA EventTypes ==
    /\ \A op \in HciCommands, ok \in BOOLEAN : Completed(op, ok) \in HostEvent(Wiimotes)
    /\ \A d \in Devices : DeviceEvent("InquiryResult", TRUE, d) \in HostEvent(Wiimotes)
    /\ DeviceEvent("InquiryComplete", TRUE, NoDevice) \in HostEvent(Wiimotes)
    /\ \A d \in Wiimotes, ok \in BOOLEAN : DeviceEvent("RemoteName", ok, d) \in HostEvent(Wiimotes)
    /\ \A ev \in {"ConnectRefused", "ConnectionComplete"}, d \in Wiimotes :
          DeviceEvent(ev, FALSE, d) \in HostEvent(Wiimotes)
    /\ \A d \in Wiimotes, h \in Handles : Paged(d, h) \in HostEvent(Wiimotes)
    /\ \A ev \in LinkEvents, ok \in BOOLEAN, h \in Handles :
          LinkEvent(ev, ok, h) \in HostEvent(Wiimotes)
BY DEF HostEvent, Completed, DeviceEvent, LinkEvent, Paged

\* Appending a sequence of packets to a queue gives a queue of packets.
LEMMA ConcatSeq ==
    ASSUME NEW S, NEW s \in Seq(S), NEW t \in Seq(S)
    PROVE  s \o t \in Seq(S)
OBVIOUS

\* Two packets make a sequence of packets.
LEMMA PairSeq ==
    ASSUME NEW S, NEW a \in S, NEW b \in S
    PROVE  <<a, b>> \in Seq(S)
OBVIOUS

\* What a handler reads from the packet at the head of rx.
LEMMA Received ==
    ASSUME rx \in Seq(HostEvent(Wiimotes)), NEW ev, Receive(ev)
    PROVE  /\ Head(rx) \in HostEvent(Wiimotes) /\ Head(rx).ev = ev
           /\ rx' \in Seq(HostEvent(Wiimotes))
           /\ ev = "InquiryResult" => Head(rx).dev \in Devices
           /\ ev = "RemoteName" => Head(rx).dev \in Wiimotes
           /\ ev \in LinkEvents => Head(rx).handle \in Handles
           /\ ev = "ConnectionComplete" /\ Head(rx).ok => Head(rx).handle \in Handles
<1>1. Head(rx) \in HostEvent(Wiimotes) /\ Head(rx).ev = ev /\ rx' \in Seq(HostEvent(Wiimotes))
  BY DEF Receive
<1> QED BY <1>1 DEF HostEvent, LinkEvents

\* What the controller reads from the packet at the head of tx.
LEMMA Submitted ==
    ASSUME tx \in Seq(HostPacket(Wiimotes)), NEW op, Submit(op)
    PROVE  /\ tx' \in Seq(HostPacket(Wiimotes))
           /\ op \in DevicePackets => Head(tx).dev \in Wiimotes
           /\ op \in LinkPackets => Head(tx).handle \in Handles
<1>1. Head(tx) \in HostPacket(Wiimotes) /\ Head(tx).op = op /\ tx' \in Seq(HostPacket(Wiimotes))
  BY DEF Submit
<1> QED BY <1>1 DEF HostPacket, DevicePackets, LinkPackets, AclPackets

\* The flags stay Boolean.
LEMMA FlagStep ==
    ASSUME SessionType(Wiimotes), Next
    PROVE  FlagTypes'
<1> USE DEF SessionType, FlagTypes, ctxVars, sessionVars, radioVars, hostVars
<1>1. CASE HandleEvent
  BY <1>1 DEF HandleEvent, InitStepComplete, WriteScanEnableComplete, CommandFailed, InquiryComplete,
       InquiryResult, RemoteNameComplete, ConnectionComplete, ConnectionFailed,
       DisconnectionComplete, L2capConnectionResponse, L2capConfigurationRequest, InputReport,
       ResetDevice, StartInquiry, StartCreateConnection, FallBackToInquiry
<1>2. CASE SketchStep \/ BtTaskResets \/ BtTaskMarksInited \/ CacheAges
  BY <1>2 DEF SketchStep, BtTaskResets, BtTaskMarksInited, CacheAges, ResetDevice,
       SetScanEnabled, StartDiscovery, StopDiscovery, DisconnectController,
       SetAutoReconnectEnabled, ClearReconnectCache, SendOutput
<1>3. CASE ControllerStep
  BY <1>3 DEF ControllerStep, Status, Drop, CtlReset, CtlSetup, CtlInquiry, CtlInquiryCancel, CtlRemoteNameRequest,
       CtlCreateConnection, CtlDisconnect, WiimoteAcceptsChannel, WiimoteTakesPacket
<1>4. CASE RadioStep
  BY <1>4 DEF RadioStep, Drop, InquiryFinds, InquiryEnds, NameResolves, PageEnds, LinkLost, WiimoteReports
<1> QED BY <1>1, <1>2, <1>3, <1>4 DEF Next

\* Only Wiimotes become a target, the cached Wiimote, paged or named.
LEMMA DeviceStep ==
    ASSUME SessionType(Wiimotes), Next
    PROVE  DeviceTypes(Wiimotes)'
<1> USE DEF SessionType, DeviceTypes, ctxVars, sessionVars, radioVars, hostVars
<1>1. CASE HandleEvent
  <2>1. CASE InquiryResult
    BY <2>1, Received DEF InquiryResult, QueueTypes
  <2>2. CASE RemoteNameComplete
    BY <2>2, Received DEF RemoteNameComplete, StartCreateConnection, QueueTypes
  <2>3. CASE WriteScanEnableComplete \/ ConnectionComplete \/ ConnectionFailed
    BY <2>3 DEF WriteScanEnableComplete, ConnectionComplete, ConnectionFailed,
         StartCreateConnection, StartInquiry, FallBackToInquiry
  <2>4. CASE InitStepComplete \/ CommandFailed \/ InquiryComplete \/ DisconnectionComplete
             \/ L2capConnectionResponse \/ L2capConfigurationRequest \/ InputReport
    BY <2>4 DEF InitStepComplete, CommandFailed, InquiryComplete, DisconnectionComplete,
         L2capConnectionResponse, L2capConfigurationRequest, InputReport, ResetDevice
  <2> QED BY <1>1, <2>1, <2>2, <2>3, <2>4 DEF HandleEvent
<1>2. CASE SketchStep \/ BtTaskResets \/ BtTaskMarksInited \/ CacheAges
  BY <1>2 DEF SketchStep, BtTaskResets, BtTaskMarksInited, CacheAges, ResetDevice,
       SetScanEnabled, StartDiscovery, StopDiscovery, DisconnectController,
       SetAutoReconnectEnabled, ClearReconnectCache, SendOutput
<1>3. CASE ControllerStep
  <2>1. CASE CtlRemoteNameRequest \/ CtlCreateConnection
    BY <2>1, Submitted DEF CtlRemoteNameRequest, CtlCreateConnection, DevicePackets, QueueTypes
  <2>2. CASE CtlReset \/ CtlSetup \/ CtlInquiry \/ CtlInquiryCancel \/ CtlDisconnect
             \/ WiimoteAcceptsChannel \/ WiimoteTakesPacket
    BY <2>2 DEF CtlReset, CtlSetup, CtlInquiry, CtlInquiryCancel, CtlDisconnect,
         WiimoteAcceptsChannel, WiimoteTakesPacket
  <2> QED BY <1>3, <2>1, <2>2 DEF ControllerStep
<1>4. CASE RadioStep
  BY <1>4 DEF RadioStep, InquiryFinds, InquiryEnds, NameResolves, PageEnds, LinkLost, WiimoteReports
<1> QED BY <1>1, <1>2, <1>3, <1>4 DEF Next

\* Only Wiimotes are linked.
LEMMA LinkStep ==
    ASSUME SessionType(Wiimotes), Next
    PROVE  LinkTypes(Wiimotes)'
<1> USE DEF SessionType, LinkTypes, ctxVars, sessionVars, radioVars, hostVars
<1>1. CASE HandleEvent
  BY <1>1 DEF HandleEvent, InitStepComplete, WriteScanEnableComplete, CommandFailed, InquiryComplete,
       InquiryResult, RemoteNameComplete, ConnectionComplete, ConnectionFailed,
       DisconnectionComplete, L2capConnectionResponse, L2capConfigurationRequest, InputReport
<1>2. CASE SketchStep \/ BtTaskResets \/ BtTaskMarksInited \/ CacheAges
  BY <1>2 DEF SketchStep, BtTaskResets, BtTaskMarksInited, CacheAges,
       SetScanEnabled, StartDiscovery, StopDiscovery, DisconnectController,
       SetAutoReconnectEnabled, ClearReconnectCache, SendOutput
<1>3. CASE ControllerStep
  <2>1. CASE CtlReset
    BY <2>1 DEF CtlReset
  <2>2. CASE CtlDisconnect
    BY <2>2, Submitted DEF CtlDisconnect, Drop
  <2>3. CASE WiimoteTakesPacket
    <3>1. PICK op \in AclPackets :
             /\ Submit(op)
             /\ \/ chan' = chan
                \/ chan' = [chan EXCEPT ![Head(tx).handle] = @ \cup {op}]
      BY <2>3 DEF WiimoteTakesPacket, AclPackets
    <3>2. Head(tx).handle \in Handles
      BY <3>1, Submitted DEF LinkPackets, QueueTypes
    <3>3. link' = link
      BY <2>3 DEF WiimoteTakesPacket
    <3> QED BY <3>1, <3>2, <3>3
  <2>4. CASE CtlSetup \/ CtlInquiry \/ CtlInquiryCancel \/ CtlRemoteNameRequest
             \/ CtlCreateConnection \/ WiimoteAcceptsChannel
    BY <2>4 DEF CtlSetup, CtlInquiry, CtlInquiryCancel, CtlRemoteNameRequest,
         CtlCreateConnection, WiimoteAcceptsChannel
  <2> QED BY <1>3, <2>1, <2>2, <2>3, <2>4 DEF ControllerStep
<1>4. CASE RadioStep
  BY <1>4 DEF RadioStep, Drop, DeviceTypes, InquiryFinds, InquiryEnds, NameResolves, PageEnds, LinkLost, WiimoteReports
<1> QED BY <1>1, <1>2, <1>3, <1>4 DEF Next

\* The connection table holds handles, and no more than its array.
LEMMA TableStep ==
    ASSUME SessionType(Wiimotes), Next
    PROVE  TableType'
<1> USE Constants DEF SessionType, TableType, ctxVars, sessionVars, radioVars, hostVars
<1>1. CASE HandleEvent
  <2>1. CASE L2capConnectionResponse
    <3>1. Head(rx).handle \in Handles
      BY <2>1, Received DEF L2capConnectionResponse, LinkEvents, QueueTypes
    <3> QED BY <2>1, <3>1 DEF L2capConnectionResponse
  <2>2. CASE DisconnectionComplete
    BY <2>2 DEF DisconnectionComplete
  <2>3. table' = table \/ L2capConnectionResponse \/ DisconnectionComplete
    BY <1>1 DEF HandleEvent, InitStepComplete, WriteScanEnableComplete, CommandFailed, InquiryComplete,
       InquiryResult, RemoteNameComplete, ConnectionComplete, ConnectionFailed,
       DisconnectionComplete, L2capConnectionResponse, L2capConfigurationRequest, InputReport
  <2> QED BY <2>1, <2>2, <2>3
<1>2. CASE BtTaskResets
  BY <1>2 DEF BtTaskResets
<1>3. CASE SketchStep \/ BtTaskMarksInited \/ CacheAges
  BY <1>3 DEF SketchStep, BtTaskMarksInited, CacheAges,
       SetScanEnabled, StartDiscovery, StopDiscovery, DisconnectController,
       SetAutoReconnectEnabled, ClearReconnectCache, SendOutput
<1>4. CASE ControllerStep
  BY <1>4 DEF ControllerStep, CtlReset, CtlSetup, CtlInquiry, CtlInquiryCancel, CtlRemoteNameRequest,
       CtlCreateConnection, CtlDisconnect, WiimoteAcceptsChannel, WiimoteTakesPacket
<1>5. CASE RadioStep
  BY <1>5 DEF RadioStep, InquiryFinds, InquiryEnds, NameResolves, PageEnds, LinkLost, WiimoteReports
<1> QED BY <1>1, <1>2, <1>3, <1>4, <1>5 DEF Next

\* The handlers answer well-formed events with well-formed packets.
LEMMA HandlersSend ==
    ASSUME SessionType(Wiimotes), HandleEvent
    PROVE  tx' \in Seq(HostPacket(Wiimotes))
<1> USE DEF SessionType, QueueTypes
<1>2. CASE InitStepComplete
  <2>1. NextInitCommand[Head(rx).op] \in
          {"ReadBdAddr", "WriteLocalName", "WriteClassOfDevice", "WriteScanEnable"}
    BY <1>2 DEF InitStepComplete, NextInitCommand
  <2> QED BY <1>2, <2>1, PacketTypes DEF InitStepComplete
<1>3. CASE WriteScanEnableComplete
  <2>1. \/ tx' = tx
        \/ tx' = Append(tx, Cmd("Inquiry"))
        \/ last # NoDevice /\ tx' = (tx \o <<>>) \o <<DeviceCmd("CreateConnection", last)>>
    BY <1>3 DEF WriteScanEnableComplete, StartCreateConnection, StartInquiry, CacheIsValid
  <2>2. ASSUME last # NoDevice
        PROVE  /\ <<DeviceCmd("CreateConnection", last)>> \in Seq(HostPacket(Wiimotes))
               /\ tx \o <<>> \in Seq(HostPacket(Wiimotes))
    BY <2>2, PacketTypes DEF DeviceTypes
  <2>3. Append(tx, Cmd("Inquiry")) \in Seq(HostPacket(Wiimotes))
    BY PacketTypes
  <2> QED BY <2>1, <2>2, <2>3, ConcatSeq
<1>4. CASE InquiryComplete \/ DisconnectionComplete
  BY <1>4, PacketTypes DEF InquiryComplete, DisconnectionComplete, ResetDevice
<1>5. CASE InquiryResult
  BY <1>5, PacketTypes DEF InquiryResult
<1>6. CASE RemoteNameComplete
  <2>1. /\ DeviceCmd("CreateConnection", Head(rx).dev) \in HostPacket(Wiimotes)
        /\ Cmd("InquiryCancel") \in HostPacket(Wiimotes)
    BY <1>6, Received, PacketTypes DEF RemoteNameComplete
  <2>2. tx' = tx \/ tx' = (tx \o <<Cmd("InquiryCancel")>>) \o <<DeviceCmd("CreateConnection", Head(rx).dev)>>
    BY <1>6 DEF RemoteNameComplete, StartCreateConnection
  <2>3. /\ tx \o <<Cmd("InquiryCancel")>> \in Seq(HostPacket(Wiimotes))
        /\ <<DeviceCmd("CreateConnection", Head(rx).dev)>> \in Seq(HostPacket(Wiimotes))
    BY <2>1
  <2> QED BY <2>2, <2>3, ConcatSeq
<1>7. CASE ConnectionComplete
  BY <1>7, Received, PacketTypes DEF ConnectionComplete
<1>8. CASE ConnectionFailed
  BY <1>8, PacketTypes DEF ConnectionFailed, FallBackToInquiry, StartInquiry
<1>9. CASE L2capConnectionResponse \/ L2capConfigurationRequest
  <2>1. Head(rx).handle \in Handles
    BY <1>9, Received DEF L2capConnectionResponse, L2capConfigurationRequest, LinkEvents
  <2>2. tx' = tx \/ \E p \in HostPacket(Wiimotes) : tx' = Append(tx, p)
    BY <1>9, <2>1, PacketTypes DEF L2capConnectionResponse, L2capConfigurationRequest
  <2> QED BY <2>2
<1>10. CASE InputReport
  <2>1. Head(rx).handle \in Handles
    BY <1>10, Received DEF InputReport, LinkEvents
  <2>2. \A n \in Nat : HidOutputs(Head(rx).handle, n) \in Seq(HostPacket(Wiimotes))
    BY <2>1, PacketTypes DEF HidOutputs
  <2> DEFINE greeting == IF connected THEN 0 ELSE IF UseAccelerometer THEN 3 ELSE 2
  <2>3. PICK extension \in 0..1 : tx' = tx \o HidOutputs(Head(rx).handle, greeting + extension)
    BY <1>10 DEF InputReport
  <2>4. HidOutputs(Head(rx).handle, greeting + extension) \in Seq(HostPacket(Wiimotes))
    BY <2>2
  <2> QED BY <2>3, <2>4, ConcatSeq
<1>11. CASE CommandFailed
  BY <1>11 DEF CommandFailed
<1> QED BY <1>2, <1>3, <1>4, <1>5, <1>6, <1>7, <1>8, <1>9, <1>10, <1>11 DEF HandleEvent

\* The sketch and the Bluetooth task send well-formed packets.
LEMMA SketchSends ==
    ASSUME SessionType(Wiimotes), SketchStep \/ BtTaskResets \/ BtTaskMarksInited \/ CacheAges
    PROVE  tx' \in Seq(HostPacket(Wiimotes))
<1> USE DEF SessionType, QueueTypes
<1>1. CASE DisconnectController \/ SendOutput
  <2>1. table[1] \in Handles
    BY <1>1 DEF DisconnectController, SendOutput, TableType
  <2> QED BY <1>1, <2>1, PacketTypes DEF DisconnectController, SendOutput
<1>2. CASE StartDiscovery \/ StopDiscovery \/ \E enabled \in BOOLEAN : SetScanEnabled(enabled)
  <2>1. \E p \in HostPacket(Wiimotes) : tx' = Append(tx, p)
    BY <1>2, PacketTypes DEF StartDiscovery, StopDiscovery, SetScanEnabled
  <2> QED BY <2>1
<1>3. CASE ClearReconnectCache \/ \E enabled \in BOOLEAN : SetAutoReconnectEnabled(enabled)
  BY <1>3 DEF ClearReconnectCache, SetAutoReconnectEnabled
<1>4. CASE BtTaskResets \/ BtTaskMarksInited \/ CacheAges
  BY <1>4, PacketTypes DEF BtTaskResets, BtTaskMarksInited, CacheAges, ResetDevice
<1> QED BY <1>1, <1>2, <1>3, <1>4 DEF SketchStep

\* The controller answers well-formed packets with well-formed events.
LEMMA ControllerSends ==
    ASSUME SessionType(Wiimotes), ControllerStep
    PROVE  rx' \in Seq(HostEvent(Wiimotes))
<1> USE DEF SessionType, QueueTypes
<1>2. CASE CtlReset \/ CtlSetup
  <2>1. PICK op \in HciCommands, ok \in BOOLEAN : rx' = Append(rx, Completed(op, ok))
    BY <1>2 DEF CtlReset, CtlSetup, Status, HciCommands
  <2> QED BY <2>1, EventTypes
<1>3. CASE CtlCreateConnection
  <2>1. Head(tx).dev \in Wiimotes
    BY <1>3, Submitted DEF CtlCreateConnection, DevicePackets
  <2>2. rx' = rx \/ \E e \in HostEvent(Wiimotes) : rx' = Append(rx, e)
    BY <1>3, <2>1, EventTypes DEF CtlCreateConnection
  <2> QED BY <2>2
<1>4. CASE CtlDisconnect
  <2>1. Head(tx).handle \in Handles
    BY <1>4, Submitted DEF CtlDisconnect, LinkPackets
  <2>2. rx' = rx \/ \E e \in HostEvent(Wiimotes) : rx' = Append(rx, e)
    BY <1>4, <2>1, EventTypes DEF CtlDisconnect, Drop, LinkEvents
  <2> QED BY <2>2
<1>5. CASE WiimoteAcceptsChannel
  <2>1. Head(tx).handle \in Handles
    BY <1>5, Submitted DEF WiimoteAcceptsChannel, LinkPackets, AclPackets
  <2>2. \A ok \in BOOLEAN :
          /\ LinkEvent("L2capConnectionResponse", ok, Head(tx).handle) \in HostEvent(Wiimotes)
          /\ LinkEvent("L2capConfigurationRequest", ok, Head(tx).handle) \in HostEvent(Wiimotes)
    BY <2>1, EventTypes DEF LinkEvents
  <2>3. <<LinkEvent("L2capConnectionResponse", TRUE, Head(tx).handle),
          LinkEvent("L2capConfigurationRequest", TRUE, Head(tx).handle)>> \in Seq(HostEvent(Wiimotes))
    BY <2>2, PairSeq
  <2>4. (rx' = rx \/ \E e \in HostEvent(Wiimotes) : rx' = Append(rx, e))
        \/ \E s \in Seq(HostEvent(Wiimotes)) : rx' = rx \o s
    BY <1>5, <2>2, <2>3 DEF WiimoteAcceptsChannel
  <2>5. CASE \E s \in Seq(HostEvent(Wiimotes)) : rx' = rx \o s
    <3>1. PICK s \in Seq(HostEvent(Wiimotes)) : rx' = rx \o s
      BY <2>5
    <3>2. rx \in Seq(HostEvent(Wiimotes))
      OBVIOUS
    <3> QED BY <3>1, <3>2, ConcatSeq
  <2>6. CASE rx' = rx \/ \E e \in HostEvent(Wiimotes) : rx' = Append(rx, e)
    BY <2>6
  <2> QED BY <2>4, <2>5, <2>6, Zenon
<1>6. CASE CtlInquiry \/ CtlInquiryCancel \/ CtlRemoteNameRequest \/ WiimoteTakesPacket
  BY <1>6 DEF CtlInquiry, CtlInquiryCancel, CtlRemoteNameRequest, WiimoteTakesPacket
<1> QED BY <1>2, <1>3, <1>4, <1>5, <1>6 DEF ControllerStep

\* The radio produces well-formed events.
LEMMA RadioSends ==
    ASSUME SessionType(Wiimotes), RadioStep
    PROVE  rx' \in Seq(HostEvent(Wiimotes))
<1> USE DEF SessionType, QueueTypes
<1>1. CASE InquiryFinds \/ InquiryEnds
  <2>1. rx' = rx \/ \E e \in HostEvent(Wiimotes) : rx' = Append(rx, e)
    BY <1>1, EventTypes DEF InquiryFinds, InquiryEnds
  <2> QED BY <2>1
<1>2. CASE NameResolves
  <2>1. PICK d \in Wiimotes, ok \in BOOLEAN : rx' = Append(rx, DeviceEvent("RemoteName", ok, d))
    BY <1>2 DEF NameResolves, DeviceTypes
  <2> QED BY <1>2, <2>1, EventTypes DEF NameResolves
<1>3. CASE PageEnds
  <2>1. paging \in Wiimotes
    BY <1>3 DEF PageEnds, DeviceTypes
  <2>2. rx' = rx \/ \E e \in HostEvent(Wiimotes) : rx' = Append(rx, e)
    BY <1>3, <2>1, EventTypes DEF PageEnds
  <2> QED BY <2>2
<1>4. CASE LinkLost \/ WiimoteReports
  <2>1. PICK ev \in LinkEvents, h \in Handles : rx' = Append(rx, LinkEvent(ev, TRUE, h))
    BY <1>4 DEF LinkLost, WiimoteReports, Drop, LinkEvents
  <2>2. LinkEvent(ev, TRUE, h) \in HostEvent(Wiimotes)
    BY EventTypes
  <2>3. \E e \in HostEvent(Wiimotes) : rx' = Append(rx, e)
    BY <2>1, <2>2, Zenon
  <2> QED BY <2>3
<1> QED BY <1>1, <1>2, <1>3, <1>4 DEF RadioStep

\* Both queues hold well-formed packets only.
LEMMA QueueStep ==
    ASSUME SessionType(Wiimotes), Next
    PROVE  QueueTypes(Wiimotes)'
<1> USE DEF SessionType, QueueTypes
<1>1. tx' \in Seq(HostPacket(Wiimotes))
  <2>1. CASE ControllerStep
    BY <2>1, Submitted DEF ControllerStep, CtlReset, CtlSetup, CtlInquiry, CtlInquiryCancel, CtlRemoteNameRequest,
       CtlCreateConnection, CtlDisconnect, WiimoteAcceptsChannel, WiimoteTakesPacket
  <2>2. CASE RadioStep
    BY <2>2 DEF RadioStep, InquiryFinds, InquiryEnds, NameResolves, PageEnds, LinkLost, WiimoteReports
  <2> QED BY <2>1, <2>2, HandlersSend, SketchSends DEF Next
<1>2. rx' \in Seq(HostEvent(Wiimotes))
  <2>1. CASE HandleEvent
    BY <2>1, Received DEF HandleEvent, InitStepComplete, WriteScanEnableComplete, CommandFailed, InquiryComplete,
       InquiryResult, RemoteNameComplete, ConnectionComplete, ConnectionFailed,
       DisconnectionComplete, L2capConnectionResponse, L2capConfigurationRequest, InputReport
  <2>2. CASE SketchStep \/ BtTaskResets \/ BtTaskMarksInited \/ CacheAges
    BY <2>2 DEF SketchStep, BtTaskResets, BtTaskMarksInited, CacheAges,
       SetScanEnabled, StartDiscovery, StopDiscovery, DisconnectController,
       SetAutoReconnectEnabled, ClearReconnectCache, SendOutput
  <2> QED BY <2>1, <2>2, ControllerSends, RadioSends DEF Next
<1> QED BY <1>1, <1>2 DEF HostPacket, HostEvent

\* Only Wiimotes are named, paged, connected or cached, in every reachable state.
THEOREM TypeInvariant == Spec => []SessionType(Wiimotes)
<1>1. Init => SessionType(Wiimotes)
  <2> SUFFICES ASSUME Init PROVE SessionType(Wiimotes)
    OBVIOUS
  <2>1. FlagTypes /\ DeviceTypes(Wiimotes)
    BY DEF Init, FlagTypes, DeviceTypes
  <2>2. LinkTypes(Wiimotes)
    BY DEF Init, LinkTypes
  <2>3. TableType /\ QueueTypes(Wiimotes)
    BY Constants DEF Init, TableType, QueueTypes
  <2> QED BY <2>1, <2>2, <2>3 DEF SessionType
<1>2. SessionType(Wiimotes) /\ [Next]_vars => SessionType(Wiimotes)'
  <2>1. SessionType(Wiimotes) /\ UNCHANGED vars => SessionType(Wiimotes)'
    BY DEF vars, ctxVars, sessionVars, radioVars, SessionType, FlagTypes, DeviceTypes,
           LinkTypes, TableType, QueueTypes
  <2>2. ASSUME SessionType(Wiimotes), Next PROVE SessionType(Wiimotes)'
    BY <2>2, FlagStep, DeviceStep, LinkStep, TableStep, QueueStep DEF SessionType
  <2> QED BY <2>1, <2>2
<1> QED BY <1>1, <1>2, PTL DEF Spec

\* Every variable has its type and the connection table its bound.
THEOREM TypeCorrectness == Spec => []TypeOK
<1>1. SessionType(Wiimotes) => TypeOK
  <2> SUFFICES ASSUME SessionType(Wiimotes) PROVE SessionType(Devices)
    BY DEF TypeOK
  <2> USE DEF SessionType
  <2>1. HostPacket(Wiimotes) \subseteq HostPacket(Devices)
    BY Constants DEF HostPacket
  <2>2. HostEvent(Wiimotes) \subseteq HostEvent(Devices)
    BY Constants DEF HostEvent
  <2>3. QueueTypes(Devices)
    BY <2>1, <2>2 DEF QueueTypes
  <2>4. DeviceTypes(Devices)
    BY Constants DEF DeviceTypes
  <2>5. LinkTypes(Devices)
    BY Constants DEF LinkTypes
  <2> QED BY <2>3, <2>4, <2>5
<1> QED BY <1>1, TypeInvariant, PTL

\* The host never connects to, nor caches, a device that is not a Wiimote.
THEOREM OnlyWiimotesInvariant == Spec => []OnlyWiimotes
<1>1. SessionType(Wiimotes) => OnlyWiimotes
  BY DEF SessionType, DeviceTypes, LinkTypes, OnlyWiimotes
<1> QED BY <1>1, TypeInvariant, PTL

----------------------------------------------------------------------------
(* What the steps do to the two queues.                                    *)

\* The packet at the head of tx leaves, the others move up by one.
LEMMA PacketTaken ==
    ASSUME tx \in Seq(HostPacket(Wiimotes)), NEW op, Submit(op)
    PROVE  /\ 1 \in DOMAIN tx /\ tx[1].op = op /\ Head(tx) = tx[1]
           /\ \A i \in DOMAIN tx' : i \in Nat \ {0} /\ i + 1 \in DOMAIN tx /\ tx'[i] = tx[i + 1]
           /\ \A i \in DOMAIN tx : i \in Nat \ {0} /\ (i > 1 => i - 1 \in DOMAIN tx' /\ tx'[i - 1] = tx[i])
BY DEF Submit

\* The event at the head of rx leaves, the others move up by one.
LEMMA EventTaken ==
    ASSUME rx \in Seq(HostEvent(Wiimotes)), NEW ev, Receive(ev)
    PROVE  /\ 1 \in DOMAIN rx /\ rx[1].ev = ev /\ Head(rx) = rx[1]
           /\ \A i \in DOMAIN rx' : i \in Nat \ {0} /\ i + 1 \in DOMAIN rx /\ rx'[i] = rx[i + 1]
           /\ \A i \in DOMAIN rx : i \in Nat \ {0} /\ (i > 1 => i - 1 \in DOMAIN rx' /\ rx'[i - 1] = rx[i])
           /\ Len(rx) \in Nat /\ Len(rx') = Len(rx) - 1 /\ DOMAIN rx' = 1..Len(rx')
BY DEF Receive

\* A queue of events is empty or has a first one.
LEMMA EmptyOrFirst ==
    ASSUME rx \in Seq(HostEvent(Wiimotes))
    PROVE  rx # <<>> => 1 \in DOMAIN rx
OBVIOUS

\* Which event each handler takes.
LEMMA HandlersRead ==
    ASSUME rx \in Seq(HostEvent(Wiimotes))
    PROVE  /\ InitStepComplete \/ WriteScanEnableComplete =>
                rx # <<>> /\ rx[1].ev = "CommandComplete" /\ rx[1].ok
           /\ CommandFailed => rx # <<>> /\ rx[1].ev = "CommandComplete" /\ ~rx[1].ok
           /\ InquiryComplete => rx # <<>> /\ rx[1].ev = "InquiryComplete"
           /\ InquiryResult => rx # <<>> /\ rx[1].ev = "InquiryResult"
           /\ RemoteNameComplete => rx # <<>> /\ rx[1].ev = "RemoteName"
           /\ ConnectionComplete => rx # <<>> /\ rx[1].ev = "ConnectionComplete" /\ rx[1].ok
           /\ ConnectionFailed => rx # <<>> /\ rx[1].ev \in PageEvents
           /\ DisconnectionComplete => rx # <<>> /\ rx[1].ev = "DisconnectionComplete"
           /\ L2capConnectionResponse => rx # <<>> /\ rx[1].ev = "L2capConnectionResponse"
           /\ L2capConfigurationRequest => rx # <<>> /\ rx[1].ev = "L2capConfigurationRequest"
           /\ InputReport => rx # <<>> /\ rx[1].ev = "InputReport"
<1>1. \A ev : Receive(ev) => rx # <<>> /\ rx[1].ev = ev /\ Head(rx) = rx[1]
  BY DEF Receive
<1>2. InitStepComplete \/ WriteScanEnableComplete => Receive("CommandComplete") /\ Head(rx).ok
  BY Zenon DEF InitStepComplete, WriteScanEnableComplete
<1>3. CommandFailed => Receive("CommandComplete") /\ ~Head(rx).ok
  BY Zenon DEF CommandFailed
<1>4. /\ InquiryComplete => Receive("InquiryComplete")
      /\ InquiryResult => Receive("InquiryResult")
      /\ RemoteNameComplete => Receive("RemoteName")
  BY Zenon DEF InquiryComplete, InquiryResult, RemoteNameComplete
<1>5. /\ ConnectionComplete => Receive("ConnectionComplete") /\ Head(rx).ok
      /\ ConnectionFailed => Receive("ConnectionComplete") \/ Receive("ConnectRefused")
      /\ DisconnectionComplete => Receive("DisconnectionComplete")
  BY Zenon DEF ConnectionComplete, ConnectionFailed, DisconnectionComplete
<1>6. /\ L2capConnectionResponse => Receive("L2capConnectionResponse")
      /\ L2capConfigurationRequest => Receive("L2capConfigurationRequest")
      /\ InputReport => Receive("InputReport")
  BY Zenon DEF L2capConnectionResponse, L2capConfigurationRequest, InputReport
<1> QED
  <2>1. ConnectionFailed => rx # <<>> /\ rx[1].ev \in PageEvents
    BY <1>1, <1>5 DEF PageEvents
  <2>2. InitStepComplete \/ WriteScanEnableComplete => rx # <<>> /\ rx[1].ev = "CommandComplete" /\ rx[1].ok
    BY <1>1, <1>2, Zenon
  <2>3. CommandFailed => rx # <<>> /\ rx[1].ev = "CommandComplete" /\ ~rx[1].ok
    BY <1>1, <1>3, Zenon
  <2>4. ConnectionComplete => rx # <<>> /\ rx[1].ev = "ConnectionComplete" /\ rx[1].ok
    BY <1>1, <1>5, Zenon
  <2> QED BY <1>1, <1>4, <1>5, <1>6, <2>1, <2>2, <2>3, <2>4, Zenon

\* A packet is added at the end of tx.
LEMMA PacketAdded ==
    ASSUME tx \in Seq(HostPacket(Wiimotes)), NEW p, tx' = Append(tx, p)
    PROVE  /\ \A i \in DOMAIN tx : i \in DOMAIN tx' /\ tx'[i] = tx[i] /\ i \in Nat \ {0} /\ i < Len(tx) + 1
           /\ \A i \in DOMAIN tx' : i \in DOMAIN tx \/ i = Len(tx) + 1
           /\ Len(tx) + 1 \in DOMAIN tx' /\ tx'[Len(tx) + 1] = p
           /\ Len(tx) \in Nat
OBVIOUS

\* An event is added at the end of rx.
LEMMA EventAdded ==
    ASSUME rx \in Seq(HostEvent(Wiimotes)), NEW e, rx' = Append(rx, e)
    PROVE  /\ \A i \in DOMAIN rx : i \in DOMAIN rx' /\ rx'[i] = rx[i] /\ i \in Nat \ {0} /\ i < Len(rx) + 1
           /\ \A i \in DOMAIN rx' : i \in DOMAIN rx \/ i = Len(rx) + 1
           /\ Len(rx) + 1 \in DOMAIN rx' /\ rx'[Len(rx) + 1] = e
           /\ Len(rx) \in Nat /\ Len(rx') = Len(rx) + 1
OBVIOUS

\* Only a connection request announces a link in tx.
LEMMA SetupKept ==
    ASSUME tx \in Seq(HostPacket(Wiimotes)),
           \/ tx' = tx
           \/ \E p : tx' = Append(tx, p) /\ p.op # "L2capConnectionRequest"
           \/ \E op : Submit(op) /\ op # "L2capConnectionRequest"
    PROVE  \A h : SetupSent(h)' <=> SetupSent(h)
<1>1. CASE tx' = tx
  BY <1>1 DEF SetupSent
<1>2. ASSUME NEW p, tx' = Append(tx, p), p.op # "L2capConnectionRequest"
      PROVE  \A h : SetupSent(h)' <=> SetupSent(h)
  BY <1>2, PacketAdded DEF SetupSent
<1>3. ASSUME NEW op, Submit(op), op # "L2capConnectionRequest", NEW h
      PROVE  SetupSent(h)' <=> SetupSent(h)
  <2>1. ASSUME NEW i \in DOMAIN tx, tx[i].op = "L2capConnectionRequest", tx[i].handle = h
        PROVE  SetupSent(h)'
    <3>1. i > 1
      BY <1>3, <2>1, PacketTaken
    <3>2. i - 1 \in DOMAIN tx' /\ tx'[i - 1] = tx[i]
      BY <1>3, <3>1, PacketTaken
    <3> QED BY <2>1, <3>2 DEF SetupSent
  <2>2. ASSUME NEW i \in DOMAIN tx', tx'[i].op = "L2capConnectionRequest", tx'[i].handle = h
        PROVE  SetupSent(h)
    BY <1>3, <2>2, PacketTaken DEF SetupSent
  <2> QED BY <2>1, <2>2 DEF SetupSent
<1> QED BY <1>1, <1>2, <1>3

\* Only the end of a page announces a link in rx.
LEMMA PageKept ==
    ASSUME rx \in Seq(HostEvent(Wiimotes)),
           \/ rx' = rx
           \/ \E e : rx' = Append(rx, e) /\ (e.ev # "ConnectionComplete" \/ ~e.ok)
           \/ \E ev : Receive(ev) /\ (ev # "ConnectionComplete" \/ ~rx[1].ok)
    PROVE  \A h : PageHeard(h)' <=> PageHeard(h)
<1>1. CASE rx' = rx
  BY <1>1 DEF PageHeard
<1>2. ASSUME NEW e, rx' = Append(rx, e), e.ev # "ConnectionComplete" \/ ~e.ok
      PROVE  \A h : PageHeard(h)' <=> PageHeard(h)
  BY <1>2, EventAdded DEF PageHeard
<1>3. ASSUME NEW ev, Receive(ev), ev # "ConnectionComplete" \/ ~rx[1].ok, NEW h
      PROVE  PageHeard(h)' <=> PageHeard(h)
  <2>1. ASSUME NEW i \in DOMAIN rx, rx[i].ev = "ConnectionComplete", rx[i].ok, rx[i].handle = h
        PROVE  PageHeard(h)'
    <3>1. i # 1
      BY <1>3, <2>1, EventTaken
    <3>2. i - 1 \in DOMAIN rx' /\ rx'[i - 1] = rx[i]
      BY <1>3, <3>1, EventTaken
    <3> QED BY <2>1, <3>2 DEF PageHeard
  <2>2. ASSUME NEW i \in DOMAIN rx', rx'[i].ev = "ConnectionComplete", rx'[i].ok, rx'[i].handle = h
        PROVE  PageHeard(h)
    BY <1>3, <2>2, EventTaken DEF PageHeard
  <2> QED BY <2>1, <2>2 DEF PageHeard
<1> QED BY <1>1, <1>2, <1>3

\* Taking an event leaves no more of any sort.
LEMMA HeardTaken ==
    ASSUME rx \in Seq(HostEvent(Wiimotes)), NEW ev, Receive(ev), NEW evs
    PROVE  /\ Heard(evs) = {} => Heard(evs)' = {}
           /\ AtMostOne(Heard(evs)) => AtMostOne(Heard(evs)')
           /\ AtMostOne(Heard(evs)) /\ ev \in evs => Heard(evs)' = {}
<1>1. \A i \in Heard(evs)' : i \in Nat \ {0} /\ i + 1 \in Heard(evs)
  BY EventTaken DEF Heard
<1>2. ev \in evs => 1 \in Heard(evs)
  BY EventTaken DEF Heard
<1> HIDE DEF Heard
<1> QED BY <1>1, <1>2 DEF AtMostOne

\* Taking an event leaves those of another sort.
LEMMA HeardStays ==
    ASSUME rx \in Seq(HostEvent(Wiimotes)), NEW ev, Receive(ev), NEW evs, ev \notin evs,
           Heard(evs) # {}
    PROVE  Heard(evs)' # {}
<1>1. PICK i \in DOMAIN rx : rx[i].ev \in evs
  BY DEF Heard
<1>2. i > 1 /\ i - 1 \in DOMAIN rx' /\ rx'[i - 1] = rx[i]
  BY <1>1, EventTaken
<1> QED BY <1>1, <1>2 DEF Heard

\* Taking a packet leaves no more of any sort.
LEMMA SentTaken ==
    ASSUME tx \in Seq(HostPacket(Wiimotes)), NEW op, Submit(op), NEW ops
    PROVE  /\ Sent(ops) = {} => Sent(ops)' = {}
           /\ AtMostOne(Sent(ops)) => AtMostOne(Sent(ops)')
           /\ AtMostOne(Sent(ops)) /\ op \in ops => Sent(ops)' = {}
<1>1. \A i \in Sent(ops)' : i \in Nat \ {0} /\ i + 1 \in Sent(ops)
  BY PacketTaken DEF Sent
<1>2. op \in ops => 1 \in Sent(ops)
  BY PacketTaken DEF Sent
<1> HIDE DEF Sent
<1> QED BY <1>1, <1>2 DEF AtMostOne

\* Adding a packet adds one of its sort.
LEMMA SentAdded ==
    ASSUME tx \in Seq(HostPacket(Wiimotes)), NEW p, tx' = Append(tx, p), NEW ops
    PROVE  Sent(ops)' = IF p.op \in ops THEN Sent(ops) \cup {Len(tx) + 1} ELSE Sent(ops)
<1>1. \A i \in DOMAIN tx : i # Len(tx) + 1
  BY PacketAdded
<1> QED BY <1>1, PacketAdded DEF Sent

\* Adding an event adds one of its sort.
LEMMA HeardAdded ==
    ASSUME rx \in Seq(HostEvent(Wiimotes)), NEW e, rx' = Append(rx, e), NEW evs
    PROVE  Heard(evs)' = IF e.ev \in evs THEN Heard(evs) \cup {Len(rx) + 1} ELSE Heard(evs)
<1>1. \A i \in DOMAIN rx : i # Len(rx) + 1
  BY EventAdded
<1> QED BY <1>1, EventAdded DEF Heard

\* The event added is the last.
LEMMA EventAt ==
    ASSUME rx \in Seq(HostEvent(Wiimotes)), NEW e, rx' = Append(rx, e)
    PROVE  \E k \in Nat :
             /\ k \in DOMAIN rx' /\ rx'[k] = e
             /\ \A i \in DOMAIN rx : i \in Nat /\ i < k /\ i \in DOMAIN rx' /\ rx'[i] = rx[i]
             /\ \A i \in DOMAIN rx' : i \in DOMAIN rx \/ i = k
             /\ \A evs : Heard(evs)' = IF e.ev \in evs THEN Heard(evs) \cup {k} ELSE Heard(evs)
<1>1. PICK k \in Nat : k = Len(rx) + 1
  BY EventAdded
<1>2. \A evs : Heard(evs)' = IF e.ev \in evs THEN Heard(evs) \cup {k} ELSE Heard(evs)
  BY <1>1, HeardAdded
<1>3. /\ k \in DOMAIN rx' /\ rx'[k] = e
      /\ \A i \in DOMAIN rx : i \in Nat /\ i < k /\ i \in DOMAIN rx' /\ rx'[i] = rx[i]
      /\ \A i \in DOMAIN rx' : i \in DOMAIN rx \/ i = k
  BY <1>1, EventAdded
<1> QED BY <1>2, <1>3

\* What the sketch, the Bluetooth task after its reset and the cache's clock may
\* do: nothing to the radio, the session or the events, and to tx at most one packet.
LEMMA HostMay ==
    ASSUME CalmPairing, SketchStep \/ BtTaskMarksInited \/ CacheAges
    PROVE  /\ UNCHANGED <<scanned, connected, table, rx, inquiring, paging, naming, link, chan>>
           /\ inited \/ btReset \/ connected \/ last # NoDevice
           /\ (inited \/ btReset) => (inited \/ btReset)'
           /\ ~inited /\ ~btReset => ~inited' /\ ~btReset'
           /\ pendingFast' = pendingFast \/ ~pendingFast'
           /\ \/ tx' = tx
              \/ inited /\ tx' = Append(tx, Cmd("InquiryCancel"))
              \/ /\ connected /\ table # <<>>
                 /\ \E op \in {"Disconnect", "HidOutput"} : tx' = Append(tx, LinkCmd(op, table[1]))
<1> USE DEF CalmPairing, ctxVars, sessionVars, radioVars
<1>1. CASE BtTaskMarksInited \/ CacheAges
  BY <1>1 DEF BtTaskMarksInited, CacheAges
<1>2. CASE SketchStep
  <2>1. ~StartDiscovery /\ \A enabled \in BOOLEAN : ~SetScanEnabled(enabled)
    BY DEF StartDiscovery, SetScanEnabled, Issue
  <2> QED BY <1>2, <2>1 DEF SketchStep, SetAutoReconnectEnabled, StopDiscovery,
        DisconnectController,
          ClearReconnectCache, SendOutput
<1> QED BY <1>1, <1>2

\* Once the Bluetooth task has reset the controller it never does again.
LEMMA StartedStep ==
    ASSUME inited \/ btReset, Next
    PROVE  (inited \/ btReset)' /\ ~BtTaskResets
<1>1. ~BtTaskResets
  BY DEF BtTaskResets
<1> QED BY <1>1 DEF Next, BtTaskMarksInited, CacheAges, ctxVars, hostVars, HandleEvent,
      InitStepComplete, WriteScanEnableComplete, CommandFailed, InquiryComplete,
       InquiryResult, RemoteNameComplete, ConnectionComplete, ConnectionFailed,
       DisconnectionComplete, L2capConnectionResponse, L2capConfigurationRequest, InputReport,
       SketchStep, SetScanEnabled, StartDiscovery, StopDiscovery, DisconnectController,
       SetAutoReconnectEnabled, ClearReconnectCache, SendOutput,
       ControllerStep, CtlReset, CtlSetup, CtlInquiry, CtlInquiryCancel, CtlRemoteNameRequest,
       CtlCreateConnection, CtlDisconnect, WiimoteAcceptsChannel, WiimoteTakesPacket,
       RadioStep, InquiryFinds, InquiryEnds, NameResolves, PageEnds, LinkLost, WiimoteReports

\* Of the packets, only one at the head of tx is taken.
LEMMA ControllerMay ==
    ASSUME tx \in Seq(HostPacket(Wiimotes)), ControllerStep
    PROVE  /\ \E op \in HciCommands \cup AclPackets : Submit(op)
           /\ UNCHANGED <<ctxVars, sessionVars>>
BY DEF ControllerStep, CtlReset, CtlSetup, CtlInquiry, CtlInquiryCancel, CtlRemoteNameRequest,
       CtlCreateConnection, CtlDisconnect, WiimoteAcceptsChannel, WiimoteTakesPacket, hostVars,
       HciCommands, AclPackets

\* Which packet each action of the controller takes.
LEMMA ControllerTakes ==
    ASSUME tx \in Seq(HostPacket(Wiimotes))
    PROVE  /\ ControllerStep => tx # <<>> /\ 1 \in DOMAIN tx
           /\ CtlReset => tx[1].op = "Reset"
           /\ CtlSetup => tx[1].op \in InitCommands \ {"Reset"}
           /\ CtlInquiry => tx[1].op = "Inquiry"
           /\ CtlInquiryCancel => tx[1].op = "InquiryCancel"
           /\ CtlRemoteNameRequest => tx[1].op = "RemoteNameRequest"
           /\ CtlCreateConnection => tx[1].op = "CreateConnection"
           /\ CtlDisconnect => tx[1].op = "Disconnect"
           /\ WiimoteAcceptsChannel => tx[1].op = "L2capConnectionRequest"
           /\ WiimoteTakesPacket =>
                tx[1].op \in {"L2capConfigurationRequest", "L2capConfigurationResponse", "HidOutput"}
<1>1. \A op : Submit(op) => tx # <<>> /\ 1 \in DOMAIN tx /\ tx[1].op = op
  BY DEF Submit
<1>2. ControllerStep => tx # <<>> /\ 1 \in DOMAIN tx
  BY <1>1, ControllerMay
<1> QED BY <1>1, <1>2 DEF CtlReset, CtlSetup, CtlInquiry, CtlInquiryCancel, CtlRemoteNameRequest,
     CtlCreateConnection, CtlDisconnect, WiimoteAcceptsChannel, WiimoteTakesPacket, InitCommands

\* With no inquiry, no page and no link the radio is silent, and packets to
\* dead links disappear.
LEMMA QuietRadio ==
    ASSUME SessionType(Wiimotes), RadioQuiet, NoSession
    PROVE  /\ ~RadioStep
           /\ ControllerStep /\ tx[1].op \in IdlePackets =>
                UNCHANGED <<rx, radioVars>> /\ \E op \in IdlePackets : Submit(op)
<1> USE DEF SessionType, QueueTypes, LinkTypes, FlagTypes
<1>1. ~RadioStep
  BY DEF RadioStep, InquiryFinds, InquiryEnds, NameResolves, PageEnds, LinkLost, WiimoteReports,
         RadioQuiet, NoSession, Drop, ChannelOpen
<1>2. ASSUME ControllerStep, tx[1].op \in IdlePackets
      PROVE  UNCHANGED <<rx, radioVars>> /\ \E op \in IdlePackets : Submit(op)
  <2>1. \A op : Submit(op) => tx[1].op = op
    BY DEF Submit
  <2>2. CASE CtlInquiryCancel
    BY <2>2 DEF CtlInquiryCancel, RadioQuiet, radioVars, IdlePackets
  <2>3. CASE CtlDisconnect
    <3>1. Submit("Disconnect") /\ Head(tx).handle \in Handles
      BY <2>3, Submitted DEF CtlDisconnect, LinkPackets
    <3> QED BY <2>3, <3>1 DEF CtlDisconnect, RadioQuiet, radioVars, IdlePackets, LinkPackets
  <2>4. CASE WiimoteAcceptsChannel
    <3>1. Submit("L2capConnectionRequest") /\ Head(tx).handle \in Handles
      BY <2>4, Submitted DEF WiimoteAcceptsChannel, LinkPackets, AclPackets
    <3> QED BY <2>4, <3>1 DEF WiimoteAcceptsChannel, RadioQuiet, radioVars, IdlePackets,
          LinkPackets, AclPackets
  <2>5. CASE WiimoteTakesPacket
    <3>1. PICK op \in AclPackets : Submit(op) /\ (link[Head(tx).handle] = NoDevice => chan' = chan)
      BY <2>5 DEF WiimoteTakesPacket, AclPackets
    <3>2. Head(tx).handle \in Handles
      BY <3>1, Submitted DEF LinkPackets
    <3> QED BY <2>5, <3>1, <3>2 DEF WiimoteTakesPacket, RadioQuiet, radioVars, IdlePackets,
          LinkPackets
  <2>6. ~CtlReset /\ ~CtlSetup /\ ~CtlInquiry /\ ~CtlRemoteNameRequest /\ ~CtlCreateConnection
    BY <1>2, <2>1 DEF CtlReset, CtlSetup, CtlInquiry, CtlRemoteNameRequest, CtlCreateConnection,
         IdlePackets, LinkPackets, AclPackets
  <2> QED BY <1>2, <2>2, <2>3, <2>4, <2>5, <2>6 DEF ControllerStep
<1> QED BY <1>1, <1>2

\* The end of a page announces its link, and no other.
LEMMA PageAnnounced ==
    ASSUME rx \in Seq(HostEvent(Wiimotes)), NEW d, NEW g, rx' = Append(rx, Paged(d, g))
    PROVE  \A h : PageHeard(h)' <=> PageHeard(h) \/ h = g
<1>1. Paged(d, g).ev = "ConnectionComplete" /\ Paged(d, g).ok /\ Paged(d, g).handle = g
  BY DEF Paged
<1> QED BY <1>1, EventAdded DEF PageHeard

\* Two packets are added at the end of tx.
LEMMA PacketsAdded ==
    ASSUME tx \in Seq(HostPacket(Wiimotes)), NEW p \in HostPacket(Wiimotes), NEW q \in HostPacket(Wiimotes),
           tx' = (tx \o <<p>>) \o <<q>>
    PROVE  /\ \A i \in DOMAIN tx : i \in DOMAIN tx' /\ tx'[i] = tx[i] /\ i \in Nat \ {0} /\ i < Len(tx) + 1
           /\ \A i \in DOMAIN tx' : i \in DOMAIN tx \/ i = Len(tx) + 1 \/ i = Len(tx) + 2
           /\ Len(tx) + 1 \in DOMAIN tx' /\ tx'[Len(tx) + 1] = p
           /\ Len(tx) + 2 \in DOMAIN tx' /\ tx'[Len(tx) + 2] = q
           /\ Len(tx) \in Nat
OBVIOUS

\* Taking an event leaves the others in order.
LEMMA OrderKept ==
    ASSUME rx \in Seq(HostEvent(Wiimotes)), EventsInOrder, NEW ev, Receive(ev)
    PROVE  EventsInOrder'
<1>1. \A evs : \A i \in Heard(evs)' : i \in Nat /\ i + 1 \in Heard(evs)
  BY EventTaken DEF Heard
<1> HIDE DEF Heard
<1>2. AtMostOne(Heard({"InquiryComplete"}))'
  BY <1>1 DEF EventsInOrder, AtMostOne
<1>3. \A i \in Heard({"InquiryResult"})', j \in Heard({"InquiryComplete"} \cup PageEvents)' : i < j
  BY <1>1 DEF EventsInOrder
<1>4. \A i \in Heard({"InquiryComplete"})', j \in Heard(PageEvents)' : i < j
  BY <1>1 DEF EventsInOrder
<1> QED BY <1>2, <1>3, <1>4 DEF EventsInOrder, PageEvents, Heard

\* The end of a page comes after all that is heard of the inquiry.
LEMMA PageHeardLast ==
    ASSUME rx \in Seq(HostEvent(Wiimotes)), EventsInOrder, NEW e, rx' = Append(rx, e), e.ev \in PageEvents
    PROVE  EventsInOrder'
<1>1. PICK k \in Nat : /\ \A evs : Heard(evs)' = IF e.ev \in evs THEN Heard(evs) \cup {k} ELSE Heard(evs)
                       /\ \A i \in DOMAIN rx : i < k
  BY EventAt
<1>2. /\ Heard({"InquiryResult"})' = Heard({"InquiryResult"})
      /\ Heard({"InquiryComplete"})' = Heard({"InquiryComplete"})
      /\ Heard(PageEvents)' = Heard(PageEvents) \cup {k}
      /\ Heard({"InquiryComplete"} \cup PageEvents)' = Heard({"InquiryComplete"} \cup PageEvents) \cup {k}
  BY <1>1 DEF PageEvents
<1>3. \A evs : \A i \in Heard(evs) : i < k
  BY <1>1 DEF Heard
<1>4. AtMostOne(Heard({"InquiryComplete"}))'
  BY <1>2 DEF EventsInOrder, AtMostOne
<1>5. \A i \in Heard({"InquiryResult"})', j \in Heard({"InquiryComplete"} \cup PageEvents)' : i < j
  <2> SUFFICES ASSUME NEW i \in Heard({"InquiryResult"}),
                      NEW j \in Heard({"InquiryComplete"} \cup PageEvents)'
               PROVE  i < j
    BY <1>2
  <2>1. i < k
    BY <1>3
  <2>2. j = k \/ i < j
    BY <1>2 DEF EventsInOrder
  <2> QED BY <2>1, <2>2
<1>6. \A i \in Heard({"InquiryComplete"})', j \in Heard(PageEvents)' : i < j
  BY <1>2, <1>3 DEF EventsInOrder
<1> QED BY <1>4, <1>5, <1>6 DEF EventsInOrder

\* The end of an inquiry comes after its results, and before any page.
LEMMA EndInOrder ==
    ASSUME EventsInOrder, NEW k, \A evs : \A i \in Heard(evs) : i < k,
           Heard({"InquiryComplete"} \cup PageEvents) = {},
           Heard({"InquiryResult"})' = Heard({"InquiryResult"}),
           Heard({"InquiryComplete"})' = Heard({"InquiryComplete"}) \cup {k},
           Heard(PageEvents)' = Heard(PageEvents),
           Heard({"InquiryComplete"} \cup PageEvents)'
             = Heard({"InquiryComplete"} \cup PageEvents) \cup {k}
    PROVE  EventsInOrder'
<1>1. Heard({"InquiryComplete"}) = {} /\ Heard(PageEvents) = {}
  BY DEF Heard
<1>2. AtMostOne(Heard({"InquiryComplete"}))'
  BY <1>1 DEF AtMostOne
<1>3. \A i \in Heard({"InquiryResult"})', j \in Heard({"InquiryComplete"} \cup PageEvents)' : i < j
  BY DEF EventsInOrder
<1>4. \A i \in Heard({"InquiryComplete"})', j \in Heard(PageEvents)' : i < j
  BY <1>1
<1> QED BY <1>2, <1>3, <1>4 DEF EventsInOrder

----------------------------------------------------------------------------
(* How an attempt moves between the host, the controller and the radio.    *)

\* A host that sends the next command of a search is starting.
LEMMA SearchStarts ==
    ASSUME tx \in Seq(HostPacket(Wiimotes)), SendsOnly(IdlePackets), NEW p, tx' = Append(tx, p),
           p.op \in InitCommands \cup {"Inquiry", "CreateConnection"},
           pendingFast' => p.op = "CreateConnection",
           (inited \/ btReset)', NoSession', RadioQuiet', scanned' = {}, HearsOnly({})'
    PROVE  Starting'
<1>1. PICK k \in Nat : k = Len(tx) + 1
  BY PacketAdded
<1>2. /\ k \in DOMAIN tx' /\ tx'[k] = p
      /\ \A i \in DOMAIN tx' : i \in Nat /\ (i # k => i < k /\ tx'[i].op \in IdlePackets)
  BY <1>1, PacketAdded DEF SendsOnly
<1>3. k \in Sent(InitCommands \cup {"Inquiry", "CreateConnection"})'
  BY <1>2 DEF Sent
<1>4. Between(IdlePackets, k, {"InquiryCancel"})'
  BY <1>2 DEF Between
<1> QED BY <1>2, <1>3, <1>4 DEF Starting

\* The controller takes the attempt up, or refuses it with an event.
LEMMA AttemptSubmitted ==
    ASSUME SessionType(Wiimotes), OneAttempt, LinksAnnounced,
           CtlInquiryCancel \/ CtlRemoteNameRequest \/ CtlCreateConnection
    PROVE  OneAttempt' /\ LinksAnnounced'
<1> USE DEF SessionType, QueueTypes
<1>1. CASE CtlInquiryCancel
  <2>1. UNCHANGED <<rx, paging, naming, link>> /\ Submit("InquiryCancel")
    BY <1>1 DEF CtlInquiryCancel
  <2>2. OneAttempt'
    BY <2>1, SentTaken DEF OneAttempt, Heard
  <2>3. LinksAnnounced'
    BY <2>1, SetupKept, PageKept DEF LinksAnnounced, Announced
  <2> QED BY <2>2, <2>3
<1>2. CASE CtlRemoteNameRequest
  <2>1. UNCHANGED <<rx, paging, link>> /\ Submit("RemoteNameRequest")
    BY <1>2 DEF CtlRemoteNameRequest
  <2>2. 1 \in Sent(AttemptPackets)
    BY <2>1, PacketTaken DEF Sent, AttemptPackets
  <2>3. Sent(AttemptPackets)' = {}
    BY <2>1, SentTaken DEF OneAttempt, AttemptPackets
  <2>4. OneAttempt'
    BY <2>1, <2>2, <2>3 DEF OneAttempt, Heard, AtMostOne
  <2>5. LinksAnnounced'
    BY <2>1, SetupKept, PageKept DEF LinksAnnounced, Announced
  <2> QED BY <2>4, <2>5
<1>3. CASE CtlCreateConnection
  <2>1. UNCHANGED <<naming, link>> /\ Submit("CreateConnection")
    BY <1>3 DEF CtlCreateConnection
  <2>2. 1 \in Sent(AttemptPackets)
    BY <2>1, PacketTaken DEF Sent, AttemptPackets
  <2>3. Sent(AttemptPackets)' = {}
    BY <2>1, SentTaken DEF OneAttempt, AttemptPackets
  <2>4. naming = {} /\ paging = NoDevice /\ Heard(AttemptEvents) = {}
    BY <2>2 DEF OneAttempt
  <2>5. CASE UNCHANGED rx
    BY <2>1, <2>3, <2>4, <2>5, SetupKept, PageKept DEF OneAttempt, Heard, AtMostOne,
          LinksAnnounced, Announced
  <2>6. CASE rx' = Append(rx, DeviceEvent("ConnectRefused", FALSE, Head(tx).dev)) /\ UNCHANGED paging
    <3>1. DeviceEvent("ConnectRefused", FALSE, Head(tx).dev).ev = "ConnectRefused"
      BY DEF DeviceEvent
    <3>2. PICK e : rx' = Append(rx, e) /\ e.ev = "ConnectRefused"
      BY <2>6, <3>1, Zenon
    <3>3. AtMostOne(Heard(AttemptEvents)')
      BY <2>4, <3>2, HeardAdded DEF AtMostOne
    <3>4. OneAttempt'
      BY <2>1, <2>3, <2>4, <2>6, <3>3 DEF OneAttempt, AtMostOne
    <3>5. LinksAnnounced'
      BY <2>1, <3>2, SetupKept, PageKept DEF LinksAnnounced, Announced
    <3> QED BY <3>4, <3>5
  <2> QED BY <1>3, <2>5, <2>6 DEF CtlCreateConnection
<1> QED BY <1>1, <1>2, <1>3

\* The radio answers the attempt with an event.
LEMMA AttemptAnswered ==
    ASSUME CalmPairing, SessionType(Wiimotes), OneAttempt, LinksAnnounced, NameResolves \/ PageEnds
    PROVE  /\ OneAttempt' /\ LinksAnnounced'
           /\ HearsOnly(AttemptEvents) => HearsOnly(AttemptEvents)'
<1> USE DEF SessionType, QueueTypes
<1>1. ASSUME NEW e, rx' = Append(rx, e), e.ev \in AttemptEvents
      PROVE  /\ Heard(AttemptEvents) = {} => AtMostOne(Heard(AttemptEvents)')
             /\ HearsOnly(AttemptEvents) => HearsOnly(AttemptEvents)'
  <2>1. Heard(AttemptEvents)' = Heard(AttemptEvents) \cup {Len(rx) + 1}
    BY <1>1, HeardAdded
  <2> QED BY <1>1, <2>1, EventAdded DEF AtMostOne, HearsOnly, Failed
<1>2. CASE NameResolves
  <2>1. PICK d \in naming, ok \in BOOLEAN :
          naming' = naming \ {d} /\ rx' = Append(rx, DeviceEvent("RemoteName", ok, d))
    BY <1>2 DEF NameResolves
  <2>2. UNCHANGED <<tx, paging, link>> /\ DeviceEvent("RemoteName", ok, d).ev = "RemoteName"
    BY <1>2 DEF NameResolves, DeviceEvent
  <2>3. naming' = {} /\ naming # {}
    BY <2>1 DEF CalmPairing, DeviceTypes
  <2>4. PICK e : rx' = Append(rx, e) /\ e.ev = "RemoteName"
    BY <2>1, <2>2, Zenon
  <2>5. Sent(AttemptPackets) = {} /\ paging = NoDevice /\ Heard(AttemptEvents) = {}
    BY <2>3 DEF OneAttempt
  <2>6. OneAttempt'
    BY <1>1, <2>2, <2>3, <2>4, <2>5 DEF OneAttempt, AttemptEvents, Sent, AtMostOne
  <2>7. LinksAnnounced'
    BY <2>2, <2>4, SetupKept, PageKept DEF LinksAnnounced, Announced
  <2> QED BY <1>1, <2>4, <2>6, <2>7 DEF AttemptEvents
<1>3. CASE PageEnds
  <2>1. UNCHANGED <<tx, naming>> /\ paging # NoDevice /\ paging' = NoDevice
    BY <1>3 DEF PageEnds
  <2>2. Sent(AttemptPackets) = {} /\ naming = {} /\ Heard(AttemptEvents) = {}
    BY <2>1 DEF OneAttempt
  <2>3. ASSUME NEW e, rx' = Append(rx, e), e.ev = "ConnectionComplete"
        PROVE  OneAttempt' /\ (HearsOnly(AttemptEvents) => HearsOnly(AttemptEvents)')
    <3>1. e.ev \in AttemptEvents
      BY <2>3 DEF AttemptEvents, PageEvents
    <3>2. AtMostOne(Heard(AttemptEvents)') /\ (HearsOnly(AttemptEvents) => HearsOnly(AttemptEvents)')
      BY <1>1, <2>2, <2>3, <3>1
    <3>3. Sent(AttemptPackets)' = {}
      BY <2>1, <2>2 DEF Sent
    <3> QED BY <2>1, <2>2, <3>2, <3>3 DEF OneAttempt, AtMostOne
  <2>4. ASSUME NEW h \in Handles, link' = [link EXCEPT ![h] = paging], rx' = Append(rx, Paged(paging, h))
        PROVE  /\ OneAttempt' /\ LinksAnnounced'
               /\ HearsOnly(AttemptEvents) => HearsOnly(AttemptEvents)'
    <3>1. Paged(paging, h).ev = "ConnectionComplete"
      BY DEF Paged
    <3>2. LinksAnnounced'
      BY <2>1, <2>4, SetupKept, PageAnnounced DEF LinksAnnounced, Announced, LinkTypes
    <3> QED BY <2>3, <2>4, <3>1, <3>2, Zenon
  <2>5. CASE rx' = Append(rx, DeviceEvent("ConnectionComplete", FALSE, paging)) /\ UNCHANGED link
    <3>1. /\ DeviceEvent("ConnectionComplete", FALSE, paging).ev = "ConnectionComplete"
          /\ ~DeviceEvent("ConnectionComplete", FALSE, paging).ok
      BY DEF DeviceEvent
    <3>2. LinksAnnounced'
      BY <2>1, <2>5, <3>1, SetupKept, PageKept DEF LinksAnnounced, Announced
    <3> QED BY <2>3, <2>5, <3>1, <3>2, Zenon
  <2> QED BY <1>3, <2>4, <2>5 DEF PageEnds
<1> QED BY <1>2, <1>3

\* A connection request announces its link, and no other.
LEMMA SetupAnnounced ==
    ASSUME tx \in Seq(HostPacket(Wiimotes)), NEW g, tx' = Append(tx, LinkCmd("L2capConnectionRequest", g))
    PROVE  \A h : SetupSent(h)' <=> SetupSent(h) \/ h = g
<1>1. /\ LinkCmd("L2capConnectionRequest", g).op = "L2capConnectionRequest"
      /\ LinkCmd("L2capConnectionRequest", g).handle = g
  BY DEF LinkCmd
<1> QED BY <1>1, PacketAdded DEF SetupSent

\* A Wiimote whose channel is about to be asked for is in a session of its own.
LEMMA SetupStartsSession ==
    ASSUME NEW h \in Handles,
           (inited \/ btReset)', NoSession', ~pendingFast', ~inquiring', naming' = {}, paging' = NoDevice,
           HearsOnly({})', SendsOnly({"InquiryCancel", "L2capConnectionRequest"})',
           AtMostOne(Sent(AttemptPackets))', SetupSent(h)',
           \A g \in Handles : link'[g] # NoDevice <=> SetupSent(g)'
    PROVE  SessionAt(h)'
<1>1. PICK k \in DOMAIN tx' : tx'[k].op = "L2capConnectionRequest" /\ tx'[k].handle = h
  BY DEF SetupSent
<1>2. \A i \in DOMAIN tx' : i = k \/ tx'[i].op = "InquiryCancel"
  BY <1>1 DEF AtMostOne, Sent, AttemptPackets, SendsOnly
<1>3. /\ SendsOnly(IdlePackets)' /\ \A i \in Sent(LinkPackets)' : tx'[i].handle = h
      /\ AtMostOne(Sent({"L2capConnectionRequest"}))'
      /\ Sent({"L2capConfigurationRequest", "L2capConfigurationResponse"})' = {}
  BY <1>1, <1>2 DEF SendsOnly, IdlePackets, Sent, LinkPackets, AclPackets, AtMostOne
<1>4. HearsOnly(LinkEvents)' /\ \A evs \in SUBSET LinkEvents : Heard(evs)' = {}
  BY DEF HearsOnly, Heard, Failed, LinkEvents
<1>5. /\ Heard(LinkEvents)' = {} /\ Heard({"L2capConnectionResponse"})' = {}
      /\ Heard({"InputReport"})' = {} /\ Heard({"DisconnectionComplete"})' = {}
  BY <1>4 DEF LinkEvents
<1>6. \A g : SetupSent(g)' => g = h
  BY <1>1, <1>2 DEF SetupSent
<1>7. table' = <<>> /\ ~connected' /\ \A g \in Handles : chan'[g] = {}
  BY DEF NoSession
<1>8. link'[h] # NoDevice /\ \A g \in Handles \ {h} : link'[g] = NoDevice
  BY <1>6
<1> QED BY <1>3, <1>4, <1>5, <1>7, <1>8 DEF SessionAt, PacketsOf, EventsOf, SetUpOnce,
      LossIsLast, AtMostOne

----------------------------------------------------------------------------
(* Each phase under every step.                                            *)

\* The first thing to happen is the reset of the Bluetooth task.
LEMMA OffStep ==
    ASSUME CalmPairing, SessionType(Wiimotes), Off, Next
    PROVE  Off' \/ Starting'
<1> USE DEF SessionType, QueueTypes
<1>1. CASE BtTaskResets
  <2>1. tx' = <<Cmd("Reset")>>
    BY <1>1 DEF BtTaskResets, ResetDevice, Off
  <2>2. 1 \in Sent(InitCommands \cup {"Inquiry", "CreateConnection"})' /\ DOMAIN tx' = {1}
    BY <2>1 DEF Sent, InitCommands, Cmd
  <2>3. Between(IdlePackets, 1, {"InquiryCancel"})'
    BY <2>2 DEF Between
  <2>4. HearsOnly({})' /\ NoSession' /\ RadioQuiet' /\ scanned' = {} /\ ~pendingFast' /\ btReset'
    BY <1>1 DEF BtTaskResets, ResetDevice, Off, HearsOnly, NoSession, RadioQuiet, radioVars
  <2> QED BY <2>2, <2>3, <2>4 DEF Starting
<1>2. CASE SketchStep \/ BtTaskMarksInited \/ CacheAges
  BY <1>2, HostMay DEF Off, NoSession, RadioQuiet
<1>3. ~HandleEvent
  BY DEF Off, Receive, HandleEvent, InitStepComplete, WriteScanEnableComplete, CommandFailed,
        InquiryComplete,
       InquiryResult, RemoteNameComplete, ConnectionComplete, ConnectionFailed,
       DisconnectionComplete, L2capConnectionResponse, L2capConfigurationRequest, InputReport
<1>4. ~ControllerStep
  BY ControllerMay DEF Off, Submit
<1>5. ~RadioStep
  BY QuietRadio DEF Off
<1> QED BY <1>1, <1>2, <1>3, <1>4, <1>5 DEF Next

\* While the host starts, the controller answers the one command that counts.
LEMMA StartingStep ==
    ASSUME CalmPairing, SessionType(Wiimotes), Starting, Next
    PROVE  Starting' \/ Answered' \/ Discovering'
<1> USE DEF SessionType, QueueTypes
<1> DEFINE Token == InitCommands \cup {"Inquiry", "CreateConnection"}
           Waits(k) == Between(IdlePackets, k, {"InquiryCancel"})
                       /\ (pendingFast => tx[k].op = "CreateConnection")
<1>1. (inited \/ btReset)' /\ ~BtTaskResets
  BY StartedStep DEF Starting
<1>2. CASE SketchStep \/ BtTaskMarksInited \/ CacheAges
  <2>1. /\ NoSession' /\ RadioQuiet' /\ scanned' = {} /\ HearsOnly({})'
        /\ pendingFast' => pendingFast
    BY <1>2, HostMay DEF Starting, NoSession, RadioQuiet, HearsOnly, Failed
  <2>2. tx' = tx \/ tx' = Append(tx, Cmd("InquiryCancel"))
    BY <1>2, HostMay DEF Starting, NoSession
  <2>3. CASE tx' = tx
    BY <1>1, <2>1, <2>3 DEF Starting, Sent, Between, SendsOnly
  <2>4. CASE tx' = Append(tx, Cmd("InquiryCancel"))
    <3>1. CASE SendsOnly(IdlePackets) /\ ~pendingFast
      <4>1. SendsOnly(IdlePackets)'
        BY <2>4, <3>1, PacketAdded DEF SendsOnly, Cmd, IdlePackets
      <4> QED BY <1>1, <2>1, <3>1, <4>1 DEF Starting
    <3>2. CASE \E k \in Sent(Token) : Waits(k)
      <4>1. PICK k \in Sent(Token) : Waits(k)
        BY <3>2
      <4>2. k \in Sent(Token)' /\ Waits(k)'
        BY <2>1, <2>4, <4>1, PacketAdded DEF Between, Cmd, Sent
      <4> QED BY <1>1, <2>1, <4>2 DEF Starting
    <3> QED BY <3>1, <3>2 DEF Starting
  <2> QED BY <2>2, <2>3, <2>4
<1>3. CASE HandleEvent
  <2>1. rx # <<>> => Failed(1)
    BY EmptyOrFirst DEF Starting, HearsOnly
  <2>2. CommandFailed
    BY <1>3, <2>1, HandlersRead DEF HandleEvent, Failed, PageEvents
  <2>3. HearsOnly({})'
    BY <2>2, EventTaken DEF CommandFailed, Starting, HearsOnly, Failed
  <2> QED BY <1>1, <2>2, <2>3 DEF CommandFailed, Starting, NoSession, RadioQuiet, Sent, Between,
        SendsOnly, ctxVars, sessionVars, radioVars
<1>4. CASE ControllerStep
  <2>1. PICK op \in HciCommands \cup AclPackets : Submit(op)
    BY <1>4, ControllerMay
  <2>2. UNCHANGED <<ctxVars, sessionVars>>
    BY <1>4, ControllerMay
  <2>3. NoSession' <=> \A h \in Handles : chan'[h] = {}
    BY <2>2 DEF Starting, NoSession, sessionVars
  <2>4. CASE SendsOnly(IdlePackets) /\ ~pendingFast
    <3>1. tx[1].op \in IdlePackets
      BY <2>1, <2>4, PacketTaken DEF SendsOnly
    <3>2. UNCHANGED <<rx, radioVars>>
      BY <1>4, <3>1, QuietRadio DEF Starting
    <3>3. SendsOnly(IdlePackets)'
      BY <2>1, <2>4, PacketTaken DEF SendsOnly
    <3> QED BY <1>1, <2>2, <2>4, <3>2, <3>3 DEF Starting, NoSession, RadioQuiet, HearsOnly, Failed,
          ctxVars, sessionVars, radioVars
  <2>5. ASSUME NEW k \in Sent(Token), Waits(k), k # 1
        PROVE  Starting'
    <3>1. tx[1].op \in IdlePackets
      BY <2>1, <2>5, PacketTaken DEF Between, Sent
    <3>2. UNCHANGED <<rx, radioVars>>
      BY <1>4, <3>1, QuietRadio DEF Starting
    <3>3. k - 1 \in Sent(Token)' /\ Waits(k - 1)'
      BY <2>1, <2>2, <2>5, PacketTaken DEF Between, Sent, ctxVars
    <3> QED BY <1>1, <2>2, <3>2, <3>3 DEF Starting, NoSession, RadioQuiet, HearsOnly, Failed,
          ctxVars, sessionVars, radioVars
  <2>6. ASSUME 1 \in Sent(Token), Waits(1)
        PROVE  Starting' \/ Answered' \/ Discovering'
    <3>1. tx[1].op \in Token /\ SendsOnly({"InquiryCancel"})'
      BY <2>1, <2>6, PacketTaken DEF Between, Sent, SendsOnly
    <3>2. \A op1 : Submit(op1) => op1 = tx[1].op
      BY DEF Submit
    <3>3. CASE tx[1].op \in InitCommands
      <4>1. CtlReset \/ CtlSetup
        BY <1>4, <3>2, <3>3 DEF ControllerStep, InitCommands, CtlInquiry, CtlInquiryCancel,
              CtlRemoteNameRequest,
           CtlCreateConnection, CtlDisconnect, WiimoteAcceptsChannel, WiimoteTakesPacket
      <4>2. RadioQuiet' /\ NoSession'
        BY <2>3, <4>1 DEF CtlReset, CtlSetup, Starting, RadioQuiet, NoSession, radioVars
      <4>3. PICK op1 \in HciCommands, ok \in BOOLEAN : rx' = Append(rx, Completed(op1, ok))
        BY <4>1 DEF CtlReset, CtlSetup, Status, HciCommands
      <4>4. ~pendingFast' /\ scanned' = {}
        BY <2>2, <2>6, <3>3 DEF Starting, InitCommands, ctxVars
      <4>5. CASE ok
        <5>1. /\ rx' # <<>> /\ rx'[Len(rx')].ev = "CommandComplete"
              /\ \A i \in DOMAIN rx' : i < Len(rx') => Failed(i)'
          BY <4>3, EventAdded DEF Starting, HearsOnly, Failed, Completed
        <5> QED BY <1>1, <3>1, <4>2, <4>4, <5>1 DEF Answered, SendsOnly, IdlePackets
      <4>6. CASE ~ok
        <5>1. HearsOnly({})'
          BY <4>3, <4>6, EventAdded DEF Starting, HearsOnly, Failed, Completed
        <5> QED BY <1>1, <3>1, <4>2, <4>4, <5>1 DEF Starting, SendsOnly, IdlePackets
      <4> QED BY <4>5, <4>6
    <3>4. CASE tx[1].op = "Inquiry"
      <4>1. CtlInquiry
        BY <1>4, <3>2, <3>4 DEF ControllerStep, CtlReset, CtlSetup, CtlInquiryCancel,
              CtlRemoteNameRequest,
           CtlCreateConnection, CtlDisconnect, WiimoteAcceptsChannel, WiimoteTakesPacket
      <4>2. /\ NoSession' /\ HearsOnly({})' /\ ~pendingFast'
            /\ naming' = {} /\ paging' = NoDevice /\ \A h \in Handles : link'[h] = NoDevice
        BY <2>2, <2>3, <2>6, <3>4, <4>1 DEF CtlInquiry, Starting, RadioQuiet, NoSession, HearsOnly,
           Failed, ctxVars
      <4> HIDE DEF Token, Waits
      <4> QED BY <1>1, <3>1, <4>2 DEF Discovering, FastAlone, SendsOnly, HearsOnly, OneAttempt,
            LinksAnnounced,
            ResultsAreKnown, InquiryBeforePage, EventsInOrder, Announced, SetupSent, PageHeard,
            Attempting, Sent, Heard, AtMostOne, Failed,
            AttemptPackets, AttemptEvents, PageEvents, DevicePackets, InquiryEvents
    <3>5. CASE tx[1].op = "CreateConnection"
      <4>1. CtlCreateConnection
        BY <1>4, <3>2, <3>5 DEF ControllerStep, CtlReset, CtlSetup, CtlInquiry, CtlInquiryCancel,
              CtlRemoteNameRequest,
           CtlDisconnect, WiimoteAcceptsChannel, WiimoteTakesPacket
      <4>2. /\ NoSession' /\ ~inquiring' /\ naming' = {} /\ \A h \in Handles : link'[h] = NoDevice
        BY <2>2, <2>3, <4>1 DEF CtlCreateConnection, Starting, RadioQuiet, NoSession
      <4>3. CASE rx' = rx
        <5>1. HearsOnly({})'
          BY <4>3 DEF Starting, HearsOnly, Failed
        <5>2. paging' # NoDevice
          <6>1. tx[1] \in HostPacket(Wiimotes) /\ Head(tx) = tx[1]
            BY <3>5, <4>1, PacketTaken DEF CtlCreateConnection
          <6>2. Head(tx).dev # NoDevice
            BY <3>5, <6>1, Constants DEF HostPacket, HciCommands, DevicePackets, LinkPackets, AclPackets
          <6>3. \A e : rx' # Append(rx, e)
            BY <4>3, EventAdded
          <6> QED BY <4>1, <6>2, <6>3 DEF CtlCreateConnection
        <5> QED BY <1>1, <3>1, <4>2, <5>1, <5>2 DEF Discovering, FastAlone, SendsOnly, HearsOnly,
              OneAttempt, LinksAnnounced,
            ResultsAreKnown, InquiryBeforePage, EventsInOrder, Announced, SetupSent, PageHeard,
            Attempting, Sent, Heard, AtMostOne, Failed,
            AttemptPackets, AttemptEvents, PageEvents, DevicePackets, InquiryEvents
      <4>4. CASE rx' = Append(rx, DeviceEvent("ConnectRefused", FALSE, Head(tx).dev)) /\ UNCHANGED paging
        <5>1. /\ \A i \in DOMAIN rx' : Failed(i)' \/ i = Len(rx) + 1
              /\ rx'[Len(rx) + 1].ev = "ConnectRefused"
          BY <4>4, EventAdded DEF Starting, HearsOnly, Failed, DeviceEvent
        <5>2. paging' = NoDevice /\ Heard(PageEvents)' # {}
          BY <4>4, <5>1, EventAdded DEF Starting, RadioQuiet, Heard, PageEvents
        <5> QED BY <1>1, <3>1, <4>2, <5>1, <5>2 DEF Discovering, FastAlone, SendsOnly, HearsOnly,
              OneAttempt, LinksAnnounced,
            ResultsAreKnown, InquiryBeforePage, EventsInOrder, Announced, SetupSent, PageHeard,
            Attempting, Sent, Heard, AtMostOne, Failed,
            AttemptPackets, AttemptEvents, PageEvents, DevicePackets, InquiryEvents
      <4> QED BY <4>1, <4>3, <4>4 DEF CtlCreateConnection
    <3> QED BY <3>1, <3>3, <3>4, <3>5
  <2> QED BY <2>4, <2>5, <2>6 DEF Starting
<1>5. ~RadioStep
  BY QuietRadio DEF Starting
<1> QED BY <1>1, <1>2, <1>3, <1>4, <1>5 DEF Next

\* A completed command brings the next one of the chain, or its end.
LEMMA AnsweredStep ==
    ASSUME CalmPairing, SessionType(Wiimotes), Answered, Next
    PROVE  Answered' \/ Starting'
<1> USE DEF SessionType, QueueTypes
<1>1. (inited \/ btReset)' /\ ~BtTaskResets
  BY StartedStep DEF Answered
<1>2. CASE SketchStep \/ BtTaskMarksInited \/ CacheAges
  <2>1. tx' = tx \/ tx' = Append(tx, Cmd("InquiryCancel"))
    BY <1>2, HostMay DEF Answered, NoSession
  <2>2. SendsOnly(IdlePackets)'
    BY <2>1, PacketAdded DEF Answered, SendsOnly, Cmd, IdlePackets
  <2> QED BY <1>1, <1>2, <2>2, HostMay DEF Answered, NoSession, RadioQuiet, Failed
<1>3. CASE HandleEvent
  <2>1. 1 \in DOMAIN rx /\ Len(rx) \in Nat \ {0} /\ DOMAIN rx = 1..Len(rx)
    BY DEF Answered
  <2>2. CASE Len(rx) = 1
    <3>1. CommandFailed \/ InitStepComplete \/ WriteScanEnableComplete
      BY <1>3, <2>2, HandlersRead DEF HandleEvent, Answered, PageEvents
    <3>2. Receive("CommandComplete")
      BY <3>1, Zenon DEF CommandFailed, InitStepComplete, WriteScanEnableComplete
    <3>3. rx' = <<>> /\ HearsOnly({})'
      BY <2>2, <3>2 DEF Receive, HearsOnly
    <3>4. NoSession' /\ RadioQuiet' /\ scanned' = {}
      BY <3>1 DEF CommandFailed, InitStepComplete, WriteScanEnableComplete, StartInquiry,
           StartCreateConnection, Answered, NoSession, RadioQuiet, ctxVars, sessionVars, radioVars
    <3>5. CASE tx' = tx /\ pendingFast' = pendingFast
      BY <1>1, <3>3, <3>4, <3>5 DEF Answered, Starting, SendsOnly
    <3>6. ASSUME NEW p, tx' = Append(tx, p), p.op \in InitCommands \cup {"Inquiry", "CreateConnection"},
                 pendingFast' => p.op = "CreateConnection"
          PROVE  Starting'
      BY <1>1, <3>3, <3>4, <3>6, SearchStarts DEF Answered
    <3>7. CASE CommandFailed
      BY <3>5, <3>7 DEF CommandFailed, ctxVars
    <3>8. CASE InitStepComplete
      <4>1. NextInitCommand[Head(rx).op] \in InitCommands
        BY <3>8 DEF InitStepComplete, NextInitCommand, InitCommands
      <4>2. ~pendingFast'
        BY <3>8 DEF InitStepComplete, Answered
      <4> QED BY <3>6, <3>8, <4>1, <4>2 DEF InitStepComplete, Cmd
    <3>9. CASE WriteScanEnableComplete
      <4>1. \/ tx' = tx /\ pendingFast' = pendingFast
            \/ tx' = Append(tx, Cmd("Inquiry")) /\ pendingFast' = pendingFast
            \/ tx' = (tx \o <<>>) \o <<DeviceCmd("CreateConnection", last)>>
        BY <3>9 DEF WriteScanEnableComplete, StartInquiry, StartCreateConnection
      <4>2. (tx \o <<>>) \o <<DeviceCmd("CreateConnection", last)>>
              = Append(tx, DeviceCmd("CreateConnection", last))
        OBVIOUS
      <4>3. Cmd("Inquiry").op = "Inquiry" /\ DeviceCmd("CreateConnection", last).op = "CreateConnection"
        BY DEF Cmd, DeviceCmd
      <4>4. ~pendingFast
        BY DEF Answered
      <4> QED BY <3>5, <3>6, <4>1, <4>2, <4>3, <4>4
    <3> QED BY <3>1, <3>7, <3>8, <3>9
  <2>3. CASE Len(rx) > 1
    <3>1. rx[1].ev \in AttemptEvents \/ Failed(1)
      BY <2>1, <2>3 DEF Answered
    <3>2. CommandFailed \/ RemoteNameComplete \/ ConnectionComplete \/ ConnectionFailed
      BY <1>3, <3>1, HandlersRead DEF HandleEvent, AttemptEvents, PageEvents, Failed
    <3>3. PICK ev : Receive(ev)
      BY <3>2 DEF CommandFailed, RemoteNameComplete, ConnectionComplete, ConnectionFailed
    <3>4. /\ rx' # <<>> /\ rx'[Len(rx')].ev = "CommandComplete"
          /\ \A i \in DOMAIN rx' : i < Len(rx') => rx'[i].ev \in AttemptEvents \/ Failed(i)'
      <4>1. /\ Len(rx') = Len(rx) - 1 /\ DOMAIN rx' = 1..(Len(rx) - 1)
            /\ \A i \in 1..(Len(rx) - 1) : rx'[i] = rx[i + 1]
        BY <3>3, EventTaken
      <4>2. rx'[Len(rx')] = rx[Len(rx)] /\ rx' # <<>>
        BY <2>1, <2>3, <4>1
      <4>3. \A i \in DOMAIN rx : i < Len(rx) => rx[i].ev \in AttemptEvents \/ Failed(i)
        BY DEF Answered
      <4>4. \A i \in DOMAIN rx' : i < Len(rx') => rx'[i].ev \in AttemptEvents \/ Failed(i)'
        <5> SUFFICES ASSUME NEW i \in DOMAIN rx', i < Len(rx')
                     PROVE  rx'[i].ev \in AttemptEvents \/ Failed(i)'
          OBVIOUS
        <5>1. i + 1 \in DOMAIN rx /\ i + 1 < Len(rx) /\ rx'[i] = rx[i + 1]
          BY <2>1, <4>1
        <5> QED BY <4>3, <5>1 DEF Failed
      <4> QED BY <4>2, <4>4 DEF Answered
    <3>5. /\ NoSession' /\ RadioQuiet' /\ scanned' = {} /\ ~pendingFast'
          /\ tx' = tx \/ \E h : tx' = Append(tx, LinkCmd("L2capConnectionRequest", h))
      BY <3>2 DEF CommandFailed, RemoteNameComplete, ConnectionComplete, ConnectionFailed,
            FallBackToInquiry,
           Answered, NoSession, RadioQuiet, ctxVars, sessionVars, radioVars
    <3>6. SendsOnly(IdlePackets)'
      <4>1. \A h : LinkCmd("L2capConnectionRequest", h).op \in IdlePackets
        BY DEF LinkCmd, IdlePackets, LinkPackets, AclPackets
      <4> QED BY <3>5, <4>1, PacketAdded DEF Answered, SendsOnly
    <3> QED BY <1>1, <3>4, <3>5, <3>6 DEF Answered
  <2> QED BY <2>1, <2>2, <2>3
<1>4. CASE ControllerStep
  <2>1. PICK op \in HciCommands \cup AclPackets : Submit(op)
    BY <1>4, ControllerMay
  <2>2. tx[1].op \in IdlePackets
    BY <2>1, PacketTaken DEF Answered, SendsOnly
  <2>3. UNCHANGED <<rx, radioVars, ctxVars, sessionVars>>
    BY <1>4, <2>2, QuietRadio, ControllerMay DEF Answered
  <2>4. SendsOnly(IdlePackets)'
    BY <2>1, PacketTaken DEF Answered, SendsOnly
  <2> QED BY <1>1, <2>3, <2>4 DEF Answered, NoSession, RadioQuiet, Failed, ctxVars, sessionVars,
        radioVars
<1>5. ~RadioStep
  BY QuietRadio DEF Answered
<1> QED BY <1>1, <1>2, <1>3, <1>4, <1>5 DEF Next

\* Forgotten commands, rejected results and cancelled inquiries leave the discovery as it is.
LEMMA DiscoveringKept ==
    ASSUME SessionType(Wiimotes), Discovering, (inited \/ btReset)', pendingFast' => pendingFast,
           UNCHANGED <<connected, table, paging, naming, link, chan>>, scanned \subseteq scanned',
           \/ UNCHANGED <<tx, inquiring>>
           \/ UNCHANGED inquiring /\ \E p : tx' = Append(tx, p) /\ p.op = "InquiryCancel"
           \/ Submit("InquiryCancel") /\ ~inquiring',
           rx' = rx \/ \E ev : /\ Receive(ev) /\ (ev # "ConnectionComplete" \/ ~rx[1].ok)
                               /\ (pendingFast' => ev \notin PageEvents)
    PROVE  Discovering'
<1> USE DEF SessionType, QueueTypes
<1>1. /\ NoSession /\ OneAttempt /\ LinksAnnounced /\ ResultsAreKnown
      /\ InquiryBeforePage /\ EventsInOrder /\ FastAlone
      /\ SendsOnly(DevicePackets \cup {"InquiryCancel"}) /\ HearsOnly(AttemptEvents \cup InquiryEvents)
  BY DEF Discovering
<1>2. /\ Sent(AttemptPackets) = {} => Sent(AttemptPackets)' = {}
      /\ AtMostOne(Sent(AttemptPackets))'
      /\ \A ops : "InquiryCancel" \in ops /\ SendsOnly(ops) => SendsOnly(ops)'
      /\ \A h : SetupSent(h)' <=> SetupSent(h)
      /\ inquiring' => inquiring
  <2>1. CASE tx' = tx
    BY <1>1, <2>1 DEF OneAttempt, Sent, AtMostOne, SendsOnly, SetupSent
  <2>2. ASSUME NEW p, tx' = Append(tx, p), p.op = "InquiryCancel"
        PROVE  /\ Sent(AttemptPackets)' = Sent(AttemptPackets)
               /\ \A ops : "InquiryCancel" \in ops /\ SendsOnly(ops) => SendsOnly(ops)'
               /\ \A h : SetupSent(h)' <=> SetupSent(h)
    BY <2>2, SentAdded, SetupKept, PacketAdded DEF AttemptPackets, SendsOnly
  <2>3. ASSUME Submit("InquiryCancel")
        PROVE  /\ Sent(AttemptPackets) = {} => Sent(AttemptPackets)' = {}
               /\ AtMostOne(Sent(AttemptPackets))'
               /\ \A ops : SendsOnly(ops) => SendsOnly(ops)'
               /\ \A h : SetupSent(h)' <=> SetupSent(h)
    BY <1>1, <2>3, SentTaken, SetupKept, PacketTaken DEF OneAttempt, SendsOnly
  <2> QED BY <1>1, <2>1, <2>2, <2>3 DEF OneAttempt, AtMostOne
<1>3. /\ \A evs : Heard(evs) = {} => Heard(evs)' = {}
      /\ AtMostOne(Heard(AttemptEvents))'
      /\ \A evs : HearsOnly(evs) => HearsOnly(evs)'
      /\ \A h : PageHeard(h)' <=> PageHeard(h)
      /\ EventsInOrder'
  <2>1. CASE rx' = rx
    BY <1>1, <2>1 DEF OneAttempt, Heard, HearsOnly, Failed, AtMostOne, PageHeard, EventsInOrder
  <2>2. ASSUME NEW ev, Receive(ev), ev # "ConnectionComplete" \/ ~rx[1].ok
        PROVE  /\ \A evs : Heard(evs) = {} => Heard(evs)' = {}
               /\ AtMostOne(Heard(AttemptEvents))'
               /\ \A evs : HearsOnly(evs) => HearsOnly(evs)'
               /\ \A h : PageHeard(h)' <=> PageHeard(h)
               /\ EventsInOrder'
    <3>1. /\ \A evs : Heard(evs) = {} => Heard(evs)' = {}
          /\ AtMostOne(Heard(AttemptEvents))'
      BY <1>1, <2>2, HeardTaken DEF OneAttempt
    <3>2. \A evs : HearsOnly(evs) => HearsOnly(evs)'
      BY <2>2, EventTaken DEF HearsOnly, Failed
    <3> QED BY <1>1, <2>2, <3>1, <3>2, PageKept, OrderKept
  <2>3. rx' = rx \/ \E ev : Receive(ev) /\ (ev # "ConnectionComplete" \/ ~rx[1].ok)
    OBVIOUS
  <2> QED BY <2>1, <2>2, <2>3
<1>4. NoSession'
  BY <1>1 DEF NoSession
<1>5. OneAttempt'
  BY <1>1, <1>2, <1>3 DEF OneAttempt
<1>6. LinksAnnounced'
  BY <1>1, <1>2, <1>3 DEF LinksAnnounced, Announced
<1>7. ResultsAreKnown'
  BY <1>1, <1>2, <1>3 DEF ResultsAreKnown, Attempting
<1>8. InquiryBeforePage'
  <2>1. ASSUME inquiring', NEW i \in Sent({"CreateConnection"})'
        PROVE  \E j \in Sent({"InquiryCancel"})' : j < i
    <3>1. CASE tx' = tx
      BY <1>1, <1>2, <2>1, <3>1 DEF InquiryBeforePage, Sent
    <3>2. ASSUME NEW p, tx' = Append(tx, p), p.op = "InquiryCancel"
          PROVE  \E j \in Sent({"InquiryCancel"})' : j < i
      BY <1>1, <1>2, <2>1, <3>2, SentAdded DEF InquiryBeforePage
    <3> QED BY <2>1, <3>1, <3>2
  <2> QED BY <1>1, <1>2, <1>3, <2>1 DEF InquiryBeforePage
<1>9. FastAlone'
  <2>1. ASSUME pendingFast', Heard(PageEvents) # {}
        PROVE  Heard(PageEvents)' # {}
    <3>1. CASE rx' = rx
      BY <2>1, <3>1 DEF Heard
    <3>2. ASSUME NEW ev, Receive(ev), ev \notin PageEvents
          PROVE  Heard(PageEvents)' # {}
      BY <2>1, <3>2, HeardStays
    <3>3. rx' = rx \/ \E ev : Receive(ev) /\ ev \notin PageEvents
      BY <2>1
    <3> QED BY <3>1, <3>2, <3>3
  <2> QED BY <1>1, <1>2, <1>3, <2>1 DEF FastAlone
<1> QED BY <1>1, <1>2, <1>3, <1>4, <1>5, <1>6, <1>7, <1>8, <1>9 DEF Discovering

\* An inquiry finds the Wiimote, its name is asked, it is paged: one attempt, until
\* it is linked, or fails, or the inquiry ends and the controller is reset.
LEMMA DiscoveringStep ==
    ASSUME CalmPairing, SessionType(Wiimotes), Discovering, Next
    PROVE  Discovering' \/ Restarting' \/ Starting' \/ \E h \in Handles : SessionAt(h)'
<1> USE DEF SessionType, QueueTypes
<1> DEFINE Sends == DevicePackets \cup {"InquiryCancel"}
           Hears == AttemptEvents \cup InquiryEvents
<1>1. (inited \/ btReset)' /\ ~BtTaskResets
  BY StartedStep DEF Discovering
<1>2. /\ NoSession /\ OneAttempt /\ LinksAnnounced /\ ResultsAreKnown
      /\ InquiryBeforePage /\ EventsInOrder /\ FastAlone
      /\ SendsOnly(Sends) /\ HearsOnly(Hears)
  BY DEF Discovering
<1>3. CASE SketchStep \/ BtTaskMarksInited \/ CacheAges
  <2>1. /\ UNCHANGED <<scanned, connected, table, rx, inquiring, paging, naming, link, chan>>
        /\ pendingFast' => pendingFast
        /\ tx' = tx \/ tx' = Append(tx, Cmd("InquiryCancel"))
    BY <1>2, <1>3, HostMay DEF NoSession
  <2>2. Cmd("InquiryCancel").op = "InquiryCancel"
    BY DEF Cmd
  <2> QED BY <1>1, <2>1, <2>2, DiscoveringKept
<1>4. CASE CommandFailed
  BY <1>1, <1>4, DiscoveringKept DEF CommandFailed, ctxVars, sessionVars, radioVars, PageEvents
<1>5. CASE InquiryResult
  <2>1. /\ UNCHANGED <<pendingFast, connected, table, inquiring, paging, naming, link, chan>>
        /\ Receive("InquiryResult")
    BY <1>5 DEF InquiryResult, sessionVars, radioVars
  <2>2. 1 \in Heard({"InquiryResult"}) /\ ~pendingFast
    <3>1. 1 \in DOMAIN rx /\ rx[1].ev = "InquiryResult"
      BY <2>1, EventTaken
    <3> QED BY <1>2, <3>1 DEF FastAlone, HearsOnly, Failed, PageEvents, Heard
  <2>3. CASE UNCHANGED tx /\ scanned \subseteq scanned'
    BY <1>1, <2>1, <2>3, DiscoveringKept DEF PageEvents
  <2>4. ASSUME NEW d \in Wiimotes, d \notin scanned, scanned' = scanned \cup {d},
               tx' = Append(tx, DeviceCmd("RemoteNameRequest", d))
        PROVE  Discovering'
    <3>1. ~Attempting
      BY <1>2, <2>2, <2>4 DEF ResultsAreKnown
    <3>2. DeviceCmd("RemoteNameRequest", d).op = "RemoteNameRequest" /\ Wiimotes \subseteq scanned'
      BY <2>4 DEF CalmPairing, DeviceCmd
    <3>3. /\ Sent(AttemptPackets)' = {Len(tx) + 1}
          /\ Sent({"CreateConnection"})' = Sent({"CreateConnection"})
      BY <2>4, <3>1, <3>2, SentAdded DEF Attempting, AttemptPackets
    <3>4. \A evs : Heard(evs) = {} => Heard(evs)' = {}
      BY <2>1, HeardTaken
    <3>5. SendsOnly(Sends)' /\ HearsOnly(Hears)'
      BY <1>2, <2>1, <2>4, <3>2, PacketAdded, EventTaken DEF SendsOnly, HearsOnly, Failed,
            DevicePackets
    <3>6. OneAttempt'
      BY <2>1, <3>1, <3>3, <3>4 DEF Attempting, OneAttempt, AtMostOne
    <3>7. LinksAnnounced'
      BY <1>2, <2>1, <2>4, <3>2, SetupKept, PageKept DEF LinksAnnounced, Announced
    <3>8. InquiryBeforePage'
      <4>1. Sent({"CreateConnection"}) = {}
        BY <3>1 DEF Attempting, Sent, AttemptPackets
      <4> QED BY <1>2, <2>1, <3>3, <3>4, <4>1 DEF InquiryBeforePage
    <3> QED BY <1>1, <1>2, <2>1, <2>2, <3>2, <3>5, <3>6, <3>7, <3>8, OrderKept
         DEF Discovering, NoSession, ResultsAreKnown, FastAlone
  <2> QED BY <1>5, <2>3, <2>4 DEF InquiryResult
<1>6. CASE InquiryComplete
  <2>1. /\ UNCHANGED <<pendingFast, connected, table, inquiring, paging, naming, link, chan>>
        /\ Receive("InquiryComplete") /\ tx' = Append(tx, Cmd("Reset")) /\ scanned' = {}
    BY <1>6 DEF InquiryComplete, ResetDevice, sessionVars, radioVars
  <2>2. 1 \in DOMAIN rx /\ rx[1].ev = "InquiryComplete" /\ Cmd("Reset").op = "Reset"
    BY <2>1, EventTaken DEF Cmd
  <2>3. ~pendingFast /\ ~inquiring
    BY <1>2, <2>2 DEF InquiryBeforePage, FastAlone, HearsOnly, Failed, PageEvents, Heard
  <2>4. HearsOnly(AttemptEvents)'
    <3>1. \A i \in DOMAIN rx : i # 1 => rx[i].ev \notin InquiryEvents
      BY <1>2, <2>1, <2>2, EventTaken DEF EventsInOrder, AtMostOne, Heard, InquiryEvents
    <3> QED BY <1>2, <2>1, <3>1, EventTaken DEF HearsOnly, Failed
  <2>5. OneAttempt'
    <3>1. Sent(AttemptPackets)' = Sent(AttemptPackets)
      BY <2>1, <2>2, SentAdded DEF AttemptPackets
    <3> QED BY <1>2, <2>1, <3>1, HeardTaken DEF OneAttempt
  <2>6. LinksAnnounced'
    BY <1>2, <2>1, <2>2, SetupKept, PageKept DEF LinksAnnounced, Announced
  <2>7. \E k \in Sent({"Reset"})' :
          Between(DevicePackets \cup {"InquiryCancel"}, k, {"L2capConnectionRequest", "InquiryCancel"})'
    <3>1. PICK k \in Nat : k = Len(tx) + 1
      BY <2>1, PacketAdded
    <3>2. /\ k \in DOMAIN tx' /\ tx'[k].op = "Reset"
          /\ \A i \in DOMAIN tx' : i \in Nat /\ (i # k => i < k /\ tx'[i].op \in Sends)
      BY <1>2, <2>1, <2>2, <3>1, PacketAdded DEF SendsOnly
    <3>3. Between(DevicePackets \cup {"InquiryCancel"}, k, {"L2capConnectionRequest", "InquiryCancel"})'
      BY <3>1, <3>2 DEF Between
    <3>4. k \in Sent({"Reset"})'
      BY <3>2 DEF Sent
    <3> QED BY <3>3, <3>4
  <2> QED BY <1>1, <1>2, <2>1, <2>3, <2>4, <2>5, <2>6, <2>7 DEF Restarting, NoSession
<1>7. CASE RemoteNameComplete
  <2>1. /\ UNCHANGED <<scanned, connected, table, inquiring, paging, naming, link, chan>>
        /\ Receive("RemoteName")
    BY <1>7 DEF RemoteNameComplete, sessionVars, radioVars
  <2>2. CASE UNCHANGED <<tx, pendingFast>>
    BY <1>1, <2>1, <2>2, DiscoveringKept DEF PageEvents
  <2>3. ASSUME NEW d \in Wiimotes, d \in scanned, ~pendingFast',
               tx' = (tx \o <<Cmd("InquiryCancel")>>) \o <<DeviceCmd("CreateConnection", d)>>
        PROVE  Discovering'
    <3>1. 1 \in Heard(AttemptEvents)
      BY <2>1, EventTaken DEF Heard, AttemptEvents
    <3>2. Sent(AttemptPackets) = {} /\ naming = {} /\ paging = NoDevice
      BY <1>2, <3>1 DEF OneAttempt
    <3>3. Heard(AttemptEvents)' = {}
      BY <1>2, <2>1, HeardTaken DEF OneAttempt, AttemptEvents
    <3>4. /\ Cmd("InquiryCancel") \in HostPacket(Wiimotes)
          /\ DeviceCmd("CreateConnection", d) \in HostPacket(Wiimotes)
          /\ Cmd("InquiryCancel").op = "InquiryCancel"
          /\ DeviceCmd("CreateConnection", d).op = "CreateConnection"
      BY PacketTypes DEF Cmd, DeviceCmd
    <3>5. /\ \A i \in DOMAIN tx : i \in DOMAIN tx' /\ tx'[i] = tx[i] /\ i \in Nat \ {0} /\ i < Len(tx) + 1
          /\ \A i \in DOMAIN tx' : i \in DOMAIN tx \/ i = Len(tx) + 1 \/ i = Len(tx) + 2
          /\ Len(tx) + 1 \in DOMAIN tx' /\ tx'[Len(tx) + 1].op = "InquiryCancel"
          /\ Len(tx) + 2 \in DOMAIN tx' /\ tx'[Len(tx) + 2].op = "CreateConnection"
          /\ Len(tx) \in Nat
      BY <2>3, <3>4, PacketsAdded
    <3>6. Sent(AttemptPackets)' = {Len(tx) + 2} /\ Sent({"CreateConnection"})' = {Len(tx) + 2}
      BY <3>2, <3>5 DEF Sent, AttemptPackets
    <3>7. SendsOnly(Sends)' /\ HearsOnly(Hears)'
      <4>1. SendsOnly(Sends)'
        BY <1>2, <3>5 DEF SendsOnly, DevicePackets
      <4>2. HearsOnly(Hears)'
        BY <1>2, <2>1, EventTaken DEF HearsOnly, Failed
      <4> QED BY <4>1, <4>2
    <3>8. OneAttempt'
      BY <2>1, <3>2, <3>3, <3>6 DEF OneAttempt, AtMostOne
    <3>9. LinksAnnounced'
      <4>1. \A h : ~SetupSent(h) /\ ~SetupSent(h)'
        BY <3>2, <3>5 DEF Sent, SetupSent, AttemptPackets
      <4> QED BY <1>2, <2>1, <4>1, PageKept DEF LinksAnnounced, Announced
    <3>10. ResultsAreKnown'
      BY <2>1, <2>3 DEF ResultsAreKnown, CalmPairing
    <3>11. InquiryBeforePage'
      <4>1. Len(tx) + 1 \in Sent({"InquiryCancel"})' /\ Len(tx) + 1 < Len(tx) + 2
        BY <3>5 DEF Sent
      <4>2. inquiring => Heard({"InquiryComplete"} \cup PageEvents)' = {}
        BY <1>2, <2>1, HeardTaken DEF InquiryBeforePage
      <4> QED BY <2>1, <3>2, <3>6, <4>1, <4>2 DEF InquiryBeforePage
    <3> QED BY <1>1, <1>2, <2>1, <2>3, <3>7, <3>8, <3>9, <3>10, <3>11, OrderKept
         DEF Discovering, NoSession, FastAlone
  <2>4. Head(rx).dev \in Wiimotes
    BY <2>1, Received
  <2> QED BY <1>7, <2>2, <2>3, <2>4 DEF RemoteNameComplete, StartCreateConnection
<1>8. CASE ConnectionComplete
  <2>1. /\ UNCHANGED <<scanned, connected, table, inquiring, paging, naming, link, chan>> /\ ~pendingFast'
        /\ Receive("ConnectionComplete") /\ Head(rx).ok
        /\ tx' = Append(tx, LinkCmd("L2capConnectionRequest", Head(rx).handle))
    BY <1>8 DEF ConnectionComplete, sessionVars, radioVars
  <2>2. PICK h \in Handles : Head(rx).handle = h
    BY <2>1, Received
  <2>3. 1 \in DOMAIN rx /\ rx[1].ev = "ConnectionComplete" /\ rx[1].handle = h
    BY <2>1, <2>2, EventTaken
  <2>4. 1 \in Heard(PageEvents) /\ 1 \in Heard(AttemptEvents)
    BY <2>3 DEF Heard, PageEvents, AttemptEvents
  <2>5. ~inquiring /\ naming = {} /\ paging = NoDevice /\ Sent(AttemptPackets) = {}
    <3>1. 1 \in Heard({"InquiryComplete"} \cup PageEvents)
      BY <2>4 DEF Heard
    <3> QED BY <1>2, <2>4, <3>1 DEF InquiryBeforePage, OneAttempt
  <2>6. HearsOnly({})'
    <3>1. \A i \in Heard(AttemptEvents) : i = 1
      BY <1>2, <2>4 DEF OneAttempt, AtMostOne
    <3>2. \A i \in DOMAIN rx : i # 1 => rx[i].ev \notin InquiryEvents
      BY <1>2, <2>1, <2>4, EventTaken DEF EventsInOrder, Heard, InquiryEvents
    <3>3. \A i \in DOMAIN rx : i # 1 => Failed(i)
      BY <1>2, <3>1, <3>2 DEF HearsOnly, Heard
    <3> QED BY <2>1, <3>3, EventTaken DEF HearsOnly, Failed
  <2>7. /\ LinkCmd("L2capConnectionRequest", h).op = "L2capConnectionRequest"
        /\ LinkCmd("L2capConnectionRequest", h).handle = h
    BY DEF LinkCmd
  <2>8. SendsOnly({"InquiryCancel", "L2capConnectionRequest"})'
    <3>1. SendsOnly({"InquiryCancel"})
      BY <1>2, <2>5 DEF SendsOnly, Sent, AttemptPackets, DevicePackets
    <3> QED BY <2>1, <2>2, <2>7, <3>1, PacketAdded DEF SendsOnly
  <2>9. AtMostOne(Sent(AttemptPackets))'
    BY <2>1, <2>2, <2>5, <2>7, SentAdded DEF AtMostOne
  <2>10. \A g \in Handles : link'[g] # NoDevice <=> SetupSent(g)'
    <3>1. \A g : ~SetupSent(g)
      BY <2>5 DEF SetupSent, Sent, AttemptPackets
    <3>2. \A g : PageHeard(g) <=> g = h
      <4>1. \A i \in DOMAIN rx : rx[i].ev = "ConnectionComplete" => i = 1
        BY <1>2, <2>4 DEF OneAttempt, AtMostOne, Heard, AttemptEvents, PageEvents
      <4>2. rx[1].ok
        <5>1. Head(rx) = rx[1]
          BY <2>1, EventTaken
        <5> QED BY <2>1, <5>1, Zenon
      <4> QED BY <2>3, <4>1, <4>2, Zenon DEF PageHeard
    <3>3. \A g : SetupSent(g)' <=> g = h
      BY <2>1, <2>2, <3>1, SetupAnnounced
    <3> QED BY <1>2, <2>1, <3>1, <3>2, <3>3 DEF LinksAnnounced, Announced
  <2>11. SetupSent(h)'
    BY <2>1, <2>2, SetupAnnounced
  <2> QED BY <1>1, <1>2, <2>1, <2>5, <2>6, <2>8, <2>9, <2>10, <2>11,
        SetupStartsSession DEF NoSession
<1>9. CASE ConnectionFailed
  <2>1. PICK ev \in PageEvents : Receive(ev) /\ (ev # "ConnectionComplete" \/ ~Head(rx).ok)
    BY <1>9 DEF ConnectionFailed, PageEvents
  <2>2. 1 \in DOMAIN rx /\ rx[1].ev \in PageEvents /\ Head(rx) = rx[1]
    BY <2>1, EventTaken
  <2>3. UNCHANGED <<connected, table, inquiring, paging, naming, link, chan>>
    BY <1>9 DEF ConnectionFailed, sessionVars, radioVars
  <2>4. CASE ~pendingFast
    <3>1. UNCHANGED <<pendingFast, scanned, tx>>
      BY <1>9, <2>4 DEF ConnectionFailed, FallBackToInquiry
    <3> QED BY <1>1, <2>1, <2>2, <2>3, <2>4, <3>1, DiscoveringKept
  <2>5. CASE pendingFast
    <3>1. tx' = Append(tx, Cmd("Inquiry")) /\ scanned' = {} /\ ~pendingFast'
      BY <1>9, <2>5 DEF ConnectionFailed, FallBackToInquiry, StartInquiry
    <3>2. ~inquiring /\ naming = {} /\ SendsOnly({"InquiryCancel"}) /\ HearsOnly(PageEvents)
      BY <1>2, <2>5 DEF FastAlone
    <3>3. 1 \in Heard(AttemptEvents)
      BY <2>2 DEF Heard, AttemptEvents
    <3>4. paging = NoDevice /\ \A i \in Heard(AttemptEvents) : i = 1
      BY <1>2, <3>3 DEF OneAttempt, AtMostOne
    <3>5. HearsOnly({})'
      BY <2>1, <3>2, <3>4, EventTaken DEF HearsOnly, Failed, Heard, AttemptEvents
    <3>6. \A g : ~SetupSent(g) /\ ~PageHeard(g)
      <4>1. \A i \in DOMAIN rx : rx[i].ev = "ConnectionComplete" => i = 1
        BY <3>4 DEF Heard, AttemptEvents, PageEvents
      <4>2. rx[1].ev # "ConnectionComplete" \/ ~rx[1].ok
        <5>1. rx[1].ev = ev
          BY <2>1, EventTaken
        <5> QED BY <2>1, <2>2, <5>1, Zenon
      <4>3. \A g : ~PageHeard(g)
        BY <4>1, <4>2, Zenon DEF PageHeard
      <4> QED BY <3>2, <4>3 DEF SetupSent, SendsOnly
    <3>7. RadioQuiet' /\ NoSession'
      BY <1>2, <2>3, <3>2, <3>4, <3>6 DEF RadioQuiet, NoSession, LinksAnnounced, Announced
    <3>8. SendsOnly(IdlePackets) /\ Cmd("Inquiry").op = "Inquiry"
      BY <3>2 DEF SendsOnly, IdlePackets, Cmd
    <3> QED BY <1>1, <3>1, <3>5, <3>7, <3>8, SearchStarts
  <2> QED BY <2>4, <2>5
<1>10. CASE HandleEvent
  <2>1. 1 \in DOMAIN rx /\ (rx[1].ev \in AttemptEvents \cup InquiryEvents \/ Failed(1))
    <3>1. rx # <<>>
      BY <1>10, HandlersRead DEF HandleEvent
    <3> QED BY <1>2, <3>1, EmptyOrFirst DEF HearsOnly
  <2> QED BY <1>4, <1>5, <1>6, <1>7, <1>8, <1>9, <1>10, <2>1, HandlersRead DEF HandleEvent,
        AttemptEvents,
        PageEvents, InquiryEvents, Failed
<1>11. CASE CtlInquiryCancel
  <2>1. /\ Submit("InquiryCancel") /\ ~inquiring'
        /\ UNCHANGED <<pendingFast, scanned, connected, table, rx, paging, naming, link, chan>>
    BY <1>11 DEF CtlInquiryCancel, hostVars, ctxVars, sessionVars
  <2> QED BY <1>1, <2>1, DiscoveringKept
<1>12. CASE CtlRemoteNameRequest
  <2>1. /\ UNCHANGED <<pendingFast, scanned, connected, table, rx, inquiring, paging, link, chan>>
        /\ Submit("RemoteNameRequest")
    BY <1>12 DEF CtlRemoteNameRequest, hostVars, ctxVars, sessionVars
  <2>2. 1 \in Sent(AttemptPackets) /\ 1 \in Sent({"RemoteNameRequest"})
    BY <2>1, PacketTaken DEF Sent, AttemptPackets
  <2>3. OneAttempt' /\ LinksAnnounced'
    BY <1>2, <1>12, AttemptSubmitted
  <2>4. SendsOnly(Sends)' /\ HearsOnly(Hears)'
    BY <1>2, <2>1, PacketTaken DEF SendsOnly, HearsOnly, Failed
  <2>5. UNCHANGED Heard({"InquiryResult"}) /\ UNCHANGED Heard({"InquiryComplete"} \cup PageEvents)
    BY <2>1 DEF Heard
  <2>6. ResultsAreKnown'
    BY <1>2, <2>1, <2>2, <2>5 DEF ResultsAreKnown, Attempting
  <2>7. InquiryBeforePage'
    <3>1. Sent({"CreateConnection"}) = {}
      BY <1>2, <2>2 DEF OneAttempt, AtMostOne, Sent, AttemptPackets
    <3>2. Sent({"CreateConnection"})' = {}
      BY <2>1, <3>1, SentTaken
    <3> QED BY <1>2, <2>1, <2>5, <3>2 DEF InquiryBeforePage
  <2>8. EventsInOrder' /\ ~pendingFast'
    BY <1>2, <2>1, <2>2 DEF EventsInOrder, Heard, AtMostOne, FastAlone, SendsOnly, Sent
  <2> QED BY <1>1, <1>2, <2>1, <2>3, <2>4, <2>6, <2>7, <2>8 DEF Discovering, NoSession, FastAlone
<1>13. CASE CtlCreateConnection
  <2>1. /\ UNCHANGED <<pendingFast, scanned, connected, table, inquiring, naming, link, chan>>
        /\ Submit("CreateConnection")
    BY <1>13 DEF CtlCreateConnection, hostVars, ctxVars, sessionVars
  <2>2. 1 \in Sent(AttemptPackets) /\ 1 \in Sent({"CreateConnection"})
    BY <2>1, PacketTaken DEF Sent, AttemptPackets
  <2>3. OneAttempt' /\ LinksAnnounced'
    BY <1>2, <1>13, AttemptSubmitted
  <2>4. SendsOnly(Sends)' /\ ~pendingFast'
    BY <1>2, <2>1, <2>2, PacketTaken DEF SendsOnly, FastAlone, Sent
  <2>5. ~inquiring'
    <3>1. \A j \in DOMAIN tx : ~(j < 1)
      BY <2>1, PacketTaken
    <3> QED BY <1>2, <2>1, <2>2, <3>1 DEF InquiryBeforePage, Sent
  <2>6. /\ \A evs : "ConnectRefused" \notin evs => Heard(evs)' = Heard(evs)
        /\ HearsOnly(Hears)' /\ EventsInOrder'
    <3>1. CASE UNCHANGED rx
      BY <1>2, <3>1 DEF Heard, HearsOnly, Failed, EventsInOrder, AtMostOne
    <3>2. CASE rx' = Append(rx, DeviceEvent("ConnectRefused", FALSE, Head(tx).dev))
      <4>1. DeviceEvent("ConnectRefused", FALSE, Head(tx).dev).ev = "ConnectRefused"
        BY DEF DeviceEvent
      <4>2. PICK e : rx' = Append(rx, e) /\ e.ev = "ConnectRefused"
        BY <3>2, <4>1, Zenon
      <4>3. EventsInOrder'
        BY <1>2, <4>2, PageHeardLast DEF PageEvents
      <4>4. HearsOnly(Hears)'
        BY <1>2, <4>2, EventAdded DEF HearsOnly, Failed, AttemptEvents, PageEvents
      <4> QED BY <4>2, <4>3, <4>4, HeardAdded
    <3> QED BY <1>13, <3>1, <3>2 DEF CtlCreateConnection
  <2>7. ResultsAreKnown'
    BY <1>2, <2>1, <2>2, <2>5, <2>6 DEF ResultsAreKnown, Attempting
  <2> QED BY <1>1, <1>2, <2>1, <2>3, <2>4, <2>5, <2>6, <2>7
       DEF Discovering, NoSession, InquiryBeforePage, FastAlone
<1>14. CASE ControllerStep
  <2>1. tx[1].op \in DevicePackets \cup {"InquiryCancel"}
    BY <1>2, <1>14, ControllerTakes DEF SendsOnly
  <2> QED BY <1>11, <1>12, <1>13, <1>14, <2>1, ControllerTakes DEF ControllerStep, DevicePackets,
        InitCommands
<1>15. CASE InquiryFinds \/ InquiryEnds
  <2>1. /\ UNCHANGED <<pendingFast, scanned, connected, table, tx, paging, naming, link, chan>>
        /\ inquiring /\ (inquiring' => inquiring)
    BY <1>15 DEF InquiryFinds, InquiryEnds, hostVars, ctxVars, sessionVars, radioVars
  <2>2. PICK e : /\ rx' = Append(rx, e)
                 /\ \/ e.ev = "InquiryResult" /\ UNCHANGED inquiring
                    \/ e.ev = "InquiryComplete" /\ ~inquiring'
    <3>1. /\ \A d : DeviceEvent("InquiryResult", TRUE, d).ev = "InquiryResult"
          /\ DeviceEvent("InquiryComplete", TRUE, NoDevice).ev = "InquiryComplete"
      BY DEF DeviceEvent
    <3>2. InquiryFinds => UNCHANGED inquiring /\ \E d : rx' = Append(rx, DeviceEvent("InquiryResult", TRUE, d))
      BY DEF InquiryFinds, radioVars
    <3>3. InquiryEnds => ~inquiring' /\ rx' = Append(rx, DeviceEvent("InquiryComplete", TRUE, NoDevice))
      BY DEF InquiryEnds
    <3> QED BY <1>15, <3>1, <3>2, <3>3, Zenon
  <2>3. /\ Heard({"InquiryComplete"} \cup PageEvents) = {} /\ ~pendingFast
        /\ Heard({"InquiryComplete"}) = {} /\ Heard(PageEvents) = {}
    BY <1>2, <2>1 DEF InquiryBeforePage, FastAlone, Heard
  <2>4. \A evs : evs \cap InquiryEvents = {} => Heard(evs)' = Heard(evs)
    BY <2>2, HeardAdded DEF InquiryEvents
  <2>5. Heard(AttemptEvents)' = Heard(AttemptEvents) /\ Heard(PageEvents)' = {}
    BY <2>3, <2>4 DEF AttemptEvents, PageEvents, InquiryEvents
  <2>6. HearsOnly(Hears)' /\ SendsOnly(Sends)'
    BY <1>2, <2>1, <2>2, EventAdded DEF HearsOnly, Failed, InquiryEvents, SendsOnly
  <2>7. OneAttempt'
    BY <1>2, <2>1, <2>5 DEF OneAttempt, Sent, AtMostOne
  <2>8. LinksAnnounced'
    BY <1>2, <2>1, <2>2, SetupKept, PageKept DEF LinksAnnounced, Announced
  <2>9. ResultsAreKnown'
    BY <1>2, <2>1, <2>5 DEF ResultsAreKnown, Attempting, Sent
  <2>10. InquiryBeforePage' /\ EventsInOrder'
    <3>1. CASE e.ev = "InquiryResult" /\ UNCHANGED inquiring
      <4>1. /\ Heard({"InquiryComplete"} \cup PageEvents)' = {}
            /\ Heard({"InquiryComplete"})' = {}
        BY <2>2, <2>3, <3>1, HeardAdded DEF PageEvents
      <4> QED BY <1>2, <2>1, <2>5, <3>1, <4>1 DEF InquiryBeforePage, EventsInOrder, AtMostOne, Sent
    <3>2. CASE e.ev = "InquiryComplete" /\ ~inquiring'
      <4>1. PICK k \in Nat : /\ \A evs : Heard(evs)' = IF e.ev \in evs THEN Heard(evs) \cup {k} ELSE Heard(evs)
                             /\ \A evs : \A i \in Heard(evs) : i < k
        <5>1. PICK k \in Nat : /\ \A evs : Heard(evs)' = IF e.ev \in evs THEN Heard(evs) \cup {k} ELSE Heard(evs)
                               /\ \A i \in DOMAIN rx : i < k
          BY <2>2, EventAt
        <5> QED BY <5>1 DEF Heard
      <4>2. EventsInOrder'
        BY <1>2, <2>3, <3>2, <4>1, EndInOrder DEF PageEvents
      <4> QED BY <3>2, <4>2 DEF InquiryBeforePage
    <3> QED BY <2>2, <3>1, <3>2
  <2> QED BY <1>1, <1>2, <2>1, <2>3, <2>6, <2>7, <2>8, <2>9, <2>10 DEF Discovering, NoSession,
        FastAlone
<1>16. CASE NameResolves \/ PageEnds
  <2>1. /\ UNCHANGED <<pendingFast, scanned, connected, table, tx, inquiring, chan>>
        /\ naming' \subseteq naming /\ paging' \in {paging, NoDevice}
        /\ naming # {} \/ paging # NoDevice
    BY <1>16 DEF NameResolves, PageEnds, hostVars, ctxVars, sessionVars
  <2>2. OneAttempt' /\ LinksAnnounced'
    BY <1>2, <1>16, AttemptAnswered
  <2>3. PICK e : /\ rx' = Append(rx, e)
                 /\ \/ e.ev = "RemoteName" /\ naming # {}
                    \/ e.ev = "ConnectionComplete" /\ ~inquiring
    <3>1. /\ \A d, ok : DeviceEvent("RemoteName", ok, d).ev = "RemoteName"
          /\ \A d : DeviceEvent("ConnectionComplete", FALSE, d).ev = "ConnectionComplete"
          /\ \A d, h : Paged(d, h).ev = "ConnectionComplete"
      BY DEF DeviceEvent, Paged
    <3>2. NameResolves => naming # {} /\ \E d, ok : rx' = Append(rx, DeviceEvent("RemoteName", ok, d))
      BY DEF NameResolves
    <3>3. PageEnds => /\ paging # NoDevice
                      /\ \/ \E d, h : rx' = Append(rx, Paged(d, h))
                         \/ \E d : rx' = Append(rx, DeviceEvent("ConnectionComplete", FALSE, d))
      BY DEF PageEnds
    <3>4. paging # NoDevice => ~inquiring
      BY <1>2 DEF InquiryBeforePage
    <3>5. PageEnds => \E e : rx' = Append(rx, e) /\ e.ev = "ConnectionComplete"
      BY <3>1, <3>3, Zenon
    <3>6. NameResolves => \E e : rx' = Append(rx, e) /\ e.ev = "RemoteName"
      BY <3>1, <3>2, Zenon
    <3> QED BY <1>16, <3>2, <3>3, <3>4, <3>5, <3>6
  <2>4. HearsOnly(Hears)' /\ SendsOnly(Sends)'
    BY <1>2, <2>1, <2>3, EventAdded DEF HearsOnly, Failed, SendsOnly, AttemptEvents, PageEvents
  <2>5. ResultsAreKnown'
    <3>1. Attempting
      BY <2>1 DEF Attempting
    <3>2. Heard({"InquiryResult"})' = Heard({"InquiryResult"})
      BY <2>3, HeardAdded
    <3> QED BY <1>2, <2>1, <3>1, <3>2 DEF ResultsAreKnown
  <2>6. InquiryBeforePage'
    <3>1. inquiring => Heard({"InquiryComplete"} \cup PageEvents)' = Heard({"InquiryComplete"} \cup PageEvents)
      BY <2>3, HeardAdded DEF PageEvents
    <3> QED BY <1>2, <2>1, <3>1 DEF InquiryBeforePage, Sent
  <2>7. EventsInOrder'
    <3>1. CASE e.ev = "RemoteName"
      <4>1. /\ Heard({"InquiryResult"})' = Heard({"InquiryResult"})
            /\ Heard({"InquiryComplete"})' = Heard({"InquiryComplete"}) /\ Heard(PageEvents)' = Heard(PageEvents)
            /\ Heard({"InquiryComplete"} \cup PageEvents)' = Heard({"InquiryComplete"} \cup PageEvents)
        BY <2>3, <3>1, HeardAdded DEF PageEvents
      <4> QED BY <1>2, <4>1 DEF EventsInOrder, AtMostOne
    <3>2. CASE e.ev = "ConnectionComplete"
      BY <1>2, <2>3, <3>2, PageHeardLast DEF PageEvents
    <3> QED BY <2>3, <3>1, <3>2
  <2>8. FastAlone'
    <3>1. pendingFast => e.ev \in PageEvents
      BY <1>2, <2>3 DEF FastAlone, PageEvents
    <3>2. e.ev \in PageEvents => Heard(PageEvents)' # {}
      BY <2>3, EventAdded DEF Heard
    <3> QED BY <1>2, <2>1, <2>3, <3>1, <3>2, EventAdded DEF FastAlone, SendsOnly, HearsOnly, Failed
  <2> QED BY <1>1, <1>2, <2>1, <2>2, <2>4, <2>5, <2>6, <2>7, <2>8 DEF Discovering, NoSession
<1>17. CASE RadioStep
  <2>1. ~LinkLost
    BY DEF LinkLost, CalmPairing
  <2>2. ~WiimoteReports
    BY <1>2 DEF WiimoteReports, ChannelOpen, NoSession
  <2> QED BY <1>15, <1>16, <1>17, <2>1, <2>2 DEF RadioStep
<1> QED BY <1>1, <1>3, <1>10, <1>14, <1>17 DEF Next

\* While the reset is on its way the attempt goes on, up to the request for a channel
\* that stands behind the reset; a refused reset leaves it be.
LEMMA RestartingStep ==
    ASSUME CalmPairing, SessionType(Wiimotes), Restarting, Next
    PROVE  Restarting' \/ Answered' \/ Discovering' \/ \E h \in Handles : SessionAt(h)'
<1> USE DEF SessionType, QueueTypes
<1> DEFINE Before == DevicePackets \cup {"InquiryCancel"}
           After == {"L2capConnectionRequest", "InquiryCancel"}
<1>1. (inited \/ btReset)' /\ ~BtTaskResets
  BY StartedStep DEF Restarting
<1>2. /\ NoSession /\ ~pendingFast /\ ~inquiring /\ scanned = {}
      /\ HearsOnly(AttemptEvents) /\ OneAttempt /\ LinksAnnounced
  BY DEF Restarting
<1>3. PICK k \in Sent({"Reset"}) : Between(Before, k, After)
  BY DEF Restarting
<1>4. k \in Nat \ {0} /\ k \in DOMAIN tx /\ tx[k].op = "Reset"
  BY <1>3 DEF Sent
<1>5. ASSUME UNCHANGED tx
      PROVE  k \in Sent({"Reset"})' /\ Between(Before, k, After)'
  BY <1>3, <1>5 DEF Sent, Between
<1>6. ASSUME NEW p, tx' = Append(tx, p), p.op \in After
      PROVE  k \in Sent({"Reset"})' /\ Between(Before, k, After)'
  <2>1. \A i \in DOMAIN tx' : i \in DOMAIN tx \/ (i = Len(tx) + 1 /\ tx'[i] = p /\ ~(i < k))
    BY <1>4, <1>6, PacketAdded
  <2>2. \A i \in DOMAIN tx : i \in DOMAIN tx' /\ tx'[i] = tx[i]
    BY <1>6, PacketAdded
  <2> HIDE DEF Before, After
  <2> QED BY <1>3, <1>6, <2>1, <2>2 DEF Sent, Between
<1>7. ASSUME NEW op, Submit(op), k # 1
      PROVE  k - 1 \in Sent({"Reset"})' /\ Between(Before, k - 1, After)' /\ op \in Before
  BY <1>3, <1>4, <1>7, PacketTaken DEF Sent, Between
<1>8. CASE SketchStep \/ BtTaskMarksInited \/ CacheAges
  <2>1. /\ UNCHANGED <<scanned, connected, table, rx, inquiring, paging, naming, link, chan>>
        /\ ~pendingFast'
        /\ tx' = tx \/ tx' = Append(tx, Cmd("InquiryCancel"))
    BY <1>2, <1>8, HostMay DEF NoSession
  <2>2. Cmd("InquiryCancel").op = "InquiryCancel"
    BY DEF Cmd
  <2>3. k \in Sent({"Reset"})' /\ Between(Before, k, After)'
    BY <1>5, <1>6, <2>1, <2>2
  <2>4. Sent(AttemptPackets)' = Sent(AttemptPackets)
    BY <2>1, <2>2, SentAdded DEF AttemptPackets, Sent
  <2>5. OneAttempt' /\ HearsOnly(AttemptEvents)' /\ NoSession'
    BY <1>2, <2>1, <2>4 DEF OneAttempt, HearsOnly, Heard, Failed, NoSession
  <2>6. LinksAnnounced'
    BY <1>2, <2>1, <2>2, SetupKept, PageKept DEF LinksAnnounced, Announced
  <2> QED BY <1>1, <1>2, <2>1, <2>3, <2>5, <2>6 DEF Restarting
<1>9. CASE CommandFailed \/ RemoteNameComplete \/ ConnectionFailed
  <2>1. UNCHANGED <<pendingFast, scanned, connected, table, tx, inquiring, paging, naming, link, chan>>
    BY <1>2, <1>9 DEF CommandFailed, RemoteNameComplete, ConnectionFailed, FallBackToInquiry,
       ctxVars, sessionVars, radioVars
  <2>2. PICK ev : Receive(ev) /\ (ev # "ConnectionComplete" \/ ~Head(rx).ok)
    <3>1. CommandFailed => Receive("CommandComplete")
      BY Zenon DEF CommandFailed
    <3>2. RemoteNameComplete => Receive("RemoteName")
      BY Zenon DEF RemoteNameComplete
    <3>3. ConnectionFailed =>
            Receive("ConnectRefused") \/ (Receive("ConnectionComplete") /\ ~Head(rx).ok)
      BY DEF ConnectionFailed
    <3>4. "CommandComplete" # "ConnectionComplete" /\ "RemoteName" # "ConnectionComplete"
          /\ "ConnectRefused" # "ConnectionComplete"
      OBVIOUS
    <3> QED BY <1>9, <3>1, <3>2, <3>3, <3>4, Zenon
  <2>3. Head(rx) = rx[1]
    BY <2>2, EventTaken
  <2>4. NoSession' /\ HearsOnly(AttemptEvents)'
    BY <1>2, <2>1, <2>2, EventTaken DEF NoSession, HearsOnly, Failed
  <2>5. OneAttempt'
    BY <1>2, <2>1, <2>2, HeardTaken DEF OneAttempt, Sent
  <2>6. LinksAnnounced'
    BY <1>2, <2>1, <2>2, <2>3, SetupKept, PageKept DEF LinksAnnounced, Announced
  <2> QED BY <1>1, <1>2, <1>5, <2>1, <2>4, <2>5, <2>6 DEF Restarting
<1>10. CASE ConnectionComplete
  <2>1. /\ UNCHANGED <<scanned, connected, table, inquiring, paging, naming, link, chan>> /\ ~pendingFast'
        /\ Receive("ConnectionComplete") /\ Head(rx).ok
        /\ tx' = Append(tx, LinkCmd("L2capConnectionRequest", Head(rx).handle))
    BY <1>10 DEF ConnectionComplete, sessionVars, radioVars
  <2>2. 1 \in DOMAIN rx /\ rx[1].ev = "ConnectionComplete" /\ Head(rx) = rx[1]
    BY <2>1, EventTaken
  <2>3. 1 \in Heard(AttemptEvents)
    BY <2>2 DEF Heard, AttemptEvents, PageEvents
  <2>4. naming = {} /\ paging = NoDevice /\ Sent(AttemptPackets) = {}
    BY <1>2, <2>3 DEF OneAttempt
  <2>5. Heard(AttemptEvents)' = {}
    BY <1>2, <2>1, HeardTaken DEF OneAttempt, AttemptEvents, PageEvents
  <2>6. LinkCmd("L2capConnectionRequest", Head(rx).handle).op = "L2capConnectionRequest"
    BY DEF LinkCmd
  <2>7. AtMostOne(Sent(AttemptPackets))'
    BY <2>1, <2>4, <2>6, SentAdded DEF AtMostOne
  <2>8. OneAttempt'
    BY <2>1, <2>4, <2>5, <2>7 DEF OneAttempt, AtMostOne
  <2>9. NoSession' /\ HearsOnly(AttemptEvents)'
    BY <1>2, <2>1, EventTaken DEF NoSession, HearsOnly, Failed
  <2>10. \A g : PageHeard(g) <=> g = Head(rx).handle
    <3>1. \A i \in DOMAIN rx : rx[i].ev = "ConnectionComplete" => i = 1
      BY <1>2, <2>3 DEF OneAttempt, AtMostOne, Heard, AttemptEvents, PageEvents
    <3>2. rx[1].ok
      BY <2>1, <2>2, Zenon
    <3> QED BY <2>2, <3>1, <3>2, Zenon DEF PageHeard
  <2>11. \A g : ~SetupSent(g) /\ ~PageHeard(g)'
    BY <2>4, <2>5 DEF SetupSent, PageHeard, Sent, Heard, AttemptPackets, AttemptEvents, PageEvents
  <2>12. \A g : SetupSent(g)' <=> g = Head(rx).handle
    BY <2>1, <2>11, SetupAnnounced
  <2>13. LinksAnnounced'
    BY <1>2, <2>1, <2>10, <2>11, <2>12 DEF LinksAnnounced, Announced
  <2>14. k \in Sent({"Reset"})' /\ Between(Before, k, After)'
    BY <1>6, <2>1, <2>6
  <2> QED BY <1>1, <1>2, <2>1, <2>8, <2>9, <2>13, <2>14 DEF Restarting
<1>11. CASE HandleEvent
  <2>1. 1 \in DOMAIN rx /\ (rx[1].ev \in AttemptEvents \/ Failed(1))
    <3>1. rx # <<>>
      BY <1>11, HandlersRead DEF HandleEvent
    <3> QED BY <1>2, <3>1, EmptyOrFirst DEF HearsOnly
  <2> QED BY <1>9, <1>10, <1>11, <2>1, HandlersRead DEF HandleEvent, AttemptEvents, PageEvents,
        Failed
<1>12. CASE ControllerStep
  <2>1. UNCHANGED <<ctxVars, sessionVars>>
    BY <1>12, ControllerMay
  <2>2. ~pendingFast' /\ scanned' = {} /\ UNCHANGED <<connected, table>>
    BY <1>2, <2>1 DEF ctxVars, sessionVars
  <2>3. CASE k # 1
    <3>1. PICK op \in HciCommands \cup AclPackets : Submit(op)
      BY <1>12, ControllerMay
    <3>2. k - 1 \in Sent({"Reset"})' /\ Between(Before, k - 1, After)' /\ op \in Before
      BY <1>7, <2>3, <3>1
    <3>3. tx[1].op = op
      BY <3>1, PacketTaken
    <3>4. CtlInquiryCancel \/ CtlRemoteNameRequest \/ CtlCreateConnection
      BY <1>12, <3>2, <3>3, ControllerTakes DEF ControllerStep, DevicePackets, InitCommands
    <3>5. OneAttempt' /\ LinksAnnounced'
      BY <1>2, <3>4, AttemptSubmitted
    <3>6. ~inquiring' /\ UNCHANGED chan
      <4>1. \/ inquiring' = FALSE \/ UNCHANGED inquiring
        BY <3>4, Zenon DEF CtlInquiryCancel, CtlRemoteNameRequest, CtlCreateConnection
      <4>2. UNCHANGED chan
        BY <3>4, Zenon DEF CtlInquiryCancel, CtlRemoteNameRequest, CtlCreateConnection
      <4> QED BY <1>2, <4>1, <4>2
    <3>7. HearsOnly(AttemptEvents)'
      <4>1. rx' = rx \/ \E d : rx' = Append(rx, DeviceEvent("ConnectRefused", FALSE, d))
        BY <3>4 DEF CtlInquiryCancel, CtlRemoteNameRequest, CtlCreateConnection
      <4>2. \A d : DeviceEvent("ConnectRefused", FALSE, d).ev = "ConnectRefused"
        BY DEF DeviceEvent
      <4>3. rx' = rx \/ \E e : rx' = Append(rx, e) /\ e.ev = "ConnectRefused"
        BY <4>1, <4>2, Zenon
      <4> QED BY <1>2, <4>3, EventAdded DEF HearsOnly, Failed, AttemptEvents, PageEvents
    <3>8. NoSession'
      BY <1>2, <2>2, <3>6 DEF NoSession
    <3> QED BY <1>1, <2>2, <3>2, <3>5, <3>6, <3>7, <3>8 DEF Restarting
  <2>4. CASE k = 1
    <3>1. CtlReset /\ Submit("Reset")
      BY <1>4, <1>12, <2>4, ControllerTakes DEF ControllerStep, InitCommands, CtlReset
    <3>2. SendsOnly(After)'
      BY <1>3, <2>4, <3>1, PacketTaken DEF SendsOnly, Between
    <3>3. PICK ok \in BOOLEAN :
            /\ rx' = Append(rx, Completed("Reset", ok))
            /\ IF ok
               THEN /\ inquiring' = FALSE /\ paging' = NoDevice /\ naming' = {}
                    /\ link' = [h \in Handles |-> NoDevice] /\ chan' = [h \in Handles |-> {}]
               ELSE UNCHANGED radioVars
      BY <3>1 DEF CtlReset, Status
    <3>4. Completed("Reset", ok).ev = "CommandComplete" /\ Completed("Reset", ok).ok = ok
      BY DEF Completed
    <3>5. CASE ok
      <4>1. NoSession' /\ RadioQuiet'
        BY <1>2, <2>2, <3>3, <3>5 DEF NoSession, RadioQuiet
      <4>2. SendsOnly(IdlePackets)'
        BY <3>2 DEF SendsOnly, IdlePackets, LinkPackets, AclPackets
      <4>3. rx' # <<>> /\ rx'[Len(rx')].ev = "CommandComplete"
        BY <3>3, <3>4, EventAdded
      <4>4. \A i \in DOMAIN rx' : i < Len(rx') => rx'[i].ev \in AttemptEvents \/ Failed(i)'
        BY <1>2, <3>3, EventAdded DEF HearsOnly, Failed
      <4> QED BY <1>1, <2>2, <4>1, <4>2, <4>3, <4>4 DEF Answered
    <3>6. CASE ~ok
      <4>1. UNCHANGED <<inquiring, paging, naming, link, chan>>
        BY <3>3, <3>6 DEF radioVars
      <4>2. PICK e : rx' = Append(rx, e) /\ e.ev = "CommandComplete" /\ ~e.ok
        BY <3>3, <3>4, <3>6, Zenon
      <4>3. \A evs : "CommandComplete" \notin evs =>
              /\ Heard(evs)' = Heard(evs)
              /\ HearsOnly(evs) => HearsOnly(evs)'
        BY <4>2, HeardAdded, EventAdded DEF HearsOnly, Failed
      <4>4. NoSession' /\ OneAttempt' /\ LinksAnnounced'
        <5>1. NoSession'
          BY <1>2, <2>2, <4>1 DEF NoSession
        <5>2. OneAttempt'
          BY <1>2, <3>1, <4>1, <4>3, SentTaken DEF OneAttempt, AttemptEvents, PageEvents
        <5>3. LinksAnnounced'
          BY <1>2, <3>1, <4>1, <4>2, SetupKept, PageKept DEF LinksAnnounced, Announced
        <5> QED BY <5>1, <5>2, <5>3
      <4>5. ASSUME NEW i \in DOMAIN tx', tx'[i].op = "L2capConnectionRequest"
            PROVE  \E h \in Handles : SessionAt(h)'
        <5>1. tx'[i].handle \in Handles
          BY <3>1, <4>5, Submitted DEF HostPacket, DevicePackets, LinkPackets, AclPackets
        <5>2. PICK h \in Handles : tx'[i].handle = h
          BY <5>1
        <5>3. SetupSent(h)'
          BY <4>5, <5>2 DEF SetupSent
        <5>4. Sent(AttemptPackets)' # {}
          BY <4>5 DEF Sent, AttemptPackets
        <5>5. naming' = {} /\ paging' = NoDevice /\ Heard(AttemptEvents)' = {}
          BY <4>4, <5>4 DEF OneAttempt
        <5>6. HearsOnly({})' /\ \A g : ~PageHeard(g)'
          BY <1>2, <4>3, <5>5 DEF HearsOnly, Failed, Heard, PageHeard, AttemptEvents, PageEvents
        <5>7. \A g \in Handles : link'[g] # NoDevice <=> SetupSent(g)'
          BY <4>4, <5>6 DEF LinksAnnounced, Announced
        <5>8. SendsOnly({"InquiryCancel", "L2capConnectionRequest"})' /\ ~inquiring' /\ AtMostOne(Sent(AttemptPackets))'
          BY <1>2, <3>2, <4>1, <4>4 DEF SendsOnly, OneAttempt
        <5> QED BY <1>1, <2>2, <4>4, <5>3, <5>5, <5>6, <5>7, <5>8, SetupStartsSession
      <4>6. CASE SendsOnly({"InquiryCancel"})'
        <5>1. SendsOnly(DevicePackets \cup {"InquiryCancel"})' /\ HearsOnly(AttemptEvents \cup InquiryEvents)'
          BY <1>2, <4>3, <4>6 DEF SendsOnly, HearsOnly, AttemptEvents, PageEvents
        <5>2. Heard({"InquiryResult"})' = {} /\ Heard({"InquiryComplete"})' = {} /\ ~inquiring'
          BY <1>2, <4>1, <4>3 DEF HearsOnly, Heard, Failed, AttemptEvents, PageEvents
        <5>3. ResultsAreKnown' /\ InquiryBeforePage' /\ EventsInOrder'
          BY <5>2 DEF ResultsAreKnown, InquiryBeforePage, EventsInOrder, AtMostOne
        <5> QED BY <1>1, <2>2, <4>4, <5>1, <5>3 DEF Discovering, FastAlone
      <4> QED BY <3>2, <4>5, <4>6 DEF SendsOnly
    <3> QED BY <3>5, <3>6
  <2> QED BY <2>3, <2>4
<1>13. CASE NameResolves \/ PageEnds
  <2>1. UNCHANGED <<pendingFast, scanned, connected, table, tx, inquiring, chan>>
    BY <1>13 DEF NameResolves, PageEnds, hostVars, ctxVars, sessionVars
  <2>2. OneAttempt' /\ LinksAnnounced'
    BY <1>2, <1>13, AttemptAnswered
  <2>3. HearsOnly(AttemptEvents)'
    BY <1>2, <1>13, AttemptAnswered
  <2> QED BY <1>1, <1>2, <1>5, <2>1, <2>2, <2>3 DEF Restarting, NoSession
<1>14. CASE RadioStep
  <2>1. ~LinkLost /\ ~WiimoteReports /\ ~InquiryFinds /\ ~InquiryEnds
    BY <1>2 DEF LinkLost, CalmPairing, WiimoteReports, ChannelOpen, NoSession, InquiryFinds,
          InquiryEnds
  <2> QED BY <1>13, <1>14, <2>1 DEF RadioStep
<1> QED BY <1>1, <1>8, <1>11, <1>12, <1>14 DEF Next

----------------------------------------------------------------------------
(* A session and its queues.                                               *)

\* Two events are added at the end of rx.
LEMMA EventsAdded ==
    ASSUME rx \in Seq(HostEvent(Wiimotes)), NEW a \in HostEvent(Wiimotes), NEW b \in HostEvent(Wiimotes),
           rx' = rx \o <<a, b>>, NEW k, k = Len(rx) + 1
    PROVE  /\ \A i \in DOMAIN rx : i \in DOMAIN rx' /\ rx'[i] = rx[i] /\ i < k
           /\ \A i \in DOMAIN rx' : i \in DOMAIN rx \/ i = k \/ i = k + 1
           /\ rx'[k] = a /\ rx'[k + 1] = b
<1>1. /\ <<a, b>> \in Seq(HostEvent(Wiimotes)) /\ Len(<<a, b>>) = 2
      /\ <<a, b>>[1] = a /\ <<a, b>>[2] = b
  OBVIOUS
<1>2. \A i \in DOMAIN rx : i \in DOMAIN rx' /\ rx'[i] = rx[i] /\ i < k
  BY <1>1
<1>3. \A i \in DOMAIN rx' : i \in DOMAIN rx \/ i = k \/ i = k + 1
  BY <1>1
<1>4. rx'[k] = a /\ rx'[k + 1] = b
  BY <1>1
<1> QED BY <1>2, <1>3, <1>4

\* Whatever leaves or joins a queue of the session is of its link.
LEMMA PacketsKept ==
    ASSUME tx \in Seq(HostPacket(Wiimotes)), NEW h, PacketsOf(h),
           \/ tx' = tx
           \/ \E op : Submit(op)
           \/ \E p : tx' = Append(tx, p) /\ p.op \in IdlePackets /\ (p.op \in LinkPackets => p.handle = h)
    PROVE  PacketsOf(h)'
<1>1. CASE tx' = tx
  BY <1>1 DEF PacketsOf, SendsOnly, Sent
<1>2. ASSUME NEW op, Submit(op)
      PROVE  PacketsOf(h)'
  BY <1>2, PacketTaken DEF PacketsOf, SendsOnly, Sent
<1>3. ASSUME NEW p, tx' = Append(tx, p), p.op \in IdlePackets, p.op \in LinkPackets => p.handle = h
      PROVE  PacketsOf(h)'
  BY <1>3, PacketAdded DEF PacketsOf, SendsOnly, Sent
<1> QED BY <1>1, <1>2, <1>3

\* The events stay of the one link, and of nothing else.
LEMMA EventsKept ==
    ASSUME rx \in Seq(HostEvent(Wiimotes)), NEW h, EventsOf(h),
           \/ rx' = rx
           \/ \E ev : Receive(ev)
           \/ \E e : rx' = Append(rx, e) /\ e.ev \in LinkEvents /\ e.handle = h
    PROVE  EventsOf(h)'
<1>1. CASE rx' = rx
  BY <1>1 DEF EventsOf, HearsOnly, Heard, Failed
<1>2. ASSUME NEW ev, Receive(ev)
      PROVE  EventsOf(h)'
  BY <1>2, EventTaken DEF EventsOf, HearsOnly, Heard, Failed
<1>3. ASSUME NEW e, rx' = Append(rx, e), e.ev \in LinkEvents, e.handle = h
      PROVE  EventsOf(h)'
  BY <1>3, EventAdded DEF EventsOf, HearsOnly, Heard, Failed
<1> QED BY <1>1, <1>2, <1>3

\* An output report adds reports to the queue and nothing else.
LEMMA OutputsAdded ==
    ASSUME tx \in Seq(HostPacket(Wiimotes)), NEW h \in Handles, NEW n \in Nat, tx' = tx \o HidOutputs(h, n)
    PROVE  /\ PacketsOf(h) => PacketsOf(h)'
           /\ \A ops : "HidOutput" \notin ops => Sent(ops)' = Sent(ops)
<1>1. PICK m \in Nat : /\ HidOutputs(h, n) \in Seq(HostPacket(Wiimotes)) /\ Len(HidOutputs(h, n)) = m
                       /\ \A i \in 1..m : HidOutputs(h, n)[i] = LinkCmd("HidOutput", h)
  <2>1. LinkCmd("HidOutput", h) \in HostPacket(Wiimotes)
    BY PacketTypes
  <2> QED BY <2>1 DEF HidOutputs
<1>2. /\ \A i \in DOMAIN tx : i \in DOMAIN tx' /\ tx'[i] = tx[i]
      /\ \A i \in DOMAIN tx' : i \notin DOMAIN tx => tx'[i] = LinkCmd("HidOutput", h)
  BY <1>1
<1>3. LinkCmd("HidOutput", h).op = "HidOutput" /\ LinkCmd("HidOutput", h).handle = h
  BY DEF LinkCmd
<1>4. PacketsOf(h) => PacketsOf(h)'
  BY <1>2, <1>3 DEF PacketsOf, SendsOnly, Sent, IdlePackets, LinkPackets, AclPackets
<1>5. \A ops : "HidOutput" \notin ops => Sent(ops)' = Sent(ops)
  BY <1>2, <1>3 DEF Sent
<1> QED BY <1>4, <1>5

\* The loss of the link stays the last event, whatever is handled before it.
LEMMA LossKept ==
    ASSUME rx \in Seq(HostEvent(Wiimotes)), NEW h, LossIsLast(h), UNCHANGED <<link, chan>>,
           \/ rx' = rx
           \/ \E ev : Receive(ev) /\ ev # "DisconnectionComplete"
           \/ link[h] # NoDevice /\ \E e : rx' = Append(rx, e) /\ e.ev # "DisconnectionComplete"
    PROVE  LossIsLast(h)'
<1>1. CASE rx' = rx
  BY <1>1 DEF LossIsLast, Heard
<1>2. ASSUME NEW ev, Receive(ev), ev # "DisconnectionComplete"
      PROVE  LossIsLast(h)'
  <2>1. \A i \in Heard({"DisconnectionComplete"})' : i + 1 \in Heard({"DisconnectionComplete"}) /\ i \in Nat
    BY <1>2, EventTaken DEF Heard
  <2>2. \A i \in Heard({"DisconnectionComplete"}) : i - 1 \in Heard({"DisconnectionComplete"})'
    <3>1. \A i \in DOMAIN rx : rx[i].ev = "DisconnectionComplete" => i \in Nat /\ i > 1
      BY <1>2, EventTaken
    <3> QED BY <1>2, <3>1, EventTaken DEF Heard
  <2>3. Len(rx') = Len(rx) - 1 /\ Len(rx) \in Nat
    BY <1>2, EventTaken
  <2> QED BY <2>1, <2>2, <2>3 DEF LossIsLast
<1>3. ASSUME NEW e, link[h] # NoDevice, rx' = Append(rx, e), e.ev # "DisconnectionComplete"
      PROVE  LossIsLast(h)'
  <2>1. Heard({"DisconnectionComplete"})' = Heard({"DisconnectionComplete"})
    BY <1>3, HeardAdded
  <2>2. Heard({"DisconnectionComplete"}) = {}
    BY <1>3 DEF LossIsLast
  <2> QED BY <1>3, <2>1, <2>2 DEF LossIsLast
<1> QED BY <1>1, <1>2, <1>3

\* Packets and events of neither the set-up nor a report leave the set-up alone.
LEMMA SetUpKept ==
    ASSUME tx \in Seq(HostPacket(Wiimotes)), rx \in Seq(HostEvent(Wiimotes)), NEW h,
           SetUpOnce(h), UNCHANGED <<connected, table>>, chan'[h] = chan[h] \/ chan'[h] = {} \/ table # <<>>,
           \/ tx' = tx
           \/ \E op : Submit(op)
           \/ \E p : tx' = Append(tx, p) /\ p.op \in {"InquiryCancel", "Disconnect", "HidOutput"}
           \/ \E p : tx' = Append(tx, p) /\ p.op = "L2capConfigurationResponse" /\ table # <<>>,
           \/ rx' = rx
           \/ \E ev : Receive(ev)
           \/ \E e : rx' = Append(rx, e) /\ e.ev \in {"DisconnectionComplete", "L2capConfigurationRequest"}
           \/ \E e : rx' = Append(rx, e) /\ e.ev = "InputReport" /\ table # <<>>
    PROVE  SetUpOnce(h)'
<1> DEFINE Config == {"L2capConfigurationRequest", "L2capConfigurationResponse"}
<1>1. /\ AtMostOne(Sent({"L2capConnectionRequest"})) => AtMostOne(Sent({"L2capConnectionRequest"}))'
      /\ Sent({"L2capConnectionRequest"}) = {} => Sent({"L2capConnectionRequest"})' = {}
      /\ Sent(Config) = {} => Sent(Config)' = {} \/ table # <<>>
  <2>1. CASE tx' = tx
    BY <2>1 DEF Sent, AtMostOne
  <2>2. CASE \E op : Submit(op)
    BY <2>2, SentTaken
  <2>3. ASSUME NEW p, tx' = Append(tx, p), p.op \in {"InquiryCancel", "Disconnect", "HidOutput"}
        PROVE  \A ops \in {{"L2capConnectionRequest"}, Config} : Sent(ops)' = Sent(ops)
    BY <2>3, SentAdded
  <2>4. ASSUME NEW p, tx' = Append(tx, p), p.op = "L2capConfigurationResponse"
        PROVE  Sent({"L2capConnectionRequest"})' = Sent({"L2capConnectionRequest"})
    BY <2>4, SentAdded
  <2> HIDE DEF Config
  <2> QED BY <2>1, <2>2, <2>3, <2>4 DEF AtMostOne
<1>2. /\ AtMostOne(Heard({"L2capConnectionResponse"})) => AtMostOne(Heard({"L2capConnectionResponse"}))'
      /\ Heard({"L2capConnectionResponse"}) = {} => Heard({"L2capConnectionResponse"})' = {}
      /\ Heard({"InputReport"}) = {} => Heard({"InputReport"})' = {} \/ table # <<>>
  <2>1. CASE rx' = rx
    BY <2>1 DEF Heard, AtMostOne
  <2>2. CASE \E ev : Receive(ev)
    BY <2>2, HeardTaken
  <2>3. ASSUME NEW e, rx' = Append(rx, e), e.ev \in {"DisconnectionComplete", "L2capConfigurationRequest"}
        PROVE  \A evs \in {{"L2capConnectionResponse"}, {"InputReport"}} : Heard(evs)' = Heard(evs)
    BY <2>3, HeardAdded
  <2>4. ASSUME NEW e, rx' = Append(rx, e), e.ev = "InputReport"
        PROVE  Heard({"L2capConnectionResponse"})' = Heard({"L2capConnectionResponse"})
    BY <2>4, HeardAdded
  <2> QED BY <2>1, <2>2, <2>3, <2>4 DEF AtMostOne
<1> HIDE DEF Config
<1> QED BY <1>1, <1>2 DEF SetUpOnce, Config

\* A session lasts until its loss is handled; then the host starts again.
LEMMA SessionStep ==
    ASSUME CalmPairing, SessionType(Wiimotes), NEW h \in Handles, SessionAt(h), Next
    PROVE  SessionAt(h)' \/ Starting'
<1> USE DEF SessionType, QueueTypes
<1>1. (inited \/ btReset)' /\ ~BtTaskResets
  BY StartedStep DEF SessionAt
<1>2. /\ ~inquiring /\ paging = NoDevice /\ naming = {} /\ ~pendingFast
      /\ \A g \in Handles \ {h} : link[g] = NoDevice /\ chan[g] = {}
      /\ PacketsOf(h) /\ EventsOf(h) /\ SetUpOnce(h) /\ LossIsLast(h)
  BY DEF SessionAt
<1>3. table \in {<<>>, <<h>>}
  BY <1>2 DEF SetUpOnce
<1>4. ASSUME ~inquiring', paging' = NoDevice, naming' = {}, ~pendingFast',
             \A g \in Handles \ {h} : link'[g] = link[g] /\ chan'[g] = chan[g],
             PacketsOf(h)', EventsOf(h)', SetUpOnce(h)', LossIsLast(h)'
      PROVE  SessionAt(h)'
  BY <1>1, <1>2, <1>4 DEF SessionAt
<1>5. CASE SketchStep \/ BtTaskMarksInited \/ CacheAges
  <2>1. /\ UNCHANGED <<connected, table, rx, inquiring, paging, naming, link, chan>> /\ ~pendingFast'
        /\ \/ tx' = tx
           \/ tx' = Append(tx, Cmd("InquiryCancel"))
           \/ \E op \in {"Disconnect", "HidOutput"} : tx' = Append(tx, LinkCmd(op, h))
    BY <1>2, <1>3, <1>5, HostMay
  <2>2. /\ Cmd("InquiryCancel").op = "InquiryCancel"
        /\ \A op : LinkCmd(op, h).op = op /\ LinkCmd(op, h).handle = h
    BY DEF Cmd, LinkCmd
  <2>3. \/ tx' = tx
        \/ \E p : /\ tx' = Append(tx, p) /\ p.op \in {"InquiryCancel", "Disconnect", "HidOutput"}
                  /\ p.op \in LinkPackets => p.handle = h
    BY <2>1, <2>2 DEF LinkPackets, AclPackets
  <2>4. {"InquiryCancel", "Disconnect", "HidOutput"} \subseteq IdlePackets
    BY DEF IdlePackets, LinkPackets, AclPackets
  <2>5. PacketsOf(h)'
    BY <1>2, <2>3, <2>4, PacketsKept
  <2>6. EventsOf(h)' /\ LossIsLast(h)'
    BY <1>2, <2>1, EventsKept, LossKept
  <2>7. SetUpOnce(h)'
    BY <1>2, <2>1, <2>3, SetUpKept
  <2> QED BY <1>2, <1>4, <2>1, <2>5, <2>6, <2>7
<1>6. CASE CommandFailed
  <2>1. Receive("CommandComplete") /\ UNCHANGED <<pendingFast, connected, table, tx, radioVars>>
    BY <1>6 DEF CommandFailed, ctxVars, sessionVars
  <2>2. PacketsOf(h)' /\ EventsOf(h)' /\ LossIsLast(h)'
    BY <1>2, <2>1, PacketsKept, EventsKept, LossKept DEF radioVars
  <2>3. SetUpOnce(h)'
    BY <1>2, <2>1, SetUpKept DEF radioVars
  <2> QED BY <1>2, <1>4, <2>1, <2>2, <2>3 DEF radioVars
<1>7. CASE L2capConnectionResponse
  <2>1. /\ Receive("L2capConnectionResponse") /\ UNCHANGED <<pendingFast, connected, radioVars>>
        /\ \/ /\ table' = Append(table, Head(rx).handle)
              /\ tx' = Append(tx, LinkCmd("L2capConfigurationRequest", Head(rx).handle))
           \/ UNCHANGED <<table, tx>>
    BY <1>7 DEF L2capConnectionResponse, ctxVars
  <2>2. 1 \in Heard({"L2capConnectionResponse"}) /\ 1 \in Heard(LinkEvents) /\ Head(rx) = rx[1]
    BY <2>1, EventTaken DEF Heard, LinkEvents
  <2>3. Head(rx).handle = h
    BY <1>2, <2>2 DEF EventsOf
  <2>4. table = <<>> /\ Sent({"L2capConnectionRequest"}) = {} /\ ~connected
    BY <1>2, <2>2 DEF SetUpOnce
  <2>5. EventsOf(h)' /\ LossIsLast(h)'
    BY <1>2, <2>1, EventsKept, LossKept DEF radioVars
  <2>6. CASE UNCHANGED <<table, tx>>
    <3>1. PacketsOf(h)'
      BY <1>2, <2>6, PacketsKept
    <3>2. SetUpOnce(h)'
      BY <1>2, <2>1, <2>6, SetUpKept DEF radioVars
    <3> QED BY <1>2, <1>4, <2>1, <2>5, <3>1, <3>2 DEF radioVars
  <2>7. CASE table' = <<h>> /\ tx' = Append(tx, LinkCmd("L2capConfigurationRequest", h))
    <3>1. /\ LinkCmd("L2capConfigurationRequest", h).op = "L2capConfigurationRequest"
          /\ LinkCmd("L2capConfigurationRequest", h).handle = h
      BY DEF LinkCmd
    <3>2. PacketsOf(h)'
      BY <1>2, <2>7, <3>1, PacketsKept DEF IdlePackets, LinkPackets, AclPackets
    <3>3. Sent({"L2capConnectionRequest"})' = {}
      BY <2>4, <2>7, <3>1, SentAdded
    <3>4. Heard({"L2capConnectionResponse"})' = {}
      BY <1>2, <2>1, HeardTaken DEF SetUpOnce
    <3>5. SetUpOnce(h)'
      BY <2>7, <3>3, <3>4 DEF SetUpOnce, AtMostOne
    <3> QED BY <1>2, <1>4, <2>1, <2>5, <3>2, <3>5 DEF radioVars
  <2>8. Append(<<>>, h) = <<h>>
    OBVIOUS
  <2> QED BY <2>1, <2>3, <2>4, <2>6, <2>7, <2>8
<1>8. CASE L2capConfigurationRequest
  <2>1. /\ Receive("L2capConfigurationRequest") /\ UNCHANGED <<pendingFast, connected, table, radioVars>>
        /\ tx' = IF InTable(Head(rx).handle)
                 THEN Append(tx, LinkCmd("L2capConfigurationResponse", Head(rx).handle)) ELSE tx
    BY <1>8 DEF L2capConfigurationRequest, ctxVars, sessionVars
  <2>2. 1 \in Heard(LinkEvents) /\ Head(rx) = rx[1]
    BY <2>1, EventTaken DEF Heard, LinkEvents
  <2>3. Head(rx).handle = h
    BY <1>2, <2>2 DEF EventsOf
  <2>4. EventsOf(h)' /\ LossIsLast(h)'
    BY <1>2, <2>1, EventsKept, LossKept DEF radioVars
  <2>5. CASE ~InTable(h)
    <3>1. PacketsOf(h)'
      BY <1>2, <2>1, <2>3, <2>5, PacketsKept
    <3>2. SetUpOnce(h)'
      BY <1>2, <2>1, <2>3, <2>5, SetUpKept DEF radioVars
    <3> QED BY <1>2, <1>4, <2>1, <2>4, <3>1, <3>2 DEF radioVars
  <2>6. CASE InTable(h)
    <3>1. /\ LinkCmd("L2capConfigurationResponse", h).op = "L2capConfigurationResponse"
          /\ LinkCmd("L2capConfigurationResponse", h).handle = h
      BY DEF LinkCmd
    <3>2. table # <<>> /\ tx' = Append(tx, LinkCmd("L2capConfigurationResponse", h))
      BY <2>1, <2>3, <2>6 DEF InTable
    <3>3. PacketsOf(h)'
      BY <1>2, <3>1, <3>2, PacketsKept DEF IdlePackets, LinkPackets, AclPackets
    <3>4. SetUpOnce(h)'
      BY <1>2, <2>1, <3>1, <3>2, SetUpKept DEF radioVars
    <3> QED BY <1>2, <1>4, <2>1, <2>4, <3>3, <3>4 DEF radioVars
  <2> QED BY <2>5, <2>6
<1>9. CASE InputReport
  <2>1. /\ Receive("InputReport") /\ UNCHANGED <<pendingFast, table, radioVars>>
        /\ \E n \in Nat : tx' = tx \o HidOutputs(Head(rx).handle, n)
    <3> DEFINE greeting == IF connected THEN 0 ELSE IF UseAccelerometer THEN 3 ELSE 2
    <3>1. \A extension \in 0..1 : greeting + extension \in Nat
      OBVIOUS
    <3>2. \E extension \in 0..1 : tx' = tx \o HidOutputs(Head(rx).handle, greeting + extension)
      BY <1>9, Zenon DEF InputReport
    <3>3. Receive("InputReport") /\ UNCHANGED <<pendingFast, table, radioVars>>
      BY <1>9 DEF InputReport
    <3> HIDE DEF greeting
    <3> QED BY <3>1, <3>2, <3>3
  <2>2. 1 \in Heard({"InputReport"}) /\ 1 \in Heard(LinkEvents) /\ Head(rx) = rx[1]
    BY <2>1, EventTaken DEF Heard, LinkEvents
  <2>3. Head(rx).handle = h /\ table # <<>>
    BY <1>2, <2>2 DEF EventsOf, SetUpOnce
  <2>4. EventsOf(h)' /\ LossIsLast(h)'
    BY <1>2, <2>1, EventsKept, LossKept DEF radioVars
  <2>5. PICK n \in Nat : tx' = tx \o HidOutputs(h, n)
    BY <2>1, <2>3
  <2>6. PacketsOf(h)' /\ Sent({"L2capConnectionRequest"})' = Sent({"L2capConnectionRequest"})
    BY <1>2, <2>5, OutputsAdded
  <2>7. /\ AtMostOne(Heard({"L2capConnectionResponse"})')
        /\ Heard({"L2capConnectionResponse"}) = {} => Heard({"L2capConnectionResponse"})' = {}
    BY <1>2, <2>1, HeardTaken DEF SetUpOnce
  <2>8. SetUpOnce(h)'
    BY <1>2, <2>1, <2>3, <2>6, <2>7 DEF SetUpOnce, AtMostOne
  <2> QED BY <1>2, <1>4, <2>1, <2>4, <2>6, <2>8 DEF radioVars
<1>10. CASE DisconnectionComplete
  <2>1. /\ Receive("DisconnectionComplete") /\ UNCHANGED <<pendingFast, radioVars>> /\ scanned' = {}
        /\ connected' = FALSE /\ table' = <<>> /\ tx' = Append(tx, Cmd("Reset"))
    BY <1>10 DEF DisconnectionComplete, ResetDevice
  <2>2. 1 \in Heard({"DisconnectionComplete"})
    BY <2>1, EventTaken DEF Heard
  <2>3. Len(rx) = 1 /\ link[h] = NoDevice /\ chan[h] = {}
    BY <1>2, <2>2 DEF LossIsLast
  <2>4. HearsOnly({})'
    BY <2>1, <2>3, EventTaken DEF HearsOnly
  <2>5. NoSession' /\ RadioQuiet'
    BY <1>2, <2>1, <2>3 DEF NoSession, RadioQuiet, radioVars
  <2>6. SendsOnly(IdlePackets) /\ Cmd("Reset").op = "Reset"
    BY <1>2 DEF PacketsOf, Cmd
  <2> QED BY <1>1, <1>2, <2>1, <2>4, <2>5, <2>6, SearchStarts DEF InitCommands
<1>11. CASE HandleEvent
  <2>1. 1 \in DOMAIN rx /\ (rx[1].ev \in LinkEvents \/ Failed(1))
    <3>1. rx # <<>>
      BY <1>11, HandlersRead DEF HandleEvent
    <3> QED BY <1>2, <3>1, EmptyOrFirst DEF EventsOf, HearsOnly
  <2> QED BY <1>6, <1>7, <1>8, <1>9, <1>10, <1>11, <2>1, HandlersRead DEF HandleEvent, LinkEvents,
        PageEvents, Failed
<1>12. CASE CtlInquiryCancel
  <2>1. Submit("InquiryCancel") /\ inquiring' = FALSE
        /\ UNCHANGED <<pendingFast, connected, table, rx, paging, naming, link, chan>>
    BY <1>12 DEF CtlInquiryCancel, hostVars, ctxVars, sessionVars
  <2>2. PacketsOf(h)' /\ EventsOf(h)' /\ LossIsLast(h)'
    BY <1>2, <2>1, PacketsKept, EventsKept, LossKept
  <2>3. SetUpOnce(h)'
    BY <1>2, <2>1, SetUpKept
  <2> QED BY <1>2, <1>4, <2>1, <2>2, <2>3
<1>13. ASSUME NEW op \in LinkPackets, Submit(op)
       PROVE  1 \in Sent({op}) /\ Head(tx).handle = h
  <2>1. 1 \in DOMAIN tx /\ tx[1].op = op /\ Head(tx) = tx[1]
    BY <1>13, PacketTaken
  <2> QED BY <1>2, <1>13, <2>1 DEF PacketsOf, Sent
<1>14. CASE CtlDisconnect
  <2>1. /\ Submit("Disconnect") /\ UNCHANGED <<pendingFast, connected, table, inquiring, paging, naming>>
        /\ IF link[Head(tx).handle] # NoDevice THEN Drop(Head(tx).handle) ELSE UNCHANGED <<rx, link, chan>>
    BY <1>14 DEF CtlDisconnect, hostVars, ctxVars, sessionVars
  <2>2. Head(tx).handle = h
    BY <1>13, <2>1 DEF LinkPackets
  <2>3. PacketsOf(h)'
    BY <1>2, <2>1, PacketsKept
  <2>4. CASE UNCHANGED <<rx, link, chan>>
    <3>1. EventsOf(h)' /\ LossIsLast(h)'
      BY <1>2, <2>4, EventsKept, LossKept
    <3>2. SetUpOnce(h)'
      BY <1>2, <2>1, <2>4, SetUpKept
    <3> QED BY <1>2, <1>4, <2>1, <2>3, <2>4, <3>1, <3>2
  <2>5. CASE link[h] # NoDevice /\ Drop(h)
    <3>1. /\ rx' = Append(rx, LinkEvent("DisconnectionComplete", TRUE, h))
          /\ link'[h] = NoDevice /\ chan'[h] = {}
          /\ \A g \in Handles \ {h} : link'[g] = link[g] /\ chan'[g] = chan[g]
      BY <2>5 DEF Drop, LinkTypes
    <3>2. /\ LinkEvent("DisconnectionComplete", TRUE, h).ev = "DisconnectionComplete"
          /\ LinkEvent("DisconnectionComplete", TRUE, h).handle = h
      BY DEF LinkEvent
    <3>3. PICK e : rx' = Append(rx, e) /\ e.ev = "DisconnectionComplete" /\ e.handle = h
      BY <3>1, <3>2, Zenon
    <3>4. EventsOf(h)'
      BY <1>2, <3>3, EventsKept DEF LinkEvents
    <3>5. SetUpOnce(h)'
      BY <1>2, <2>1, <3>1, <3>3, SetUpKept
    <3>6. Heard({"DisconnectionComplete"}) = {}
      BY <1>2, <2>5 DEF LossIsLast
    <3>7. Heard({"DisconnectionComplete"})' = {Len(rx')}
      BY <3>3, <3>6, HeardAdded, EventAdded
    <3>8. LossIsLast(h)'
      BY <3>1, <3>7 DEF LossIsLast
    <3> QED BY <1>2, <1>4, <2>1, <2>3, <3>1, <3>4, <3>5, <3>8
  <2> QED BY <2>1, <2>2, <2>4, <2>5
<1>15. CASE WiimoteAcceptsChannel
  <2>1. /\ Submit("L2capConnectionRequest") /\ UNCHANGED <<pendingFast, connected, table, radioVars>>
        /\ \/ /\ link[Head(tx).handle] # NoDevice
              /\ rx' = rx \o <<LinkEvent("L2capConnectionResponse", TRUE, Head(tx).handle),
                              LinkEvent("L2capConfigurationRequest", TRUE, Head(tx).handle)>>
           \/ /\ link[Head(tx).handle] # NoDevice
              /\ rx' = Append(rx, LinkEvent("L2capConnectionResponse", FALSE, Head(tx).handle))
           \/ UNCHANGED rx
    BY <1>15 DEF WiimoteAcceptsChannel, hostVars, ctxVars, sessionVars
  <2>2. Head(tx).handle = h /\ 1 \in Sent({"L2capConnectionRequest"})
    BY <1>13, <2>1 DEF LinkPackets, AclPackets
  <2>3. /\ Heard({"L2capConnectionResponse"}) = {} /\ table = <<>> /\ ~connected /\ chan[h] = {}
        /\ Heard({"InputReport"}) = {}
        /\ Sent({"L2capConfigurationRequest", "L2capConfigurationResponse"}) = {}
    BY <1>2, <2>2 DEF SetUpOnce
  <2>4. /\ Sent({"L2capConnectionRequest"})' = {}
        /\ Sent({"L2capConfigurationRequest", "L2capConfigurationResponse"})' = {}
    BY <1>2, <2>1, <2>3, SentTaken DEF SetUpOnce
  <2>5. PacketsOf(h)'
    BY <1>2, <2>1, PacketsKept
  <2>6. ASSUME AtMostOne(Heard({"L2capConnectionResponse"})'), Heard({"InputReport"})' = {}
        PROVE  SetUpOnce(h)'
    BY <2>1, <2>3, <2>4, <2>6 DEF SetUpOnce, AtMostOne, radioVars
  <2>7. CASE UNCHANGED rx
    <3>1. EventsOf(h)' /\ LossIsLast(h)'
      BY <1>2, <2>1, <2>7, EventsKept, LossKept DEF radioVars
    <3>2. SetUpOnce(h)'
      BY <1>2, <2>1, <2>7, SetUpKept DEF radioVars
    <3> QED BY <1>2, <1>4, <2>1, <2>5, <3>1, <3>2 DEF radioVars
  <2>8. CASE link[h] # NoDevice /\ rx' = Append(rx, LinkEvent("L2capConnectionResponse", FALSE, h))
    <3>1. /\ LinkEvent("L2capConnectionResponse", FALSE, h).ev = "L2capConnectionResponse"
          /\ LinkEvent("L2capConnectionResponse", FALSE, h).handle = h
      BY DEF LinkEvent
    <3>2. PICK e : rx' = Append(rx, e) /\ e.ev = "L2capConnectionResponse" /\ e.handle = h
      BY <2>8, <3>1, Zenon
    <3>3. EventsOf(h)' /\ LossIsLast(h)'
      BY <1>2, <2>1, <2>8, <3>2, EventsKept, LossKept DEF radioVars, LinkEvents
    <3>4. SetUpOnce(h)'
      BY <2>3, <2>6, <3>2, HeardAdded DEF AtMostOne
    <3> QED BY <1>2, <1>4, <2>1, <2>5, <3>3, <3>4 DEF radioVars
  <2>9. ASSUME NEW a \in HostEvent(Wiimotes), NEW b \in HostEvent(Wiimotes), rx' = rx \o <<a, b>>,
               a.ev = "L2capConnectionResponse", b.ev = "L2capConfigurationRequest",
               a.handle = h, b.handle = h, link[h] # NoDevice
        PROVE  SessionAt(h)'
    <3>1. PICK k \in Nat :
            /\ \A i \in DOMAIN rx : i \in DOMAIN rx' /\ rx'[i] = rx[i] /\ i < k
            /\ \A i \in DOMAIN rx' : i \in DOMAIN rx \/ i = k \/ i = k + 1
            /\ rx'[k] = a /\ rx'[k + 1] = b
      <4>1. PICK n \in Nat : n = Len(rx) + 1
        OBVIOUS
      <4>2. rx \in Seq(HostEvent(Wiimotes))
        OBVIOUS
      <4>3. rx' = rx \o <<a, b>>
        BY <2>9
      <4> HIDE DEF SessionType, QueueTypes
      <4>4. /\ \A i \in DOMAIN rx : i \in DOMAIN rx' /\ rx'[i] = rx[i] /\ i < n
            /\ \A i \in DOMAIN rx' : i \in DOMAIN rx \/ i = n \/ i = n + 1
            /\ rx'[n] = a /\ rx'[n + 1] = b
        BY ONLY <4>1, <4>2, <4>3, EventsAdded
      <4> QED BY <4>4
    <3>2. /\ Heard({"L2capConnectionResponse"})' \subseteq Heard({"L2capConnectionResponse"}) \cup {k}
          /\ Heard({"InputReport"})' \subseteq Heard({"InputReport"})
          /\ Heard({"DisconnectionComplete"})' \subseteq Heard({"DisconnectionComplete"})
      BY <2>9, <3>1 DEF Heard
    <3>3. SetUpOnce(h)'
      BY <2>3, <2>6, <3>2 DEF AtMostOne
    <3>4. LossIsLast(h)'
      BY <1>2, <2>1, <2>9, <3>2 DEF LossIsLast, radioVars
    <3>5. EventsOf(h)'
      <4>1. \A i \in DOMAIN rx' : \/ i \in DOMAIN rx /\ rx'[i] = rx[i]
                                  \/ rx'[i].ev \in LinkEvents /\ rx'[i].handle = h
        BY <2>9, <3>1 DEF LinkEvents
      <4> QED BY <1>2, <4>1 DEF EventsOf, HearsOnly, Heard, Failed
    <3> QED BY <1>2, <1>4, <2>1, <2>5, <3>3, <3>4, <3>5 DEF radioVars
  <2>10. CASE /\ link[h] # NoDevice
              /\ rx' = rx \o <<LinkEvent("L2capConnectionResponse", TRUE, h),
                              LinkEvent("L2capConfigurationRequest", TRUE, h)>>
    <3>1. /\ LinkEvent("L2capConnectionResponse", TRUE, h) \in HostEvent(Wiimotes)
          /\ LinkEvent("L2capConfigurationRequest", TRUE, h) \in HostEvent(Wiimotes)
      BY EventTypes DEF LinkEvents
    <3>2. /\ LinkEvent("L2capConnectionResponse", TRUE, h).ev = "L2capConnectionResponse"
          /\ LinkEvent("L2capConfigurationRequest", TRUE, h).ev = "L2capConfigurationRequest"
          /\ LinkEvent("L2capConnectionResponse", TRUE, h).handle = h
          /\ LinkEvent("L2capConfigurationRequest", TRUE, h).handle = h
      BY DEF LinkEvent
    <3> QED BY <2>9, <2>10, <3>1, <3>2, Zenon
  <2> QED BY <2>1, <2>2, <2>7, <2>8, <2>10
<1>16. CASE WiimoteTakesPacket
  <2>1. PICK op \in {"L2capConfigurationRequest", "L2capConfigurationResponse", "HidOutput"} :
          /\ Submit(op)
          /\ chan' = IF link[Head(tx).handle] # NoDevice /\ op # "HidOutput"
                     THEN [chan EXCEPT ![Head(tx).handle] = @ \cup {op}] ELSE chan
    BY <1>16 DEF WiimoteTakesPacket
  <2>2. UNCHANGED <<pendingFast, connected, table, rx, inquiring, paging, naming, link>>
    BY <1>16 DEF WiimoteTakesPacket, hostVars, ctxVars, sessionVars
  <2>3. Head(tx).handle = h /\ 1 \in Sent({op})
    BY <1>13, <2>1 DEF LinkPackets, AclPackets
  <2>4. op # "HidOutput" => table # <<>>
    BY <1>2, <2>1, <2>3 DEF SetUpOnce, Sent
  <2>5. /\ \A g \in Handles \ {h} : chan'[g] = chan[g]
        /\ chan'[h] = chan[h] \/ (link[h] # NoDevice /\ table # <<>>)
    BY <2>1, <2>3, <2>4 DEF LinkTypes
  <2>6. PacketsOf(h)' /\ EventsOf(h)'
    BY <1>2, <2>1, <2>2, PacketsKept, EventsKept
  <2>7. SetUpOnce(h)'
    BY <1>2, <2>1, <2>2, <2>5, SetUpKept
  <2>8. LossIsLast(h)'
    BY <1>2, <2>2, <2>5 DEF LossIsLast, Heard
  <2> QED BY <1>2, <1>4, <2>2, <2>5, <2>6, <2>7, <2>8
<1>17. CASE ControllerStep
  <2>1. tx[1].op \in IdlePackets
    BY <1>2, <1>17, ControllerTakes DEF PacketsOf, SendsOnly
  <2> QED BY <1>12, <1>14, <1>15, <1>16, <1>17, <2>1, ControllerTakes DEF ControllerStep,
        IdlePackets,
        LinkPackets, AclPackets, InitCommands
<1>18. CASE WiimoteReports
  <2>1. PICK g \in Handles : ChannelOpen(g) /\ rx' = Append(rx, LinkEvent("InputReport", TRUE, g))
    BY <1>18 DEF WiimoteReports
  <2>2. UNCHANGED <<pendingFast, connected, table, tx, radioVars>>
    BY <1>18 DEF WiimoteReports, hostVars, ctxVars, sessionVars
  <2>3. g = h /\ table # <<>> /\ link[h] # NoDevice
    BY <1>2, <2>1 DEF ChannelOpen, SetUpOnce, LossIsLast
  <2>4. LinkEvent("InputReport", TRUE, h).ev = "InputReport" /\ LinkEvent("InputReport", TRUE, h).handle = h
    BY DEF LinkEvent
  <2>5. PICK e : rx' = Append(rx, e) /\ e.ev = "InputReport" /\ e.handle = h
    BY <2>1, <2>3, <2>4, Zenon
  <2>6. PacketsOf(h)' /\ EventsOf(h)' /\ LossIsLast(h)'
    BY <1>2, <2>2, <2>3, <2>5, PacketsKept, EventsKept, LossKept DEF radioVars, LinkEvents
  <2>7. SetUpOnce(h)'
    BY <1>2, <2>2, <2>3, <2>5, SetUpKept DEF radioVars
  <2> QED BY <1>2, <1>4, <2>2, <2>6, <2>7 DEF radioVars
<1>19. CASE RadioStep
  <2>1. ~LinkLost /\ ~InquiryFinds /\ ~InquiryEnds /\ ~NameResolves /\ ~PageEnds
    BY <1>2 DEF LinkLost, CalmPairing, InquiryFinds, InquiryEnds, NameResolves, PageEnds
  <2> QED BY <1>18, <1>19, <2>1 DEF RadioStep
<1> QED BY <1>1, <1>5, <1>11, <1>17, <1>19 DEF Next

----------------------------------------------------------------------------
(* The phases are the inductive invariant.                                 *)

\* The phases follow one another, and nothing else happens.
LEMMA PhasesKept ==
    ASSUME CalmPairing, SessionType(Wiimotes), Phases, [Next]_vars
    PROVE  Phases'
<1>1. CASE Next
  <2>1. CASE Off
    BY <1>1, <2>1, OffStep DEF Phases
  <2>2. CASE Starting
    BY <1>1, <2>2, StartingStep DEF Phases
  <2>3. CASE Answered
    BY <1>1, <2>3, AnsweredStep DEF Phases
  <2>4. CASE Discovering
    BY <1>1, <2>4, DiscoveringStep DEF Phases
  <2>5. CASE Restarting
    BY <1>1, <2>5, RestartingStep DEF Phases
  <2>6. ASSUME NEW h \in Handles, SessionAt(h)
        PROVE  Phases'
    BY <1>1, <2>6, SessionStep DEF Phases
  <2> QED BY <2>1, <2>2, <2>3, <2>4, <2>5, <2>6 DEF Phases
<1>2. CASE UNCHANGED vars
  <2> USE <1>2 DEF vars, ctxVars, sessionVars, radioVars
  <2>1. NoSession' = NoSession /\ RadioQuiet' = RadioQuiet
    BY DEF NoSession, RadioQuiet
  <2>2. /\ \A ops : Sent(ops)' = Sent(ops) /\ SendsOnly(ops)' = SendsOnly(ops)
        /\ \A before, k, after : Between(before, k, after)' = Between(before, k, after)
        /\ \A h : SetupSent(h)' = SetupSent(h)
    BY DEF Sent, SendsOnly, Between, SetupSent
  <2>3. /\ \A i : Failed(i)' = Failed(i)
        /\ \A evs : Heard(evs)' = Heard(evs) /\ HearsOnly(evs)' = HearsOnly(evs)
        /\ \A h : PageHeard(h)' = PageHeard(h)
    BY DEF Failed, Heard, HearsOnly, PageHeard
  <2> QED BY <2>1, <2>2, <2>3 DEF Phases, Off, Starting, Answered, Discovering, Restarting,
        SessionAt,
        FastAlone, OneAttempt, LinksAnnounced, Announced, ResultsAreKnown, Attempting,
        InquiryBeforePage,
        EventsInOrder, PacketsOf, EventsOf, SetUpOnce, LossIsLast
<1> QED BY <1>1, <1>2

\* Every reachable state is in one of the phases: one search, one attempt or one
\* session at a time, over the whole of hci_events.cpp and the L2CAP table.
THEOREM PhasesInvariant == ASSUME CalmPairing PROVE Spec => []Phases
<1>1. Init => Phases
  BY DEF Init, Phases, Off, NoSession, RadioQuiet
<1>2. SessionType(Wiimotes) /\ Phases /\ [Next]_vars => Phases'
  BY PhasesKept
<1> QED BY <1>1, <1>2, TypeInvariant, PTL DEF Spec

\* The host never acts on a session whose link is gone, unless the loss is still
\* to be handled.
THEOREM SessionIsLiveInvariant == ASSUME CalmPairing PROVE Spec => []SessionIsLive
<1>1. SessionType(Wiimotes) /\ Phases => SessionIsLive
  <2> SUFFICES ASSUME SessionType(Wiimotes), Phases, NEW i \in DOMAIN table
               PROVE  link[table[i]] # NoDevice \/ LossAnnounced(table[i])
    BY DEF SessionIsLive
  <2>1. table # <<>>
    OBVIOUS
  <2>2. PICK h \in Handles : SessionAt(h)
    BY <2>1 DEF Phases, Off, Starting, Answered, Discovering, Restarting, NoSession
  <2>3. table[i] = h
    BY <2>1, <2>2 DEF SessionAt, SetUpOnce
  <2>4. ASSUME link[h] = NoDevice
        PROVE  LossAnnounced(h)
    BY <2>2, <2>4 DEF SessionAt, LossIsLast, EventsOf, Heard, LossAnnounced, LinkEvents
  <2> QED BY <2>3, <2>4
<1> QED BY <1>1, PhasesInvariant, TypeInvariant, PTL

\* A connected Wiimote has the entry of the table that output reports need.
THEOREM ConnectedHasSessionInvariant == ASSUME CalmPairing PROVE Spec => []ConnectedHasSession
<1>1. Phases => ConnectedHasSession
  BY DEF Phases, Off, Starting, Answered, Discovering, Restarting, NoSession, SessionAt, SetUpOnce,
         ConnectedHasSession
<1> QED BY <1>1, PhasesInvariant, PTL

\* The entries of earlier sessions are gone from the table when a Wiimote accepts
\* the channel of the next, whatever the size of the table.
THEOREM ChannelsFindRoomInvariant == ASSUME CalmPairing PROVE Spec => []ChannelsFindRoom
<1>1. Phases => (Heard({"L2capConnectionResponse"}) # {} => table = <<>>)
  BY DEF Phases, Off, Starting, Answered, Discovering, Restarting, NoSession, SessionAt, SetUpOnce
<1>2. Len(<<>>) < MaxTable
  BY Constants
<1>3. Phases => ChannelsFindRoom
  BY <1>1, <1>2 DEF ChannelsFindRoom
<1> QED BY <1>3, PhasesInvariant, PTL

\* While a fast reconnect is pending its page is the only one under way, so that
\* the failure that starts the fallback is its own.
THEOREM FallbackAnswersItsPageInvariant ==
    ASSUME CalmPairing PROVE Spec => []FallbackAnswersItsPage
<1>1. ASSUME SessionType(Wiimotes), Phases, FastReconnectTarget, pendingFast
      PROVE  target = last /\ \E p \in Pages : Pages = {p} /\ p.dev = target
  <2> DEFINE sent == {[in |-> "tx", at |-> i, dev |-> tx[i].dev] : i \in Sent({"CreateConnection"})}
             radio == {[in |-> "radio", at |-> 0, dev |-> d] : d \in {paging} \ {NoDevice}}
             heard == {[in |-> "rx", at |-> i, dev |-> rx[i].dev] : i \in Heard(PageEvents)}
  <2>1. Pages = sent \cup radio \cup heard
    BY DEF Pages
  <2>2. target = last /\ target \in Wiimotes
    BY <1>1 DEF FastReconnectTarget, SessionType, DeviceTypes
  <2>3. \A d \in Wiimotes : d = target
    BY <2>2 DEF CalmPairing
  <2>4. \/ /\ \E k \in DOMAIN tx : Sent({"CreateConnection"}) = {k} /\ tx[k].dev = target
           /\ paging = NoDevice /\ Heard(PageEvents) = {}
        \/ /\ Sent({"CreateConnection"}) = {} /\ paging = target
           /\ target # NoDevice /\ Heard(PageEvents) = {}
        \/ /\ Sent({"CreateConnection"}) = {} /\ paging = NoDevice
           /\ \E k \in DOMAIN rx : Heard(PageEvents) = {k} /\ rx[k].dev = target
    <3>1. CASE Starting
      <4>1. PICK k \in DOMAIN tx : tx[k].op = "CreateConnection" /\ Between(IdlePackets, k, {"InquiryCancel"})
        BY <1>1, <3>1 DEF Starting, Sent, SendsOnly
      <4>2. Sent({"CreateConnection"}) = {k}
        BY <1>1, <4>1 DEF Sent, Between, IdlePackets, LinkPackets, AclPackets, SessionType, QueueTypes
      <4>3. tx[k].dev \in Wiimotes
        <5>1. tx[k] \in HostPacket(Wiimotes)
          BY <1>1, <4>1 DEF SessionType, QueueTypes
        <5> QED BY <4>1, <5>1 DEF HostPacket, HciCommands, DevicePackets, LinkPackets, AclPackets
      <4>4. paging = NoDevice /\ Heard(PageEvents) = {}
        BY <3>1 DEF Starting, RadioQuiet, HearsOnly, Failed, Heard, PageEvents
      <4> QED BY <2>3, <4>1, <4>2, <4>3, <4>4
    <3>2. CASE Discovering
      <4>1. Sent({"CreateConnection"}) = {}
        BY <1>1, <3>2 DEF Discovering, FastAlone, SendsOnly, Sent
      <4>2. CASE paging # NoDevice
        <5>1. Heard(PageEvents) = {}
          BY <3>2, <4>2 DEF Discovering, OneAttempt, Heard, PageEvents, AttemptEvents
        <5>2. paging \in Wiimotes /\ target # NoDevice
          BY <1>1, <2>2, <4>2, Constants DEF SessionType, DeviceTypes
        <5> QED BY <2>3, <4>1, <5>1, <5>2
      <4>3. CASE paging = NoDevice
        <5>1. PICK k \in DOMAIN rx : rx[k].ev \in PageEvents
          BY <1>1, <3>2, <4>3 DEF Discovering, FastAlone, Heard
        <5>2. Heard(PageEvents) = {k}
          BY <3>2, <5>1 DEF Discovering, OneAttempt, AtMostOne, Heard, PageEvents, AttemptEvents
        <5>3. rx[k].dev \in Wiimotes
          <6>1. rx[k] \in HostEvent(Wiimotes)
            BY <1>1, <5>1 DEF SessionType, QueueTypes
          <6> QED BY <5>1, <6>1 DEF HostEvent, PageEvents, LinkEvents
        <5> QED BY <2>3, <4>1, <4>3, <5>2, <5>3
      <4> QED BY <4>2, <4>3
    <3> QED BY <1>1, <3>1, <3>2 DEF Phases, Off, Answered, Restarting, SessionAt
  <2>5. \E p \in Pages : Pages = {p} /\ p.dev = target
    <3>1. ASSUME NEW k, Sent({"CreateConnection"}) = {k}, tx[k].dev = target,
                 paging = NoDevice, Heard(PageEvents) = {}
          PROVE  Pages = {[in |-> "tx", at |-> k, dev |-> target]}
      BY <2>1, <3>1
    <3>2. ASSUME Sent({"CreateConnection"}) = {}, paging = target,
                 target # NoDevice, Heard(PageEvents) = {}
          PROVE  Pages = {[in |-> "radio", at |-> 0, dev |-> target]}
      BY <2>1, <3>2
    <3>3. ASSUME Sent({"CreateConnection"}) = {}, paging = NoDevice,
                 NEW k, Heard(PageEvents) = {k}, rx[k].dev = target
          PROVE  Pages = {[in |-> "rx", at |-> k, dev |-> target]}
      BY <2>1, <3>3
    <3>4. \A place, k : Pages = {[in |-> place, at |-> k, dev |-> target]}
             => \E p \in Pages : Pages = {p} /\ p.dev = target
      OBVIOUS
    <3> HIDE DEF Pages
    <3>5. CASE Heard(PageEvents) = {} /\ paging = NoDevice
      BY <2>4, <3>1, <3>4, <3>5
    <3>6. CASE Heard(PageEvents) = {} /\ paging # NoDevice
      BY <2>4, <3>2, <3>4, <3>6
    <3>7. CASE Heard(PageEvents) # {}
      BY <2>4, <3>3, <3>4, <3>7
    <3> QED BY <3>5, <3>6, <3>7
  <2> QED BY <2>2, <2>5
<1>2. SessionType(Wiimotes) /\ Phases /\ FastReconnectTarget => FallbackAnswersItsPage
  BY <1>1 DEF FallbackAnswersItsPage
<1> QED BY <1>2, TypeInvariant, PhasesInvariant, FastReconnectTargetInvariant, PTL

=============================================================================
