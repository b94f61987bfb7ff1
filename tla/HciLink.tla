------------------------------ MODULE HciLink ------------------------------
(***************************************************************************)
(* The Bluetooth session core: the HCI event state machine                 *)
(* (tinywiimote/hci/hci_events.cpp), the L2CAP connection table and        *)
(* signalling (tinywiimote/l2cap/), and the session commands and ACL       *)
(* dispatch of TinyWiimote.cpp, running against a Bluetooth controller and *)
(* the Wiimotes it reaches.                                                *)
(*                                                                         *)
(* The host and the controller talk through two FIFOs: tx (HCI commands    *)
(* and ACL packets) and rx (HCI events and ACL packets).  The main loop    *)
(* handles one rx packet per step, a whole handler at a time; the sketch's *)
(* commands run in the same loop, between two packets.                     *)
(*                                                                         *)
(* A device stands for its BD_ADDR, page-scan mode and clock offset; a     *)
(* packet carries only what the handlers and the controller tell apart.    *)
(***************************************************************************)
EXTENDS Integers, Sequences, FiniteSets

CONSTANTS
    Devices,        \* the devices in radio range
    Wiimotes,       \* those whose class of device is 04 25 00
    NoDevice,       \* hasLastWiimote or hasCurrentConnectTarget is false
    Handles,        \* the connection handles the controller gives out
    NoHandle,
    MaxScanned,     \* kHciScannedDeviceListSize
    MaxTable,       \* L2CAP_CONNECTION_LIST_SIZE
    UseAccelerometer,  \* tinyWiimoteReqAccelerometer, set before the session
    Commands,       \* the sketch commands the application may issue
    Faults,         \* the failures the controller and the radio may produce
    MaxTx, MaxRx    \* bounds on what the sketch and the radio add on their own

SketchCommands == {"setScanEnabled", "startDiscovery", "stopDiscovery", "disconnect",
                   "setAutoReconnect", "clearReconnectCache", "output"}
RadioFaults == {"status",   \* a command completes with an error status
                "page",     \* a page ends in Connection Complete with an error
                "name",     \* a remote name is not "Nintendo RVL-CNT-01"
                "loss",     \* an established link drops
                "l2cap"}    \* an L2CAP connection is refused or pending

ASSUME HciLinkAssumption ==
    /\ Wiimotes \subseteq Devices
    /\ NoDevice \notin Devices
    /\ NoHandle \notin Handles
    /\ MaxScanned \in Nat /\ MaxTable \in Nat \ {0}
    /\ MaxTx \in Nat /\ MaxRx \in Nat
    /\ UseAccelerometer \in BOOLEAN
    /\ Commands \subseteq SketchCommands
    /\ Faults \subseteq RadioFaults

VARIABLES
    inited,         \* ctx.deviceInited
    btReset,        \* the Bluetooth task is between the two halves of tinyWiimoteResetDevice
    scanning,       \* ctx.scanningEnabled
    autoReconnect,  \* ctx.autoReconnectEnabled
    pendingFast,    \* ctx.pendingFastReconnect
    target,         \* ctx.currentConnectTarget, NoDevice before the first
    last,           \* ctx.lastWiimote, NoDevice when there is none
    fresh,          \* now - lastWiimoteSeenMs (mod 2^32) is within fastReconnectTtlMs
    scanned,        \* ctx.scannedDevices
    connected,      \* wiimoteState.isConnected()
    table,          \* l2capConnections: the handles, in order of arrival
    tx, rx,         \* host to controller, controller to host
    inquiring,      \* the controller runs an inquiry
    paging,         \* the device it pages, or NoDevice
    naming,         \* the remote names it still resolves
    link,           \* the device behind each handle, or NoDevice
    chan            \* what the Wiimote has seen of the channel's configuration

ctxVars == <<inited, btReset, scanning, autoReconnect, pendingFast, target, last, fresh, scanned>>
sessionVars == <<connected, table>>
radioVars == <<inquiring, paging, naming, link, chan>>
vars == <<ctxVars, sessionVars, tx, rx, radioVars>>

----------------------------------------------------------------------------
(* Packets.                                                                *)

HciCommands == {"Reset", "ReadBdAddr", "WriteLocalName", "WriteClassOfDevice",
                "WriteScanEnable", "Inquiry", "InquiryCancel", "RemoteNameRequest",
                "CreateConnection", "Disconnect"}
AclPackets == {"L2capConnectionRequest", "L2capConfigurationRequest",
               "L2capConfigurationResponse", "HidOutput"}
DevicePackets == {"RemoteNameRequest", "CreateConnection"}
LinkPackets == AclPackets \cup {"Disconnect"}

\* the packets to the controller that name devices of D only
HostPacket(D) ==
    [op : HciCommands \ (DevicePackets \cup LinkPackets), dev : {NoDevice}, handle : {NoHandle}]
    \cup [op : DevicePackets, dev : D, handle : {NoHandle}]
    \cup [op : LinkPackets, dev : {NoDevice}, handle : Handles]

Cmd(op) == [op |-> op, dev |-> NoDevice, handle |-> NoHandle]
DeviceCmd(op, d) == [op |-> op, dev |-> d, handle |-> NoHandle]
LinkCmd(op, h) == [op |-> op, dev |-> NoDevice, handle |-> h]

LinkEvents == {"DisconnectionComplete", "L2capConnectionResponse",
               "L2capConfigurationRequest", "InputReport"}

\* The events and ACL packets to the host; those that answer a name request or
\* a page concern devices of D only.  "ConnectRefused" is the Command Status
\* event of Create Connection with an error; of every other Command Status the
\* host only logs the error.
HostEvent(D) ==
    [ev : {"CommandComplete"}, op : HciCommands, ok : BOOLEAN, dev : {NoDevice}, handle : {NoHandle}]
    \cup [ev : {"InquiryComplete"}, op : {"none"}, ok : {TRUE}, dev : {NoDevice}, handle : {NoHandle}]
    \cup [ev : {"InquiryResult"}, op : {"none"}, ok : {TRUE}, dev : Devices, handle : {NoHandle}]
    \cup [ev : {"RemoteName"}, op : {"none"}, ok : BOOLEAN, dev : D, handle : {NoHandle}]
    \cup [ev : {"ConnectRefused", "ConnectionComplete"}, op : {"none"}, ok : {FALSE},
          dev : D, handle : {NoHandle}]
    \cup [ev : {"ConnectionComplete"}, op : {"none"}, ok : {TRUE}, dev : D, handle : Handles]
    \cup [ev : LinkEvents, op : {"none"}, ok : BOOLEAN, dev : {NoDevice}, handle : Handles]

Completed(op, ok) ==
    [ev |-> "CommandComplete", op |-> op, ok |-> ok, dev |-> NoDevice, handle |-> NoHandle]
DeviceEvent(ev, ok, d) ==
    [ev |-> ev, op |-> "none", ok |-> ok, dev |-> d, handle |-> NoHandle]
LinkEvent(ev, ok, h) ==
    [ev |-> ev, op |-> "none", ok |-> ok, dev |-> NoDevice, handle |-> h]
Paged(d, h) ==
    [ev |-> "ConnectionComplete", op |-> "none", ok |-> TRUE, dev |-> d, handle |-> h]

InTable(h) == \E i \in DOMAIN table : table[i] = h

\* what the sketch and the radio do on their own waits for room in both queues
Room == Len(rx) < MaxRx /\ Len(tx) < MaxTx

\* WiimoteProtocol's senders: nothing leaves without a table entry for the handle.
HidOutputs(h, n) == IF InTable(h) THEN [i \in 1..n |-> LinkCmd("HidOutput", h)] ELSE <<>>

----------------------------------------------------------------------------
Init ==
    /\ inited = FALSE /\ btReset = FALSE /\ scanning = FALSE /\ autoReconnect = TRUE
    /\ pendingFast = FALSE /\ target = NoDevice /\ last = NoDevice /\ fresh = FALSE
    /\ scanned = {} /\ connected = FALSE /\ table = <<>>
    /\ tx = <<>> /\ rx = <<>>
    /\ inquiring = FALSE /\ paging = NoDevice /\ naming = {}
    /\ link = [h \in Handles |-> NoDevice] /\ chan = [h \in Handles |-> {}]

----------------------------------------------------------------------------
(* Pieces of the event handlers.                                           *)

Receive(ev) == rx # <<>> /\ Head(rx).ev = ev /\ rx' = Tail(rx)

ResetDevice ==
    /\ scanned' = {}
    /\ scanning' = FALSE
    /\ tx' = Append(tx, Cmd("Reset"))

StartInquiry ==
    /\ scanned' = {}
    /\ tx' = Append(tx, Cmd("Inquiry"))

\* startCreateConnection, after the packets already queued by the handler
StartCreateConnection(before, d, isFast) ==
    /\ tx' = tx \o before \o <<DeviceCmd("CreateConnection", d)>>
    /\ target' = d
    /\ pendingFast' = isFast

FallBackToInquiry_Forgets ==
    pendingFast' = FALSE /\ UNCHANGED <<scanned, tx>>

FallBackToInquiry_KeepsFlag ==
    UNCHANGED pendingFast /\ IF pendingFast THEN StartInquiry ELSE UNCHANGED <<scanned, tx>>

FallBackToInquiry ==
    IF pendingFast
    THEN pendingFast' = FALSE /\ StartInquiry
    ELSE UNCHANGED <<pendingFast, scanned, tx>>

CacheIsValid == last # NoDevice /\ fresh

----------------------------------------------------------------------------
(* The Bluetooth task: the controller asks for data until deviceInited.    *)
(* tinyWiimoteResetDevice queues the Reset first and sets the flag after,  *)
(* while the main loop runs.                                               *)

BtTaskResets ==
    /\ ~inited /\ ~btReset
    /\ btReset' = TRUE
    /\ table' = <<>>
    /\ ResetDevice
    /\ UNCHANGED <<inited, autoReconnect, pendingFast, target, last, fresh, connected, rx, radioVars>>

BtTaskMarksInited ==
    /\ btReset
    /\ btReset' = FALSE
    /\ inited' = TRUE
    /\ UNCHANGED <<scanning, autoReconnect, pendingFast, target, last, fresh, scanned,
                   sessionVars, tx, rx, radioVars>>

----------------------------------------------------------------------------
(* handleCommandComplete.                                                  *)

\* the command the completion of each initialisation command sends
NextInitCommand == [Reset |-> "ReadBdAddr", ReadBdAddr |-> "WriteLocalName",
                    WriteLocalName |-> "WriteClassOfDevice",
                    WriteClassOfDevice |-> "WriteScanEnable"]

InitStepComplete_NoScanFlag ==
    /\ Receive("CommandComplete")
    /\ Head(rx).ok
    /\ Head(rx).op \in DOMAIN NextInitCommand
    /\ tx' = Append(tx, Cmd(NextInitCommand[Head(rx).op]))
    /\ UNCHANGED <<ctxVars, sessionVars, radioVars>>

InitStepComplete ==
    /\ Receive("CommandComplete")
    /\ Head(rx).ok
    /\ Head(rx).op \in DOMAIN NextInitCommand
    /\ tx' = Append(tx, Cmd(NextInitCommand[Head(rx).op]))
    /\ scanning' = (scanning \/ Head(rx).op = "WriteClassOfDevice")
    /\ UNCHANGED <<inited, btReset, autoReconnect, pendingFast, target, last, fresh, scanned,
                   sessionVars, radioVars>>

WriteScanEnableComplete ==
    /\ Receive("CommandComplete")
    /\ Head(rx).ok
    /\ Head(rx).op = "WriteScanEnable"
    /\ \/ /\ scanning \/ ~inited
          /\ autoReconnect /\ CacheIsValid
          /\ StartCreateConnection(<<>>, last, TRUE)
          /\ UNCHANGED scanned
       \/ /\ scanning \/ ~inited
          /\ ~(autoReconnect /\ CacheIsValid)
          /\ StartInquiry
          /\ UNCHANGED <<target, pendingFast>>
       \/ /\ ~scanning /\ inited
          /\ UNCHANGED <<tx, target, pendingFast, scanned>>
    /\ inited' = TRUE
    /\ UNCHANGED <<btReset, scanning, autoReconnect, last, fresh, sessionVars, radioVars>>

\* an error status is logged and nothing else happens
CommandFailed ==
    /\ Receive("CommandComplete")
    /\ ~Head(rx).ok
    /\ UNCHANGED <<ctxVars, sessionVars, tx, radioVars>>

----------------------------------------------------------------------------
(* The other HCI events.                                                   *)

InquiryComplete ==
    /\ Receive("InquiryComplete")
    /\ ResetDevice
    /\ UNCHANGED <<inited, btReset, autoReconnect, pendingFast, target, last, fresh,
                   sessionVars, radioVars>>

InquiryResult_AnyClass ==
    /\ Receive("InquiryResult")
    /\ scanned' = scanned \cup {Head(rx).dev}
    /\ tx' = Append(tx, DeviceCmd("RemoteNameRequest", Head(rx).dev))
    /\ UNCHANGED <<inited, btReset, scanning, autoReconnect, pendingFast, target, last, fresh,
                   sessionVars, radioVars>>

InquiryResult ==
    /\ Receive("InquiryResult")
    /\ LET d == Head(rx).dev IN
       \/ /\ d \notin scanned /\ Cardinality(scanned) < MaxScanned
          /\ scanned' = scanned \cup {d}
          /\ tx' = IF d \in Wiimotes THEN Append(tx, DeviceCmd("RemoteNameRequest", d)) ELSE tx
       \/ /\ d \in scanned \/ Cardinality(scanned) >= MaxScanned
          /\ UNCHANGED <<scanned, tx>>
    /\ UNCHANGED <<inited, btReset, scanning, autoReconnect, pendingFast, target, last, fresh,
                   sessionVars, radioVars>>

RemoteNameComplete ==
    /\ Receive("RemoteName")
    /\ LET d == Head(rx).dev IN
       \/ /\ d \in scanned /\ Head(rx).ok
          /\ StartCreateConnection(<<Cmd("InquiryCancel")>>, d, FALSE)
       \/ /\ d \notin scanned \/ ~Head(rx).ok
          /\ UNCHANGED <<tx, target, pendingFast>>
    /\ UNCHANGED <<inited, btReset, scanning, autoReconnect, last, fresh, scanned,
                   sessionVars, radioVars>>

\* The event's BD_ADDR is not read: the cache takes currentConnectTarget.
ConnectionComplete ==
    /\ Receive("ConnectionComplete")
    /\ Head(rx).ok
    /\ \/ target # NoDevice /\ last' = target /\ fresh' = TRUE
       \/ target = NoDevice /\ UNCHANGED <<last, fresh>>
    /\ pendingFast' = FALSE
    /\ tx' = Append(tx, LinkCmd("L2capConnectionRequest", Head(rx).handle))
    /\ UNCHANGED <<inited, btReset, scanning, autoReconnect, target, scanned,
                   sessionVars, radioVars>>

ConnectionFailed ==
    /\ \/ Receive("ConnectionComplete") /\ ~Head(rx).ok
       \/ Receive("ConnectRefused")
    /\ FallBackToInquiry
    /\ UNCHANGED <<inited, btReset, scanning, autoReconnect, target, last, fresh,
                   sessionVars, radioVars>>

DisconnectionComplete_KeepsTable ==
    /\ Receive("DisconnectionComplete")
    /\ connected' = FALSE
    /\ ResetDevice
    /\ UNCHANGED <<inited, btReset, autoReconnect, pendingFast, target, last, fresh, table, radioVars>>

DisconnectionComplete_StaysConnected ==
    /\ Receive("DisconnectionComplete")
    /\ table' = <<>>
    /\ ResetDevice
    /\ UNCHANGED <<inited, btReset, autoReconnect, pendingFast, target, last, fresh, connected, radioVars>>

\* The handle of the lost link is not read: the whole session is dropped.
DisconnectionComplete ==
    /\ Receive("DisconnectionComplete")
    /\ connected' = FALSE
    /\ table' = <<>>
    /\ ResetDevice
    /\ UNCHANGED <<inited, btReset, autoReconnect, pendingFast, target, last, fresh, radioVars>>

----------------------------------------------------------------------------
(* ACL packets.                                                            *)

L2capConnectionResponse_Unbounded ==
    /\ Receive("L2capConnectionResponse")
    /\ Head(rx).ok
    /\ table' = Append(table, Head(rx).handle)
    /\ tx' = Append(tx, LinkCmd("L2capConfigurationRequest", Head(rx).handle))
    /\ UNCHANGED <<ctxVars, connected, radioVars>>

L2capConnectionResponse ==
    /\ Receive("L2capConnectionResponse")
    /\ LET h == Head(rx).handle IN
       \/ /\ Head(rx).ok /\ Len(table) < MaxTable
          /\ table' = Append(table, h)
          /\ tx' = Append(tx, LinkCmd("L2capConfigurationRequest", h))
       \/ /\ ~Head(rx).ok \/ Len(table) >= MaxTable
          /\ UNCHANGED <<table, tx>>
    /\ UNCHANGED <<ctxVars, connected, radioVars>>

L2capConfigurationRequest ==
    /\ Receive("L2capConfigurationRequest")
    /\ LET h == Head(rx).handle IN
       tx' = IF InTable(h) THEN Append(tx, LinkCmd("L2capConfigurationResponse", h)) ELSE tx
    /\ UNCHANGED <<ctxVars, sessionVars, radioVars>>

\* The first report of a session marks the Wiimote connected.  Of the
\* extension handler and the report ring, which keep no state of this module,
\* only the packet the former may send is left.
InputReport ==
    /\ Receive("InputReport")
    /\ LET h == Head(rx).handle
           greeting == IF connected THEN 0 ELSE IF UseAccelerometer THEN 3 ELSE 2
       IN \E extension \in 0..1 : tx' = tx \o HidOutputs(h, greeting + extension)
    /\ connected' = TRUE
    /\ scanning' = (scanning /\ connected)
    /\ UNCHANGED <<inited, btReset, autoReconnect, pendingFast, target, last, fresh, scanned,
                   table, radioVars>>

HandleEvent ==
    \/ InitStepComplete \/ WriteScanEnableComplete \/ CommandFailed
    \/ InquiryComplete \/ InquiryResult \/ RemoteNameComplete
    \/ ConnectionComplete \/ ConnectionFailed \/ DisconnectionComplete
    \/ L2capConnectionResponse \/ L2capConfigurationRequest \/ InputReport

----------------------------------------------------------------------------
(* The sketch's commands, in the main loop.  A rejected command changes    *)
(* nothing and is left out.                                                *)

Issue(command) == command \in Commands /\ Room

SetScanEnabled(enabled) ==
    /\ Issue("setScanEnabled")
    /\ inited
    /\ connected \/ enabled # scanning
    /\ tx' = Append(tx, Cmd("WriteScanEnable"))
    /\ scanning' = enabled
    /\ UNCHANGED <<inited, btReset, autoReconnect, pendingFast, target, last, fresh, scanned,
                   sessionVars, rx, radioVars>>

StartDiscovery ==
    /\ Issue("startDiscovery")
    /\ inited /\ ~connected /\ ~scanning
    /\ tx' = Append(tx, Cmd("Inquiry"))
    /\ scanning' = TRUE
    /\ UNCHANGED <<inited, btReset, autoReconnect, pendingFast, target, last, fresh, scanned,
                   sessionVars, rx, radioVars>>

StopDiscovery ==
    /\ Issue("stopDiscovery")
    /\ inited /\ ~connected /\ scanning
    /\ tx' = Append(tx, Cmd("InquiryCancel"))
    /\ scanning' = FALSE
    /\ UNCHANGED <<inited, btReset, autoReconnect, pendingFast, target, last, fresh, scanned,
                   sessionVars, rx, radioVars>>

DisconnectController ==
    /\ Issue("disconnect")
    /\ inited /\ connected /\ table # <<>>
    /\ tx' = Append(tx, LinkCmd("Disconnect", table[1]))
    /\ UNCHANGED <<ctxVars, sessionVars, rx, radioVars>>

SetAutoReconnectEnabled(enabled) ==
    /\ Issue("setAutoReconnect")
    /\ inited
    /\ autoReconnect' = enabled
    /\ UNCHANGED <<inited, btReset, scanning, pendingFast, target, last, fresh, scanned,
                   sessionVars, tx, rx, radioVars>>

ClearReconnectCache ==
    /\ Issue("clearReconnectCache")
    /\ inited
    /\ last' = NoDevice
    /\ fresh' = FALSE   \* the age of an empty cache is never read
    /\ pendingFast' = FALSE
    /\ UNCHANGED <<inited, btReset, scanning, autoReconnect, target, scanned,
                   sessionVars, tx, rx, radioVars>>

\* setLeds, setReportingMode, requestStatus, the battery request and the
\* memory commands: one output report to the first connection of the table
SendOutput ==
    /\ Issue("output")
    /\ connected /\ table # <<>>
    /\ tx' = Append(tx, LinkCmd("HidOutput", table[1]))
    /\ UNCHANGED <<ctxVars, sessionVars, rx, radioVars>>

SketchStep ==
    \/ \E enabled \in BOOLEAN : SetScanEnabled(enabled) \/ SetAutoReconnectEnabled(enabled)
    \/ StartDiscovery \/ StopDiscovery \/ DisconnectController
    \/ ClearReconnectCache \/ SendOutput

\* The cache outlives its TTL, a wrap of millis() makes it young again, or
\* setFastReconnectTtlMs moves the TTL (0 is the same as an elapsed one).
CacheAges ==
    /\ last # NoDevice
    /\ fresh' = ~fresh
    /\ UNCHANGED <<inited, btReset, scanning, autoReconnect, pendingFast, target, last, scanned,
                   sessionVars, tx, rx, radioVars>>

----------------------------------------------------------------------------
(* The controller and the Wiimotes, as the host's code relies on them: a   *)
(* command is taken from tx in order; a Reset ends everything without an   *)
(* event of its own; packets for a dead handle are dropped.  Events the    *)
(* host only logs are not sent.                                            *)

Submit(op) == tx # <<>> /\ Head(tx).op = op /\ tx' = Tail(tx)
Status == IF "status" \in Faults THEN BOOLEAN ELSE {TRUE}
Linked(d) == \E h \in Handles : link[h] = d
hostVars == <<ctxVars, sessionVars>>

CtlReset ==
    /\ Submit("Reset")
    /\ \E ok \in Status :
         /\ rx' = Append(rx, Completed("Reset", ok))
         /\ IF ok
            THEN /\ inquiring' = FALSE /\ paging' = NoDevice /\ naming' = {}
                 /\ link' = [h \in Handles |-> NoDevice] /\ chan' = [h \in Handles |-> {}]
            ELSE UNCHANGED radioVars
    /\ UNCHANGED hostVars

CtlSetup ==
    /\ \E op \in {"ReadBdAddr", "WriteLocalName", "WriteClassOfDevice", "WriteScanEnable"} :
         /\ Submit(op)
         /\ \E ok \in Status : rx' = Append(rx, Completed(op, ok))
    /\ UNCHANGED <<hostVars, radioVars>>

\* an inquiry on top of a running one is refused with a status that is only logged
CtlInquiry ==
    /\ Submit("Inquiry")
    /\ \E ok \in Status : inquiring' = (inquiring \/ ok)
    /\ UNCHANGED <<hostVars, rx, paging, naming, link, chan>>

CtlInquiryCancel ==
    /\ Submit("InquiryCancel")
    /\ inquiring' = FALSE
    /\ UNCHANGED <<hostVars, rx, paging, naming, link, chan>>

CtlRemoteNameRequest ==
    /\ Submit("RemoteNameRequest")
    /\ naming' = naming \cup {Head(tx).dev}
    /\ UNCHANGED <<hostVars, rx, inquiring, paging, link, chan>>

\* one page at a time, and none to a device that is already linked
CtlCreateConnection ==
    /\ Submit("CreateConnection")
    /\ LET d == Head(tx).dev IN
       \/ /\ paging = NoDevice /\ ~Linked(d)
          /\ paging' = d
          /\ UNCHANGED rx
       \/ /\ paging # NoDevice \/ Linked(d) \/ "status" \in Faults
          /\ rx' = Append(rx, DeviceEvent("ConnectRefused", FALSE, d))
          /\ UNCHANGED paging
    /\ UNCHANGED <<hostVars, inquiring, naming, link, chan>>

Drop(h) ==
    /\ rx' = Append(rx, LinkEvent("DisconnectionComplete", TRUE, h))
    /\ link' = [link EXCEPT ![h] = NoDevice]
    /\ chan' = [chan EXCEPT ![h] = {}]

CtlDisconnect ==
    /\ Submit("Disconnect")
    /\ LET h == Head(tx).handle IN
       IF link[h] # NoDevice THEN Drop(h) ELSE UNCHANGED <<rx, link, chan>>
    /\ UNCHANGED <<hostVars, inquiring, paging, naming>>

\* The Wiimote accepts the channel and at once asks to configure its side.
WiimoteAcceptsChannel ==
    /\ Submit("L2capConnectionRequest")
    /\ LET h == Head(tx).handle IN
       \/ /\ link[h] # NoDevice
          /\ rx' = rx \o <<LinkEvent("L2capConnectionResponse", TRUE, h),
                          LinkEvent("L2capConfigurationRequest", TRUE, h)>>
       \/ /\ link[h] # NoDevice /\ "l2cap" \in Faults
          /\ rx' = Append(rx, LinkEvent("L2capConnectionResponse", FALSE, h))
       \/ link[h] = NoDevice /\ UNCHANGED rx
    /\ UNCHANGED <<hostVars, radioVars>>

WiimoteTakesPacket ==
    /\ \E op \in {"L2capConfigurationRequest", "L2capConfigurationResponse", "HidOutput"} :
         /\ Submit(op)
         /\ LET h == Head(tx).handle IN
            chan' = IF link[h] # NoDevice /\ op # "HidOutput"
                    THEN [chan EXCEPT ![h] = @ \cup {op}] ELSE chan
    /\ UNCHANGED <<hostVars, rx, inquiring, paging, naming, link>>

ControllerStep ==
    \/ CtlReset \/ CtlSetup \/ CtlInquiry \/ CtlInquiryCancel \/ CtlRemoteNameRequest
    \/ CtlCreateConnection \/ CtlDisconnect \/ WiimoteAcceptsChannel \/ WiimoteTakesPacket

InquiryFinds ==
    /\ Room /\ inquiring
    /\ \E d \in Devices : ~Linked(d) /\ rx' = Append(rx, DeviceEvent("InquiryResult", TRUE, d))
    /\ UNCHANGED <<hostVars, tx, radioVars>>

InquiryEnds ==
    /\ Room /\ inquiring
    /\ inquiring' = FALSE
    /\ rx' = Append(rx, DeviceEvent("InquiryComplete", TRUE, NoDevice))
    /\ UNCHANGED <<hostVars, tx, paging, naming, link, chan>>

NameResolves ==
    /\ Room
    /\ \E d \in naming, ok \in (IF "name" \in Faults THEN BOOLEAN ELSE {TRUE}) :
         /\ naming' = naming \ {d}
         /\ rx' = Append(rx, DeviceEvent("RemoteName", ok, d))
    /\ UNCHANGED <<hostVars, tx, inquiring, paging, link, chan>>

PageEnds ==
    /\ Room /\ paging # NoDevice
    /\ \/ \E h \in Handles :
            /\ link[h] = NoDevice
            /\ link' = [link EXCEPT ![h] = paging]
            /\ rx' = Append(rx, Paged(paging, h))
       \/ /\ "page" \in Faults
          /\ rx' = Append(rx, DeviceEvent("ConnectionComplete", FALSE, paging))
          /\ UNCHANGED link
    /\ paging' = NoDevice
    /\ UNCHANGED <<hostVars, tx, inquiring, naming, chan>>

LinkLost ==
    /\ Room /\ "loss" \in Faults
    /\ \E h \in Handles : link[h] # NoDevice /\ Drop(h)
    /\ UNCHANGED <<hostVars, tx, inquiring, paging, naming>>

ChannelOpen(h) == chan[h] = {"L2capConfigurationRequest", "L2capConfigurationResponse"}

WiimoteReports ==
    /\ Room
    /\ \E h \in Handles :
         ChannelOpen(h) /\ rx' = Append(rx, LinkEvent("InputReport", TRUE, h))
    /\ UNCHANGED <<hostVars, tx, radioVars>>

RadioStep ==
    \/ InquiryFinds \/ InquiryEnds \/ NameResolves \/ PageEnds \/ LinkLost \/ WiimoteReports

----------------------------------------------------------------------------
Next ==
    \/ BtTaskResets \/ BtTaskMarksInited
    \/ HandleEvent
    \/ SketchStep
    \/ CacheAges
    \/ ControllerStep
    \/ RadioStep

Spec == Init /\ [][Next]_vars

\* The main loop calls task() for ever, the Bluetooth task and the controller
\* keep running, and an inquiry, a page and a name request end by themselves.
Fairness ==
    /\ WF_vars(BtTaskResets) /\ WF_vars(BtTaskMarksInited)
    /\ WF_vars(HandleEvent)
    /\ WF_vars(ControllerStep)
    /\ WF_vars(InquiryEnds) /\ WF_vars(PageEnds) /\ WF_vars(NameResolves)
    /\ WF_vars(WiimoteReports)

FairSpec == Spec /\ Fairness

----------------------------------------------------------------------------
(* Properties.                                                             *)

FlagTypes ==
    /\ inited \in BOOLEAN /\ btReset \in BOOLEAN /\ scanning \in BOOLEAN
    /\ autoReconnect \in BOOLEAN /\ pendingFast \in BOOLEAN /\ fresh \in BOOLEAN
    /\ connected \in BOOLEAN /\ inquiring \in BOOLEAN

DeviceTypes(D) ==
    /\ target \in D \cup {NoDevice} /\ last \in D \cup {NoDevice}
    /\ paging \in D \cup {NoDevice} /\ naming \in SUBSET D /\ scanned \in SUBSET Devices

LinkTypes(D) ==
    /\ link \in [Handles -> D \cup {NoDevice}]
    /\ chan \in [Handles -> SUBSET AclPackets]

TableType == table \in Seq(Handles) /\ Len(table) <= MaxTable

QueueTypes(D) == tx \in Seq(HostPacket(D)) /\ rx \in Seq(HostEvent(D))

\* Every variable has its type, and only devices of D are named, paged,
\* connected or cached.
SessionType(D) ==
    FlagTypes /\ DeviceTypes(D) /\ LinkTypes(D) /\ TableType /\ QueueTypes(D)

\* Every variable has its type; the connection table stays within its array,
\* although InquiryComplete resets the controller without clearing it.
TypeOK == SessionType(Devices)

LossAnnounced(h) ==
    \E i \in DOMAIN rx : rx[i].ev = "DisconnectionComplete" /\ rx[i].handle = h

\* The host's idea of the session is never stale: a handle in the connection
\* table is a live link, or the loss of that link is still to be handled
\* (hciEventsResetDevice ends links without touching the table).  With the
\* fault "loss" the code does not keep it: see ConnectedHasLink.
SessionIsLive ==
    \A i \in DOMAIN table : link[table[i]] # NoDevice \/ LossAnnounced(table[i])

\* A Wiimote marked connected has an entry in the connection table, so that
\* the output commands have a handle to go to.
ConnectedHasSession == connected => table # <<>>

\* ARCHITECTURE.md:238: "Enforce a single active Wiimote session in the
\* production path".  Nothing in the code enforces it: with two Wiimotes in
\* range both may be paged, and both links enter the table.
SingleSession == Len(table) <= 1

Sent(ops) == {i \in DOMAIN tx : tx[i].op \in ops}
Heard(evs) == {i \in DOMAIN rx : rx[i].ev \in evs}

\* A channel the Wiimote has accepted finds room in the connection table: no
\* entry of an earlier session is left in the array when the answer is handled,
\* although neither the end of an inquiry nor the failure of a page clears it.
\* Under the fault "loss" two overlapping reset chains leave such entries, and
\* the code does not keep it.
ChannelsFindRoom ==
    \A i \in Heard({"L2capConnectionResponse"}) : rx[i].ok => Len(table) < MaxTable

PageEvents == {"ConnectionComplete", "ConnectRefused"}

\* The pages under way, wherever they are: in a packet to the controller, in
\* the controller, or in the event that ends them.
Pages ==
    {[in |-> "tx", at |-> i, dev |-> tx[i].dev] : i \in Sent({"CreateConnection"})}
    \cup {[in |-> "radio", at |-> 0, dev |-> d] : d \in {paging} \ {NoDevice}}
    \cup {[in |-> "rx", at |-> i, dev |-> rx[i].dev] : i \in Heard(PageEvents)}

\* A pending fast reconnect is a page of the cached Wiimote that is still under
\* way, and the only one: handleConnectionComplete and handleCommandStatus fall
\* back on any failure while the flag is set, so no earlier page may still be
\* able to fail, and the page the flag speaks of must not have been wiped out by
\* a reset without an answer.  The code keeps it in a calm pairing (see
\* CalmPairing); under "loss", or with two Wiimotes, overlapping resets break it.
FallbackAnswersItsPage ==
    pendingFast => target = last /\ \E p \in Pages : Pages = {p} /\ p.dev = target

\* The host never connects to, nor caches, a device that is not a Wiimote,
\* although the name handler checks only the scan list and the name.
OnlyWiimotes ==
    /\ {target, last, paging} \subseteq Wiimotes \cup {NoDevice}
    /\ \A h \in Handles : link[h] \in Wiimotes \cup {NoDevice}

Searching == inquiring \/ paging # NoDevice \/ \E h \in Handles : link[h] # NoDevice

FailedAttempt == rx # <<>> /\ Head(rx).ev \in {"ConnectionComplete", "ConnectRefused"} /\ ~Head(rx).ok
PageGivenUp == FailedAttempt /\ ~pendingFast

\* After every loss, disconnect, refused name and failed fast reconnect the host
\* comes back to an inquiry, a page or a link: the initialisation chain that
\* hciEventsResetDevice starts always reaches its end.  Only a page that fails
\* after an ordinary discovery is given up, and nothing is searched any more.
KeepsSearching == <>PageGivenUp \/ []<>Searching

\* A fast reconnect still pending when its failure arrives is followed by an
\* inquiry, whatever else the radio does meanwhile.
FailureIsAnswered == (pendingFast /\ FailedAttempt) ~> inquiring

\* API.md:225, of isConnected(): "`true` if connected, `false` otherwise".  A
\* Wiimote marked connected is linked, or the loss of its link is still to be
\* handled (the end of an inquiry resets the controller but not the session).
ConnectedHasLink ==
    connected => \E h \in Handles : link[h] # NoDevice \/ LossAnnounced(h)

\* API.md, Reconnect behavior: the cache holds the controller that connected
\* last.  handleConnectionComplete caches currentConnectTarget instead.
CachesConnectedDevice ==
    [][rx # <<>> /\ ConnectionComplete => last' = Head(rx).dev]_vars

\* API.md, Reconnect behavior: after an unexpected disconnect there is a window
\* of fast reconnects.  The code dates the window from the connection.
LossOpensFastReconnect ==
    [][connected /\ DisconnectionComplete => CacheIsValid]_vars

\* ARCHITECTURE.md, Controller Command State Machine: setScanEnabled does not
\* affect the active connection.  With no failing radio and no other command,
\* nothing else ends a link.
ScanKeepsConnection ==
    [][\A h \in Handles : connected /\ link[h] # NoDevice => link'[h] # NoDevice]_vars

=============================================================================
