--------------------------- MODULE HciLinkPhases ---------------------------
(***************************************************************************)
(* The phases a pairing goes through.  HciLink has no variable for them:   *)
(* they are read off the two queues and the radio, and together they are   *)
(* the inductive invariant behind SessionIsLive, ConnectedHasSession,      *)
(* ChannelsFindRoom and FallbackAnswersItsPage.                            *)
(*                                                                         *)
(* At any moment there is at most one thing that will start a search (the  *)
(* initialisation chain, an inquiry, its end, the loss of a link) and one  *)
(* attempt at a Wiimote (a name request, a page, a link being set up).     *)
(* Each phase says where they are and what may still stand in the queues   *)
(* before and after them.                                                  *)
(***************************************************************************)
EXTENDS HciLink

InitCommands == {"Reset", "ReadBdAddr", "WriteLocalName", "WriteClassOfDevice", "WriteScanEnable"}
AttemptPackets == {"RemoteNameRequest", "CreateConnection", "L2capConnectionRequest"}
AttemptEvents == PageEvents \cup {"RemoteName"}
InquiryEvents == {"InquiryResult", "InquiryComplete"}

\* Packets that do nothing while no inquiry runs and no link lives.
IdlePackets == LinkPackets \cup {"InquiryCancel"}

AtMostOne(S) == \A i, j \in S : i = j

\* A command that completed with an error is logged and forgotten.
Failed(i) == rx[i].ev = "CommandComplete" /\ ~rx[i].ok

SendsOnly(ops) == \A i \in DOMAIN tx : tx[i].op \in ops
HearsOnly(evs) == \A i \in DOMAIN rx : rx[i].ev \in evs \/ Failed(i)

\* The packet at k stands behind packets of before, and in front of packets of after.
Between(before, k, after) ==
    /\ \A i \in DOMAIN tx : i < k => tx[i].op \in before
    /\ \A i \in DOMAIN tx : i > k => tx[i].op \in after

NoSession == table = <<>> /\ ~connected /\ \A h \in Handles : chan[h] = {}
RadioQuiet ==
    ~inquiring /\ paging = NoDevice /\ naming = {} /\ \A h \in Handles : link[h] = NoDevice

\* What the invariant needs of the constants: the code keeps one session with
\* one Wiimote, over a radio that drops no link, while no command starts a scan
\* of its own.
CalmPairing ==
    /\ \A d, e \in Wiimotes : d = e
    /\ "loss" \notin Faults
    /\ Commands \cap {"setScanEnabled", "startDiscovery"} = {}

----------------------------------------------------------------------------
\* The host's own variables agree on the device of a fast reconnect.
FastReconnectTarget == pendingFast => last # NoDevice /\ target = last

\* The attempt is in one place only: in a packet to the controller, in the
\* controller, or in an event that answers it.
OneAttempt ==
    /\ AtMostOne(Sent(AttemptPackets)) /\ AtMostOne(Heard(AttemptEvents))
    /\ Sent(AttemptPackets) # {} =>
         naming = {} /\ paging = NoDevice /\ Heard(AttemptEvents) = {}
    /\ naming # {} => paging = NoDevice /\ Heard(AttemptEvents) = {}
    /\ paging # NoDevice => Heard(AttemptEvents) = {}

Attempting ==
    \/ Sent(AttemptPackets) # {} \/ Heard(AttemptEvents) # {}
    \/ naming # {} \/ paging # NoDevice

\* The packet, or the event, that will set up the channel of handle h.
SetupSent(h) == \E i \in DOMAIN tx : tx[i].op = "L2capConnectionRequest" /\ tx[i].handle = h
PageHeard(h) ==
    \E i \in DOMAIN rx : rx[i].ev = "ConnectionComplete" /\ rx[i].ok /\ rx[i].handle = h
Announced(h) == SetupSent(h) \/ PageHeard(h)

\* The links are those whose channel is still to be set up.
LinksAnnounced == \A h \in Handles : link[h] # NoDevice <=> Announced(h)

\* A second result of the same inquiry finds the Wiimote in the scan list.
ResultsAreKnown ==
    (inquiring \/ Heard({"InquiryResult"}) # {}) /\ Attempting => Wiimotes \subseteq scanned

\* The controller pages when the inquiry is over ...
InquiryBeforePage ==
    inquiring =>
      /\ Heard({"InquiryComplete"} \cup PageEvents) = {} /\ paging = NoDevice
      /\ \A i \in Sent({"CreateConnection"}) : \E j \in Sent({"InquiryCancel"}) : j < i

\* ... and the host hears its results, then its end, then of the page.
EventsInOrder ==
    /\ AtMostOne(Heard({"InquiryComplete"}))
    /\ \A i \in Heard({"InquiryResult"}), j \in Heard({"InquiryComplete"} \cup PageEvents) : i < j
    /\ \A i \in Heard({"InquiryComplete"}), j \in Heard(PageEvents) : i < j

\* A fast reconnect is tried alone, without an inquiry, until its page is answered.
FastAlone ==
    pendingFast =>
      /\ ~inquiring /\ naming = {} /\ SendsOnly({"InquiryCancel"}) /\ HearsOnly(PageEvents)
      /\ paging # NoDevice \/ Heard(PageEvents) # {}

----------------------------------------------------------------------------
(* The phases.                                                             *)

\* Nothing was sent yet.
Off ==
    /\ ~inited /\ ~btReset /\ ~pendingFast
    /\ tx = <<>> /\ rx = <<>> /\ NoSession /\ RadioQuiet

\* The host has sent an initialisation command, the inquiry or the fast
\* reconnect they end with; or nothing any more, when one of them failed.
Starting ==
    /\ inited \/ btReset
    /\ NoSession /\ RadioQuiet /\ scanned = {} /\ HearsOnly({})
    /\ \/ \E k \in Sent(InitCommands \cup {"Inquiry", "CreateConnection"}) :
            /\ Between(IdlePackets, k, {"InquiryCancel"})
            /\ pendingFast => tx[k].op = "CreateConnection"
       \/ SendsOnly(IdlePackets) /\ ~pendingFast

\* The controller has completed an initialisation command.
Answered ==
    /\ inited \/ btReset
    /\ NoSession /\ RadioQuiet /\ scanned = {} /\ ~pendingFast /\ SendsOnly(IdlePackets)
    /\ rx # <<>> /\ rx[Len(rx)].ev = "CommandComplete"
    /\ \A i \in DOMAIN rx : i < Len(rx) => rx[i].ev \in AttemptEvents \/ Failed(i)

\* An inquiry runs or has run, or a fast reconnect does.
Discovering ==
    /\ inited \/ btReset
    /\ NoSession
    /\ SendsOnly(DevicePackets \cup {"InquiryCancel"})
    /\ HearsOnly(AttemptEvents \cup InquiryEvents)
    /\ OneAttempt /\ LinksAnnounced /\ ResultsAreKnown
    /\ InquiryBeforePage /\ EventsInOrder
    /\ FastAlone

\* The inquiry ended and the host resets the controller, with an attempt under way.
Restarting ==
    /\ inited \/ btReset
    /\ NoSession /\ ~pendingFast /\ ~inquiring /\ scanned = {}
    /\ \E k \in Sent({"Reset"}) :
         Between(DevicePackets \cup {"InquiryCancel"}, k, {"L2capConnectionRequest", "InquiryCancel"})
    /\ HearsOnly(AttemptEvents)
    /\ OneAttempt /\ LinksAnnounced

\* All packets in the queues are of the one link.
PacketsOf(h) == SendsOnly(IdlePackets) /\ \A i \in Sent(LinkPackets) : tx[i].handle = h
EventsOf(h) == HearsOnly(LinkEvents) /\ \A i \in Heard(LinkEvents) : rx[i].handle = h

\* Its channel is set up once: a request, the answer, an entry of the table.
\* Before the entry nothing of the channel is configured or reported.
SetUpOnce(h) ==
    /\ table \in {<<>>, <<h>>}
    /\ AtMostOne(Sent({"L2capConnectionRequest"})) /\ AtMostOne(Heard({"L2capConnectionResponse"}))
    /\ Sent({"L2capConnectionRequest"}) # {} => Heard({"L2capConnectionResponse"}) = {} /\ table = <<>>
    /\ Heard({"L2capConnectionResponse"}) # {} => table = <<>>
    /\ table = <<>> =>
         /\ ~connected /\ chan[h] = {} /\ Heard({"InputReport"}) = {}
         /\ Sent({"L2capConfigurationRequest", "L2capConfigurationResponse"}) = {}

\* Its loss is the last that is heard of it.
LossIsLast(h) ==
    /\ link[h] = NoDevice <=> Heard({"DisconnectionComplete"}) # {}
    /\ link[h] = NoDevice => chan[h] = {}
    /\ \A i \in Heard({"DisconnectionComplete"}) : i = Len(rx)

\* The Wiimote is linked at h, or its disconnection is the last event to handle.
SessionAt(h) ==
    /\ inited \/ btReset
    /\ ~inquiring /\ paging = NoDevice /\ naming = {} /\ ~pendingFast
    /\ \A g \in Handles \ {h} : link[g] = NoDevice /\ chan[g] = {}
    /\ PacketsOf(h) /\ EventsOf(h) /\ SetUpOnce(h) /\ LossIsLast(h)

Phases == Off \/ Starting \/ Answered \/ Discovering \/ Restarting \/ \E h \in Handles : SessionAt(h)

=============================================================================
