# ESP32Wiimote: specifications, model checking and proofs

ESP32Wiimote connects one Wii Remote to an ESP32 over Bluetooth Classic, without a
Bluetooth stack of its own: it drives the controller with raw HCI packets. The
sketch calls `task()` from its loop; a serial line and an HTTP server let others
command the same device. This directory holds TLA+ models of that code, the TLC
runs that check them on small instances, and theorems proved with TLAPS for every
instance. Paths below are relative to the repository; `PROJECT.json` maps every
definition to the lines it models.

## 1. The system

### Threads

- **The main loop** is the Arduino loop: the sketch's own code, then
  `ESP32Wiimote::task()`. In one call it applies a queued Wi-Fi action, hands at most
  one packet to the controller, handles at most one packet from it, reads at most
  one serial line, advances Wi-Fi control by at most one stage and polls the HTTP
  server once, which may run a request handler to its end.
- **The Bluetooth task** belongs to the controller. It calls
  `notifyHostRecv` for each packet and `notifyHostSendAvailable` when it has room,
  at any moment of the main loop.

There are no locks. The two threads share the two FreeRTOS queues, the heap, and,
because `notifyHostSendAvailable` resets the device until `deviceInited`, the HCI
context itself.

### Components

| component | source (under `src/src/`) | state | operations | module |
|---|---|---|---|---|
| Bluetooth session core | `TinyWiimote.cpp`, `tinywiimote/hci/hci_events.cpp`, `tinywiimote/l2cap/` | flags, scan list, connect target, reconnect cache, connection table | HCI events, ACL packets, session commands | `HciLink` |
| HCI queues, callbacks, start | `esp32wiimote/queue/`, `hci_callbacks.cpp`, `bt_controller.cpp` | two queues of pointers, heap blocks, `initialized` | send, process, callbacks, `init` | `HciQueue` |
| Wi-Fi control and HTTP server | `ESP32Wiimote.cpp`, `wifi/http_server.cpp`, `wifi/web_auth.cpp` | stage, lifecycle flags, pending action, server | enable, disable, restart, mode, network, token, `configure`, stages, requests | `WifiControl` |
| Serial line, session, dispatcher | `serial/`, `ESP32Wiimote::processSerialControl` | line buffer, overflow, unlock window | one line per `task()`, unlock, verbs | `SerialControl` |
| Runtime configuration | `config/`, `ESP32Wiimote::init` | snapshot, five keys in NVS, `storeReady` | load, save key by key, restore | `RuntimeConfig` |
| Extension detection | `tinywiimote/protocol/wiimote_extensions.cpp` | four-state machine | `handleReport` | `WiimoteExtensions` |
| Report ring, parser, button and sensor state | `wiimote_reports.cpp`, `data_parser.cpp`, `state/` | ring of five, current and previous values | put, read, parse, filter | `WiimoteInput` |
| Web event stream | `wifi/web_event_stream.cpp` | two rings of sixteen frames, a client each | publish, replay, connect, reset | `EventStream`; nothing in `src/` calls it yet |
| Web router, request parser, command queue | `wifi/web_api_router.cpp`, `web_request_parser.cpp`, `web_command_queue.cpp` | eight queue entries, the next id | routing, parsing, dispatch, enqueue | `WebApi`, `WebParser`; lifecycle routes also in `WifiControl` |
| Packet builders, code names, logging, formatters, web pages | `hci_commands.cpp`, `utils/`, `serial_response_formatter.cpp`, `web_response_serializer.cpp`, `wifi/web/` | none | formatting | not modelled |

### How they interact

The sketch, the serial line and the HTTP routes call the same methods of
`ESP32Wiimote`; those call the session core, which sends packets through
`HciCallbacksHandler::hciHostSendPacket` into the TX queue. Packets from the
controller come back through the RX queue to `handleHciData`. The session core
calls back into itself on a connection and on a disconnection (`onAclConnected`,
`onDisconnected`). An HTTP request that stops or restarts Wi-Fi control runs inside
the server it would delete, so the action is queued for the next `task()`.

An input report goes from the session core to the detection of the extension, which may
send output reports, and into the ring of reports, from which `available()` parses
one at a time. Every setting a command changes is saved at once. The serial dispatcher
and the web router look at the session before they ask it for anything, to name a
reason, and the session core looks again.

### What is hard

- **Asynchrony with the controller.** Commands are queued, their effects and events
  come later, in an order the radio decides. A handler acts on flags that another
  command, event or attempt has changed since (`pendingFastReconnect`,
  `currentConnectTarget`, `scanningEnabled`). Inquiry Complete, a page and the loss of
  a link race with each other, and a Reset ends a link without an event.
- **Two threads on queues of pointers**, and a producer that is also the consumer and
  waits without limit.
- **No timeouts above the controller.** The detection of the extension waits for answers
  that only the Wiimote's order and the end of the link guarantee.
- **Partial failure**: a refused command, a page that times out, a join that comes
  late, a server that does not start, an allocation
  that fails, a save cut after two of its five keys.
- **Re-entrancy**: a request that ends the server it came through.
- **Clocks and counters**: differences of a 32-bit `millis()`, rings, and numbers that wrap.

`PROJECT.json` lists each hazard at its line with the properties that cover it, or
the reason none does yet.

### What makes each component correct

- Session core: the host's session is a live link; only Wiimotes are paged and
  cached; a fast reconnect that fails, and no other page, is followed by an inquiry; the host is always
  searching or connected; an accepted channel finds room in the table; one session at a
  time, which the code does not enforce.
- Queues: no packet is lost behind the queue, changed, repeated or overtaken; no
  block is leaked or freed twice; neither direction is starved.
- Wi-Fi control: the flags agree with the stage; ready means serving; a request
  is answered by the server it came to; a start ends; its failure is reported.
- Serial: no privileged verb runs outside an unlock window; no part of an overlong line
  runs; an answer tells what was done.
- Configuration: flash holds what one save wrote; what is believed saved is saved.
- Extensions: a detection always has an answer coming; a Nunchuk that is announced is
  found. Both fail where an acknowledgement is dropped for its length.
- Reports: the ring keeps order; no button change goes unreported; no button sticks.
- Web API: an answer tells what was done; a promised id is found; only objects are commands.
- Events: a client that replays has every frame it missed, in order, or is told to take
  a snapshot.

## 2. Modules

| module | what it is | properties and proofs |
|---|---|---|
| `HciLink` | session core, controller and Wiimotes | `HciLinkProofs` |
| `HciLinkPhases` | the phases a pairing goes through: the inductive invariant of `HciLink` | `HciLinkProofs` |
| `HciChannel` | abstract: two FIFOs of packets | |
| `HciQueue` | queues, heap, two threads; implements `HciChannel` | `HciQueueProofs` |
| `WifiService` | abstract: off, starting, ready, closing; serving; answering | |
| `WifiControl` | lifecycle, commands, requests; implements `WifiService` | `WifiControlProofs` |
| `WiimoteExtensions` | detection, output reports, a Wiimote that answers | `WiimoteExtensionsProofs` |
| `ReportFifo` | abstract: a queue that refuses the newest | |
| `WiimoteInput` | ring, parser, change flags; implements `ReportFifo` | `WiimoteInputProofs` |
| `CommandTarget` | what a line or a request asks of the device, and what it accepts | |
| `LineService` | abstract: lines taken whole and in order | |
| `SerialControl` | line reader, session, dispatcher; implements `LineService` | `SerialControlProofs` |
| `RuntimeConfig` | snapshot, start, saves, power cuts | `RuntimeConfigProofs` |
| `WebParser` | the parser of request bodies, and the grammar it must agree with | `WebProofs` |
| `WebApi` | router and command queue; extends `WebParser` and `CommandTarget` | `WebProofs` |
| `EventStream` | rings of frames, clients, replay | `WebProofs` |
| `MC...` | instances for TLC | |

`HciLink` abstracts from the queues to two FIFOs of packets; `HciQueue` shows that
this is what they are, with the contents of the packets abstracted in turn.
`HciLink` reads the `task()` of `HciQueue` as one atomic handler per packet:
handlers run in one thread, and the one action of the other thread that touches
their state, the reset by `notifyHostSendAvailable`, is a separate pair of steps in
both models.

### HciLink

State: the fields of `HciEventContext` that a decision depends on, `connected`, the
connection table as a sequence of handles, the FIFOs `tx` and `rx`, and the
controller's side (inquiry, page, pending names, link behind each handle, progress
of the channel). A device stands for its address and clock offset. `fresh` is the comparison
of the age of the cache with its TTL, so that the cache may turn stale, and young again
when the clock wraps, at any step.

Actions: one per HCI event and outcome (`InitStepComplete` is the common body of four
completions, whose next command `NextInitCommand` gives), one per ACL packet, one
per session command, and one per step of the controller. Bodies include what the
handler calls: `DisconnectionComplete` is `onDisconnected` with its state reset,
table clear and device reset. A command that the code rejects changes nothing
and is left out. The controller is external: it takes commands in order, ends
everything on Reset without an event, answers what the host waits for, and may
refuse, fail, or lose what `Faults` says. All `output` commands go to the first entry of the
table, as the code does.

### HciQueue

The two threads step through `sendToQueue`, `processTxQueue`, `processRxQueue` and the
callbacks: allocate and copy, wait for room, send; receive, use, free. `main` and `bt` are
their program counters; `copied`, `taken` and `posting` the blocks they hold. What a
handler or command sends is any number of packets up to `MaxBurst`. `TxCapacity` is
`RxQueueSize` and the reverse, because `ESP32Wiimote.cpp:393` passes (tx, rx) to a
constructor that takes (rx, tx).

### WifiControl

`pc` follows the main loop: `sketch`, `serial`, `process`, `poll`, and `dispatch`,
`reply` when a client waits. The five initialisation stages and `Ready` are actions;
the commands are operators shared by the sketch, the serial line and the requests,
as the methods are in the code. `Stopped` is `resetWifiLifecycleState`.
A token is where it comes from, a network is none, the name the code's own mock refuses,
or any other.

### WiimoteExtensions

State: the four states of `handleReport`, the two flags of the Wiimote state, the output
reports on their way (`out`), the input reports on theirs (`inp`), and the Wiimote: its
link, its port, how many of the two writes that start an extension unencrypted it has
taken, its reporting mode, and whether it waits for a mode after a change of its port.
`InputReport` is the host's step on the next input report; `OnDisconnected` the end of the
link, which reaches it behind the reports. The Wiimote is external: it answers in order, and
an acknowledgement has any of `AckLengths` bytes: six is what a Wiimote sends and what the
handlers' own check admits, eight what the tests send. The history variable `ackDropped` says that the present
wait has lost an acknowledgement to the check of the length; no step depends on it. The sketch's own writes, reads and mode
changes share the reports with the detection; whose answer it is cannot be told.
How the link comes and goes is `HciLink`'s.

### WiimoteInput

The ring with its three indices, as the array of the code, and the parser behind
`available()`. `Parse` follows the order of the code: buttons compared before the Nunchuk's
are added, previous values set, the stick compared with its threshold. Accelerometer and
stick are one number each, and a report is what the parser reads of it.

### SerialControl, CommandTarget and LineService

A line is a sequence of words; lengths and limits count words. The terminal sends a line
in one piece or two, and the sketch may enable, disable or reconfigure between any two
steps. `ProcessSerialControl` is one `task()`: what is in the UART up to one end
of line, the parser, the unlock, the lock check and the handler of the verb. `age` counts the
ticks since the last unlock, so that the window can be compared with time that
does not wrap. `CommandTarget` has the states of the device a command may find (all that
the session core can be in, as far as a command tells them apart) and what is
accepted in each; it stands for `HciLink` and `WifiControl`, with which a product would
be out of TLC's reach. `WebApi` uses the same module.

### RuntimeConfig

`phase` follows `init`: opening, loading or first saving, running. A save is five `WriteKey`
steps and a `Commit`, with a power cut or a failing call between any two. `base` and `target`
remember what flash held and was to hold; `ready` is `runtimeConfigStoreReady_`.

### WebApi

One action, a request, through the stages of `webApiRoute` in their order: page, credentials,
command status, upgrade, route, body, fields, queue, device. `Contexts` are the queue and the stream
the glue sets or not: the firmware sets neither, the tests do.

The parser is `WebParser`. A body is a sequence of JSON tokens, `Progress` is what the
parser holds after each of them, by one turn of its loop (`ReadToken`) at a time, and
`Parse` what it holds at the end. The grammar beside it speaks of places in the body and
knows nothing of the loop: token `4m - 2` is the name of member `m`, token `4m` its value.

### EventStream

Two channels as the arrays of the code, indices modulo `Capacity`, numbers modulo
`SeqSpan`. A frame is its number. `total` counts the events of this life without wrapping.

## 3. Runs

Sizes are distinct states. Deadlock checking is off in `link_*` and `queue_*`: with an
error status the host really stops, and the main loop really may wait for itself.

| run | result | states | what it shows |
|---|---|---|---|
| `link_pairing` | holds | 9,530 | one Wiimote, one stranger, repeated pairing, also with `stopDiscovery`, with failing commands, pages, names and L2CAP requests: the table has no dead link and room for every channel the Wiimote accepts, a connected Wiimote has an entry, a pending fast reconnect is the one page under way |
| `link_commands` | holds | 469,475 | every command at every stage, failing pages, names and links: the types and the array bound, only Wiimotes |
| `link_recovery` | holds | 53,615 | after every loss, disconnect and refused name the host comes back to inquiry, page or link; a failed fast reconnect leads to an inquiry |
| `wifi_lifecycle` | holds | 5,953 | flags, stages, server, requests, the abstract service, and that a start settles |
| `queue_flow` | holds | 227,121 | ownership of the heap, the FIFO in each direction, and progress |
| `queue_full` | violated | | the main loop waits in `task()` for room only it can make |
| `extension_detection` | holds | 375,587 | extensions plugged and pulled, links lost, the sketch's own memory accesses, acknowledgements of six and eight bytes: but for an acknowledgement dropped for its length, an answer is always coming, a detection ends, the port is recognised |
| `input_reports` | holds | 135,040 | the ring is a queue; a read that says nothing new has hidden no change; no button sticks |
| `serial_lines` | holds | 163,695 | lines whole and in order, privileged commands inside the window, disabling locks, answers tell the outcome |
| `config_store` | holds | 619,306 | up to three cuts and failures in any start or save: flash mixes no two settings but the mode and its flag |
| `web_commands` | holds | 22,733 | every route in every state of the device, a queue that fills, 1,800 bodies: answers, ids, grammar |
| `event_replay` | holds | 5,932 | overflow, wrap, restart and stale clients on two channels |

The other configurations each check one property that the documentation states and the
code does not have; TLC shows how:

| configuration | property | what the trace shows |
|---|---|---|
| `link_ghost` | `ConnectedHasLink` (`API.md:225`) | an overlap of two reset chains leaves `isConnected()` true over a link that the host itself has reset |
| `link_scan_while_connected` | `ScanKeepsConnection` (`ARCHITECTURE.md:299`) | `setScanEnabled` while connected ends the connection |
| `link_reconnect_window` | `LossOpensFastReconnect` (`API.md:233`) | a session longer than the TTL ends without a fast reconnect |
| `link_two_wiimotes_cache` | `CachesConnectedDevice` (`API.md:233`) | with two Wiimotes the cache may name the one that is not connected |
| `link_two_wiimotes` | `SingleSession` (`ARCHITECTURE.md:238`) | both names are known before either page ends, and both links enter the table |
| `wifi_fallback_token` | `TokenInForceIsAccepted` (`API.md:114`) | a request with the fallback token is refused |
| `extension_short_ack` | `NunchukIsDetected` (`ARCHITECTURE.md:192`) | with acknowledgements of six bytes the first one is dropped and the detection hangs |
| `config_restore` | `PolicyRestored` (`ARCHITECTURE.md:450`) | the session core rejects the restored policy before `deviceInited` |

Two more show what a lost link does to invariants of `link_pairing`, with one Wiimote and no
command of the sketch:

| configuration | property | what the trace shows |
|---|---|---|
| `link_table_full` | `ChannelsFindRoom` | losses during a reset chain start another; entries of sessions that a reset ended fill the table, and the third channel the Wiimote accepts finds no room |
| `link_fast_page` | `FallbackAnswersItsPage` | two overlapping reset chains both end in a fast reconnect: the failure of the first page is answered in the name of the second |

`link_phases` has TLC check `Phases` itself, the inductive invariant of section 4, with a
TX queue of two (7,630 states).

### Bounds

- `Devices`: a Wiimote and another device, as the class check must tell them
  apart; two Wiimotes where attribution is the question. The liveness runs and the ones
  about one link use one Wiimote.
- `Handles`: one per Wiimote. A controller that reuses the handle at once is the
  harder case for a host with stale entries.
- `MaxTable` is 2 in the code, 1 in some runs so that a full table occurs; `MaxScanned`
  likewise is met by two devices.
- `MaxTx`, `MaxRx` bound only what the sketch and the radio add: answers and packets
  that handlers send are never cut off. They must exceed 1 for two chains to
  overlap: with `MaxTx = 1`, `link_ghost` finds nothing.
- `Faults`: `link_pairing` leaves out `loss`, under which all its invariants but
  `ConnectedHasSession` are false (`link_ghost` is the shortest form of the first;
  `link_table_full`, `link_fast_page`). `link_recovery` has lost links, failing pages and
  names; it leaves out `status`, after which the code retries nothing, and its first property
  excepts a page or a name that fails outside a fast reconnect, which is not
  answered (`hci_events.cpp:327`).
- `queue_flow`: capacities 1 and 2, three blocks and bursts of two, so that both queues
  fill, memory runs out and both threads wait at once. `queue_full` has four blocks and
  no failures, so that nothing but the wait itself stops the loop.
- `extension_detection`: three reports under way (`MaxTraffic`), enough for a detection, an
  answer and a foreign one to overlap. `AckLengths` is {6, 8}: with six bytes alone the states
  after the first acknowledgement are never reached (`extension_short_ack`), with eight alone
  the drop never happens.
- `input_reports`: a ring of two, so that it fills and wraps; a stick with a distance
  below, at and above the threshold.
- `serial_lines`: six words a line, five tokens, so that a line may have too many of either;
  a clock of three ticks, so that a window spans the wrap, ends and comes round again. One
  line waits beside the one being typed. The limit of 128 characters (`kSerialMaxLineLength`) only changes when a line
  is too long.
- `config_store`: three faults, since a restart after a cut may be cut again and its
  repair may fail. Two values of each setting, and a configured time to live that a
  new firmware changes.
- `web_commands`: a queue of two entries fills in three requests; two fields and sixteen tokens,
  so that a body exceeds either. The bodies of every shape are sent first, then one of each
  class, since the parser has no memory.
- `event_replay`: rings of three, numbers modulo six and nine events: the ring overflows twice and
  the numbers wrap, and every request after every number occurs. Channels and clients are
  symmetric.
- `wifi_lifecycle` is finite without a bound. Three configurations: complete, empty, and
  one that asks for the websocket.

### Fairness

- `HciLink`: the sketch calls `task()` for ever (`HandleEvent`); the controller processes
  commands; an inquiry, a page and a name request end by themselves (each has a
  timeout in the controller); a Wiimote whose channel is open reports. Nothing is
  assumed of commands, losses or the age of the cache.
- `HciQueue`: the main loop runs and the sketch enters `task()` again and again (strong
  fairness of `EnterTask`, because a sketch may issue commands in between); the Bluetooth task
  finishes the callback it is in; the controller takes packets. Events need not come.
- `WiimoteExtensions`: the main loop handles the reports, and a linked Wiimote answers those
  it gets. Nothing is assumed of the port, the link or the sketch.
- `WifiControl`: the main loop runs, and a join succeeds or the 15 s pass. `StartSettles` is
  conditional on commands ceasing: a client that restarts for ever prevents ready.

`Progress` is conditional on the main loop never waiting on a full TX queue; without
the condition it is false, which is the finding of `queue_full`.

## 4. Proofs

All proofs are for every value of the constants, under the named assumptions on
them.

**HciLinkProofs.** `TypeInvariant`: the inductive invariant is `SessionType(Wiimotes)`,
the type of every variable with the devices restricted to Wiimotes wherever a name,
page, link or cache entry may occur. The restriction is what makes
`OnlyWiimotes` inductive: the handler of a remote name checks only the scan list and
the name, and is right because only a Wiimote is ever asked. `TypeCorrectness` (with the
bound of the table) and `OnlyWiimotesInvariant` follow. That the flag of a fast reconnect goes with
the target and the cache is a lemma, inductive as it stands.

`SessionIsLiveInvariant`, `ConnectedHasSessionInvariant`, `ChannelsFindRoomInvariant` and
`FallbackAnswersItsPageInvariant` follow from `PhasesInvariant`. A flag or a queue alone says too little: whether the table may have an
entry depends on what still stands in both FIFOs, and in which order. `Phases`
(`HciLinkPhases`) reads off them where a pairing is: off; an initialisation command on
its way, or its completion; searching, with one attempt at a Wiimote that is in one place
only (a packet, the controller, or an event); restarting after the inquiry with
that attempt under way; or a session at one handle, whose packets and events are the only
ones, whose channel is set up once and whose loss is the last that is heard of it. Each
action takes each phase to one of them, for every number of strangers and handles, every
size of the scan list, the table and the queues, and all faults but a lost link.

The four hold under `CalmPairing`: one Wiimote, no loss, no `setScanEnabled` and no
`startDiscovery`. TLC has a counterexample for each part left out. After a loss, a reset chain
overlaps another and `SessionIsLive` fails, as in `link_ghost`, with it `ChannelsFindRoom`
(`link_table_full`) and `FallbackAnswersItsPage` (`link_fast_page`); `startDiscovery` and
`setScanEnabled` start a second search beside the first or beside a session, which breaks
`SessionIsLive` too (`link_scan_while_connected` is about the same line); with two Wiimotes,
a `disconnect` and a page that fails, all four are false where there are two handles, `SessionIsLive` and
`FallbackAnswersItsPage` also where there is one.

**HciQueueProofs.** `Invariance`: types and capacities, `Places` (which block each
thread holds at each step) and `Shared` (queues and hands are disjoint, without
repetitions, and together are exactly the allocated blocks). `HeapIsOwnedInvariant`
follows from `Shared`. `Implementation` proves the refinement of `HciChannel`, with the packet
behind a pointer just taken still in the abstract FIFO; it rests on lemmas about
reading a sequence of pointers through a heap: a free or a copy of a block outside a line
leaves its contents alone.

**WifiControlProofs.** `Invariance`: `StageProgress`, `FailureIsReported` and
`RequestKeepsServer` hold each other up; they need that a pending action lives only
from the request to the next `task()` (`PendingIsShort`) and that a server or a ready
flag implies somebody wants it (`WantedOnly`). `Implementation` is the refinement of
`WifiService`. `ReadyMatchesModeInvariant` assumes `"configure" \notin Sources`: `configure()`
on a ready lifecycle changes the mode without a restart (`ESP32Wiimote.cpp:459`), and
then the property is false.

**WiimoteExtensionsProofs.** `LinkInvariance` adds to the types how a link ends: its loss is the last that is
heard of it, nothing is on its way to a Wiimote that is gone, and the host forgets
it before the next link. On that rest `AnswerIsComingInvariant`, that in each waiting state of
the detection the command or the answer it waits for is on its way, and
`NunchukModeInForceInvariant`, that the mode asked for last for a Nunchuk in use is the one with its
bytes. Both go by what a handled report leaves in the two FIFOs
and what it adds to them. `AnswerIsComing` holds for any lengths of acknowledgements and names the one
case in which a detection waits in vain: its acknowledgement has come and was dropped as
shorter than `MinReport` (`extension_short_ack`).

**WiimoteInputProofs.** `IndicesAgree`, that the write index is `itemCount` places after the
read index modulo the capacity, is inductive with the types and carries
`RingImplementsFifo`: the queue read off the ring grows by the report put and loses the
report taken, for every capacity. `QuietReadsKeepButtons` and `QuietReadsKeepStick` need that
between two reads the stored comparison values are those the sketch sees
(`ComparisonIsCurrent`). `CaughtUpInvariant` follows the newest slot.

**SerialControlProofs.** `Inv` adds to the types that all that is on its way is made of words and
that a line begun is finished by one piece. `Implementation` proves the refinement of
`LineService`: what is in the buffer, with its flag, is the beginning of the oldest
pending line, `FillExtends` says that a piece extends it whether it fits or not, and
the lemmas on `LinesOf` say what taking, adding and cutting a line do to the rest.
`PrivilegedInWindow` rests on `AgeIsMeasured`: while the time since an unlock is less than a turn
of the clock, the difference that `isUnlocked` takes is that time. `DisablingLocks` rests on
`OpenMeansEnabled`. `AnswersTellOutcome` goes handler by handler, for every line and every
state of `CommandTarget`.

**RuntimeConfigProofs.** The inductive invariant says what flash holds at each point of a
save: `base` with the first `written` keys of `target`. `SnapshotHoldsInvariant` and
`OnlyModeTearsInvariant` follow, because a command changes one setting, or the mode and
its flag, which are neighbours in the order of writing; for every set of values and any
number of faults.

**WebProofs.** It extends the three modules of the web interface at once, which is why the
specification of `EventStream` is called `StreamSpec`.

`RingHoldsLatestInvariant` is inductive with the types: slot by slot, across every overflow and
wrap; `ReplayIsExactInvariant` follows for the replay of the last call. The lemmas on
remainders use that a position is less than two rings away, since the prover's
arithmetic is linear.

`ParserTakesObjects` is about every body and every limit: the parser accepts a body if and only
if it begins with an object of few enough fields that names a verb, and the verb it takes
is the last one named. It goes by induction over the tokens, in the form
the provers can use: the set of places where `Holds` fails would have a least element (`CountUp`).
`Holds` says in each state of the parser which part of the grammar is behind it, how many
fields it has kept and which verb; a parser in its state `bad` is one after which
no object is possible, or only one with too many fields. That `Progress` exists at all, as a
function with the equation it is defined by, is proved first (`RunExists`,
`ProgressSteps`). `BodyIsObjectInvariant` is the same of the body of every request.

`QueueInvariance` says that ids are places in the command queue, which is only ever added to;
`PromisedIdsAreFoundInvariant` follows, whatever a worker would report.
`AnswerTellsEffectProperty` goes stage by stage through the router: each answer but one leaves
the queue alone and is honest about the device, and that one is in the queue.

**Only model-checked**: the liveness properties (`KeepsSearching`, `FailureIsAnswered`,
`StartSettles`, `Progress`, `DetectionEnds`, `PortIsRecognised`), which need fairness and
ENABLED and are out of the prover's reach. Every invariant and every
action property of a passing run has a theorem.

## 5. What the models say about the code

Besides the violated run and the configurations of section 3.

Session core:

- Two Wiimotes in range may both enter the table: nothing enforces the single session of
  `ARCHITECTURE.md:238` (`link_two_wiimotes`). `SingleSession` is in no run that holds.
- Links lost while a reset chain runs leave entries of dead sessions that fill the table
  (`link_table_full`), or two fast reconnects under way for one flag (`link_fast_page`).
- `stopDiscovery` is accepted while a page runs (`ARCHITECTURE.md:297` accepts nothing).
- `clearReconnectCache` during a fast reconnect clears the pending flag, so its failure starts nothing.
- A late remote name takes the slot of a pending fast reconnect.

Wi-Fi control:

- A restart left pending by a request and followed by a stop of the sketch leaves
  `initializing` set while control is disabled.
- The mode given to `enableWifiControl` is not stored in the configuration, and the serial
  line and the web enable with the configured one.
- `networkConnected` is never looked at again once the join has succeeded.

Queues:

- The queue sizes of the configuration are swapped.
- The TX queue has a second producer (`ARCHITECTURE.md:625` counts on one), which its use of
  FreeRTOS makes harmless: the FIFO is proved.
- A packet lost for want of memory is not reported to the command that sent it.

Extensions and reports:

- A real acknowledgement has six bytes, which the handlers of the waiting states accept
  (`wiimote_extensions.cpp:67`, `:82`) and line 42 drops before them: the detection hangs until the
  link ends, and a Nunchuk is never found.
- An acknowledgement names the report, not the register: the sketch's own write is
  taken for the detection's, and a read of EEPROM `0x00FA` for the identity.
- A status report that arrives while a detection waits is ignored; one of another
  extension than a Nunchuk sets no mode, and the Wiimote stays silent.
- A press of C or Z is reported one report late, and every report while it is held counts
  as a change.
- Status, acknowledge and read reports reset accelerometer and stick, and `available()`
  returns 0 for them.

Serial line and configuration:

- An expired session is never marked locked and is open again when the clock has
  gone all the way round; one opened with the old token stays open after `configure()`.
- Disabling serial control in the middle of a line lets its end be read as a line.
- `scan` and `reconnect` answer ok whatever the session core does.
- A load that fails for one key saves the defaults over all five.
- A power cut between two keys may leave the new reporting mode with the old continuous flag.

Web API and events:

- Scan and reconnect routes always answer 200 (`API.md` lists 409 for a rejection).
- Nothing frees an entry of the command queue: after eight commands every further one is
  answered 503. The firmware sets no queue and no stream, so commands run at once and an
  upgrade is answered 501. `webCommandQueueUpdate` has no caller.
- A comma before the closing brace is taken, and what follows the object is ignored; any
  word that is not true is false.
- `publish` keeps frames for a channel without a client (its header calls it a no-op).
- A client of an earlier life may be told that nothing is missing; frames behind a wrap of the
  numbers are skipped without a sign, and a replay after the last number before the wrap asks for a
  snapshot that is not needed.

## 6. Not modelled

The bytes of packets and reports, JSON and response text (`serial_response_formatter.cpp`,
`web_response_serializer.cpp`), the OpenAPI document, code names, log text and web pages:
they keep no state, and the models have the decision of what is sent. An overflow of the
UART, which belongs to the driver. `RuntimeConfigStore::clear`, which nothing calls.
The worker of the command queue, which does not exist yet: its update may come for any id.
The 500 of `acceptedResponse` for a response buffer too small for it, given after the command
was queued: the firmware's buffer is larger than the longest such response.
The Wi-Fi and TCP stacks; the NVS library beyond calls that fail;
FreeRTOS itself beyond bounded queues. A start of the controller that fails and is
tried again leaks the queue it had created: `HciQueue` begins at the start that
succeeds. `HciLink` takes the accelerometer setting as fixed for a session. Fields
that two threads write without a lock before `deviceInited` are read and written in
whole handlers, since the C++ object model would allow any value and the compiled
code has single-word stores.

## 7. Plan

What is left, in order of what a fault there would cost:

1. `ConnectedHasSession` under a weaker hypothesis: TLC finds it true of one Wiimote and one
   handle with every command and every fault, where `SessionIsLive` is false.
2. `HciLink` behind `CommandTarget`: a refinement that shows the states a command may find to
   be those the session core reaches, and no others.
3. The worker of the command queue and the publisher of events, once the program has them.
