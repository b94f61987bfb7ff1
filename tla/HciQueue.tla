------------------------------ MODULE HciQueue ------------------------------
(***************************************************************************)
(* The HCI queues (esp32wiimote/queue/hci_queue.cpp), their two ends       *)
(* (hci_callbacks.cpp, ESP32Wiimote::task) and the start that creates them *)
(* (bt_controller.cpp).                                                    *)
(*                                                                         *)
(* Two threads share them: the main loop, which takes packets from both    *)
(* queues and sends to tx, and the Bluetooth task, whose callbacks send    *)
(* events to rx and the first Reset to tx.  A queue holds pointers to      *)
(* packets on the heap; a sender copies its packet to a fresh block and    *)
(* waits, without limit, while the queue is full; the receiver frees it.   *)
(*                                                                         *)
(* What the packets say is HciLink's part: here a handler or a command     *)
(* sends any of them, up to MaxBurst at once.  An empty packet, which no   *)
(* caller sends, is left out.                                              *)
(***************************************************************************)
EXTENDS Naturals, Sequences

CONSTANTS
    Blocks,         \* what the heap can hold
    NoBlock,
    Packets,        \* the contents of a packet
    NoPacket,       \* the contents of a free block
    TxQueueSize,    \* config_.txQueueSize
    RxQueueSize,    \* config_.rxQueueSize
    MaxBurst,       \* the most packets one handler or command sends
    Faults          \* "start": init() fails; "memory": malloc fails although blocks are free

ASSUME HciQueueAssumption ==
    /\ NoBlock \notin Blocks /\ NoPacket \notin Packets
    /\ TxQueueSize \in Nat \ {0} /\ RxQueueSize \in Nat \ {0}
    /\ MaxBurst \in Nat
    /\ Faults \subseteq {"start", "memory"}

\* The constructor of HciQueueManager takes (rx, tx) and is passed (tx, rx).
TxCapacity == RxQueueSize
RxCapacity == TxQueueSize

VARIABLES
    heap,       \* the contents of each block
    tx, rx,     \* the queues of blocks
    main,       \* where the main loop is
    todo,       \* the packets it has still to send there
    back,       \* where it goes after them
    copied,     \* the block it is sending
    taken,      \* the block it took from a queue
    bt,         \* where the Bluetooth task is
    posting,    \* the block it is sending
    inited,     \* deviceInited
    available,  \* esp_vhci_host_check_send_available
    due,        \* notify_host_send_available is to be called
    sent,       \* the packet the controller was handed last
    handled     \* the packet handleHciData was given last

mainVars == <<main, todo, back, copied, taken>>
btVars == <<bt, posting>>
queues == <<tx, rx>>
controller == <<available, due>>
observed == <<sent, handled>>
vars == <<heap, queues, mainVars, btVars, inited, controller, observed>>

Init ==
    /\ heap = [b \in Blocks |-> NoPacket]
    /\ tx = <<>> /\ rx = <<>>
    /\ main = "setup" /\ todo = 0 /\ back = "setup"
    /\ copied = NoBlock /\ taken = NoBlock
    /\ bt = "idle" /\ posting = NoBlock
    /\ inited = FALSE /\ available = TRUE /\ due = TRUE
    /\ sent = NoPacket /\ handled = NoPacket

----------------------------------------------------------------------------
\* sendToQueue, up to the wait for room: the packet is copied to block b.
Copy(b) ==
    /\ heap[b] = NoPacket
    /\ \E p \in Packets : heap' = [heap EXCEPT ![b] = p]

CopyFails ==
    /\ "memory" \in Faults \/ \A b \in Blocks : heap[b] # NoPacket
    /\ UNCHANGED heap

Free(b) == heap' = [heap EXCEPT ![b] = NoPacket]

Sending(n, next) == main' = "send" /\ todo' = n /\ back' = next

----------------------------------------------------------------------------
(* BluetoothController::init.  A failure before the callbacks are          *)
(* registered leaves nothing a thread can see; the sketch may try again.   *)

RegisterCallbacks ==
    /\ main = "setup"
    /\ main' \in {"registered"} \cup (IF "start" \in Faults THEN {"setup"} ELSE {})
    /\ UNCHANGED <<heap, queues, todo, back, copied, taken, btVars, inited, controller, observed>>

\* until initialized is set, task() leaves the queues alone
SetInitialized ==
    /\ main = "registered"
    /\ main' = "sketch"
    /\ UNCHANGED <<heap, queues, todo, back, copied, taken, btVars, inited, controller, observed>>

----------------------------------------------------------------------------
(* The main loop: the sketch's commands, then task().                      *)

\* every command asks for deviceInited or for a connection, which comes after it
SketchCommands ==
    /\ main = "sketch" /\ inited
    /\ \E n \in 1..MaxBurst : Sending(n, "sketch")
    /\ UNCHANGED <<heap, queues, copied, taken, btVars, inited, controller, observed>>

EnterTask ==
    /\ main = "sketch"
    /\ main' = "processTx"
    /\ UNCHANGED <<heap, queues, todo, back, copied, taken, btVars, inited, controller, observed>>

\* Mutated form: the block is freed before its packet is handed over
ProcessTxQueue_FreesFirst ==
    /\ main = "processTx" /\ tx # <<>> /\ available
    /\ taken' = Head(tx) /\ tx' = Tail(tx)
    /\ Free(Head(tx))
    /\ main' = "transmit"
    /\ UNCHANGED <<rx, todo, back, copied, btVars, inited, controller, observed>>

\* one packet per task(), and none while the controller has no room
ProcessTxQueue ==
    /\ main = "processTx"
    /\ \/ /\ tx = <<>> \/ ~available
          /\ main' = "processRx"
          /\ UNCHANGED <<tx, taken>>
       \/ /\ tx # <<>> /\ available
          /\ taken' = Head(tx) /\ tx' = Tail(tx)
          /\ main' = "transmit"
    /\ UNCHANGED <<heap, rx, todo, back, copied, btVars, inited, controller, observed>>

\* esp_vhci_host_send_packet: the controller may have no room for another
Transmit ==
    /\ main = "transmit"
    /\ sent' = heap[taken]
    /\ available' \in BOOLEAN
    /\ main' = "freeSent"
    /\ UNCHANGED <<heap, queues, todo, back, copied, taken, btVars, inited, due, handled>>

\* Mutated form: the packet is not freed
FreeSent_Leaks ==
    /\ main = "freeSent"
    /\ taken' = NoBlock
    /\ main' = "processRx"
    /\ UNCHANGED <<heap, queues, todo, back, copied, btVars, inited, controller, observed>>

FreeSent ==
    /\ main = "freeSent"
    /\ Free(taken) /\ taken' = NoBlock
    /\ main' = "processRx"
    /\ UNCHANGED <<queues, todo, back, copied, btVars, inited, controller, observed>>

\* Mutated form: events wait until nothing is left to send
ProcessRxQueue_AfterTx ==
    /\ main = "processRx"
    /\ \/ /\ rx = <<>> \/ tx # <<>>
          /\ main' = "commands"
          /\ UNCHANGED <<rx, taken>>
       \/ /\ rx # <<>> /\ tx = <<>>
          /\ taken' = Head(rx) /\ rx' = Tail(rx)
          /\ main' = "handle"
    /\ UNCHANGED <<heap, tx, todo, back, copied, btVars, inited, controller, observed>>

ProcessRxQueue ==
    /\ main = "processRx"
    /\ \/ /\ rx = <<>>
          /\ main' = "commands"
          /\ UNCHANGED <<rx, taken>>
       \/ /\ rx # <<>>
          /\ taken' = Head(rx) /\ rx' = Tail(rx)
          /\ main' = "handle"
    /\ UNCHANGED <<heap, tx, todo, back, copied, btVars, inited, controller, observed>>

\* handleHciData; the end of the initialisation sets deviceInited too
HandleHciData ==
    /\ main = "handle"
    /\ handled' = heap[taken]
    /\ inited' \in {inited, TRUE}
    /\ \E n \in 0..MaxBurst : Sending(n, "freeHandled")
    /\ UNCHANGED <<heap, queues, copied, taken, btVars, controller, sent>>

FreeHandled ==
    /\ main = "freeHandled"
    /\ Free(taken) /\ taken' = NoBlock
    /\ main' = "commands"
    /\ UNCHANGED <<queues, todo, back, copied, btVars, inited, controller, observed>>

\* the serial line and the HTTP server
RemoteCommands ==
    /\ main = "commands"
    /\ \E n \in 0..MaxBurst : (inited \/ n = 0) /\ Sending(n, "sketch")
    /\ UNCHANGED <<heap, queues, copied, taken, btVars, inited, controller, observed>>

\* hciHostSendPacket drops the packet for which sendToTxQueue has no memory
SendNext ==
    /\ main = "send"
    /\ \/ /\ todo = 0
          /\ main' = back
          /\ UNCHANGED <<heap, todo, copied>>
       \/ /\ todo > 0
          /\ CopyFails
          /\ todo' = todo - 1
          /\ UNCHANGED <<main, copied>>
       \/ /\ todo > 0
          /\ \E b \in Blocks : Copy(b) /\ copied' = b
          /\ main' = "enqueue"
          /\ UNCHANGED todo
    /\ UNCHANGED <<queues, back, taken, btVars, inited, controller, observed>>

EnqueueTx ==
    /\ main = "enqueue"
    /\ Len(tx) < TxCapacity
    /\ tx' = Append(tx, copied) /\ copied' = NoBlock
    /\ todo' = todo - 1
    /\ main' = "send"
    /\ UNCHANGED <<heap, rx, back, taken, btVars, inited, controller, observed>>

MainStep ==
    \/ RegisterCallbacks \/ SetInitialized
    \/ SketchCommands \/ EnterTask
    \/ ProcessTxQueue \/ Transmit \/ FreeSent
    \/ ProcessRxQueue \/ HandleHciData \/ FreeHandled
    \/ RemoteCommands \/ SendNext \/ EnqueueTx

----------------------------------------------------------------------------
(* The Bluetooth task, once the callbacks are registered.                  *)

\* notifyHostRecv; an event for which there is no memory is lost
NotifyHostRecv ==
    /\ bt = "idle" /\ main # "setup"
    /\ \E b \in Blocks : Copy(b) /\ posting' = b
    /\ bt' = "enqueueRx"
    /\ UNCHANGED <<queues, mainVars, inited, controller, observed>>

EnqueueRx ==
    /\ bt = "enqueueRx"
    /\ Len(rx) < RxCapacity
    /\ rx' = Append(rx, posting) /\ posting' = NoBlock
    /\ bt' = "idle"
    /\ UNCHANGED <<heap, tx, mainVars, inited, controller, observed>>

\* notifyHostSendAvailable: until deviceInited, tinyWiimoteResetDevice sends Reset
NotifyHostSendAvailable ==
    /\ bt = "idle" /\ main # "setup" /\ due
    /\ due' = FALSE
    /\ \/ /\ inited
          /\ UNCHANGED <<heap, btVars>>
       \/ /\ ~inited
          /\ CopyFails
          /\ bt' = "markInited"
          /\ UNCHANGED posting
       \/ /\ ~inited
          /\ \E b \in Blocks : Copy(b) /\ posting' = b
          /\ bt' = "enqueueReset"
    /\ UNCHANGED <<queues, mainVars, inited, available, observed>>

EnqueueReset ==
    /\ bt = "enqueueReset"
    /\ Len(tx) < TxCapacity
    /\ tx' = Append(tx, posting) /\ posting' = NoBlock
    /\ bt' = "markInited"
    /\ UNCHANGED <<heap, rx, mainVars, inited, controller, observed>>

MarkInited ==
    /\ bt = "markInited"
    /\ inited' = TRUE
    /\ bt' = "idle"
    /\ UNCHANGED <<heap, queues, mainVars, posting, controller, observed>>

BtStep ==
    \/ NotifyHostRecv \/ EnqueueRx
    \/ NotifyHostSendAvailable \/ EnqueueReset \/ MarkInited

----------------------------------------------------------------------------
\* The controller has sent its packet and takes another.
ControllerFrees ==
    /\ ~available
    /\ available' = TRUE /\ due' = TRUE
    /\ UNCHANGED <<heap, queues, mainVars, btVars, inited, observed>>

Next == MainStep \/ BtStep \/ ControllerFrees

Spec == Init /\ [][Next]_vars

\* The main loop runs and the sketch calls task() again and again, the
\* Bluetooth task finishes its callbacks, and the controller takes packets.
Fairness ==
    /\ WF_vars(MainStep) /\ SF_vars(EnterTask)
    /\ WF_vars(EnqueueRx \/ EnqueueReset \/ MarkInited)
    /\ WF_vars(ControllerFrees)

FairSpec == Spec /\ Fairness

----------------------------------------------------------------------------
(* Properties.                                                             *)

MainPlaces == {"setup", "registered", "sketch", "processTx", "transmit", "freeSent",
               "processRx", "handle", "freeHandled", "commands", "send", "enqueue"}
BtPlaces == {"idle", "enqueueRx", "enqueueReset", "markInited"}

\* Every variable has its type, and no queue more than its capacity.
TypeOK ==
    /\ heap \in [Blocks -> Packets \cup {NoPacket}]
    /\ tx \in Seq(Blocks) /\ Len(tx) <= TxCapacity
    /\ rx \in Seq(Blocks) /\ Len(rx) <= RxCapacity
    /\ main \in MainPlaces /\ back \in {"setup", "sketch", "freeHandled"}
    /\ todo \in 0..MaxBurst
    /\ copied \in Blocks \cup {NoBlock} /\ taken \in Blocks \cup {NoBlock}
    /\ bt \in BtPlaces /\ posting \in Blocks \cup {NoBlock}
    /\ inited \in BOOLEAN /\ available \in BOOLEAN /\ due \in BOOLEAN
    /\ sent \in Packets \cup {NoPacket} /\ handled \in Packets \cup {NoPacket}

InTx(b) == \E i \in DOMAIN tx : tx[i] = b
InRx(b) == \E i \in DOMAIN rx : rx[i] = b

\* who must free block b, or pass it on
Owners(b) ==
    {o \in {"tx", "rx", "copied", "taken", "posting"} :
        \/ o = "tx" /\ InTx(b)
        \/ o = "rx" /\ InRx(b)
        \/ o = "copied" /\ copied = b
        \/ o = "taken" /\ taken = b
        \/ o = "posting" /\ posting = b}

\* Each allocated block has one owner, a free one none, and no queue holds a
\* block twice: no packet is leaked, freed twice, or used after its free,
\* whichever thread is interrupted where (malloc and free of hci_queue.cpp).
HeapIsOwned ==
    /\ \A b \in Blocks :
         IF heap[b] = NoPacket THEN Owners(b) = {} ELSE \E o \in Owners(b) : Owners(b) = {o}
    /\ \A i, j \in DOMAIN tx : tx[i] = tx[j] => i = j
    /\ \A i, j \in DOMAIN rx : rx[i] = rx[j] => i = j

\* The packets behind pointers, those just taken from their queue included.
Contents(queue) == [i \in DOMAIN queue |-> heap[queue[i]]]

Channel == INSTANCE HciChannel WITH
    outgoing <- Contents((IF main = "transmit" THEN <<taken>> ELSE <<>>) \o tx),
    incoming <- Contents((IF main = "handle" THEN <<taken>> ELSE <<>>) \o rx)

\* The queues of pointers implement a FIFO of packets in each direction.
ImplementsChannel == Channel!Spec

\* the main loop waits for room in the queue that it alone empties
MainWaits == main = "enqueue" /\ Len(tx) >= TxCapacity

\* Unless the main loop comes to wait for itself, everything queued goes on:
\* neither direction is starved by the other, by the sketch's commands or by
\* a controller that is often busy.
Progress ==
    []~MainWaits => /\ tx # <<>> ~> main = "transmit"
                    /\ rx # <<>> ~> main = "handle"

\* API.md:214, of task(): "Non-blocking operation".
InTask ==
    \/ main \in MainPlaces \ {"setup", "registered", "sketch", "send", "enqueue"}
    \/ main \in {"send", "enqueue"} /\ taken # NoBlock
TaskReturns == InTask ~> ~InTask

=============================================================================
