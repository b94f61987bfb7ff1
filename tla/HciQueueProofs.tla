--------------------------- MODULE HciQueueProofs ---------------------------
(***************************************************************************)
(* Proofs about HciQueue, for any heap, queue sizes, packets and faults.   *)
(***************************************************************************)
EXTENDS HciQueue, SequenceTheorems, TLAPS

Elements(s) == {s[i] : i \in DOMAIN s}
NoRepeats(s) == \A i, j \in DOMAIN s : s[i] = s[j] => i = j
Content == Packets \cup {NoPacket}
Read(h, s) == [i \in DOMAIN s |-> h[s[i]]]

----------------------------------------------------------------------------
(* Queues of blocks.                                                       *)

\* What a block appended to a queue adds to it.
LEMMA AppendElements ==
    ASSUME NEW s \in Seq(Blocks), NEW b \in Blocks
    PROVE  /\ Append(s, b) \in Seq(Blocks) /\ Len(Append(s, b)) = Len(s) + 1
           /\ Elements(Append(s, b)) = Elements(s) \cup {b}
           /\ NoRepeats(s) /\ b \notin Elements(s) => NoRepeats(Append(s, b))
<1>1. /\ Append(s, b) \in Seq(Blocks) /\ Len(Append(s, b)) = Len(s) + 1
      /\ \A i \in 1..Len(s) : Append(s, b)[i] = s[i]
      /\ Append(s, b)[Len(s) + 1] = b
  BY AppendProperties
<1>2. /\ DOMAIN s = 1..Len(s) /\ DOMAIN Append(s, b) = 1..(Len(s) + 1) /\ Len(s) \in Nat
  BY <1>1, LenProperties
<1>3. Elements(Append(s, b)) = Elements(s) \cup {b}
  BY <1>1, <1>2 DEF Elements
<1>4. NoRepeats(s) /\ b \notin Elements(s) => NoRepeats(Append(s, b))
  BY <1>1, <1>2 DEF Elements, NoRepeats
<1> QED BY <1>1, <1>3, <1>4

\* What is left of a queue whose first block was taken.
LEMMA TailElements ==
    ASSUME NEW s \in Seq(Blocks), s # <<>>
    PROVE  /\ Head(s) \in Blocks /\ Head(s) \in Elements(s)
           /\ Tail(s) \in Seq(Blocks) /\ Len(Tail(s)) <= Len(s)
           /\ NoRepeats(s) => NoRepeats(Tail(s)) /\ Elements(Tail(s)) = Elements(s) \ {Head(s)}
<1>1. /\ Head(s) \in Blocks /\ Tail(s) \in Seq(Blocks) /\ Len(Tail(s)) = Len(s) - 1
      /\ \A i \in 1..Len(Tail(s)) : Tail(s)[i] = s[i + 1]
  BY HeadTailProperties
<1>2. /\ DOMAIN s = 1..Len(s) /\ DOMAIN Tail(s) = 1..(Len(s) - 1) /\ Len(s) \in Nat \ {0}
  BY <1>1, LenProperties, EmptySeq
<1>3. Head(s) = s[1]
  OBVIOUS
<1>4. NoRepeats(s) => NoRepeats(Tail(s))
  BY <1>1, <1>2 DEF NoRepeats
<1>5. ASSUME NoRepeats(s) PROVE Elements(Tail(s)) = Elements(s) \ {Head(s)}
  <2>1. ASSUME NEW b \in Elements(Tail(s)) PROVE b \in Elements(s) \ {Head(s)}
    BY <1>1, <1>2, <1>3, <1>5 DEF Elements, NoRepeats
  <2>2. ASSUME NEW b \in Elements(s) \ {Head(s)} PROVE b \in Elements(Tail(s))
    <3>1. PICK i \in 1..Len(s) : b = s[i] /\ i # 1
      BY <1>2, <1>3 DEF Elements
    <3>2. i - 1 \in 1..(Len(s) - 1) /\ Tail(s)[i - 1] = b
      BY <3>1, <1>1, <1>2
    <3> QED BY <3>2, <1>2 DEF Elements
  <2> QED BY <2>1, <2>2
<1>6. Head(s) \in Elements(s)
  BY <1>2, <1>3 DEF Elements
<1> QED BY <1>1, <1>2, <1>4, <1>5, <1>6

\* A new queue is empty.
LEMMA EmptyElements == /\ <<>> \in Seq(Blocks) /\ Len(<<>>) = 0
                       /\ Elements(<<>>) = {} /\ NoRepeats(<<>>)
BY DEF Elements, NoRepeats

----------------------------------------------------------------------------
(* The packets behind a queue of blocks.                                   *)

\* A queue of blocks stands for a sequence of what they contain.
LEMMA ReadType ==
    ASSUME NEW h \in [Blocks -> Content], NEW s \in Seq(Blocks)
    PROVE  /\ Read(h, s) \in Seq(Content) /\ Len(Read(h, s)) = Len(s)
           /\ \A i \in 1..Len(s) : Read(h, s)[i] = h[s[i]]
<1>1. Len(s) \in Nat /\ DOMAIN s = 1..Len(s) /\ \A i \in 1..Len(s) : s[i] \in Blocks
  BY LenProperties, ElementOfSeq
<1>2. Read(h, s) \in [1..Len(s) -> Content]
  BY <1>1 DEF Read
<1>3. Read(h, s) \in Seq(Content)
  BY <1>1, <1>2, SeqDef
<1>4. Len(Read(h, s)) = Len(s)
  BY <1>1, <1>2, <1>3, LenProperties
<1> QED BY <1>1, <1>3, <1>4 DEF Read

\* Appending a block appends its packet.
LEMMA ReadAppend ==
    ASSUME NEW h \in [Blocks -> Content], NEW s \in Seq(Blocks), NEW b \in Blocks
    PROVE  Read(h, Append(s, b)) = Append(Read(h, s), h[b])
<1>1. /\ Append(s, b) \in Seq(Blocks) /\ Len(Append(s, b)) = Len(s) + 1
      /\ \A i \in 1..Len(s) : Append(s, b)[i] = s[i]
      /\ Append(s, b)[Len(s) + 1] = b /\ Len(s) \in Nat
  BY AppendProperties, LenProperties
<1>2. /\ Read(h, Append(s, b)) \in Seq(Content) /\ Len(Read(h, Append(s, b))) = Len(s) + 1
      /\ \A i \in 1..(Len(s) + 1) : Read(h, Append(s, b))[i] = h[Append(s, b)[i]]
  BY <1>1, ReadType
<1>3. /\ Read(h, s) \in Seq(Content) /\ Len(Read(h, s)) = Len(s)
      /\ \A i \in 1..Len(s) : Read(h, s)[i] = h[s[i]]
  BY ReadType
<1>4. /\ Append(Read(h, s), h[b]) \in Seq(Content)
      /\ Len(Append(Read(h, s), h[b])) = Len(s) + 1
      /\ \A i \in 1..Len(s) : Append(Read(h, s), h[b])[i] = h[s[i]]
      /\ Append(Read(h, s), h[b])[Len(s) + 1] = h[b]
  <2>1. h[b] \in Content
    OBVIOUS
  <2> QED BY <1>3, <2>1, AppendProperties
<1>5. \A i \in 1..(Len(s) + 1) : Read(h, Append(s, b))[i] = Append(Read(h, s), h[b])[i]
  BY <1>1, <1>2, <1>4
<1> QED BY <1>2, <1>4, <1>5, SeqEqual

\* A block in front of a queue puts its packet in front.
LEMMA ReadConcat ==
    ASSUME NEW h \in [Blocks -> Content], NEW s \in Seq(Blocks), NEW b \in Blocks
    PROVE  /\ Read(h, <<b>> \o s) # <<>>
           /\ Head(Read(h, <<b>> \o s)) = h[b]
           /\ Tail(Read(h, <<b>> \o s)) = Read(h, s)
<1>1. /\ <<b>> \in Seq(Blocks) /\ Len(<<b>>) = 1 /\ Len(s) \in Nat
  BY LenProperties
<1>2. /\ <<b>> \o s \in Seq(Blocks) /\ Len(<<b>> \o s) = Len(s) + 1
      /\ (<<b>> \o s)[1] = b /\ \A i \in 1..Len(s) : (<<b>> \o s)[i + 1] = s[i]
  BY <1>1, ConcatProperties
<1> DEFINE r == Read(h, <<b>> \o s)
<1>3. /\ r \in Seq(Content) /\ Len(r) = Len(s) + 1
      /\ \A i \in 1..(Len(s) + 1) : r[i] = h[(<<b>> \o s)[i]]
  BY <1>2, ReadType
<1>4. /\ Read(h, s) \in Seq(Content) /\ Len(Read(h, s)) = Len(s)
      /\ \A i \in 1..Len(s) : Read(h, s)[i] = h[s[i]]
  BY ReadType
<1> HIDE DEF r
<1>5. r # <<>>
  BY <1>1, <1>3
<1>6. /\ Tail(r) \in Seq(Content) /\ Len(Tail(r)) = Len(s)
      /\ \A i \in 1..Len(s) : Tail(r)[i] = r[i + 1]
  BY <1>1, <1>3, <1>5, HeadTailProperties
<1>7. \A i \in 1..Len(s) : Tail(r)[i] = Read(h, s)[i]
  BY <1>1, <1>2, <1>3, <1>4, <1>6
<1>8. Tail(r) = Read(h, s)
  BY <1>4, <1>6, <1>7, SeqEqual
<1>9. Head(r) = h[b]
  BY <1>1, <1>2, <1>3, <1>5
<1> QED BY <1>5, <1>8, <1>9 DEF r

\* A block that is not in a queue may change.
LEMMA ReadOther ==
    ASSUME NEW h \in [Blocks -> Content], NEW s \in Seq(Blocks), NEW b, b \notin Elements(s), NEW p
    PROVE  Read([h EXCEPT ![b] = p], s) = Read(h, s)
<1>1. \A i \in DOMAIN s : s[i] \in Blocks /\ s[i] # b
  BY LenProperties, ElementOfSeq DEF Elements
<1> QED BY <1>1 DEF Read

\* Taking the first block and putting it in front again changes nothing.
LEMMA HeadInFront ==
    ASSUME NEW s \in Seq(Blocks), s # <<>>
    PROVE  <<Head(s)>> \o Tail(s) = s
<1>1. /\ Head(s) \in Blocks /\ Tail(s) \in Seq(Blocks) /\ Len(Tail(s)) = Len(s) - 1
      /\ \A i \in 1..Len(Tail(s)) : Tail(s)[i] = s[i + 1]
  BY HeadTailProperties
<1>2. Len(s) \in Nat \ {0} /\ Head(s) = s[1]
  BY EmptySeq
<1>3. <<Head(s)>> \in Seq(Blocks) /\ Len(<<Head(s)>>) = 1
  BY <1>1
<1> DEFINE t == <<Head(s)>> \o Tail(s)
<1>4. /\ t \in Seq(Blocks) /\ Len(t) = Len(s)
      /\ \A i \in 1..Len(s) : t[i] = IF i <= 1 THEN <<Head(s)>>[i] ELSE Tail(s)[i - 1]
  BY <1>1, <1>2, <1>3, ConcatProperties
<1> HIDE DEF t
<1>5. \A i \in 1..Len(s) : t[i] = s[i]
  <2> TAKE i \in 1..Len(s)
  <2>1. CASE i = 1
    BY <2>1, <1>2, <1>4
  <2>2. CASE i > 1
    BY <2>2, <1>1, <1>2, <1>4
  <2> QED BY <2>1, <2>2, <1>2
<1> QED BY <1>4, <1>5, SeqEqual DEF t

----------------------------------------------------------------------------
(* The inductive invariant: where each thread is tells what it holds, and  *)
(* the queues and the threads share out the allocated blocks.              *)

Places ==
    /\ taken # NoBlock <=>
         \/ main \in {"transmit", "freeSent", "handle", "freeHandled"}
         \/ main \in {"send", "enqueue"} /\ back = "freeHandled"
    /\ copied # NoBlock <=> main = "enqueue"
    /\ posting # NoBlock <=> bt \in {"enqueueRx", "enqueueReset"}
    /\ main \in {"send", "enqueue"} => back \in {"sketch", "freeHandled"}
    /\ main = "enqueue" => todo > 0

Allocated == {b \in Blocks : heap[b] # NoPacket}
InHand == {copied, taken, posting} \ {NoBlock}

Shared ==
    /\ NoRepeats(tx) /\ NoRepeats(rx)
    /\ Elements(tx) \cap Elements(rx) = {}
    /\ (Elements(tx) \cup Elements(rx)) \cap InHand = {}
    /\ copied # NoBlock => copied \notin {taken, posting}
    /\ taken # NoBlock => taken # posting
    /\ Allocated = Elements(tx) \cup Elements(rx) \cup InHand

Inv == TypeOK /\ Places /\ Shared

\* The blocks of the queues and of the threads are allocated, and they are blocks.
LEMMA Holders ==
    ASSUME Inv
    PROVE  /\ Elements(tx) \subseteq Blocks /\ Elements(rx) \subseteq Blocks
           /\ \A b \in Elements(tx) \cup Elements(rx) \cup InHand : b \in Blocks /\ heap[b] # NoPacket
BY DEF Inv, Shared, Allocated

\* A free block that is given a packet is a new one for every owner.
LEMMA CopyShares ==
    ASSUME Inv, NEW b \in Blocks, Copy(b)
    PROVE  /\ heap' \in [Blocks -> Content]
           /\ b # NoBlock /\ b \notin Elements(tx) \cup Elements(rx) \cup InHand
           /\ Allocated' = Allocated \cup {b}
           /\ heap'[b] \in Packets
           /\ \E p : heap' = [heap EXCEPT ![b] = p]
<1>1. PICK p \in Packets : heap' = [heap EXCEPT ![b] = p]
  BY DEF Copy
<1>2. heap \in [Blocks -> Content] /\ p # NoPacket /\ b # NoBlock /\ heap[b] = NoPacket
  BY HciQueueAssumption DEF HciQueueAssumption, Inv, TypeOK, Content, Copy
<1>3. heap' \in [Blocks -> Content] /\ heap'[b] = p
  BY <1>1, <1>2 DEF Content
<1>4. Allocated' = Allocated \cup {b}
  BY <1>1, <1>2 DEF Allocated
<1>5. b \notin Elements(tx) \cup Elements(rx) \cup InHand
  BY <1>2, Holders
<1> QED BY <1>1, <1>2, <1>3, <1>4, <1>5

\* A block that is freed is no longer allocated; the others stay as they are.
LEMMA FreeShares ==
    ASSUME Inv, NEW b \in Blocks, Free(b)
    PROVE  heap' \in [Blocks -> Content] /\ Allocated' = Allocated \ {b}
BY DEF Inv, TypeOK, Content, Free, Allocated

----------------------------------------------------------------------------
(* Each step keeps the three parts of the invariant.                       *)

\* Every step keeps the types, and no sender exceeds the capacity of a queue.
LEMMA NextKeepsType ==
    ASSUME Inv, Next
    PROVE  TypeOK'
<1>0. /\ heap \in [Blocks -> Content]
      /\ tx \in Seq(Blocks) /\ Len(tx) <= TxCapacity
      /\ rx \in Seq(Blocks) /\ Len(rx) <= RxCapacity
      /\ main \in MainPlaces /\ back \in {"setup", "sketch", "freeHandled"}
      /\ todo \in 0..MaxBurst
      /\ copied \in Blocks \cup {NoBlock} /\ taken \in Blocks \cup {NoBlock}
      /\ bt \in BtPlaces /\ posting \in Blocks \cup {NoBlock}
      /\ inited \in BOOLEAN /\ available \in BOOLEAN /\ due \in BOOLEAN
      /\ sent \in Content /\ handled \in Content
      /\ TxCapacity \in Nat /\ RxCapacity \in Nat /\ MaxBurst \in Nat
  BY HciQueueAssumption DEF HciQueueAssumption, Inv, TypeOK, Content, TxCapacity, RxCapacity
<1>1. heap' \in [Blocks -> Content]
  <2>1. \A b \in Blocks : Copy(b) => heap' \in [Blocks -> Content]
    BY <1>0 DEF Copy, Content
  <2>2. \A b \in Blocks \cup {NoBlock} : Free(b) => heap' \in [Blocks -> Content]
    BY <1>0 DEF Free, Content
  <2>3. CASE MainStep
    BY <2>1, <2>2, <2>3, <1>0 DEF MainStep, RegisterCallbacks, SetInitialized, SketchCommands,
         EnterTask, ProcessTxQueue, Transmit, FreeSent, ProcessRxQueue, HandleHciData,
         FreeHandled, RemoteCommands, SendNext, EnqueueTx, CopyFails
  <2>4. CASE BtStep
    BY <2>1, <2>4, <1>0 DEF BtStep, NotifyHostRecv, EnqueueRx, NotifyHostSendAvailable,
         EnqueueReset, MarkInited, CopyFails
  <2>5. CASE ControllerFrees
    BY <2>5, <1>0 DEF ControllerFrees
  <2> QED BY <2>3, <2>4, <2>5 DEF Next
<1>2. /\ tx' \in Seq(Blocks) /\ Len(tx') <= TxCapacity
      /\ rx' \in Seq(Blocks) /\ Len(rx') <= RxCapacity
  <2>1. \A b \in Blocks :
          /\ Append(tx, b) \in Seq(Blocks) /\ Len(tx) < TxCapacity => Len(Append(tx, b)) <= TxCapacity
          /\ Append(rx, b) \in Seq(Blocks) /\ Len(rx) < RxCapacity => Len(Append(rx, b)) <= RxCapacity
    <3> TAKE b \in Blocks
    <3>1. /\ Append(tx, b) \in Seq(Blocks) /\ Len(Append(tx, b)) = Len(tx) + 1
          /\ Append(rx, b) \in Seq(Blocks) /\ Len(Append(rx, b)) = Len(rx) + 1
      BY <1>0, AppendElements
    <3>2. Len(tx) \in Nat /\ Len(rx) \in Nat
      BY <1>0, LenProperties
    <3> QED BY <3>1, <3>2, <1>0
  <2>2. /\ tx # <<>> => Tail(tx) \in Seq(Blocks) /\ Len(Tail(tx)) <= TxCapacity
        /\ rx # <<>> => Tail(rx) \in Seq(Blocks) /\ Len(Tail(rx)) <= RxCapacity
    <3>1. \A s \in Seq(Blocks) : s # <<>> => /\ Tail(s) \in Seq(Blocks)
                                             /\ Len(Tail(s)) = Len(s) - 1 /\ Len(s) \in Nat
      BY HeadTailProperties, LenProperties
    <3> QED BY <3>1, <1>0
  <2>3. /\ main = "enqueue" => copied \in Blocks
        /\ bt \in {"enqueueRx", "enqueueReset"} => posting \in Blocks
    BY <1>0 DEF Inv, Places
  <2>4. CASE ProcessTxQueue
    BY <2>2, <2>4, <1>0 DEF ProcessTxQueue
  <2>5. CASE ProcessRxQueue
    BY <2>2, <2>5, <1>0 DEF ProcessRxQueue
  <2>6. CASE EnqueueTx
    BY <2>1, <2>3, <2>6, <1>0 DEF EnqueueTx
  <2>7. CASE EnqueueRx
    BY <2>1, <2>3, <2>7, <1>0 DEF EnqueueRx
  <2>8. CASE EnqueueReset
    BY <2>1, <2>3, <2>8, <1>0 DEF EnqueueReset
  <2>9. CASE UNCHANGED queues
    BY <2>9, <1>0 DEF queues
  <2> QED BY <2>4, <2>5, <2>6, <2>7, <2>8, <2>9 DEF Next, MainStep, BtStep, RegisterCallbacks,
            SetInitialized, SketchCommands, EnterTask, Transmit, FreeSent, HandleHciData,
            FreeHandled, RemoteCommands, SendNext, NotifyHostRecv, NotifyHostSendAvailable,
            MarkInited, ControllerFrees
<1>3. /\ main' \in MainPlaces /\ back' \in {"setup", "sketch", "freeHandled"}
      /\ todo' \in 0..MaxBurst
      /\ copied' \in Blocks \cup {NoBlock} /\ taken' \in Blocks \cup {NoBlock}
  <2>1. main = "enqueue" => todo > 0
    BY DEF Inv, Places
  <2>2. (tx # <<>> => Head(tx) \in Blocks) /\ (rx # <<>> => Head(rx) \in Blocks)
    <3>1. \A s \in Seq(Blocks) : s # <<>> => Head(s) \in Blocks
      BY HeadTailProperties
    <3> QED BY <3>1, <1>0
  <2>3. CASE ProcessTxQueue \/ ProcessRxQueue
    BY <2>3, <2>2, <1>0 DEF ProcessTxQueue, ProcessRxQueue, MainPlaces
  <2>4. CASE SketchCommands \/ HandleHciData \/ RemoteCommands
    <3>1. PICK n \in 0..MaxBurst : \/ Sending(n, "sketch") \/ Sending(n, "freeHandled")
      <4>1. CASE SketchCommands
        <5>1. PICK n \in 1..MaxBurst : Sending(n, "sketch")
          BY <4>1 DEF SketchCommands
        <5>2. n \in 0..MaxBurst
          BY <5>1, <1>0
        <5> QED BY <5>1, <5>2
      <4>2. CASE HandleHciData
        BY <4>2 DEF HandleHciData
      <4>3. CASE RemoteCommands
        BY <4>3 DEF RemoteCommands
      <4> QED BY <2>4, <4>1, <4>2, <4>3
    <3>2. copied' = copied /\ taken' = taken
      BY <2>4 DEF SketchCommands, HandleHciData, RemoteCommands
    <3> QED BY <3>1, <3>2, <1>0 DEF Sending, MainPlaces
  <2>5. CASE SendNext \/ EnqueueTx
    <3>1. todo > 0 => todo - 1 \in 0..MaxBurst
      BY <1>0
    <3> QED BY <2>1, <2>5, <3>1, <1>0 DEF SendNext, EnqueueTx, MainPlaces
  <2>6. CASE RegisterCallbacks \/ SetInitialized \/ EnterTask \/ Transmit \/ FreeSent \/ FreeHandled
    BY <2>6, <1>0 DEF RegisterCallbacks, SetInitialized, EnterTask, Transmit, FreeSent,
         FreeHandled, MainPlaces
  <2>7. CASE UNCHANGED mainVars
    BY <2>7, <1>0 DEF mainVars
  <2> QED BY <2>3, <2>4, <2>5, <2>6, <2>7 DEF Next, MainStep, BtStep, NotifyHostRecv, EnqueueRx,
            NotifyHostSendAvailable, EnqueueReset, MarkInited, ControllerFrees
<1>4. bt' \in BtPlaces /\ posting' \in Blocks \cup {NoBlock}
  <2>1. CASE BtStep
    BY <2>1, <1>0 DEF BtStep, NotifyHostRecv, EnqueueRx, NotifyHostSendAvailable, EnqueueReset,
         MarkInited, BtPlaces, btVars
  <2>2. CASE UNCHANGED btVars
    BY <2>2, <1>0 DEF btVars
  <2> QED BY <2>1, <2>2 DEF Next, MainStep, RegisterCallbacks, SetInitialized, SketchCommands,
            EnterTask, ProcessTxQueue, Transmit, FreeSent, ProcessRxQueue, HandleHciData,
            FreeHandled, RemoteCommands, SendNext, EnqueueTx, ControllerFrees
<1>5. /\ inited' \in BOOLEAN /\ available' \in BOOLEAN /\ due' \in BOOLEAN
      /\ sent' \in Content /\ handled' \in Content
  <2>1. main \in {"transmit", "handle"} => heap[taken] \in Content
    BY <1>0 DEF Inv, Places
  <2>2. CASE MainStep
    BY <2>1, <2>2, <1>0 DEF MainStep, RegisterCallbacks, SetInitialized, SketchCommands,
         EnterTask, ProcessTxQueue, Transmit, FreeSent, ProcessRxQueue, HandleHciData,
         FreeHandled, RemoteCommands, SendNext, EnqueueTx, controller, observed
  <2>3. CASE BtStep
    BY <2>3, <1>0 DEF BtStep, NotifyHostRecv, EnqueueRx, NotifyHostSendAvailable, EnqueueReset,
         MarkInited, controller, observed
  <2>4. CASE ControllerFrees
    BY <2>4, <1>0 DEF ControllerFrees, observed
  <2> QED BY <2>2, <2>3, <2>4 DEF Next
<1> QED BY <1>1, <1>2, <1>3, <1>4, <1>5 DEF TypeOK, Content, TxCapacity, RxCapacity

\* Every step leaves each thread holding what its place says.
LEMMA NextKeepsPlaces ==
    ASSUME Inv, Next
    PROVE  Places'
<1>0. /\ NoBlock \notin Blocks /\ todo \in Nat
      /\ main \in MainPlaces /\ back \in {"setup", "sketch", "freeHandled"}
      /\ tx \in Seq(Blocks) /\ rx \in Seq(Blocks)
  BY HciQueueAssumption DEF HciQueueAssumption, Inv, TypeOK
<1>1. CASE MainStep
  <2>1. CASE ProcessTxQueue \/ ProcessRxQueue
    <3>1. (tx # <<>> => Head(tx) # NoBlock) /\ (rx # <<>> => Head(rx) # NoBlock)
      BY <1>0, TailElements
    <3> QED BY <2>1, <3>1, <1>0 DEF ProcessTxQueue, ProcessRxQueue, Inv, Places, btVars
  <2>2. CASE SendNext
    BY <2>2, <1>0 DEF SendNext, Inv, Places, btVars
  <2>3. CASE SketchCommands \/ HandleHciData \/ RemoteCommands
    BY <2>3, <1>0 DEF SketchCommands, HandleHciData, RemoteCommands, Sending, Inv, Places, btVars
  <2>4. CASE EnqueueTx \/ Transmit \/ FreeSent \/ FreeHandled
    BY <2>4, <1>0 DEF EnqueueTx, Transmit, FreeSent, FreeHandled, Inv, Places, btVars
  <2>5. CASE RegisterCallbacks \/ SetInitialized \/ EnterTask
    BY <2>5, <1>0 DEF RegisterCallbacks, SetInitialized, EnterTask, Inv, Places, btVars
  <2> QED BY <1>1, <2>1, <2>2, <2>3, <2>4, <2>5 DEF MainStep
<1>2. CASE BtStep
  BY <1>2, <1>0 DEF BtStep, NotifyHostRecv, EnqueueRx, NotifyHostSendAvailable, EnqueueReset,
       MarkInited, mainVars, btVars, Inv, Places
<1>3. CASE ControllerFrees
  BY <1>3 DEF ControllerFrees, mainVars, btVars, Inv, Places
<1> QED BY <1>1, <1>2, <1>3 DEF Next

\* Every step passes a block from one owner to the next, or leaves them all.
LEMMA NextKeepsShared ==
    ASSUME Inv, Next
    PROVE  Shared'
<1> DEFINE T == Elements(tx)
           R == Elements(rx)
<1>1. /\ tx \in Seq(Blocks) /\ rx \in Seq(Blocks)
      /\ copied \in Blocks \cup {NoBlock} /\ taken \in Blocks \cup {NoBlock}
      /\ posting \in Blocks \cup {NoBlock} /\ NoBlock \notin Blocks
      /\ T \subseteq Blocks /\ R \subseteq Blocks
  BY Holders, HciQueueAssumption DEF HciQueueAssumption, Inv, TypeOK
<1>2. CASE UNCHANGED <<heap, tx, rx, copied, taken, posting>>
  BY <1>2 DEF Inv, Shared, Allocated, InHand
<1>3. CASE ProcessTxQueue /\ tx # <<>> /\ tx' = Tail(tx) /\ taken' = Head(tx)
  <2>1. /\ Head(tx) \in T /\ Elements(Tail(tx)) = T \ {Head(tx)} /\ NoRepeats(Tail(tx))
    BY <1>1, <1>3, TailElements DEF Inv, Shared
  <2>2. taken = NoBlock /\ UNCHANGED <<heap, rx, copied, posting>>
    BY <1>3 DEF ProcessTxQueue, Inv, Places, btVars
  <2>3. Allocated' = Allocated /\ InHand' = InHand \cup {Head(tx)}
    BY <1>1, <1>3, <2>1, <2>2 DEF Allocated, InHand
  <2>4. Elements(tx') = T \ {Head(tx)} /\ Elements(rx') = R /\ NoRepeats(tx') /\ NoRepeats(rx')
    BY <1>3, <2>1, <2>2 DEF Inv, Shared
  <2>5. Head(tx) \notin InHand \cup R
    BY <2>1 DEF Inv, Shared
  <2> QED BY <1>1, <1>3, <2>1, <2>2, <2>3, <2>4, <2>5 DEF Inv, Shared, InHand
<1>4. CASE ProcessRxQueue /\ rx # <<>> /\ rx' = Tail(rx) /\ taken' = Head(rx)
  <2>1. /\ Head(rx) \in R /\ Elements(Tail(rx)) = R \ {Head(rx)} /\ NoRepeats(Tail(rx))
    BY <1>1, <1>4, TailElements DEF Inv, Shared
  <2>2. taken = NoBlock /\ UNCHANGED <<heap, tx, copied, posting>>
    BY <1>4 DEF ProcessRxQueue, Inv, Places, btVars
  <2>3. Allocated' = Allocated /\ InHand' = InHand \cup {Head(rx)}
    BY <1>1, <1>4, <2>1, <2>2 DEF Allocated, InHand
  <2>4. Elements(rx') = R \ {Head(rx)} /\ Elements(tx') = T /\ NoRepeats(tx') /\ NoRepeats(rx')
    BY <1>4, <2>1, <2>2 DEF Inv, Shared
  <2>5. Head(rx) \notin InHand \cup T
    BY <2>1 DEF Inv, Shared
  <2> QED BY <1>1, <1>4, <2>1, <2>2, <2>3, <2>4, <2>5 DEF Inv, Shared, InHand
<1>5. CASE FreeSent \/ FreeHandled
  <2>1. taken \in Blocks /\ Free(taken) /\ taken' = NoBlock /\ UNCHANGED <<tx, rx, copied, posting>>
    BY <1>1, <1>5 DEF FreeSent, FreeHandled, Inv, Places, queues, btVars
  <2>2. Allocated' = Allocated \ {taken} /\ taken \notin T \cup R /\ taken \notin {copied, posting}
    BY <1>1, <2>1, FreeShares DEF Inv, Shared, InHand
  <2>3. InHand' = InHand \ {taken}
    BY <1>1, <2>1, <2>2 DEF InHand
  <2> QED BY <1>1, <2>1, <2>2, <2>3 DEF Inv, Shared
<1>6. ASSUME NEW b \in Blocks, Copy(b), copied' = b, SendNext
      PROVE  Shared'
  <2>1. copied = NoBlock /\ UNCHANGED <<tx, rx, taken, posting>>
    BY <1>6 DEF SendNext, Inv, Places, queues, btVars
  <2>2. Allocated' = Allocated \cup {b} /\ b # NoBlock /\ b \notin T \cup R \cup InHand
    BY <1>6, CopyShares
  <2>3. InHand' = InHand \cup {b}
    BY <1>6, <2>1, <2>2 DEF InHand
  <2>4. b \notin {taken, posting}
    BY <2>2 DEF InHand
  <2> QED BY <1>6, <2>1, <2>2, <2>3, <2>4 DEF Inv, Shared
<1>7. ASSUME NEW b \in Blocks, Copy(b), posting' = b, NotifyHostRecv \/ NotifyHostSendAvailable
      PROVE  Shared'
  <2>1. posting = NoBlock /\ UNCHANGED <<tx, rx, taken, copied>>
    BY <1>7 DEF NotifyHostRecv, NotifyHostSendAvailable, Inv, Places, queues, mainVars
  <2>2. Allocated' = Allocated \cup {b} /\ b # NoBlock /\ b \notin T \cup R \cup InHand
    BY <1>7, CopyShares
  <2>3. InHand' = InHand \cup {b}
    BY <1>7, <2>1, <2>2 DEF InHand
  <2>4. b \notin {taken, copied}
    BY <2>2 DEF InHand
  <2> QED BY <1>7, <2>1, <2>2, <2>3, <2>4 DEF Inv, Shared
<1>8. CASE EnqueueTx
  <2>1. copied \in Blocks /\ tx' = Append(tx, copied) /\ copied' = NoBlock
        /\ UNCHANGED <<heap, rx, taken, posting>>
    BY <1>1, <1>8 DEF EnqueueTx, Inv, Places, btVars
  <2>2. copied \notin T \cup R /\ copied \notin {taken, posting}
    BY <1>1, <2>1 DEF Inv, Shared, InHand
  <2>3. Elements(tx') = T \cup {copied} /\ NoRepeats(tx') /\ rx' = rx
    BY <1>1, <2>1, <2>2, AppendElements DEF Inv, Shared
  <2>4. Allocated' = Allocated /\ InHand' = InHand \ {copied} /\ copied \in InHand
    BY <1>1, <2>1, <2>2 DEF Allocated, InHand
  <2> QED BY <1>1, <2>1, <2>2, <2>3, <2>4 DEF Inv, Shared
<1>9. CASE EnqueueReset
  <2>1. posting \in Blocks /\ tx' = Append(tx, posting) /\ posting' = NoBlock
        /\ UNCHANGED <<heap, rx, taken, copied>>
    BY <1>1, <1>9 DEF EnqueueReset, Inv, Places, mainVars
  <2>2. posting \notin T \cup R /\ posting \notin {taken, copied}
    BY <1>1, <2>1 DEF Inv, Shared, InHand
  <2>3. Elements(tx') = T \cup {posting} /\ NoRepeats(tx') /\ rx' = rx
    BY <1>1, <2>1, <2>2, AppendElements DEF Inv, Shared
  <2>4. Allocated' = Allocated /\ InHand' = InHand \ {posting} /\ posting \in InHand
    BY <1>1, <2>1, <2>2 DEF Allocated, InHand
  <2> QED BY <1>1, <2>1, <2>2, <2>3, <2>4 DEF Inv, Shared
<1>10. CASE EnqueueRx
  <2>1. posting \in Blocks /\ rx' = Append(rx, posting) /\ posting' = NoBlock
        /\ UNCHANGED <<heap, tx, taken, copied>>
    BY <1>1, <1>10 DEF EnqueueRx, Inv, Places, mainVars
  <2>2. posting \notin T \cup R /\ posting \notin {taken, copied}
    BY <1>1, <2>1 DEF Inv, Shared, InHand
  <2>3. Elements(rx') = R \cup {posting} /\ NoRepeats(rx') /\ tx' = tx
    BY <1>1, <2>1, <2>2, AppendElements DEF Inv, Shared
  <2>4. Allocated' = Allocated /\ InHand' = InHand \ {posting} /\ posting \in InHand
    BY <1>1, <2>1, <2>2 DEF Allocated, InHand
  <2> QED BY <1>1, <2>1, <2>2, <2>3, <2>4 DEF Inv, Shared
<1>11. CASE MainStep
  <2>1. CASE ProcessTxQueue
    BY <1>2, <1>3, <2>1 DEF ProcessTxQueue, btVars
  <2>2. CASE ProcessRxQueue
    BY <1>2, <1>4, <2>2 DEF ProcessRxQueue, btVars
  <2>3. CASE SendNext
    BY <1>2, <1>6, <2>3 DEF SendNext, CopyFails, queues, btVars
  <2>4. CASE RegisterCallbacks \/ SetInitialized \/ SketchCommands \/ EnterTask \/ Transmit
             \/ HandleHciData \/ RemoteCommands
    BY <1>2, <2>4 DEF RegisterCallbacks, SetInitialized, SketchCommands, EnterTask, Transmit,
         HandleHciData, RemoteCommands, queues, btVars
  <2> QED BY <1>5, <1>8, <1>11, <2>1, <2>2, <2>3, <2>4 DEF MainStep
<1>12. CASE BtStep
  <2>1. CASE NotifyHostRecv
    BY <1>7, <2>1 DEF NotifyHostRecv
  <2>2. CASE NotifyHostSendAvailable
    BY <1>2, <1>7, <2>2 DEF NotifyHostSendAvailable, CopyFails, queues, mainVars, btVars
  <2>3. CASE MarkInited
    BY <1>2, <2>3 DEF MarkInited, queues, mainVars
  <2> QED BY <1>9, <1>10, <1>12, <2>1, <2>2, <2>3 DEF BtStep
<1>13. CASE ControllerFrees
  BY <1>2, <1>13 DEF ControllerFrees, queues, mainVars, btVars
<1> QED BY <1>11, <1>12, <1>13 DEF Next

\* The state before BluetoothController::init satisfies the invariant.
LEMMA InitEstablishesInv == Init => Inv
<1> SUFFICES ASSUME Init PROVE Inv
  OBVIOUS
<1>1. TypeOK
  <2>1. 0 <= TxCapacity /\ 0 <= RxCapacity /\ 0 \in 0..MaxBurst
    BY HciQueueAssumption DEF HciQueueAssumption, TxCapacity, RxCapacity
  <2>2. /\ tx \in Seq(Blocks) /\ Len(tx) <= TxCapacity
        /\ rx \in Seq(Blocks) /\ Len(rx) <= RxCapacity
    BY <2>1, EmptyElements DEF Init
  <2>3. heap \in [Blocks -> Packets \cup {NoPacket}]
    BY DEF Init
  <2> QED BY <2>1, <2>2, <2>3 DEF Init, TypeOK, MainPlaces, BtPlaces
<1>2. Places
  BY DEF Init, Places
<1>3. Shared
  <2>1. Elements(tx) = {} /\ Elements(rx) = {} /\ NoRepeats(tx) /\ NoRepeats(rx)
    BY EmptyElements DEF Init
  <2> QED BY <2>1 DEF Init, Shared, Allocated, InHand
<1> QED BY <1>1, <1>2, <1>3 DEF Inv

\* The invariant holds in every reachable state, for any heap and queue sizes.
THEOREM Invariance == Spec => []Inv
<1>1. Init => Inv
  BY InitEstablishesInv
<1>2. Inv /\ [Next]_vars => Inv'
  <2> SUFFICES ASSUME Inv, [Next]_vars PROVE Inv'
    OBVIOUS
  <2>1. CASE Next
    BY <2>1, NextKeepsType, NextKeepsPlaces, NextKeepsShared DEF Inv
  <2>2. CASE UNCHANGED vars
    <3> USE <2>2 DEF vars, queues, mainVars, btVars, controller, observed
    <3>1. TypeOK'
      BY DEF Inv, TypeOK
    <3>2. Places'
      BY DEF Inv, Places
    <3>3. Shared'
      BY DEF Inv, Shared, Allocated, InHand
    <3> QED BY <3>1, <3>2, <3>3 DEF Inv
  <2> QED BY <2>1, <2>2
<1> QED BY <1>1, <1>2, PTL DEF Spec

\* No packet is leaked, freed twice or used after its free: every allocated
\* block has one owner (sendToQueue, processTxQueue and processRxQueue).
THEOREM HeapIsOwnedInvariant == Spec => []HeapIsOwned
<1>1. Inv => HeapIsOwned
  <2> SUFFICES ASSUME Inv PROVE HeapIsOwned
    OBVIOUS
  <2>1. ASSUME NEW b \in Blocks
        PROVE  IF heap[b] = NoPacket THEN Owners(b) = {} ELSE \E o \in Owners(b) : Owners(b) = {o}
    <3>1. /\ InTx(b) <=> b \in Elements(tx)
          /\ InRx(b) <=> b \in Elements(rx)
      BY DEF InTx, InRx, Elements
    <3>2. b # NoBlock
      BY HciQueueAssumption DEF HciQueueAssumption
    <3>3. CASE heap[b] = NoPacket
      <4>1. b \notin Elements(tx) \cup Elements(rx) \cup InHand
        BY <3>3, Holders
      <4> QED BY <3>1, <3>2, <3>3, <4>1 DEF Owners, InHand
    <3>4. CASE heap[b] # NoPacket
      <4>1. b \in Elements(tx) \cup Elements(rx) \cup InHand
        BY <3>4 DEF Inv, Shared, Allocated
      <4>2. \E o \in Owners(b) : TRUE
        BY <3>1, <4>1 DEF Owners, InHand
      <4>3. \A o, q \in Owners(b) : o = q
        BY <3>1, <3>2 DEF Owners, Inv, Shared, InHand
      <4> QED BY <3>4, <4>2, <4>3
    <3> QED BY <3>3, <3>4
  <2> QED BY <2>1 DEF HeapIsOwned, Inv, Shared, NoRepeats
<1> QED BY <1>1, Invariance, PTL

----------------------------------------------------------------------------
(* The refinement of HciChannel.                                           *)

\* each queue with the block that was just taken from it
TxLine == (IF main = "transmit" THEN <<taken>> ELSE <<>>) \o tx
RxLine == (IF main = "handle" THEN <<taken>> ELSE <<>>) \o rx

\* Appending to a queue with a block in front appends to the whole.
LEMMA AppendBehind ==
    ASSUME NEW s \in Seq(Blocks), NEW f \in Seq(Blocks), NEW b \in Blocks
    PROVE  f \o Append(s, b) = Append(f \o s, b)
<1>1. Append(s, b) = s \o <<b>> /\ <<b>> \in Seq(Blocks) /\ f \o s \in Seq(Blocks)
  BY AppendIsConcat, ConcatProperties
<1>2. Append(f \o s, b) = (f \o s) \o <<b>>
  BY <1>1, AppendIsConcat
<1> QED BY <1>1, <1>2, ConcatAssociative

\* The lines are queues of allocated blocks, and nothing precedes the queues
\* in the other places of the main loop.
LEMMA Lines ==
    ASSUME Inv
    PROVE  /\ TxLine \in Seq(Blocks) /\ RxLine \in Seq(Blocks)
           /\ \A b \in Elements(TxLine) \cup Elements(RxLine) : b \in Blocks /\ heap[b] # NoPacket
           /\ main # "transmit" => TxLine = tx
           /\ main # "handle" => RxLine = rx
<1>1. /\ tx \in Seq(Blocks) /\ rx \in Seq(Blocks)
      /\ main \in {"transmit", "handle"} => taken \in Blocks /\ heap[taken] # NoPacket
  BY Holders DEF Inv, TypeOK, Places, InHand
<1>2. \A s \in Seq(Blocks) : <<>> \o s = s
  BY ConcatEmptySeq
<1>3. \A s \in Seq(Blocks), b \in Blocks :
        <<b>> \o s \in Seq(Blocks) /\ Elements(<<b>> \o s) \subseteq Elements(s) \cup {b}
  <2> TAKE s \in Seq(Blocks), b \in Blocks
  <2>1. <<b>> \in Seq(Blocks) /\ Len(<<b>>) = 1 /\ <<b>>[1] = b /\ Len(s) \in Nat /\ DOMAIN s = 1..Len(s)
    BY LenProperties
  <2>2. /\ <<b>> \o s \in Seq(Blocks) /\ Len(<<b>> \o s) = Len(s) + 1
        /\ \A i \in 1..(Len(s) + 1) : (<<b>> \o s)[i] = IF i <= 1 THEN <<b>>[i] ELSE s[i - 1]
    BY <2>1, ConcatProperties
  <2> DEFINE t == <<b>> \o s
  <2>3. DOMAIN t = 1..(Len(s) + 1)
    BY <2>2, LenProperties
  <2> HIDE DEF t
  <2>4. ASSUME NEW i \in DOMAIN t PROVE t[i] \in Elements(s) \cup {b}
    <3>1. CASE i = 1
      BY <2>1, <2>2, <2>3, <3>1 DEF t
    <3>2. CASE i > 1
      <4>1. i - 1 \in DOMAIN s /\ t[i] = s[i - 1]
        BY <2>1, <2>2, <2>3, <2>4, <3>2 DEF t
      <4> QED BY <4>1 DEF Elements
    <3> QED BY <3>1, <3>2, <2>3, <2>1, <2>4
  <2> QED BY <2>2, <2>4 DEF t, Elements
<1>4. CASE main = "transmit"
  BY <1>1, <1>2, <1>3, <1>4, Holders DEF TxLine, RxLine
<1>5. CASE main = "handle"
  BY <1>1, <1>2, <1>3, <1>5, Holders DEF TxLine, RxLine
<1>6. CASE main \notin {"transmit", "handle"}
  BY <1>1, <1>2, <1>6, Holders DEF TxLine, RxLine
<1> QED BY <1>4, <1>5, <1>6

\* A block that is copied or freed is in neither line.
LEMMA LinesKeepContents ==
    ASSUME Inv, NEW b, b \notin Elements(TxLine) \cup Elements(RxLine), NEW p,
           heap' = [heap EXCEPT ![b] = p]
    PROVE  Read(heap', TxLine) = Read(heap, TxLine) /\ Read(heap', RxLine) = Read(heap, RxLine)
BY Lines, ReadOther DEF Inv, TypeOK, Content

Refines == Channel!Next \/ UNCHANGED Channel!vars

\* What a step does to the packets behind the queues, in the terms of HciChannel.
LEMMA ChannelStep ==
    /\ UNCHANGED <<Read(heap, TxLine), Read(heap, RxLine), sent, handled>> => Refines
    /\ \A p \in Packets :
         /\ Read(heap, TxLine)' = Append(Read(heap, TxLine), p)
         /\ UNCHANGED <<Read(heap, RxLine), sent, handled>>
         => Refines
    /\ \A p \in Packets :
         /\ Read(heap, RxLine)' = Append(Read(heap, RxLine), p)
         /\ UNCHANGED <<Read(heap, TxLine), sent, handled>>
         => Refines
    /\ /\ Read(heap, TxLine) # <<>>
       /\ sent' = Head(Read(heap, TxLine)) /\ Read(heap, TxLine)' = Tail(Read(heap, TxLine))
       /\ UNCHANGED <<Read(heap, RxLine), handled>>
       => Refines
    /\ /\ Read(heap, RxLine) # <<>>
       /\ handled' = Head(Read(heap, RxLine)) /\ Read(heap, RxLine)' = Tail(Read(heap, RxLine))
       /\ UNCHANGED <<Read(heap, TxLine), sent>>
       => Refines
BY DEF Refines, Channel!Next, Channel!vars, Channel!Submit, Channel!Arrive, Channel!Transmit,
       Channel!Handle, Contents, TxLine, RxLine, Read

\* A step that leaves the heap and both lines alone is not seen.
LEMMA LinesStay ==
    ASSUME UNCHANGED <<heap, TxLine, RxLine, sent, handled>>
    PROVE  Refines
BY ChannelStep DEF Read

\* After a step that keeps Inv, the lines are again the queues but for one block.
LEMMA LinesNext ==
    Inv' => /\ main' # "transmit" => TxLine' = tx'
            /\ main' # "handle" => RxLine' = rx'
<1>1. Inv => (main # "transmit" => TxLine = tx) /\ (main # "handle" => RxLine = rx)
  BY Lines
<1>2. Inv' => ((main # "transmit" => TxLine = tx) /\ (main # "handle" => RxLine = rx))'
  BY <1>1, PTL
<1> QED BY <1>2

\* Every step is a step of HciChannel or leaves its variables alone.
LEMMA StepRefines ==
    ASSUME Inv, Inv', [Next]_vars
    PROVE  Refines
<1>1. /\ tx \in Seq(Blocks) /\ rx \in Seq(Blocks) /\ heap \in [Blocks -> Content]
      /\ TxLine \in Seq(Blocks) /\ RxLine \in Seq(Blocks)
      /\ main # "transmit" => TxLine = tx
      /\ main # "handle" => RxLine = rx
      /\ main' # "transmit" => TxLine' = tx'
      /\ main' # "handle" => RxLine' = rx'
  BY Lines, LinesNext DEF Inv, TypeOK, Content
<1>2. \A b \in Blocks : heap[b] # NoPacket => heap[b] \in Packets
  BY <1>1 DEF Content
<1>3. CASE ProcessTxQueue
  <2>1. RxLine' = RxLine /\ UNCHANGED <<heap, sent, handled>> /\ TxLine = tx
    BY <1>1, <1>3 DEF ProcessTxQueue, observed
  <2>2. CASE tx' = tx /\ main' = "processRx"
    BY <1>1, <2>1, <2>2, LinesStay
  <2>3. CASE tx # <<>> /\ taken' = Head(tx) /\ tx' = Tail(tx) /\ main' = "transmit"
    <3>1. TxLine' = <<Head(tx)>> \o Tail(tx)
      BY <2>3 DEF TxLine
    <3> QED BY <1>1, <2>1, <2>3, <3>1, HeadInFront, LinesStay
  <2> QED BY <1>3, <2>2, <2>3 DEF ProcessTxQueue
<1>4. CASE ProcessRxQueue
  <2>1. TxLine' = TxLine /\ UNCHANGED <<heap, sent, handled>> /\ RxLine = rx
    BY <1>1, <1>4 DEF ProcessRxQueue, observed
  <2>2. CASE rx' = rx /\ main' = "commands"
    BY <1>1, <2>1, <2>2, LinesStay
  <2>3. CASE rx # <<>> /\ taken' = Head(rx) /\ rx' = Tail(rx) /\ main' = "handle"
    <3>1. RxLine' = <<Head(rx)>> \o Tail(rx)
      BY <2>3 DEF RxLine
    <3> QED BY <1>1, <2>1, <2>3, <3>1, HeadInFront, LinesStay
  <2> QED BY <1>4, <2>2, <2>3 DEF ProcessRxQueue
<1>5. CASE Transmit
  <2>1. /\ main = "transmit" /\ taken \in Blocks /\ TxLine = <<taken>> \o tx /\ TxLine' = tx
        /\ sent' = heap[taken] /\ RxLine' = RxLine /\ UNCHANGED <<heap, handled>>
    BY <1>1, <1>5 DEF Transmit, TxLine, queues, Inv, Places, TypeOK
  <2>2. /\ Read(heap, TxLine) # <<>> /\ Head(Read(heap, TxLine)) = heap[taken]
        /\ Tail(Read(heap, TxLine)) = Read(heap, tx)
    BY <1>1, <2>1, ReadConcat
  <2>3. Read(heap, TxLine)' = Read(heap, tx) /\ Read(heap, RxLine)' = Read(heap, RxLine)
    BY <2>1 DEF Read
  <2> QED BY <2>1, <2>2, <2>3, ChannelStep
<1>6. CASE HandleHciData
  <2>1. /\ main = "handle" /\ taken \in Blocks /\ RxLine = <<taken>> \o rx /\ RxLine' = rx
        /\ handled' = heap[taken] /\ TxLine' = TxLine /\ UNCHANGED <<heap, sent>>
    BY <1>1, <1>6 DEF HandleHciData, Sending, RxLine, queues, Inv, Places, TypeOK
  <2>2. /\ Read(heap, RxLine) # <<>> /\ Head(Read(heap, RxLine)) = heap[taken]
        /\ Tail(Read(heap, RxLine)) = Read(heap, rx)
    BY <1>1, <2>1, ReadConcat
  <2>3. Read(heap, RxLine)' = Read(heap, rx) /\ Read(heap, TxLine)' = Read(heap, TxLine)
    BY <2>1 DEF Read
  <2> QED BY <2>1, <2>2, <2>3, ChannelStep
<1>7. CASE EnqueueTx
  <2>1. /\ copied \in Blocks /\ heap[copied] \in Packets
        /\ TxLine = tx /\ TxLine' = Append(tx, copied) /\ RxLine' = RxLine
        /\ UNCHANGED <<heap, sent, handled>>
    BY <1>1, <1>2, <1>7, Holders DEF EnqueueTx, observed, Inv, Places, TypeOK, InHand
  <2>2. /\ Read(heap, TxLine)' = Append(Read(heap, TxLine), heap[copied])
        /\ Read(heap, RxLine)' = Read(heap, RxLine)
    BY <1>1, <2>1, ReadAppend DEF Read
  <2> QED BY <2>1, <2>2, ChannelStep
<1>8. CASE EnqueueReset
  <2>1. /\ posting \in Blocks /\ heap[posting] \in Packets
        /\ tx' = Append(tx, posting) /\ UNCHANGED <<heap, rx, main, taken, sent, handled>>
    BY <1>1, <1>2, <1>8, Holders DEF EnqueueReset, mainVars, observed, Inv, Places, TypeOK, InHand
  <2>2. TxLine' = Append(TxLine, posting) /\ RxLine' = RxLine
    <3>1. main = "transmit" => <<taken>> \in Seq(Blocks)
      BY DEF Inv, Places, TypeOK
    <3> QED BY <1>1, <2>1, <3>1, AppendBehind DEF TxLine, RxLine
  <2>3. /\ Read(heap, TxLine)' = Append(Read(heap, TxLine), heap[posting])
        /\ Read(heap, RxLine)' = Read(heap, RxLine)
    BY <1>1, <2>1, <2>2, ReadAppend DEF Read
  <2> QED BY <2>1, <2>3, ChannelStep
<1>9. CASE EnqueueRx
  <2>1. /\ posting \in Blocks /\ heap[posting] \in Packets
        /\ rx' = Append(rx, posting) /\ UNCHANGED <<heap, tx, main, taken, sent, handled>>
    BY <1>1, <1>2, <1>9, Holders DEF EnqueueRx, mainVars, observed, Inv, Places, TypeOK, InHand
  <2>2. RxLine' = Append(RxLine, posting) /\ TxLine' = TxLine
    <3>1. main = "handle" => <<taken>> \in Seq(Blocks)
      BY DEF Inv, Places, TypeOK
    <3> QED BY <1>1, <2>1, <3>1, AppendBehind DEF TxLine, RxLine
  <2>3. /\ Read(heap, RxLine)' = Append(Read(heap, RxLine), heap[posting])
        /\ Read(heap, TxLine)' = Read(heap, TxLine)
    BY <1>1, <2>1, <2>2, ReadAppend DEF Read
  <2> QED BY <2>1, <2>3, ChannelStep
<1>10. ASSUME NEW b, b \notin Elements(TxLine) \cup Elements(RxLine), NEW p,
              heap' = [heap EXCEPT ![b] = p], UNCHANGED <<TxLine, RxLine, sent, handled>>
       PROVE  Refines
  <2>1. Read(heap, TxLine)' = Read(heap, TxLine) /\ Read(heap, RxLine)' = Read(heap, RxLine)
    <3>1. Read(heap', TxLine) = Read(heap, TxLine) /\ Read(heap', RxLine) = Read(heap, RxLine)
      BY <1>10, LinesKeepContents
    <3>2. TxLine' = TxLine /\ RxLine' = RxLine
      BY <1>10
    <3> QED BY <3>1, <3>2 DEF Read
  <2> QED BY <1>10, <2>1, ChannelStep
<1>11. CASE FreeSent \/ FreeHandled
  <2>1. /\ taken \in Blocks /\ taken \notin Elements(tx) \cup Elements(rx)
        /\ heap' = [heap EXCEPT ![taken] = NoPacket]
        /\ TxLine = tx /\ RxLine = rx /\ UNCHANGED <<TxLine, RxLine, sent, handled>>
    BY <1>1, <1>11 DEF FreeSent, FreeHandled, Free, queues, observed, Inv, Places, TypeOK, Shared, InHand
  <2> QED BY <1>10, <2>1
<1>12. ASSUME NEW b \in Blocks, Copy(b), UNCHANGED <<TxLine, RxLine, sent, handled>>
       PROVE  Refines
  <2>1. b \notin Elements(TxLine) \cup Elements(RxLine)
    BY <1>12, Lines DEF Copy
  <2> QED BY <1>10, <1>12, <2>1 DEF Copy
<1>13. CASE SendNext
  <2>1. UNCHANGED <<TxLine, RxLine, sent, handled>>
    BY <1>1, <1>13 DEF SendNext, queues, observed, Inv, Places
  <2> QED BY <1>12, <1>13, <2>1, LinesStay DEF SendNext, CopyFails
<1>14. CASE NotifyHostRecv \/ NotifyHostSendAvailable
  <2>1. UNCHANGED <<TxLine, RxLine, sent, handled>>
    BY <1>14 DEF NotifyHostRecv, NotifyHostSendAvailable, TxLine, RxLine, queues, mainVars, observed
  <2> QED BY <1>12, <1>14, <2>1, LinesStay DEF NotifyHostRecv, NotifyHostSendAvailable, CopyFails
<1>15. CASE RegisterCallbacks \/ SetInitialized \/ SketchCommands \/ EnterTask \/ RemoteCommands
  BY <1>1, <1>15, LinesStay DEF RegisterCallbacks, SetInitialized, SketchCommands, EnterTask,
     RemoteCommands, Sending, queues, observed
<1>16. CASE MarkInited \/ ControllerFrees \/ UNCHANGED vars
  <2>1. UNCHANGED <<heap, tx, rx, main, taken, sent, handled>>
    BY <1>16 DEF MarkInited, ControllerFrees, vars, queues, mainVars, observed
  <2> QED BY <2>1, LinesStay DEF TxLine, RxLine
<1> QED BY <1>3, <1>4, <1>5, <1>6, <1>7, <1>8, <1>9, <1>11, <1>13, <1>14, <1>15, <1>16
        DEF Next, MainStep, BtStep

\* The queues of pointers, filled by two threads and emptied by one, are a FIFO
\* of packets in each direction: nothing is changed, repeated or overtaken.
THEOREM Implementation == Spec => ImplementsChannel
<1>1. Init => Channel!Init
  <2> SUFFICES ASSUME Init PROVE Channel!Init
    OBVIOUS
  <2>1. <<>> \o <<>> = <<>> /\ Contents(<<>>) = <<>>
    BY DEF Contents
  <2> QED BY <2>1 DEF Init, Channel!Init
<1>2. Inv /\ Inv' /\ [Next]_vars => [Channel!Next]_Channel!vars
  BY StepRefines DEF Refines
<1> QED BY <1>1, <1>2, Invariance, PTL DEF Spec, ImplementsChannel, Channel!Spec

=============================================================================
