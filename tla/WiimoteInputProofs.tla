------------------------- MODULE WiimoteInputProofs -------------------------
(***************************************************************************)
(* Proofs about WiimoteInput, for every capacity of the ring, every set of *)
(* buttons and every threshold.                                            *)
(***************************************************************************)
EXTENDS WiimoteInput, SequenceTheorems, TLAPS

\* A position less than two rings away goes round once at most.
LEMMA ModOnce ==
    ASSUME NEW n \in Nat \ {0}, NEW a \in Nat, a < 2 * n
    PROVE  a % n = IF a < n THEN a ELSE a - n
  BY Z3

LEMMA CapacityIsPositive == Capacity \in Nat \ {0}
  BY InputAssumption

LEMMA ReportFields ==
    ASSUME NEW r \in Reports \cup {NoReport}
    PROVE  /\ r.core \in SUBSET Core /\ r.cz \in SUBSET NunchukButtons
           /\ r.tilt \in Tilts \cup {0} /\ r.stick \in Sticks \cup {0}
           /\ r.kind \notin ButtonKinds => r.core = {} /\ r.cz = {}
           /\ r.kind \in {"0x20", "short", "0x30", "0x31", "0x32", "0x35"}
  BY DEF Reports, NoReport, Report, ButtonKinds

\* Where a position less than two rings away is.
LEMMA PlaceOf ==
    ASSUME NEW a \in Nat, a < 2 * Capacity
    PROVE  /\ a < Capacity => a % Capacity = a
           /\ a >= Capacity => a % Capacity = a - Capacity
           /\ a % Capacity \in 0..(Capacity - 1)
  <1>1. a % Capacity = IF a < Capacity THEN a ELSE a - Capacity
    BY CapacityIsPositive, ModOnce, Zenon
  <1> QED BY <1>1, CapacityIsPositive

LEMMA NextPlace ==
    ASSUME NEW i \in 0..(Capacity - 1)
    PROVE  /\ Next1(i) = IF i = Capacity - 1 THEN 0 ELSE i + 1
           /\ Next1(i) \in 0..(Capacity - 1)
  <1>1. i + 1 \in Nat /\ i + 1 < 2 * Capacity BY CapacityIsPositive
  <1>2. /\ i + 1 < Capacity => (i + 1) % Capacity = i + 1
        /\ i + 1 >= Capacity => (i + 1) % Capacity = (i + 1) - Capacity
    BY <1>1, PlaceOf, Zenon
  <1> QED BY <1>2, CapacityIsPositive DEF Next1

\* The type invariant, the indices within the array among it.
THEOREM TypeCorrectness == Spec => []TypeOK
  <1>1. Init => TypeOK
    BY CapacityIsPositive DEF Init, TypeOK
  <1>2. TypeOK /\ [Next]_vars => TypeOK'
    <2> SUFFICES ASSUME TypeOK, [Next]_vars PROVE TypeOK'
      OBVIOUS
    <2>1. ASSUME NEW r \in Reports, Put(r) PROVE TypeOK'
      <3>1. Next1(writeIndex) \in 0..(Capacity - 1) BY NextPlace DEF TypeOK
      <3>2. CASE itemCount >= Capacity
        BY <2>1, <3>2 DEF Put, TypeOK, stateVars
      <3>3. CASE ~(itemCount >= Capacity)
        BY <2>1, <3>1, <3>3, CapacityIsPositive DEF Put, TypeOK, stateVars
      <3> QED BY <3>2, <3>3
    <2>2. CASE ParseData
      <3> DEFINE r == slots[readIndex]
      <3>1. r \in Reports \cup {NoReport} BY DEF TypeOK
      <3>2. Next1(readIndex) \in 0..(Capacity - 1) BY NextPlace DEF TypeOK
      <3>3. CASE itemCount = 0 BY <2>2, <3>3 DEF ParseData, TypeOK, ringVars, stateVars
      <3>4. CASE itemCount # 0
        <4>1. Take /\ UNCHANGED filter BY <2>2, <3>4 DEF ParseData
        <4>2. /\ slots' = slots /\ writeIndex' = writeIndex /\ filter' = filter
              /\ readIndex' \in 0..(Capacity - 1) /\ itemCount' \in 0..Capacity
          BY <3>2, <3>4, <4>1, CapacityIsPositive DEF Take, TypeOK
        <4>3. CASE r.kind = "short"
          <5>1. result' = 0 /\ UNCHANGED stateVars BY <2>2, <3>4, <4>3 DEF ParseData
          <5> QED BY <4>2, <5>1 DEF TypeOK, stateVars
        <4>4. CASE r.kind # "short"
          <5>1. Parse(r) BY <2>2, <3>4, <4>4 DEF ParseData
          <5>2. /\ ButtonsOf(r) \in SUBSET (Core \cup NunchukButtons)
                /\ AccelOf(r) \in Tilts \cup {0} /\ NunchukOf(r) \in Sticks \cup {0}
            BY <3>1, ReportFields DEF ButtonsOf, CoreOf, AccelOf, NunchukOf, TypeOK
          <5>3. result' \in {0, 1} BY <5>1 DEF Parse
          <5> HIDE DEF r
          <5>4. /\ buttons' = ButtonsOf(r) /\ previousButtons' = ButtonsOf(r)
                /\ accel' = AccelOf(r) /\ nunchuk' = NunchukOf(r)
                /\ previousNunchuk' = NunchukOf(r)
            BY <5>1 DEF Parse
          <5> QED BY <4>2, <5>2, <5>3, <5>4 DEF TypeOK
        <4> QED BY <4>3, <4>4
      <3> QED BY <3>3, <3>4
    <2>3. ASSUME NEW f \in FilterChoices, AddFilter(f) PROVE TypeOK'
      BY <2>3, InputAssumption DEF AddFilter, TypeOK, ringVars, stateVars, Filters
    <2>4. CASE UNCHANGED vars BY <2>4 DEF vars, ringVars, stateVars, TypeOK
    <2> QED BY <2>1, <2>2, <2>3, <2>4 DEF Next
  <1> QED BY <1>1, <1>2, PTL DEF Spec

----------------------------------------------------------------------------
(* The ring is a queue.                                                    *)

\* The two indices are as far apart as there are reports.
IndicesAgree == writeIndex = (readIndex + itemCount) % Capacity

\* A report taken leaves the places behind it where they were.
LEMMA PlacesMove ==
    ASSUME NEW i \in 0..(Capacity - 1), NEW k \in 0..(Capacity - 1)
    PROVE  (Next1(i) + k) % Capacity = (i + (k + 1)) % Capacity
  <1> DEFINE next == Next1(i)
  <1>1. next = (IF i = Capacity - 1 THEN 0 ELSE i + 1) /\ next \in 0..(Capacity - 1)
    BY NextPlace, Zenon
  <1> HIDE DEF next
  <1>2. next + k \in Nat /\ next + k < 2 * Capacity BY <1>1, CapacityIsPositive
  <1>3. i + (k + 1) \in Nat /\ i + (k + 1) < 2 * Capacity BY CapacityIsPositive
  <1>4. /\ next + k < Capacity => (next + k) % Capacity = next + k
        /\ next + k >= Capacity => (next + k) % Capacity = (next + k) - Capacity
    BY <1>2, PlaceOf, Zenon
  <1>5. /\ i + (k + 1) < Capacity => (i + (k + 1)) % Capacity = i + (k + 1)
        /\ i + (k + 1) >= Capacity => (i + (k + 1)) % Capacity = (i + (k + 1)) - Capacity
    BY <1>3, PlaceOf, Zenon
  <1>6. (next + k) % Capacity = (i + (k + 1)) % Capacity
    BY <1>1, <1>4, <1>5, CapacityIsPositive
  <1> QED BY <1>6 DEF next

\* Places less than a ring apart are different.
LEMMA PlacesDiffer ==
    ASSUME NEW i \in 0..(Capacity - 1), NEW j \in 0..(Capacity - 1), NEW k \in 0..(Capacity - 1),
           j # k
    PROVE  (i + j) % Capacity # (i + k) % Capacity
  <1>1. /\ i + j \in Nat /\ i + j < 2 * Capacity
        /\ i + k \in Nat /\ i + k < 2 * Capacity
    BY CapacityIsPositive
  <1>2. /\ i + j < Capacity => (i + j) % Capacity = i + j
        /\ i + j >= Capacity => (i + j) % Capacity = (i + j) - Capacity
    BY <1>1, PlaceOf, Zenon
  <1>3. /\ i + k < Capacity => (i + k) % Capacity = i + k
        /\ i + k >= Capacity => (i + k) % Capacity = (i + k) - Capacity
    BY <1>1, PlaceOf, Zenon
  <1> QED BY <1>2, <1>3, CapacityIsPositive

\* The place behind the last report is free unless the ring is full.
LEMMA PlaceAdvances ==
    ASSUME NEW i \in 0..(Capacity - 1), NEW n \in 0..(Capacity - 1)
    PROVE  Next1((i + n) % Capacity) = (i + (n + 1)) % Capacity
  <1>1. /\ i + n \in Nat /\ i + n < 2 * Capacity
        /\ i + (n + 1) \in Nat /\ i + (n + 1) < 2 * Capacity
    BY CapacityIsPositive
  <1>2. /\ i + n < Capacity => (i + n) % Capacity = i + n
        /\ i + n >= Capacity => (i + n) % Capacity = (i + n) - Capacity
        /\ (i + n) % Capacity \in 0..(Capacity - 1)
    BY <1>1, PlaceOf, Zenon
  <1>3. /\ i + (n + 1) < Capacity => (i + (n + 1)) % Capacity = i + (n + 1)
        /\ i + (n + 1) >= Capacity => (i + (n + 1)) % Capacity = (i + (n + 1)) - Capacity
    BY <1>1, PlaceOf, Zenon
  <1> DEFINE place == (i + n) % Capacity
  <1>4. Next1(place) = IF place = Capacity - 1 THEN 0 ELSE place + 1
    BY <1>2, NextPlace, Zenon
  <1>5. /\ i + n < Capacity => place = i + n
        /\ i + n >= Capacity => place = (i + n) - Capacity
    BY <1>2
  <1> HIDE DEF place
  <1>6. Next1(place) = (i + (n + 1)) % Capacity
    BY <1>3, <1>4, <1>5, CapacityIsPositive
  <1> QED BY <1>6 DEF place

LEMMA IndicesAgreeKept ==
    ASSUME TypeOK, IndicesAgree, [Next]_vars
    PROVE  IndicesAgree'
  <1>1. /\ itemCount \in 0..Capacity /\ readIndex \in 0..(Capacity - 1)
        /\ writeIndex \in 0..(Capacity - 1)
    BY DEF TypeOK
  <1>2. ASSUME NEW r \in Reports, Put(r) PROVE IndicesAgree'
    <2>1. CASE itemCount >= Capacity BY <1>2, <2>1 DEF Put, IndicesAgree
    <2>2. CASE ~(itemCount >= Capacity)
      <3>1. writeIndex' = Next1(writeIndex) /\ itemCount' = itemCount + 1 /\ readIndex' = readIndex
        BY <1>2, <2>2 DEF Put
      <3>2. itemCount \in 0..(Capacity - 1) BY <1>1, <2>2, CapacityIsPositive
      <3>3. Next1((readIndex + itemCount) % Capacity) = (readIndex + (itemCount + 1)) % Capacity
        BY <1>1, <3>2, PlaceAdvances
      <3> QED BY <3>1, <3>3, Zenon DEF IndicesAgree
    <2> QED BY <2>1, <2>2
  <1>3. CASE ParseData
    <2>1. CASE itemCount = 0 BY <1>3, <2>1 DEF ParseData, ringVars, IndicesAgree
    <2>2. CASE itemCount # 0
      <3>1. /\ writeIndex' = writeIndex /\ readIndex' = Next1(readIndex)
            /\ itemCount' = itemCount - 1
        BY <1>3, <2>2 DEF ParseData, Take
      <3>2. itemCount - 1 \in 0..(Capacity - 1) /\ (itemCount - 1) + 1 = itemCount
        BY <1>1, <2>2, CapacityIsPositive
      <3>3. (Next1(readIndex) + (itemCount - 1)) % Capacity
              = (readIndex + ((itemCount - 1) + 1)) % Capacity
        BY <1>1, <3>2, PlacesMove, Zenon
      <3> QED BY <3>1, <3>2, <3>3, Zenon DEF IndicesAgree
    <2> QED BY <2>1, <2>2
  <1>4. ASSUME NEW f \in FilterChoices, AddFilter(f) PROVE IndicesAgree'
    BY <1>4 DEF AddFilter, ringVars, IndicesAgree
  <1>5. CASE UNCHANGED vars BY <1>5 DEF vars, ringVars, IndicesAgree
  <1> QED BY <1>2, <1>3, <1>4, <1>5 DEF Next

LEMMA IndicesAlwaysAgree == Spec => []IndicesAgree
  <1>1. Init => IndicesAgree
    <2>1. 0 \in Nat /\ 0 < 2 * Capacity /\ 0 < Capacity BY CapacityIsPositive
    <2>2. 0 % Capacity = 0 BY <2>1, PlaceOf, Zenon
    <2> QED BY <2>2 DEF Init, IndicesAgree
  <1> QED BY <1>1, IndicesAgreeKept, TypeCorrectness, PTL DEF Spec

----------------------------------------------------------------------------
Held == Reports \cup {NoReport}

QueueOf(places, n, first) == [i \in 1..n |-> places[(first + i - 1) % Capacity]]

LEMMA QueueOfIsSeq ==
    ASSUME NEW places \in [0..(Capacity - 1) -> Held], NEW n \in 0..Capacity,
           NEW first \in 0..(Capacity - 1)
    PROVE  /\ QueueOf(places, n, first) \in Seq(Held)
           /\ Len(QueueOf(places, n, first)) = n
           /\ \A i \in 1..n : /\ i - 1 \in 0..(Capacity - 1)
                              /\ QueueOf(places, n, first)[i] = places[(first + (i - 1)) % Capacity]
  <1>1. ASSUME NEW i \in 1..n
        PROVE  /\ i - 1 \in 0..(Capacity - 1)
               /\ places[(first + (i - 1)) % Capacity] \in Held
    <2>1. i - 1 \in 0..(Capacity - 1) /\ first + (i - 1) \in Nat /\ first + (i - 1) < 2 * Capacity
      BY CapacityIsPositive
    <2>2. (first + (i - 1)) % Capacity \in 0..(Capacity - 1) BY <2>1, PlaceOf, Zenon
    <2> QED BY <2>1, <2>2
  <1>2. QueueOf(places, n, first) \in [1..n -> Held] BY <1>1 DEF QueueOf
  <1>3. n \in Nat BY CapacityIsPositive
  <1>4. QueueOf(places, n, first) \in Seq(Held) /\ Len(QueueOf(places, n, first)) = n
    <2> DEFINE q == QueueOf(places, n, first)
    <2>1. q \in [1..n -> Held] BY <1>2
    <2> HIDE DEF q
    <2>2. q \in Seq(Held) /\ Len(q) = n BY <1>3, <2>1
    <2> QED BY <2>2 DEF q
  <1> QED BY <1>1, <1>4 DEF QueueOf

LEMMA QueueNow ==
    ASSUME TypeOK
    PROVE  Queue = QueueOf(slots, itemCount, readIndex)
  BY DEF Queue, QueueOf

LEMMA PutAppends ==
    ASSUME TypeOK, TypeOK', IndicesAgree, NEW r \in Reports, Put(r), itemCount < Capacity
    PROVE  Queue' = Append(Queue, r)
  <1> DEFINE old == QueueOf(slots, itemCount, readIndex)
             new == QueueOf(slots', itemCount', readIndex')
  <1>0. /\ itemCount \in 0..(Capacity - 1) /\ readIndex \in 0..(Capacity - 1)
        /\ writeIndex \in 0..(Capacity - 1)
        /\ slots \in [0..(Capacity - 1) -> Held] /\ slots' \in [0..(Capacity - 1) -> Held]
        /\ itemCount' \in 0..Capacity /\ readIndex' = readIndex /\ itemCount \in 0..Capacity
    BY CapacityIsPositive DEF TypeOK, Held, Put
  <1>1. slots' = [slots EXCEPT ![writeIndex] = r] /\ itemCount' = itemCount + 1
    BY <1>0, CapacityIsPositive DEF Put
  <1>2. /\ old \in Seq(Held) /\ Len(old) = itemCount
        /\ \A i \in 1..itemCount : /\ i - 1 \in 0..(Capacity - 1)
                                   /\ old[i] = slots[(readIndex + (i - 1)) % Capacity]
    BY <1>0, QueueOfIsSeq, Zenon
  <1>3. /\ new \in Seq(Held) /\ Len(new) = itemCount'
        /\ \A i \in 1..itemCount' : new[i] = slots'[(readIndex + (i - 1)) % Capacity]
    BY <1>0, QueueOfIsSeq, Zenon
  <1> HIDE DEF old, new
  <1>4. r \in Held BY DEF Held
  <1>5. /\ Append(old, r) \in Seq(Held) /\ Len(Append(old, r)) = itemCount + 1
        /\ \A i \in 1..itemCount : Append(old, r)[i] = old[i]
        /\ Append(old, r)[itemCount + 1] = r
    BY <1>2, <1>4, AppendProperties
  <1>6. ASSUME NEW i \in 1..(itemCount + 1) PROVE new[i] = Append(old, r)[i]
    <2>1. CASE i = itemCount + 1
      <3>1. i - 1 = itemCount BY <1>0, <2>1
      <3>2. new[i] = slots'[writeIndex] BY <1>1, <1>3, <3>1 DEF IndicesAgree
      <3> QED BY <1>0, <1>1, <1>5, <2>1, <3>2
    <2>2. CASE i # itemCount + 1
      <3>1. i \in 1..itemCount /\ i - 1 \in 0..(Capacity - 1) /\ i - 1 # itemCount
        BY <1>0, <2>2, CapacityIsPositive
      <3>2. (readIndex + (i - 1)) % Capacity # writeIndex
        BY <1>0, <3>1, PlacesDiffer, Zenon DEF IndicesAgree
      <3>3. new[i] = slots'[(readIndex + (i - 1)) % Capacity] BY <1>1, <1>3
      <3>4. readIndex + (i - 1) \in Nat /\ readIndex + (i - 1) < 2 * Capacity
        BY <1>0, <3>1, CapacityIsPositive
      <3>5. (readIndex + (i - 1)) % Capacity \in 0..(Capacity - 1) BY <3>4, PlaceOf, Zenon
      <3>6. slots'[(readIndex + (i - 1)) % Capacity] = slots[(readIndex + (i - 1)) % Capacity]
        BY <1>0, <1>1, <3>2, <3>5
      <3> QED BY <1>2, <1>5, <3>1, <3>3, <3>6
    <2> QED BY <2>1, <2>2
  <1>7. new = Append(old, r)
    BY <1>1, <1>3, <1>5, <1>6, SeqEqual
  <1> QED BY <1>7 DEF Queue, QueueOf, old, new

LEMMA TakeRemoves ==
    ASSUME TypeOK, TypeOK', itemCount # 0, Take
    PROVE  Queue # <<>> /\ Queue' = Tail(Queue)
  <1> DEFINE old == QueueOf(slots, itemCount, readIndex)
             new == QueueOf(slots', itemCount', readIndex')
  <1>0. /\ itemCount \in 1..Capacity /\ itemCount \in 0..Capacity
        /\ readIndex \in 0..(Capacity - 1) /\ readIndex' \in 0..(Capacity - 1)
        /\ slots \in [0..(Capacity - 1) -> Held] /\ slots' = slots
        /\ itemCount' \in 0..Capacity
        /\ itemCount' = itemCount - 1 /\ readIndex' = Next1(readIndex)
    BY CapacityIsPositive DEF TypeOK, Held, Take
  <1>1. /\ old \in Seq(Held) /\ Len(old) = itemCount
        /\ \A i \in 1..itemCount : old[i] = slots[(readIndex + (i - 1)) % Capacity]
    BY <1>0, QueueOfIsSeq, Zenon
  <1>2. /\ new \in Seq(Held) /\ Len(new) = itemCount'
        /\ \A i \in 1..itemCount' : /\ i - 1 \in 0..(Capacity - 1)
                                    /\ new[i] = slots[(readIndex' + (i - 1)) % Capacity]
    BY <1>0, QueueOfIsSeq, Zenon
  <1> HIDE DEF old, new
  <1>3. old # <<>> BY <1>0, <1>1
  <1>4. /\ Tail(old) \in Seq(Held) /\ Len(Tail(old)) = itemCount - 1
        /\ \A i \in 1..(itemCount - 1) : Tail(old)[i] = old[i + 1]
    BY <1>1, <1>3, HeadTailProperties
  <1>5. ASSUME NEW i \in 1..(itemCount - 1) PROVE new[i] = Tail(old)[i]
    <2>1. i - 1 \in 0..(Capacity - 1) /\ (i - 1) + 1 = i /\ (i + 1) - 1 = i /\ i + 1 \in 1..itemCount
      BY <1>0, CapacityIsPositive
    <2>2. (Next1(readIndex) + (i - 1)) % Capacity = (readIndex + i) % Capacity
      BY <1>0, <2>1, PlacesMove
    <2>3. new[i] = slots[(readIndex + i) % Capacity] BY <1>0, <1>2, <2>2
    <2>4. old[i + 1] = slots[(readIndex + ((i + 1) - 1)) % Capacity] BY <1>1, <2>1
    <2> QED BY <1>4, <2>1, <2>3, <2>4
  <1>6. new = Tail(old)
    BY <1>0, <1>2, <1>4, <1>5, SeqEqual
  <1> QED BY <1>3, <1>6 DEF Queue, QueueOf, old, new

\* The ring is a queue: it keeps the order of the reports, repeats none and
\* drops none but a report that finds it full.
THEOREM RingImplementsFifo == Spec => ImplementsFifo
  <1>1. Init => Fifo!Init
    <2> SUFFICES ASSUME Init PROVE Queue = <<>>
      BY DEF Fifo!Init
    <2> QED BY DEF Init, Queue
  <1>2. TypeOK /\ TypeOK' /\ IndicesAgree /\ [Next]_vars => [Fifo!Put \/ Fifo!Take]_Queue
    <2> SUFFICES ASSUME TypeOK, TypeOK', IndicesAgree, [Next]_vars
                 PROVE  Fifo!Put \/ Fifo!Take \/ Queue' = Queue
      OBVIOUS
    <2>1. UNCHANGED ringVars => Queue' = Queue BY DEF ringVars, Queue
    <2>2. ASSUME NEW r \in Reports, Put(r) PROVE Fifo!Put \/ Queue' = Queue
      <3>1. itemCount \in 0..Capacity BY DEF TypeOK
      <3>2. CASE itemCount >= Capacity BY <2>1, <2>2, <3>2 DEF Put, ringVars
      <3>3. CASE ~(itemCount >= Capacity)
        <4>1. itemCount < Capacity BY <3>1, <3>3, CapacityIsPositive
        <4>2. Queue' = Append(Queue, r) BY <2>2, <4>1, PutAppends
        <4>3. Len(Queue) = itemCount
          <5>1. slots \in [0..(Capacity - 1) -> Held] /\ readIndex \in 0..(Capacity - 1)
            BY DEF TypeOK, Held
          <5> QED BY <3>1, <5>1, QueueNow, QueueOfIsSeq, Zenon
        <4> QED BY <4>1, <4>2, <4>3 DEF Fifo!Put
      <3> QED BY <3>2, <3>3
    <2>3. CASE ParseData
      <3>1. CASE itemCount = 0 BY <2>1, <2>3, <3>1 DEF ParseData
      <3>2. CASE itemCount # 0
        <4>1. Take BY <2>3, <3>2 DEF ParseData
        <4> QED BY <3>2, <4>1, TakeRemoves DEF Fifo!Take
      <3> QED BY <3>1, <3>2
    <2>4. ASSUME NEW f \in FilterChoices, AddFilter(f) PROVE Queue' = Queue
      BY <2>1, <2>4 DEF AddFilter
    <2>5. CASE UNCHANGED vars BY <2>1, <2>5 DEF vars
    <2> QED BY <2>2, <2>3, <2>4, <2>5 DEF Next
  <1> QED BY <1>1, <1>2, TypeCorrectness, IndicesAlwaysAgree, PTL DEF Spec, ImplementsFifo, Fifo!Spec

----------------------------------------------------------------------------
(* What the sketch reads.                                                  *)

\* Between two reads the stored comparison values are those of the sketch.
ComparisonIsCurrent == previousButtons = buttons /\ previousNunchuk = nunchuk

LEMMA ComparisonAlwaysCurrent == Spec => []ComparisonIsCurrent
  <1>1. Init => ComparisonIsCurrent BY DEF Init, ComparisonIsCurrent
  <1>2. ComparisonIsCurrent /\ [Next]_vars => ComparisonIsCurrent'
    <2> SUFFICES ASSUME ComparisonIsCurrent, [Next]_vars PROVE ComparisonIsCurrent'
      OBVIOUS
    <2>1. UNCHANGED stateVars => ComparisonIsCurrent' BY DEF stateVars, ComparisonIsCurrent
    <2>2. ASSUME NEW r, Parse(r) PROVE ComparisonIsCurrent'
      BY <2>2 DEF Parse, ComparisonIsCurrent
    <2>3. CASE ParseData BY <2>1, <2>2, <2>3 DEF ParseData
    <2> QED BY <2>1, <2>3 DEF Next, Put, AddFilter, vars
  <1> QED BY <1>1, <1>2, PTL DEF Spec

\* A read that takes a report and says "nothing new" skipped a short one or
\* parsed one that changed nothing.
LEMMA QuietRead ==
    ASSUME TypeOK, [Next]_vars, itemCount' < itemCount, result' = 0
    PROVE  \/ UNCHANGED stateVars
           \/ \E r \in Held : Parse(r) /\ ~Changed(r) /\ filter' = filter
  <1>0. itemCount \in 0..Capacity BY DEF TypeOK
  <1>1. ASSUME NEW r \in Reports, Put(r) PROVE FALSE
    BY <1>0, <1>1, CapacityIsPositive DEF Put
  <1>2. ASSUME NEW f \in FilterChoices, AddFilter(f) PROVE FALSE
    BY <1>0, <1>2, CapacityIsPositive DEF AddFilter, ringVars
  <1>3. ~UNCHANGED vars BY <1>0, CapacityIsPositive DEF vars, ringVars
  <1>4. ParseData BY <1>1, <1>2, <1>3 DEF Next
  <1>5. itemCount # 0 BY <1>0, <1>4, CapacityIsPositive DEF ParseData, ringVars
  <1> DEFINE r == slots[readIndex]
  <1>6. r \in Held BY DEF TypeOK, Held
  <1>7. CASE r.kind = "short" BY <1>4, <1>5, <1>7 DEF ParseData
  <1>8. CASE r.kind # "short"
    <2>1. Parse(r) /\ filter' = filter BY <1>4, <1>5, <1>8 DEF ParseData
    <2> HIDE DEF r
    <2>2. ~Changed(r) BY <2>1 DEF Parse
    <2> QED BY <1>6, <2>1, <2>2
  <1> QED BY <1>7, <1>8

\* Unfiltered, a quiet read releases nothing and presses none of the Wiimote's
\* own buttons.
THEOREM QuietReadsKeepButtons == Spec => QuietReadKeepsButtons
  <1>1. TypeOK /\ ComparisonIsCurrent /\ [Next]_vars
          => [itemCount' < itemCount /\ result' = 0 /\ "Button" \notin filter
                => buttons' \ NunchukButtons = buttons \/ buttons' = buttons]_vars
    <2> SUFFICES ASSUME TypeOK, ComparisonIsCurrent, [Next]_vars,
                        itemCount' < itemCount, result' = 0, "Button" \notin filter
                 PROVE  buttons' \ NunchukButtons = buttons \/ buttons' = buttons
      OBVIOUS
    <2>1. ASSUME NEW r \in Held, Parse(r), ~Changed(r)
          PROVE  buttons' \ NunchukButtons = buttons \/ buttons' = buttons
      <3>1. CoreOf(r) = buttons BY <2>1 DEF Changed, ButtonChanged, ComparisonIsCurrent
      <3>2. buttons' = buttons \cup r.cz BY <2>1, <3>1 DEF Parse, ButtonsOf
      <3>3. /\ r.core \in SUBSET Core /\ r.cz \in SUBSET NunchukButtons
            /\ r.kind \notin ButtonKinds => r.cz = {}
        BY ReportFields DEF Held
      <3>4. CASE r.kind \in ButtonKinds
        <4>1. buttons \in SUBSET Core BY <3>1, <3>3, <3>4 DEF CoreOf
        <4> QED BY <3>2, <3>3, <4>1, InputAssumption
      <3>5. CASE r.kind \notin ButtonKinds BY <3>2, <3>3, <3>5
      <3> QED BY <3>4, <3>5
    <2>2. CASE UNCHANGED stateVars BY <2>2 DEF stateVars
    <2> QED BY <2>1, <2>2, QuietRead
  <1> QED BY <1>1, TypeCorrectness, ComparisonAlwaysCurrent, PTL DEF Spec, QuietReadKeepsButtons

\* Unfiltered, the stick moves unnoticed only to rest or by less than the
\* threshold.
THEOREM QuietReadsKeepStick == Spec => QuietReadKeepsStick
  <1>1. TypeOK /\ ComparisonIsCurrent /\ [Next]_vars
          => [itemCount' < itemCount /\ result' = 0 /\ "NunchukStick" \notin filter
                => nunchuk' = 0 \/ (nunchuk' - nunchuk) * (nunchuk' - nunchuk) < Threshold]_vars
    <2> SUFFICES ASSUME TypeOK, ComparisonIsCurrent, [Next]_vars,
                        itemCount' < itemCount, result' = 0, "NunchukStick" \notin filter,
                        nunchuk' # 0
                 PROVE  (nunchuk' - nunchuk) * (nunchuk' - nunchuk) < Threshold
      OBVIOUS
    <2>1. ASSUME NEW r \in Held, Parse(r), ~Changed(r)
          PROVE  (nunchuk' - nunchuk) * (nunchuk' - nunchuk) < Threshold
      <3>1. r.kind \in NunchukKinds /\ nunchuk' = r.stick BY <2>1 DEF Parse, NunchukOf
      <3>2. ~(Distance(r) >= Threshold) BY <2>1, <3>1 DEF Changed, StickChanged
      <3>3. Distance(r) = (nunchuk' - nunchuk) * (nunchuk' - nunchuk)
        BY <3>1 DEF Distance, ComparisonIsCurrent
      <3>4. r.stick \in Sticks \cup {0} BY ReportFields, Zenon DEF Held
      <3>5. nunchuk' \in Int /\ nunchuk \in Int /\ Threshold \in Int
        <4>1. Sticks \subseteq Nat /\ Threshold \in Nat BY InputAssumption
        <4>2. nunchuk \in Sticks \cup {0} /\ nunchuk' \in Sticks \cup {0}
          BY <3>1, <3>4 DEF TypeOK
        <4> QED BY <4>1, <4>2
      <3> DEFINE move == nunchuk' - nunchuk
      <3>6. ~(move * move >= Threshold) BY <3>2, <3>3, Zenon
      <3>7. move \in Int BY <3>5
      <3> HIDE DEF move
      <3>8. move * move \in Int BY <3>7
      <3>9. move * move < Threshold BY <3>5, <3>6, <3>8
      <3> QED BY <3>9 DEF move
    <2>2. CASE UNCHANGED stateVars
      <3>1. nunchuk' = nunchuk /\ nunchuk \in Int BY <2>2, InputAssumption DEF stateVars, TypeOK
      <3>2. nunchuk' - nunchuk = 0 BY <3>1
      <3> QED BY <3>2, InputAssumption
    <2> QED BY <2>1, <2>2, QuietRead
  <1> QED BY <1>1, TypeCorrectness, ComparisonAlwaysCurrent, PTL DEF Spec, QuietReadKeepsStick

\* A sketch that has read everything holds the buttons of the newest report.
THEOREM CaughtUpInvariant == Spec => []CaughtUp
  <1>1. Init => CaughtUp
    <2>1. NoReport.kind = "short" BY DEF NoReport, Report
    <2>2. Init => Newest = NoReport
      BY CapacityIsPositive DEF Init, Newest
    <2> QED BY <2>1, <2>2 DEF CaughtUp, ButtonKinds
  <1>2. TypeOK /\ IndicesAgree /\ CaughtUp /\ [Next]_vars => CaughtUp'
    <2> SUFFICES ASSUME TypeOK, IndicesAgree, CaughtUp, [Next]_vars PROVE CaughtUp'
      OBVIOUS
    <2>0. /\ itemCount \in 0..Capacity
          /\ readIndex \in 0..(Capacity - 1) /\ writeIndex \in 0..(Capacity - 1)
      BY DEF TypeOK
    <2>1. UNCHANGED <<ringVars, stateVars>> => CaughtUp'
      BY DEF ringVars, stateVars, CaughtUp, Newest
    <2>2. ASSUME NEW r \in Reports, Put(r) PROVE CaughtUp'
      <3>1. CASE itemCount >= Capacity BY <2>1, <2>2, <3>1 DEF Put, ringVars
      <3>2. CASE ~(itemCount >= Capacity)
        <4>1. itemCount' = itemCount + 1 BY <2>2, <3>2 DEF Put
        <4>2. itemCount' # 0 BY <2>0, <4>1, CapacityIsPositive
        <4> QED BY <4>2 DEF CaughtUp
      <3> QED BY <3>1, <3>2
    <2>3. CASE ParseData
      <3>1. CASE itemCount = 0 BY <2>1, <2>3, <3>1 DEF ParseData
      <3>2. CASE itemCount # 0
        <4> SUFFICES ASSUME itemCount' = 0, Newest'.kind \in ButtonKinds
                     PROVE  buttons' = Newest'.core \cup Newest'.cz
          BY DEF CaughtUp
        <4>1. slots' = slots /\ writeIndex' = writeIndex /\ itemCount' = itemCount - 1
          BY <2>3, <3>2 DEF ParseData, Take
        <4>2. itemCount = 1 BY <2>0, <4>1, CapacityIsPositive
        <4>3. writeIndex = Next1(readIndex) BY <4>2 DEF IndicesAgree, Next1
        <4>4. Next1(readIndex) = IF readIndex = Capacity - 1 THEN 0 ELSE readIndex + 1
          BY <2>0, NextPlace
        <4>5. (IF writeIndex = 0 THEN Capacity - 1 ELSE writeIndex - 1) = readIndex
          BY <2>0, <4>3, <4>4, CapacityIsPositive
        <4>6. Newest' = slots[readIndex] BY <4>1, <4>5 DEF Newest
        <4> DEFINE r == slots[readIndex]
        <4>7. r.kind \in ButtonKinds BY <4>6
        <4>8. Parse(r) BY <2>3, <3>2, <4>7 DEF ParseData, ButtonKinds
        <4> HIDE DEF r
        <4>9. buttons' = r.core \cup r.cz BY <4>7, <4>8 DEF Parse, ButtonsOf, CoreOf
        <4> QED BY <4>6, <4>9 DEF r
      <3> QED BY <3>1, <3>2
    <2>4. ASSUME NEW f \in FilterChoices, AddFilter(f) PROVE CaughtUp'
      BY <2>1, <2>4 DEF AddFilter
    <2>5. CASE UNCHANGED vars BY <2>1, <2>5 DEF vars
    <2> QED BY <2>2, <2>3, <2>4, <2>5 DEF Next
  <1> QED BY <1>1, <1>2, TypeCorrectness, IndicesAlwaysAgree, PTL DEF Spec
=============================================================================
