----------------------------- MODULE WebProofs -----------------------------
(***************************************************************************)
(* Proofs about the web components: EventStream, WebParser and WebApi.     *)
(* The events for every number of channels and clients, every capacity     *)
(* and every span of the sequence numbers; the parser for every body and   *)
(* every limit; the router for every set of requests and any queue.        *)
(***************************************************************************)
EXTENDS EventStream, WebApi, FiniteSetTheorems, WellFoundedInduction, TLAPS

-----------------------------------------------------------------------------
(* EventStream.                                                            *)

\* A remainder is the only number below n that is left when multiples of n go.
LEMMA ModUnique ==
    ASSUME NEW n \in Nat \ {0}, NEW q \in Nat, NEW r \in 0..(n - 1)
    PROVE  (n * q + r) % n = r
  BY Z3

\* Every number is a multiple of n and a remainder.
LEMMA ModDivide ==
    ASSUME NEW n \in Nat \ {0}, NEW a \in Nat
    PROVE  \E q \in Nat, r \in 0..(n - 1) : a = n * q + r
  <1>1. a = n * (a \div n) + (a % n) BY Z3
  <1>2. a \div n \in Nat /\ a % n \in 0..(n - 1) BY Z3
  <1> QED BY <1>1, <1>2, Zenon

\* A remainder is below n.
LEMMA ModRange ==
    ASSUME NEW n \in Nat \ {0}, NEW a \in Nat
    PROVE  a % n \in 0..(n - 1)
  BY Z3

\* A position less than two rings away goes round once at most.
LEMMA ModOnce ==
    ASSUME NEW n \in Nat \ {0}, NEW a \in Nat, a < 2 * n
    PROVE  a % n = IF a < n THEN a ELSE a - n
  BY Z3

\* What is counted modulo n steps as its total does.
LEMMA ModStep ==
    ASSUME NEW n \in Nat \ {0}, NEW a \in Nat
    PROVE  ((a % n) + 1) % n = (a + 1) % n
  <1>1. PICK q \in Nat, r \in 0..(n - 1) : a = n * q + r BY ModDivide
  <1>2. a % n = r BY <1>1, ModUnique
  <1>3. CASE r + 1 < n
    <2>1. r + 1 \in 0..(n - 1) /\ r + 1 = n * 0 + (r + 1) /\ a + 1 = n * q + (r + 1)
      BY <1>1, <1>3
    <2>2. (n * 0 + (r + 1)) % n = r + 1 /\ (n * q + (r + 1)) % n = r + 1 BY <2>1, ModUnique
    <2> QED BY <2>1, <2>2, <1>2
  <1>4. CASE r + 1 = n
    <2>1. r + 1 = n * 1 + 0 /\ a + 1 = n * (q + 1) + 0 BY <1>1, <1>4
    <2>2. (n * 1 + 0) % n = 0 /\ (n * (q + 1) + 0) % n = 0 BY ModUnique
    <2> QED BY <2>1, <2>2, <1>2
  <1> QED BY <1>3, <1>4

LEMMA Constants ==
    /\ Capacity \in Nat \ {0} /\ SeqSpan \in Nat \ {0} /\ Capacity < SeqSpan
    /\ 1 % SeqSpan \in Seqs /\ 0 \in Seqs /\ 0 \in Slots
  <1>1. Capacity \in Nat \ {0} /\ SeqSpan \in Nat \ {0} /\ Capacity < SeqSpan
    BY StreamAssumption
  <1>2. 1 % SeqSpan \in Seqs BY <1>1, ModRange DEF Seqs
  <1> QED BY <1>1, <1>2 DEF Seqs, Slots

\* Where a position less than two rings away is.
LEMMA SlotOf ==
    ASSUME NEW a \in Nat, a < 2 * Capacity
    PROVE  /\ a < Capacity => a % Capacity = a
           /\ a >= Capacity => a % Capacity = a - Capacity
           /\ a % Capacity \in Slots
  <1>1. Capacity \in Nat \ {0} BY Constants
  <1>2. a % Capacity = IF a < Capacity THEN a ELSE a - Capacity BY <1>1, ModOnce, Zenon
  <1> QED BY <1>1, <1>2 DEF Slots

\* What follows a number, counted modulo SeqSpan.
LEMMA NextNumber ==
    ASSUME NEW a \in Nat
    PROVE  /\ (a + 1) % SeqSpan \in Seqs
           /\ ((a % SeqSpan) + 1) % SeqSpan = (a + 1) % SeqSpan
  <1>1. SeqSpan \in Nat \ {0} /\ a + 1 \in Nat BY Constants
  <1>2. ((a % SeqSpan) + 1) % SeqSpan = (a + 1) % SeqSpan BY <1>1, ModStep, Zenon
  <1>3. (a + 1) % SeqSpan \in 0..(SeqSpan - 1) BY <1>1, ModRange, Zenon
  <1> QED BY <1>2, <1>3 DEF Seqs

\* Offsets of a ring are different slots.
LEMMA SlotsDiffer ==
    ASSUME NEW h \in Slots, NEW i \in Slots, NEW j \in Slots, i # j
    PROVE  (h + i) % Capacity # (h + j) % Capacity
  <1>1. /\ h + i \in Nat /\ h + i < 2 * Capacity
        /\ h + j \in Nat /\ h + j < 2 * Capacity
    BY Constants DEF Slots
  <1>2. /\ h + i < Capacity => (h + i) % Capacity = h + i
        /\ h + i >= Capacity => (h + i) % Capacity = (h + i) - Capacity
    BY <1>1, SlotOf, Zenon
  <1>3. /\ h + j < Capacity => (h + j) % Capacity = h + j
        /\ h + j >= Capacity => (h + j) % Capacity = (h + j) - Capacity
    BY <1>1, SlotOf, Zenon
  <1> QED BY <1>2, <1>3, Constants DEF Slots

\* The offsets of a ring whose head has moved on are those one further.
LEMMA HeadMoves ==
    ASSUME NEW h \in Slots, NEW i \in Slots
    PROVE  (((h + 1) % Capacity) + i) % Capacity =
             IF i = Capacity - 1 THEN h ELSE (h + (i + 1)) % Capacity
  <1> DEFINE first == (h + 1) % Capacity
  <1>0. h + 1 \in Nat /\ h + 1 < 2 * Capacity BY Constants DEF Slots
  <1>1. /\ h + 1 < Capacity => first = h + 1
        /\ h + 1 >= Capacity => first = (h + 1) - Capacity
        /\ first \in Slots
    BY <1>0, SlotOf, Zenon
  <1>2. first + i \in Nat /\ first + i < 2 * Capacity
    <2> HIDE DEF first
    <2> QED BY <1>1, Constants DEF Slots
  <1>3. /\ first + i < Capacity => (first + i) % Capacity = first + i
        /\ first + i >= Capacity => (first + i) % Capacity = (first + i) - Capacity
    BY <1>2, SlotOf, Zenon
  <1>4. CASE i = Capacity - 1
    <2> HIDE DEF first
    <2>1. (((h + 1) % Capacity) + i) % Capacity = (first + i) % Capacity BY DEF first
    <2> QED BY <1>1, <1>3, <1>4, <2>1, Constants DEF Slots
  <1>5. CASE i # Capacity - 1
    <2>1. h + (i + 1) \in Nat /\ h + (i + 1) < 2 * Capacity BY <1>5, Constants DEF Slots
    <2>2. /\ h + (i + 1) < Capacity => (h + (i + 1)) % Capacity = h + (i + 1)
          /\ h + (i + 1) >= Capacity => (h + (i + 1)) % Capacity = (h + (i + 1)) - Capacity
      BY <2>1, SlotOf, Zenon
    <2> HIDE DEF first
    <2>3. (((h + 1) % Capacity) + i) % Capacity = (first + i) % Capacity BY DEF first
    <2> QED BY <1>1, <1>3, <1>5, <2>2, <2>3, Constants DEF Slots
  <1> QED BY <1>4, <1>5

----------------------------------------------------------------------------
LEMMA AppendType ==
    ASSUME TypeOK, NEW c \in Channels, AppendFrame(c)
    PROVE  /\ nextSeq' \in [Channels -> Seqs] /\ head' \in [Channels -> Slots]
           /\ count' \in [Channels -> 0..Capacity] /\ buffer' \in [Channels -> [Slots -> Seqs]]
  <1>1. /\ head[c] \in Slots /\ count[c] \in 0..Capacity /\ nextSeq[c] \in Seqs
        /\ buffer[c] \in [Slots -> Seqs]
    BY DEF TypeOK
  <1>2. (nextSeq[c] + 1) % SeqSpan \in Seqs
    <2>1. nextSeq[c] \in Nat BY <1>1 DEF Seqs
    <2> QED BY <2>1, NextNumber, Zenon
  <1>3. (head[c] + 1) % Capacity \in Slots
    <2>1. head[c] + 1 \in Nat /\ head[c] + 1 < 2 * Capacity BY <1>1, Constants DEF Slots
    <2> QED BY <2>1, SlotOf, Zenon
  <1> DEFINE full == count[c] = Capacity
             first == IF full THEN (head[c] + 1) % Capacity ELSE head[c]
             kept == IF full THEN count[c] - 1 ELSE count[c]
  <1>4. first \in Slots /\ kept \in Slots /\ kept + 1 \in 0..Capacity
    BY <1>1, <1>3, Constants DEF Slots
  <1>5. (first + kept) % Capacity \in Slots
    <2> HIDE DEF first, kept
    <2> QED BY <1>4, Constants, ModRange DEF Slots
  <1>6. /\ head' = [head EXCEPT ![c] = first]
        /\ buffer' = [buffer EXCEPT ![c][(first + kept) % Capacity] = nextSeq[c]]
        /\ count' = [count EXCEPT ![c] = kept + 1]
        /\ nextSeq' = [nextSeq EXCEPT ![c] = (nextSeq[c] + 1) % SeqSpan]
    BY DEF AppendFrame, TypeOK
  <1> HIDE DEF first, kept
  <1> QED BY <1>1, <1>2, <1>4, <1>5, <1>6 DEF TypeOK

\* The type invariant: head stays inside the ring and count within its size.
THEOREM TypeCorrectness == StreamSpec => []TypeOK
  <1>1. StreamInit => TypeOK
    BY Constants DEF StreamInit, TypeOK
  <1>2. TypeOK /\ [StreamNext]_streamVars => TypeOK'
    <2> SUFFICES ASSUME TypeOK, [StreamNext]_streamVars PROVE TypeOK' OBVIOUS
    <2>1. ASSUME NEW c \in Channels, Publish(c) PROVE TypeOK'
      <3>1. AppendFrame(c) /\ total' = [total EXCEPT ![c] = total[c] + 1] /\ client' = client
        BY <2>1 DEF Publish
      <3>2. total' \in [Channels -> Nat] BY <3>1 DEF TypeOK
      <3> QED BY <3>1, <3>2, AppendType DEF TypeOK
    <2>2. ASSUME NEW c \in Channels, Disconnect(c) PROVE TypeOK'
      BY <2>2 DEF Disconnect, TypeOK, ringVars
    <2>3. ASSUME NEW c \in Channels, NEW k \in Clients, Connect(c, k) PROVE TypeOK'
      BY <2>3 DEF Connect, TypeOK, ringVars
    <2>4. ASSUME NEW c \in Channels, NEW k \in Clients, NEW after \in Seqs, ReplaySince(c, k, after)
          PROVE  TypeOK'
      BY <2>4 DEF ReplaySince, TypeOK, ringVars
    <2>5. CASE PublishFails BY <2>5 DEF PublishFails, TypeOK, ringVars
    <2>6. CASE Reset BY <2>6, Constants DEF Reset, TypeOK
    <2>7. CASE UNCHANGED streamVars BY <2>7 DEF streamVars, ringVars, TypeOK
    <2> QED BY <2>1, <2>2, <2>3, <2>4, <2>5, <2>6, <2>7 DEF StreamNext
  <1> QED BY <1>1, <1>2, PTL DEF StreamSpec

----------------------------------------------------------------------------
\* One more event, in a ring with room and in a full one.
LEMMA AppendKeepsLatest ==
    ASSUME TypeOK, RingHoldsLatest, NEW c \in Channels, Publish(c)
    PROVE  RingHoldsLatest'
  <1>1. /\ head[c] \in Slots /\ count[c] \in 0..Capacity /\ nextSeq[c] \in Seqs
        /\ total[c] \in Nat /\ buffer[c] \in [Slots -> Seqs]
    BY DEF TypeOK
  <1>2. /\ count[c] = IF total[c] < Capacity THEN total[c] ELSE Capacity
        /\ nextSeq[c] = (total[c] + 1) % SeqSpan
        /\ \A i \in 0..(count[c] - 1) :
             buffer[c][(head[c] + i) % Capacity] = (total[c] - count[c] + 1 + i) % SeqSpan
    BY DEF RingHoldsLatest, FrameAt, Offsets
  <1> DEFINE full == count[c] = Capacity
             first == IF full THEN (head[c] + 1) % Capacity ELSE head[c]
             kept == IF full THEN count[c] - 1 ELSE count[c]
             slot == (first + kept) % Capacity
  <1>3. /\ head' = [head EXCEPT ![c] = first]
        /\ buffer' = [buffer EXCEPT ![c] = [buffer[c] EXCEPT ![slot] = nextSeq[c]]]
        /\ count' = [count EXCEPT ![c] = kept + 1]
        /\ nextSeq' = [nextSeq EXCEPT ![c] = (nextSeq[c] + 1) % SeqSpan]
        /\ total' = [total EXCEPT ![c] = total[c] + 1]
    BY DEF Publish, AppendFrame, TypeOK
  <1>4. (head[c] + 1) % Capacity \in Slots
    <2>1. head[c] + 1 \in Nat /\ head[c] + 1 < 2 * Capacity BY <1>1, Constants DEF Slots
    <2> QED BY <2>1, SlotOf, Zenon
  <1>5. first \in Slots /\ kept \in Slots BY <1>1, <1>4, Constants DEF Slots
  <1>6. slot \in Slots
    <2> HIDE DEF first, kept
    <2> QED BY <1>5, Constants, ModRange DEF Slots
  <1>7. /\ head'[c] = first /\ count'[c] = kept + 1 /\ total'[c] = total[c] + 1
        /\ nextSeq'[c] = (nextSeq[c] + 1) % SeqSpan
        /\ buffer'[c] = [buffer[c] EXCEPT ![slot] = nextSeq[c]]
    <2> HIDE DEF first, kept, slot
    <2> QED BY <1>3 DEF TypeOK
  <1>8. count'[c] = IF total'[c] < Capacity THEN total'[c] ELSE Capacity
    BY <1>1, <1>2, <1>7, Constants
  <1>9. nextSeq'[c] = (total'[c] + 1) % SeqSpan
    <2>1. (((total[c] + 1) % SeqSpan) + 1) % SeqSpan = ((total[c] + 1) + 1) % SeqSpan
      <3>1. total[c] + 1 \in Nat BY <1>1
      <3> QED BY <3>1, NextNumber, Zenon
    <2> QED BY <1>2, <1>7, <2>1
  <1>10. ASSUME NEW i \in 0..kept
         PROVE  buffer'[c][(first + i) % Capacity] = (total'[c] - count'[c] + 1 + i) % SeqSpan
    <2>1. i \in Slots
      <3> HIDE DEF kept
      <3> QED BY <1>5, Constants DEF Slots
    <2>2. CASE i = kept
      <3>1. buffer'[c][slot] = nextSeq[c]
        <4> HIDE DEF slot
        <4> QED BY <1>1, <1>6, <1>7
      <3>2. total'[c] - count'[c] + 1 + i = total[c] + 1 BY <1>1, <1>5, <1>7, <2>2 DEF Slots
      <3> QED BY <3>1, <3>2, <2>2, <1>2
    <2>3. CASE i # kept
      <3>1. (first + i) % Capacity # slot BY <1>5, <2>1, <2>3, SlotsDiffer
      <3>2. (first + i) % Capacity \in Slots
        <4> HIDE DEF first
        <4> QED BY <1>5, <2>1, Constants, ModRange DEF Slots
      <3>3. buffer'[c][(first + i) % Capacity] = buffer[c][(first + i) % Capacity]
        <4> HIDE DEF first, slot
        <4> QED BY <1>1, <1>7, <3>1, <3>2
      <3>4. CASE full
        <4>1. (first + i) % Capacity = (head[c] + (i + 1)) % Capacity
          BY <3>4, <1>1, <2>1, <2>3, HeadMoves
        <4>2. i + 1 \in 0..(count[c] - 1) BY <3>4, <2>3, <1>1, Constants
        <4>3. buffer[c][(head[c] + (i + 1)) % Capacity]
                = (total[c] - count[c] + 1 + (i + 1)) % SeqSpan
          BY <1>2, <4>2
        <4>4. total[c] - count[c] + 1 + (i + 1) = total'[c] - count'[c] + 1 + i
          BY <3>4, <1>1, <1>7, Constants
        <4> QED BY <3>3, <4>1, <4>3, <4>4
      <3>5. CASE ~full
        <4>1. i \in 0..(count[c] - 1) BY <3>5, <2>3, <1>1
        <4>2. buffer[c][(head[c] + i) % Capacity] = (total[c] - count[c] + 1 + i) % SeqSpan
          BY <1>2, <4>1
        <4>3. total[c] - count[c] + 1 + i = total'[c] - count'[c] + 1 + i
          BY <3>5, <1>1, <1>7
        <4> QED BY <3>3, <3>5, <4>2, <4>3
      <3> QED BY <3>4, <3>5
    <2> QED BY <2>2, <2>3
  <1>11. ASSUME NEW d \in Channels, d # c
         PROVE  /\ head'[d] = head[d] /\ count'[d] = count[d] /\ total'[d] = total[d]
                /\ nextSeq'[d] = nextSeq[d] /\ buffer'[d] = buffer[d]
    <2> HIDE DEF first, kept, slot
    <2> QED BY <1>3, <1>11 DEF TypeOK
  <1> SUFFICES ASSUME NEW d \in Channels
               PROVE  /\ count'[d] = IF total'[d] < Capacity THEN total'[d] ELSE Capacity
                      /\ nextSeq'[d] = (total'[d] + 1) % SeqSpan
                      /\ \A i \in 0..(count'[d] - 1) :
                           buffer'[d][(head'[d] + i) % Capacity]
                             = (total'[d] - count'[d] + 1 + i) % SeqSpan
    BY DEF RingHoldsLatest, FrameAt, Offsets
  <1>12. CASE d = c
    <2>1. count'[c] - 1 = kept BY <1>5, <1>7 DEF Slots
    <2> HIDE DEF first, kept, slot
    <2> QED BY <1>12, <1>7, <1>8, <1>9, <1>10, <2>1
  <1>13. CASE d # c
    BY <1>11, <1>13 DEF RingHoldsLatest, FrameAt, Offsets
  <1> QED BY <1>12, <1>13

LEMMA SameRing ==
    ASSUME RingHoldsLatest, UNCHANGED ringVars
    PROVE  RingHoldsLatest'
  BY DEF RingHoldsLatest, FrameAt, Offsets, ringVars

\* The ring holds the last events published, each at its place under its
\* number, across every overflow and every wrap of the numbers.
THEOREM RingHoldsLatestInvariant == StreamSpec => []RingHoldsLatest
  <1>0. (0 + 1) % SeqSpan = 1 % SeqSpan /\ 0..(0 - 1) = {} /\ 0 < Capacity BY Constants
  <1>1. StreamInit => RingHoldsLatest
    BY <1>0 DEF StreamInit, RingHoldsLatest, Offsets, FrameAt
  <1>2. TypeOK /\ RingHoldsLatest /\ [StreamNext]_streamVars => RingHoldsLatest'
    <2> SUFFICES ASSUME TypeOK, RingHoldsLatest, [StreamNext]_streamVars PROVE RingHoldsLatest' OBVIOUS
    <2>1. CASE \E c \in Channels : Publish(c) BY <2>1, AppendKeepsLatest
    <2>2. CASE UNCHANGED ringVars BY <2>2, SameRing
    <2>3. CASE Reset BY <2>3, <1>0 DEF Reset, RingHoldsLatest, Offsets, FrameAt
    <2> QED
      BY <2>1, <2>2, <2>3 DEF StreamNext, Disconnect, Connect, ReplaySince, PublishFails, streamVars
  <1> QED BY <1>1, <1>2, TypeCorrectness, PTL DEF StreamSpec

----------------------------------------------------------------------------
\* Before the numbers wrap, the frame at an offset bears its own total.
LEMMA NumbersAreTotals ==
    ASSUME TypeOK, RingHoldsLatest, NEW c \in Channels, total[c] < SeqSpan
    PROVE  /\ count[c] \in Nat /\ total[c] \in Nat /\ count[c] <= total[c]
           /\ (count[c] = 0) = (total[c] = 0)
           /\ \A i \in Offsets(c) : FrameAt(c, i) = total[c] - count[c] + 1 + i
  <1>1. count[c] \in 0..Capacity /\ total[c] \in Nat BY DEF TypeOK
  <1>2. count[c] = IF total[c] < Capacity THEN total[c] ELSE Capacity BY DEF RingHoldsLatest
  <1>3. ASSUME NEW i \in Offsets(c) PROVE FrameAt(c, i) = total[c] - count[c] + 1 + i
    <2>1. FrameAt(c, i) = (total[c] - count[c] + 1 + i) % SeqSpan BY DEF RingHoldsLatest
    <2>2. /\ total[c] - count[c] + 1 + i \in Nat
          /\ total[c] - count[c] + 1 + i < SeqSpan
      BY <1>1, <1>2, Constants DEF Offsets
    <2> DEFINE number == total[c] - count[c] + 1 + i
    <2>3. number % SeqSpan = IF number < SeqSpan THEN number ELSE number - SeqSpan
      <3> HIDE DEF number
      <3>1. number \in Nat /\ number < 2 * SeqSpan BY <2>2, Constants DEF number
      <3> QED BY <3>1, Constants, ModOnce
    <2> QED BY <2>1, <2>2, <2>3
  <1> QED BY <1>1, <1>2, <1>3, Constants

\* A replay sends exactly the frames that followed the number it is asked for,
\* or asks for a snapshot and only when one of them is gone.
THEOREM ReplayIsExactInvariant == StreamSpec => []ReplayIsExact
  <1>1. StreamInit => ReplayIsExact
    BY DEF StreamInit, ReplayIsExact, Quiet
  <1>2. TypeOK /\ RingHoldsLatest /\ ReplayIsExact /\ [StreamNext]_streamVars => ReplayIsExact'
    <2> SUFFICES ASSUME TypeOK, RingHoldsLatest, ReplayIsExact, [StreamNext]_streamVars
                 PROVE  ReplayIsExact'
      OBVIOUS
    <2>1. ASSUME NEW c \in Channels, NEW k \in Clients, NEW after \in Seqs, ReplaySince(c, k, after)
          PROVE  ReplayIsExact'
      <3> DEFINE recover == count[c] # 0 /\ MissedSome(c, after)
                 frames == IF recover THEN {}
                           ELSE {FrameAt(c, i) : i \in {i \in Offsets(c) : FrameAt(c, i) > after}}
      <3>1. /\ sent'.on = {c} /\ sent'.after = after /\ sent'.recover = recover
            /\ sent'.latest = Latest(c) /\ sent'.frames = frames /\ total' = total /\ count' = count
        BY <2>1 DEF ReplaySince, ringVars
      <3> SUFFICES ASSUME total[c] < SeqSpan, after <= total[c], after + 1 < SeqSpan
                   PROVE  /\ Latest(c) = total[c]
                          /\ ~recover => frames = (after + 1)..total[c]
                          /\ recover => after < total[c] - count[c]
        <4> HIDE DEF recover, frames
        <4> QED BY <3>1 DEF ReplayIsExact
      <3>2. /\ count[c] \in Nat /\ total[c] \in Nat /\ count[c] <= total[c]
            /\ (count[c] = 0) = (total[c] = 0)
            /\ \A i \in Offsets(c) : FrameAt(c, i) = total[c] - count[c] + 1 + i
        BY NumbersAreTotals
      <3>3. after \in Nat /\ (after + 1) % SeqSpan = after + 1
        BY Constants, ModOnce DEF Seqs
      <3>4. CASE count[c] = 0
        <4>1. frames = {} BY <3>4 DEF Offsets
        <4>2. (after + 1)..total[c] = {} BY <3>4, <3>2, <3>3
        <4> QED BY <3>4, <3>2, <4>1, <4>2 DEF Latest
      <3>5. CASE count[c] # 0
        <4>1. 0 \in Offsets(c) /\ count[c] - 1 \in Offsets(c) BY <3>2, <3>5 DEF Offsets
        <4>2. FrameAt(c, 0) = total[c] - count[c] + 1 /\ FrameAt(c, count[c] - 1) = total[c]
          BY <3>2, <4>1
        <4>3. recover <=> after + 1 < total[c] - count[c] + 1
          BY <3>5, <3>3, <4>2 DEF MissedSome, Oldest
        <4>4. ASSUME ~recover PROVE frames = (after + 1)..total[c]
          <5>1. after >= total[c] - count[c] BY <4>3, <4>4, <3>2, <3>3
          <5>2. ASSUME NEW i \in Offsets(c), FrameAt(c, i) > after
                PROVE  FrameAt(c, i) \in (after + 1)..total[c]
            BY <5>2, <3>2, <3>3 DEF Offsets
          <5>3. ASSUME NEW s \in (after + 1)..total[c]
                PROVE  \E i \in Offsets(c) : FrameAt(c, i) > after /\ FrameAt(c, i) = s
            <6>1. s - (total[c] - count[c] + 1) \in Offsets(c) BY <5>1, <3>2, <3>3 DEF Offsets
            <6>2. FrameAt(c, s - (total[c] - count[c] + 1)) = s BY <6>1, <3>2
            <6> QED BY <6>1, <6>2, <3>3
          <5> QED BY <4>4, <5>2, <5>3
        <4> QED BY <3>5, <3>2, <3>3, <4>2, <4>3, <4>4 DEF Latest
      <3> QED BY <3>4, <3>5
    <2>2. CASE sent'.on = {} BY <2>2 DEF ReplayIsExact
    <2>3. CASE UNCHANGED streamVars BY <2>3 DEF streamVars, ringVars, ReplayIsExact
    <2>4. Quiet.on = {} BY DEF Quiet
    <2>5. ASSUME NEW c \in Channels, Publish(c) PROVE sent'.on = {}
      BY <2>5, <2>4 DEF Publish, Quiet
    <2>6. (\E c \in Channels : Disconnect(c)) => sent'.on = {} BY <2>4 DEF Disconnect
    <2>7. (\E c \in Channels, k \in Clients : Connect(c, k)) => sent'.on = {}
      BY <2>4 DEF Connect
    <2>8. PublishFails \/ Reset => sent'.on = {} BY <2>4 DEF PublishFails, Reset
    <2> QED BY <2>1, <2>2, <2>3, <2>5, <2>6, <2>7, <2>8 DEF StreamNext
  <1> QED BY <1>1, <1>2, TypeCorrectness, RingHoldsLatestInvariant, PTL DEF StreamSpec

----------------------------------------------------------------------------
(* Counting up.                                                            *)

\* A set of numbers has a least one.
LEMMA LeastNumber ==
    ASSUME NEW T, T \subseteq Nat, T # {}
    PROVE  \E x \in T : \A y \in T : ~(y < x)
<1>1. PICK x \in T : \A y \in T : ~(<<y, x>> \in OpToRel(<, Nat))
  BY NatLessThanWellFounded, WFMin, Zenon
<1>2. \A y \in T : ~(y < x)
  BY <1>1 DEF OpToRel
<1> QED BY <1>2

\* Induction, for a set instead of a predicate.
LEMMA CountUp ==
    ASSUME NEW S, 0 \in S, \A n \in Nat : n \in S => n + 1 \in S
    PROVE  Nat \subseteq S
<1> SUFFICES ASSUME Nat \ S # {} PROVE FALSE
  OBVIOUS
<1>1. PICK x \in Nat \ S : \A y \in Nat \ S : ~(y < x)
  BY LeastNumber
<1>2. x # 0 /\ x - 1 \in Nat
  BY <1>1
<1>3. x - 1 < x /\ (x - 1) + 1 = x
  BY <1>2
<1> QED BY <1>1, <1>2, <1>3

----------------------------------------------------------------------------
(* The parser, token by token.                                             *)

Runs(body, k, g) ==
    g = [i \in 0..k |-> IF i = 0 THEN Start ELSE ReadToken(g[i - 1], body[i])]

\* The recursion has a solution over every prefix.
LEMMA RunExists == ASSUME NEW body, NEW n \in Nat PROVE \E g : Runs(body, n, g)
<1> DEFINE S == {k \in Nat : \E g : Runs(body, k, g)}
<1>1. 0 \in S
  <2>1. Runs(body, 0, [i \in 0..0 |-> Start])
    BY DEF Runs
  <2> QED BY <2>1
<1>2. ASSUME NEW k \in Nat, k \in S PROVE k + 1 \in S
  <2>1. PICK g : Runs(body, k, g)
    BY <1>2
  <2> DEFINE h == [i \in 0..(k + 1) |-> IF i <= k THEN g[i] ELSE ReadToken(g[k], body[k + 1])]
  <2>2. \A i \in 0..k : g[i] = IF i = 0 THEN Start ELSE ReadToken(g[i - 1], body[i])
    BY <2>1 DEF Runs
  <2>3. ASSUME NEW i \in 0..(k + 1)
        PROVE  h[i] = IF i = 0 THEN Start ELSE ReadToken(h[i - 1], body[i])
    <3>1. CASE i = 0
      BY <2>2, <3>1
    <3>2. CASE i > 0 /\ i <= k
      <4>1. h[i] = g[i] /\ h[i - 1] = g[i - 1] /\ i \in 0..k /\ i # 0
        BY <3>2
      <4> QED BY <2>2, <4>1
    <3>3. CASE i = k + 1
      <4>1. h[i] = ReadToken(g[k], body[i]) /\ h[i - 1] = g[k] /\ i # 0
        BY <3>3
      <4> QED BY <4>1
    <3> QED BY <3>1, <3>2, <3>3
  <2>4. Runs(body, k + 1, h)
    BY <2>3 DEF Runs
  <2> QED BY <2>4
<1>3. Nat \subseteq S
  <2> HIDE DEF S
  <2> QED BY <1>1, <1>2, CountUp
<1> QED BY <1>3

\* What a token may be.  No backend knows by itself that "" is a string.
Texts == STRING \cup {""}

\* The parser starts at the start and reads one token a turn.
LEMMA ProgressSteps ==
    ASSUME NEW body \in Seq(Texts)
    PROVE  /\ Progress(body)[0] = Start
           /\ \A i \in 1..Len(body) : Progress(body)[i] = ReadToken(Progress(body)[i - 1], body[i])
<1> DEFINE n == Len(body)
           run == CHOOSE g : Runs(body, n, g)
<1>1. Progress(body) = run
  BY DEF Progress, Runs
<1>2. Runs(body, n, run)
  BY RunExists
<1>3. \A i \in 0..n : run[i] = IF i = 0 THEN Start ELSE ReadToken(run[i - 1], body[i])
  <2> HIDE DEF run
  <2> QED BY <1>2 DEF Runs
<1>4. 0 \in 0..n /\ \A i \in 1..n : i \in 0..n /\ i # 0
  OBVIOUS
<1> HIDE DEF run
<1> QED BY <1>1, <1>3, <1>4

----------------------------------------------------------------------------
(* What the parser holds.                                                  *)

LEMMA Tokens == ObjectEnd # Comma
  BY Zenon DEF ObjectEnd, Comma

ParserStates ==
    [expect : {"object", "key", "colon", "value", "separator", "end", "bad"},
     key : Texts, verb : Texts, fields : Seq(Texts \X Texts)]

\* What a turn of the loop makes of each state.
LEMMA ReadObject ==
    ASSUME NEW r \in ParserStates, NEW token \in Texts, r.expect = "object"
    PROVE  ReadToken(r, token) = [r EXCEPT !.expect = IF token = ObjectStart THEN "key" ELSE "bad"]
  BY DEF ReadToken, ParserStates

LEMMA ReadKey ==
    ASSUME NEW r \in ParserStates, NEW token \in Texts, r.expect = "key"
    PROVE  ReadToken(r, token) =
             IF token = ObjectEnd THEN [r EXCEPT !.expect = "end"]
             ELSE IF IsString(token) THEN [r EXCEPT !.expect = "colon", !.key = token]
             ELSE [r EXCEPT !.expect = "bad"]
  BY DEF ReadToken, ParserStates, IsString

LEMMA ReadColon ==
    ASSUME NEW r \in ParserStates, NEW token \in Texts, r.expect = "colon"
    PROVE  ReadToken(r, token) = [r EXCEPT !.expect = IF token = Colon THEN "value" ELSE "bad"]
  BY DEF ReadToken, ParserStates

LEMMA ReadValue ==
    ASSUME NEW r \in ParserStates, NEW token \in Texts, r.expect = "value"
    PROVE  ReadToken(r, token) =
             IF IsString(token) THEN Member(r, token) ELSE [r EXCEPT !.expect = "bad"]
  BY DEF ReadToken, ParserStates

LEMMA ReadSeparator ==
    ASSUME NEW r \in ParserStates, NEW token \in Texts, r.expect = "separator"
    PROVE  ReadToken(r, token) =
             [r EXCEPT !.expect = IF token = ObjectEnd THEN "end"
                                  ELSE IF token = Comma THEN "key" ELSE "bad"]
  BY Tokens DEF ReadToken, ParserStates

LEMMA ReadEnd ==
    ASSUME NEW r \in ParserStates, NEW token \in Texts, r.expect \in {"end", "bad"}
    PROVE  ReadToken(r, token) = r
  BY DEF ReadToken, ParserStates

----------------------------------------------------------------------------
(* The grammar.                                                            *)

\* The first m members of an object, with the commas between them.
Members(body, m) ==
    /\ TokenAt(body, 1, ObjectStart)
    /\ \A k \in 1..m : MemberAt(body, k)
    /\ \A k \in 1..(m - 1) : TokenAt(body, 4 * k + 1, Comma)

\* They are all read and another may begin: after the brace or a comma.
Opened(body, m) ==
    Members(body, m) /\ (m > 0 => TokenAt(body, 4 * m + 1, Comma))

LEMMA ObjectHasMembers ==
    ASSUME NEW body, NEW n \in Nat, IsObject(body, n)
    PROVE  Members(body, n)
  BY DEF IsObject, Members

\* After its members and a comma an object can only close.
LEMMA ObjectCloses ==
    ASSUME NEW body, NEW n \in Nat, IsObject(body, n),
           n > 0 => TokenAt(body, 4 * n + 1, Comma)
    PROVE  TokenAt(body, 4 * n + 2, ObjectEnd)
<1>1. CASE n = 0
  <2>1. 4 * n + 2 = 2
    BY <1>1
  <2> QED BY <1>1, <2>1 DEF IsObject
<1>2. CASE n > 0
  <2>1. ~TokenAt(body, 4 * n + 1, ObjectEnd)
    BY <1>2, Tokens DEF TokenAt
  <2> QED BY <1>2, <2>1 DEF IsObject
<1> QED BY <1>1, <1>2

\* An object does not end where another member begins.
LEMMA NotShorter ==
    ASSUME NEW body, NEW m \in Nat, NEW n \in Nat,
           Members(body, m), IsObject(body, n)
    PROVE  m <= n
<1> SUFFICES ASSUME n < m PROVE FALSE
  OBVIOUS
<1>1. MemberAt(body, n + 1) /\ (n > 0 => TokenAt(body, 4 * n + 1, Comma))
  <2>1. n + 1 \in 1..m /\ (n > 0 => n \in 1..(m - 1))
    OBVIOUS
  <2> QED BY <2>1 DEF Members
<1>2. IsString(body[4 * n + 2])
  <2>1. 4 * (n + 1) - 2 = 4 * n + 2
    OBVIOUS
  <2> QED BY <1>1, <2>1 DEF MemberAt
<1>3. body[4 * n + 2] # ObjectEnd
  BY <1>2 DEF IsString
<1> QED BY <1>1, <1>3, ObjectCloses DEF TokenAt

\* A body that opens another member goes on with one, or closes.
LEMMA AfterOpening ==
    ASSUME NEW body, NEW m \in Nat, NEW n \in Nat,
           Opened(body, m), IsObject(body, n)
    PROVE  \/ n = m /\ TokenAt(body, 4 * m + 2, ObjectEnd)
           \/ n > m /\ MemberAt(body, m + 1)
<1>1. m <= n
  BY NotShorter DEF Opened
<1>2. CASE n = m
  BY <1>2, ObjectCloses DEF Opened
<1>3. CASE n > m
  <2>1. m + 1 \in 1..n
    BY <1>3
  <2> QED BY <1>3, <2>1 DEF IsObject
<1> QED BY <1>1, <1>2, <1>3

\* A body goes on after its members with a comma, or closes.
LEMMA AfterMember ==
    ASSUME NEW body, NEW m \in Nat \ {0}, NEW n \in Nat,
           Members(body, m), IsObject(body, n)
    PROVE  4 * m + 1 \in DOMAIN body /\ body[4 * m + 1] \in {ObjectEnd, Comma}
<1>1. m <= n
  BY NotShorter
<1>2. CASE n = m
  BY <1>2 DEF IsObject, TokenAt
<1>3. CASE n > m
  <2>1. m \in 1..(n - 1)
    BY <1>3
  <2> QED BY <2>1 DEF IsObject, TokenAt
<1> QED BY <1>1, <1>2, <1>3

----------------------------------------------------------------------------
(* Fields and the verb, one member further.                                *)

\* They can be counted, and more members have no fewer.
LEMMA FieldsAreFinite ==
    ASSUME NEW body, NEW m \in Nat
    PROVE  IsFiniteSet(Fields(body, m)) /\ Cardinality(Fields(body, m)) \in Nat
<1>1. IsFiniteSet(1..m)
  BY FS_Interval
<1>2. Fields(body, m) \subseteq 1..m
  BY DEF Fields
<1>3. IsFiniteSet(Fields(body, m))
  BY <1>1, <1>2, FS_Subset
<1> QED BY <1>3, FS_CardinalityType

LEMMA FieldsGrow ==
    ASSUME NEW body, NEW m \in Nat, NEW n \in Nat, m <= n
    PROVE  Cardinality(Fields(body, m)) <= Cardinality(Fields(body, n))
<1>1. Fields(body, m) \subseteq Fields(body, n)
  <2>1. \A k \in 1..m : k \in 1..n
    OBVIOUS
  <2> QED BY <2>1 DEF Fields
<1> QED BY <1>1, FieldsAreFinite, FS_Subset

\* A member that names the verb, and one that is a field.
LEMMA NextVerb ==
    ASSUME NEW body, NEW m \in Nat, body[4 * m + 2] = "command"
    PROVE  /\ Fields(body, m + 1) = Fields(body, m)
           /\ VerbOf(body, m + 1) = body[4 * m + 4]
<1>1. 4 * (m + 1) - 2 = 4 * m + 2 /\ 4 * (m + 1) = 4 * m + 4
  OBVIOUS
<1>2. \A k \in 1..(m + 1) : k \in 1..m \/ k = m + 1
  OBVIOUS
<1>3. \A k \in 1..m : k \in 1..(m + 1)
  OBVIOUS
<1>4. Fields(body, m + 1) = Fields(body, m)
  BY <1>1, <1>2, <1>3 DEF Fields
<1>5. m + 1 \in Verbs(body, m + 1) /\ \A k \in Verbs(body, m + 1) : k <= m + 1
  BY <1>1 DEF Verbs
<1>6. \A k \in Verbs(body, m + 1) : (\A j \in Verbs(body, m + 1) : j <= k) => k = m + 1
  BY <1>5 DEF Verbs
<1>7. Greatest(Verbs(body, m + 1)) = m + 1
  BY <1>5, <1>6 DEF Greatest
<1> QED BY <1>1, <1>4, <1>5, <1>7 DEF VerbOf

LEMMA NextField ==
    ASSUME NEW body, NEW m \in Nat, body[4 * m + 2] # "command"
    PROVE  /\ Cardinality(Fields(body, m + 1)) = Cardinality(Fields(body, m)) + 1
           /\ VerbOf(body, m + 1) = VerbOf(body, m)
<1>1. 4 * (m + 1) - 2 = 4 * m + 2
  OBVIOUS
<1>2. \A k \in 1..(m + 1) : k \in 1..m \/ k = m + 1
  OBVIOUS
<1>3. \A k \in 1..m : k \in 1..(m + 1) /\ k # m + 1
  OBVIOUS
<1>4. m + 1 \in 1..(m + 1)
  OBVIOUS
<1>5. Fields(body, m + 1) = Fields(body, m) \cup {m + 1} /\ m + 1 \notin Fields(body, m)
  BY <1>1, <1>2, <1>3, <1>4 DEF Fields
<1>6. Verbs(body, m + 1) = Verbs(body, m)
  BY <1>1, <1>2, <1>3 DEF Verbs
<1>7. VerbOf(body, m + 1) = VerbOf(body, m)
  BY <1>6 DEF VerbOf
<1> QED BY <1>5, <1>7, FieldsAreFinite, FS_AddElement

----------------------------------------------------------------------------
(* What the parser holds after i tokens of a body.                         *)

\* The verb and the fields of m members.
Taken(body, m, r) ==
    /\ r.verb = VerbOf(body, m)
    /\ Len(r.fields) = Cardinality(Fields(body, m)) /\ Len(r.fields) <= MaxFields

\* The object that may begin here has too many fields, or there is none.
Hopeless(body) ==
    \A n \in Nat : IsObject(body, n) => Cardinality(Fields(body, n)) > MaxFields

Before(body, i, r) == i = 0 /\ r = Start
AtKey(body, i, r) == \E m \in Nat : i = 4 * m + 1 /\ Opened(body, m) /\ Taken(body, m, r)
AtColon(body, i, r) ==
    \E m \in Nat : /\ i = 4 * m + 2 /\ Opened(body, m) /\ Taken(body, m, r)
                   /\ IsString(body[i]) /\ r.key = body[i]
AtValue(body, i, r) ==
    \E m \in Nat : /\ i = 4 * m + 3 /\ Opened(body, m) /\ Taken(body, m, r)
                   /\ IsString(body[i - 1]) /\ r.key = body[i - 1] /\ body[i] = Colon
AtSeparator(body, i, r) ==
    \E m \in Nat \ {0} : i = 4 * m /\ Members(body, m) /\ Taken(body, m, r)
AtEnd(body, r) == \E m \in Nat : IsObject(body, m) /\ Taken(body, m, r)

Holds(body, i, r) ==
    /\ r \in ParserStates
    /\ r.expect = "object" => Before(body, i, r)
    /\ r.expect = "key" => AtKey(body, i, r)
    /\ r.expect = "colon" => AtColon(body, i, r)
    /\ r.expect = "value" => AtValue(body, i, r)
    /\ r.expect = "separator" => AtSeparator(body, i, r)
    /\ r.expect = "end" => AtEnd(body, r)
    /\ r.expect = "bad" => Hopeless(body)

\* To change what is expected is to change nothing else.
LEMMA Expecting ==
    ASSUME NEW r \in ParserStates,
           NEW e \in {"object", "key", "colon", "value", "separator", "end", "bad"}
    PROVE  LET s == [r EXCEPT !.expect = e] IN
           /\ s \in ParserStates /\ s.expect = e
           /\ s.key = r.key /\ s.verb = r.verb /\ s.fields = r.fields
           /\ \A body, m : Taken(body, m, s) <=> Taken(body, m, r)
<1> DEFINE s == [r EXCEPT !.expect = e]
<1>1. /\ s \in ParserStates /\ s.expect = e
      /\ s.key = r.key /\ s.verb = r.verb /\ s.fields = r.fields
  BY DEF ParserStates
<1>2. \A body, m : Taken(body, m, s) <=> Taken(body, m, r)
  <2> HIDE DEF s
  <2> QED BY <1>1 DEF Taken
<1> QED BY <1>1, <1>2

\* Before the first token.
LEMMA StartHolds == ASSUME NEW body PROVE Holds(body, 0, Start)
<1>1. /\ Start.expect = "object" /\ Start.key = "" /\ Start.verb = ""
      /\ Start.fields = <<>> /\ Len(Start.fields) = 0
  BY DEF Start
<1>2. "" \in Texts
  BY DEF Texts
<1>3. <<>> \in Seq(Texts \X Texts)
  OBVIOUS
<1>4. Start \in ParserStates
  BY <1>2, <1>3 DEF Start, ParserStates
<1> QED BY <1>1, <1>4 DEF Holds, Before

\* From each state, whatever the next token, to one that is right after it.
LEMMA FromObject ==
    ASSUME NEW body \in Seq(Texts), NEW i \in 1..Len(body), NEW r,
           Holds(body, i - 1, r), r.expect = "object"
    PROVE  Holds(body, i, ReadToken(r, body[i]))
<1>1. r \in ParserStates /\ i = 1 /\ r = Start /\ body[i] \in Texts
  BY DEF Holds, Before
<1> DEFINE e == IF body[i] = ObjectStart THEN "key" ELSE "bad"
           s == [r EXCEPT !.expect = e]
<1>2. ReadToken(r, body[i]) = s
  BY <1>1, ReadObject
<1>3. s \in ParserStates /\ s.expect = e /\ \A m : Taken(body, m, s) <=> Taken(body, m, r)
  <2>1. e \in {"object", "key", "colon", "value", "separator", "end", "bad"}
    OBVIOUS
  <2> HIDE DEF e
  <2> QED BY <1>1, <2>1, Expecting
<1>4. CASE body[i] = ObjectStart
  <2>1. Opened(body, 0)
    <3>1. TokenAt(body, 1, ObjectStart) /\ 1..0 = {} /\ 1..(0 - 1) = {}
      BY <1>1, <1>4 DEF TokenAt
    <3> QED BY <3>1 DEF Opened, Members
  <2>2. Taken(body, 0, r)
    <3>1. Fields(body, 0) = {} /\ Verbs(body, 0) = {}
      BY DEF Fields, Verbs
    <3>2. Cardinality(Fields(body, 0)) = 0
      BY <3>1, FS_EmptySet
    <3>3. Len(r.fields) = 0
      BY <1>1 DEF Start
    <3>4. r.verb = VerbOf(body, 0)
      BY <1>1, <3>1 DEF VerbOf, Start
    <3> QED BY <3>2, <3>3, <3>4, ParserAssumption DEF Taken
  <2>3. AtKey(body, i, s)
    <3> HIDE DEF s
    <3> QED BY <1>1, <1>3, <2>1, <2>2 DEF AtKey
  <2> HIDE DEF s
  <2> QED BY <1>2, <1>3, <1>4, <2>3 DEF Holds
<1>5. CASE body[i] # ObjectStart
  <2>1. Hopeless(body)
    BY <1>1, <1>5 DEF Hopeless, IsObject, TokenAt
  <2> HIDE DEF s
  <2> QED BY <1>2, <1>3, <1>5, <2>1 DEF Holds
<1> QED BY <1>4, <1>5

LEMMA FromKey ==
    ASSUME NEW body \in Seq(Texts), NEW i \in 1..Len(body), NEW r,
           Holds(body, i - 1, r), r.expect = "key"
    PROVE  Holds(body, i, ReadToken(r, body[i]))
<1>1. r \in ParserStates /\ body[i] \in Texts
  BY DEF Holds
<1>2. PICK m \in Nat : i - 1 = 4 * m + 1 /\ Opened(body, m) /\ Taken(body, m, r)
  BY DEF Holds, AtKey
<1>3. i = 4 * m + 2 /\ i \in DOMAIN body
  BY <1>2
<1>4. CASE body[i] = ObjectEnd
  <2> DEFINE s == [r EXCEPT !.expect = "end"]
  <2>1. ReadToken(r, body[i]) = s
    BY <1>1, <1>4, ReadKey
  <2>2. s \in ParserStates /\ s.expect = "end" /\ Taken(body, m, s)
    BY <1>1, <1>2, Expecting
  <2>3. IsObject(body, m)
    <3>1. TokenAt(body, 4 * m + 2, ObjectEnd)
      BY <1>3, <1>4 DEF TokenAt
    <3>2. m = 0 => 4 * m + 2 = 2
      OBVIOUS
    <3> QED BY <1>2, <3>1, <3>2 DEF IsObject, Opened, Members
  <2>4. AtEnd(body, s)
    <3> HIDE DEF s
    <3> QED BY <2>2, <2>3 DEF AtEnd
  <2> HIDE DEF s
  <2> QED BY <2>1, <2>2, <2>4 DEF Holds
<1>5. CASE body[i] # ObjectEnd /\ IsString(body[i])
  <2> DEFINE s == [r EXCEPT !.expect = "colon", !.key = body[i]]
  <2>1. ReadToken(r, body[i]) = s
    BY <1>1, <1>5, ReadKey
  <2>2. s \in ParserStates /\ s.expect = "colon" /\ s.key = body[i] /\ s.verb = r.verb
        /\ s.fields = r.fields
    BY <1>1 DEF ParserStates
  <2> HIDE DEF s
  <2>3. Taken(body, m, s)
    BY <1>2, <2>2 DEF Taken
  <2>4. AtColon(body, i, s)
    BY <1>2, <1>3, <1>5, <2>2, <2>3 DEF AtColon
  <2> QED BY <2>1, <2>2, <2>4 DEF Holds
<1>6. CASE body[i] # ObjectEnd /\ ~IsString(body[i])
  <2> DEFINE s == [r EXCEPT !.expect = "bad"]
  <2>1. ReadToken(r, body[i]) = s
    BY <1>1, <1>6, ReadKey
  <2>2. s \in ParserStates /\ s.expect = "bad"
    BY <1>1, Expecting
  <2>3. ASSUME NEW n \in Nat, IsObject(body, n) PROVE FALSE
    <3>1. 4 * (m + 1) - 2 = i
      BY <1>3
    <3>2. ~MemberAt(body, m + 1)
      BY <1>6, <3>1 DEF MemberAt
    <3> QED BY <1>2, <1>3, <1>6, <2>3, <3>2, AfterOpening DEF TokenAt
  <2> HIDE DEF s
  <2> QED BY <2>1, <2>2, <2>3 DEF Holds, Hopeless
<1> QED BY <1>4, <1>5, <1>6

LEMMA FromColon ==
    ASSUME NEW body \in Seq(Texts), NEW i \in 1..Len(body), NEW r,
           Holds(body, i - 1, r), r.expect = "colon"
    PROVE  Holds(body, i, ReadToken(r, body[i]))
<1>1. r \in ParserStates /\ body[i] \in Texts
  BY DEF Holds
<1>2. PICK m \in Nat : /\ i - 1 = 4 * m + 2 /\ Opened(body, m) /\ Taken(body, m, r)
                       /\ IsString(body[i - 1]) /\ r.key = body[i - 1]
  BY DEF Holds, AtColon
<1>3. i = 4 * m + 3 /\ i \in DOMAIN body
  BY <1>2
<1>4. CASE body[i] = Colon
  <2> DEFINE s == [r EXCEPT !.expect = "value"]
  <2>1. ReadToken(r, body[i]) = s
    BY <1>1, <1>4, ReadColon
  <2>2. s \in ParserStates /\ s.expect = "value" /\ s.key = r.key /\ Taken(body, m, s)
    BY <1>1, <1>2, Expecting
  <2> HIDE DEF s
  <2>3. AtValue(body, i, s)
    BY <1>2, <1>3, <1>4, <2>2 DEF AtValue
  <2> QED BY <2>1, <2>2, <2>3 DEF Holds
<1>5. CASE body[i] # Colon
  <2> DEFINE s == [r EXCEPT !.expect = "bad"]
  <2>1. ReadToken(r, body[i]) = s
    BY <1>1, <1>5, ReadColon
  <2>2. s \in ParserStates /\ s.expect = "bad"
    BY <1>1, Expecting
  <2>3. ASSUME NEW n \in Nat, IsObject(body, n) PROVE FALSE
    <3>1. 4 * (m + 1) - 1 = i /\ i - 1 = 4 * m + 2
      BY <1>3
    <3>2. ~MemberAt(body, m + 1)
      BY <1>5, <3>1 DEF MemberAt
    <3>3. body[4 * m + 2] # ObjectEnd
      BY <1>2, <3>1 DEF IsString
    <3> QED BY <1>2, <2>3, <3>2, <3>3, AfterOpening DEF TokenAt
  <2> HIDE DEF s
  <2> QED BY <2>1, <2>2, <2>3 DEF Holds, Hopeless
<1> QED BY <1>4, <1>5

\* One member more.
LEMMA MemberRead ==
    ASSUME NEW body \in Seq(Texts), NEW m \in Nat, Opened(body, m),
           4 * m + 4 <= Len(body), IsString(body[4 * m + 2]),
           body[4 * m + 3] = Colon, IsString(body[4 * m + 4])
    PROVE  Members(body, m + 1)
<1>1. 4 * (m + 1) - 2 = 4 * m + 2 /\ 4 * (m + 1) - 1 = 4 * m + 3 /\ 4 * (m + 1) = 4 * m + 4
  OBVIOUS
<1>2. MemberAt(body, m + 1)
  BY <1>1 DEF MemberAt
<1>3. \A k \in 1..(m + 1) : k \in 1..m \/ k = m + 1
  OBVIOUS
<1>4. \A k \in 1..((m + 1) - 1) : k \in 1..(m - 1) \/ (k = m /\ m > 0)
  OBVIOUS
<1> QED BY <1>2, <1>3, <1>4 DEF Opened, Members

LEMMA FromValue ==
    ASSUME NEW body \in Seq(Texts), NEW i \in 1..Len(body), NEW r,
           Holds(body, i - 1, r), r.expect = "value"
    PROVE  Holds(body, i, ReadToken(r, body[i]))
<1>1. r \in ParserStates /\ body[i] \in Texts
  BY DEF Holds
<1>2. PICK m \in Nat : /\ i - 1 = 4 * m + 3 /\ Opened(body, m) /\ Taken(body, m, r)
                       /\ IsString(body[(i - 1) - 1]) /\ r.key = body[(i - 1) - 1]
                       /\ body[i - 1] = Colon
  BY DEF Holds, AtValue
<1>3. i = 4 * m + 4 /\ i - 1 = 4 * m + 3 /\ (i - 1) - 1 = 4 * m + 2 /\ i \in DOMAIN body
  BY <1>2
<1>4. m + 1 \in Nat \ {0} /\ i = 4 * (m + 1)
  BY <1>3
<1>5. IsString(body[4 * m + 2]) /\ r.key = body[4 * m + 2] /\ body[4 * m + 3] = Colon
  BY <1>2, <1>3
<1>6. body[4 * m + 2] # ObjectEnd
  BY <1>5 DEF IsString
<1>7. CASE IsString(body[i]) /\ r.key = "command"
  <2> DEFINE s == [r EXCEPT !.expect = "separator", !.verb = body[i]]
  <2>1. ReadToken(r, body[i]) = s
    BY <1>1, <1>7, ReadValue DEF Member
  <2>2. s \in ParserStates /\ s.expect = "separator" /\ s.verb = body[i] /\ s.fields = r.fields
    BY <1>1 DEF ParserStates
  <2> HIDE DEF s
  <2>3. /\ Fields(body, m + 1) = Fields(body, m)
        /\ VerbOf(body, m + 1) = body[4 * m + 4]
    BY <1>5, <1>7, NextVerb
  <2>4. Taken(body, m + 1, s)
    BY <1>2, <1>3, <2>2, <2>3 DEF Taken
  <2>5. Members(body, m + 1)
    BY <1>2, <1>3, <1>5, <1>7, MemberRead
  <2>6. AtSeparator(body, i, s)
    BY <1>4, <2>4, <2>5 DEF AtSeparator
  <2> QED BY <2>1, <2>2, <2>6 DEF Holds
<1>8. CASE IsString(body[i]) /\ r.key # "command" /\ Len(r.fields) < MaxFields
  <2> DEFINE fields == Append(r.fields, <<r.key, body[i]>>)
             s == [r EXCEPT !.expect = "separator", !.fields = fields]
  <2>0. r.fields \in Seq(Texts \X Texts) /\ r.key \in Texts
    BY <1>1 DEF ParserStates
  <2>1. ReadToken(r, body[i]) = s
    <3>1. ~(Len(r.fields) >= MaxFields)
      BY <1>8, <2>0, ParserAssumption
    <3>2. Member(r, body[i]) = s
      BY <1>1, <1>8, <3>1 DEF Member
    <3> QED BY <1>1, <1>8, <3>2, ReadValue
  <2>2. fields \in Seq(Texts \X Texts) /\ Len(fields) = Len(r.fields) + 1
    BY <1>1, <2>0
  <2>3. s \in ParserStates /\ s.expect = "separator" /\ s.verb = r.verb /\ s.fields = fields
    <3> HIDE DEF fields
    <3> QED BY <1>1, <2>2 DEF ParserStates
  <2> HIDE DEF s, fields
  <2>4. /\ Cardinality(Fields(body, m + 1)) = Cardinality(Fields(body, m)) + 1
        /\ VerbOf(body, m + 1) = VerbOf(body, m)
    BY <1>5, <1>8, NextField
  <2>5. Len(fields) <= MaxFields
    BY <1>8, <2>0, <2>2, ParserAssumption
  <2>6. Taken(body, m + 1, s)
    BY <1>2, <2>2, <2>3, <2>4, <2>5 DEF Taken
  <2>7. Members(body, m + 1)
    BY <1>2, <1>3, <1>5, <1>8, MemberRead
  <2>8. AtSeparator(body, i, s)
    BY <1>4, <2>6, <2>7 DEF AtSeparator
  <2> QED BY <2>1, <2>3, <2>8 DEF Holds
<1>9. CASE IsString(body[i]) /\ r.key # "command" /\ ~(Len(r.fields) < MaxFields)
  <2> DEFINE s == [r EXCEPT !.expect = "bad"]
  <2>0. r.fields \in Seq(Texts \X Texts)
    BY <1>1 DEF ParserStates
  <2>1. ReadToken(r, body[i]) = s
    <3>1. Len(r.fields) >= MaxFields
      BY <1>9, <2>0, ParserAssumption
    <3>2. Member(r, body[i]) = s
      BY <1>1, <1>9, <3>1 DEF Member
    <3> QED BY <1>1, <1>9, <3>2, ReadValue
  <2>2. s \in ParserStates /\ s.expect = "bad"
    BY <1>1, Expecting
  <2>3. ASSUME NEW n \in Nat, IsObject(body, n)
        PROVE  Cardinality(Fields(body, n)) > MaxFields
    <3>1. n > m
      BY <1>2, <1>6, <2>3, AfterOpening DEF TokenAt
    <3>2. Cardinality(Fields(body, m + 1)) = Cardinality(Fields(body, m)) + 1
      BY <1>5, <1>9, NextField
    <3>3. Cardinality(Fields(body, m + 1)) <= Cardinality(Fields(body, n))
      BY <3>1, FieldsGrow
    <3>4. /\ Cardinality(Fields(body, m)) \in Nat /\ Cardinality(Fields(body, n)) \in Nat
          /\ Cardinality(Fields(body, m)) = Len(r.fields)
      BY <1>2, FieldsAreFinite DEF Taken
    <3> QED BY <1>9, <3>2, <3>3, <3>4, ParserAssumption
  <2> HIDE DEF s
  <2> QED BY <2>1, <2>2, <2>3 DEF Holds, Hopeless
<1>10. CASE ~IsString(body[i])
  <2> DEFINE s == [r EXCEPT !.expect = "bad"]
  <2>1. ReadToken(r, body[i]) = s
    BY <1>1, <1>10, ReadValue
  <2>2. s \in ParserStates /\ s.expect = "bad"
    BY <1>1, Expecting
  <2>3. ASSUME NEW n \in Nat, IsObject(body, n) PROVE FALSE
    <3>1. ~MemberAt(body, m + 1)
      BY <1>4, <1>10 DEF MemberAt
    <3> QED BY <1>2, <1>6, <2>3, <3>1, AfterOpening DEF TokenAt
  <2> HIDE DEF s
  <2> QED BY <2>1, <2>2, <2>3 DEF Holds, Hopeless
<1> QED BY <1>7, <1>8, <1>9, <1>10

LEMMA FromSeparator ==
    ASSUME NEW body \in Seq(Texts), NEW i \in 1..Len(body), NEW r,
           Holds(body, i - 1, r), r.expect = "separator"
    PROVE  Holds(body, i, ReadToken(r, body[i]))
<1>1. r \in ParserStates /\ body[i] \in Texts
  BY DEF Holds
<1>2. PICK m \in Nat \ {0} : i - 1 = 4 * m /\ Members(body, m) /\ Taken(body, m, r)
  BY DEF Holds, AtSeparator
<1>3. i = 4 * m + 1 /\ i \in DOMAIN body
  BY <1>2
<1>4. CASE body[i] = ObjectEnd
  <2> DEFINE s == [r EXCEPT !.expect = "end"]
  <2>1. ReadToken(r, body[i]) = s
    BY <1>1, <1>4, ReadSeparator
  <2>2. s \in ParserStates /\ s.expect = "end" /\ Taken(body, m, s)
    BY <1>1, <1>2, Expecting
  <2>3. IsObject(body, m)
    BY <1>2, <1>3, <1>4 DEF IsObject, Members, TokenAt
  <2> HIDE DEF s
  <2>4. AtEnd(body, s)
    BY <2>2, <2>3 DEF AtEnd
  <2> QED BY <2>1, <2>2, <2>4 DEF Holds
<1>5. CASE body[i] = Comma
  <2> DEFINE s == [r EXCEPT !.expect = "key"]
  <2>1. ReadToken(r, body[i]) = s
    BY <1>1, <1>5, ReadSeparator, Tokens
  <2>2. s \in ParserStates /\ s.expect = "key" /\ Taken(body, m, s)
    BY <1>1, <1>2, Expecting
  <2>3. Opened(body, m)
    BY <1>2, <1>3, <1>5 DEF Opened, TokenAt
  <2> HIDE DEF s
  <2>4. AtKey(body, i, s)
    BY <1>3, <2>2, <2>3 DEF AtKey
  <2> QED BY <2>1, <2>2, <2>4 DEF Holds
<1>6. CASE body[i] # ObjectEnd /\ body[i] # Comma
  <2> DEFINE s == [r EXCEPT !.expect = "bad"]
  <2>1. ReadToken(r, body[i]) = s
    BY <1>1, <1>6, ReadSeparator
  <2>2. s \in ParserStates /\ s.expect = "bad"
    BY <1>1, Expecting
  <2>3. \A n \in Nat : ~IsObject(body, n)
    BY <1>2, <1>3, <1>6, AfterMember
  <2> HIDE DEF s
  <2> QED BY <2>1, <2>2, <2>3 DEF Holds, Hopeless
<1> QED BY <1>4, <1>5, <1>6

\* What the parser holds is right after every number of tokens.
LEMMA ProgressHolds ==
    ASSUME NEW body \in Seq(Texts)
    PROVE  \A i \in 0..Len(body) : Holds(body, i, Progress(body)[i])
<1> DEFINE S == {i \in Nat : i <= Len(body) => Holds(body, i, Progress(body)[i])}
<1>1. 0 \in S
  BY ProgressSteps, StartHolds
<1>2. ASSUME NEW k \in Nat, k \in S PROVE k + 1 \in S
  <2> DEFINE i == k + 1
             r == Progress(body)[k]
  <2> SUFFICES ASSUME i <= Len(body) PROVE Holds(body, i, Progress(body)[i])
    OBVIOUS
  <2>1. i \in 1..Len(body) /\ i - 1 = k /\ k <= Len(body)
    OBVIOUS
  <2>2. Progress(body)[i] = ReadToken(r, body[i])
    BY <2>1, ProgressSteps
  <2>3. Holds(body, i - 1, r)
    BY <1>2, <2>1
  <2> HIDE DEF i, r
  <2>4. Holds(body, i, ReadToken(r, body[i]))
    <3>1. r.expect \in {"object", "key", "colon", "value", "separator", "end", "bad"}
      BY <2>3 DEF Holds, ParserStates
    <3>2. CASE r.expect \in {"end", "bad"}
      <4>1. r \in ParserStates /\ body[i] \in Texts
        BY <2>1, <2>3 DEF Holds
      <4>2. ReadToken(r, body[i]) = r
        BY <3>2, <4>1, ReadEnd
      <4> QED BY <2>3, <3>2, <4>2 DEF Holds
    <3> QED BY <2>1, <2>3, <3>1, <3>2, FromObject, FromKey, FromColon, FromValue, FromSeparator
  <2> QED BY <2>2, <2>4
<1>3. Nat \subseteq S
  <2> HIDE DEF S
  <2> QED BY <1>1, <1>2, CountUp
<1>4. \A i \in 0..Len(body) : i \in Nat /\ i <= Len(body)
  OBVIOUS
<1> QED BY <1>3, <1>4

\* A body that ends before the parser has seen the end of an object is none.
LEMMA Unfinished ==
    ASSUME NEW body \in Seq(Texts), NEW r, Holds(body, Len(body), r),
           r.expect \in {"object", "key", "colon", "value", "separator"},
           NEW n \in Nat, IsObject(body, n)
    PROVE  FALSE
<1>1. Len(body) \in Nat /\ DOMAIN body = 1..Len(body)
  OBVIOUS
<1>2. CASE r.expect = "object"
  <2>1. Len(body) = 0
    BY <1>2 DEF Holds, Before
  <2> QED BY <1>1, <2>1 DEF IsObject, TokenAt
<1>3. CASE r.expect = "separator"
  <2>1. PICK m \in Nat \ {0} : Len(body) = 4 * m /\ Members(body, m)
    BY <1>3 DEF Holds, AtSeparator
  <2>2. 4 * m + 1 \in DOMAIN body
    BY <2>1, AfterMember
  <2> QED BY <1>1, <2>1, <2>2
<1>4. CASE r.expect \in {"key", "colon", "value"}
  <2>1. PICK m \in Nat : /\ Opened(body, m) /\ Len(body) < 4 * m + 4
                         /\ Len(body) >= 4 * m + 2 => IsString(body[4 * m + 2])
    <3>1. CASE r.expect = "key"
      <4>1. PICK m \in Nat : Len(body) = 4 * m + 1 /\ Opened(body, m)
        BY <3>1 DEF Holds, AtKey
      <4> QED BY <4>1
    <3>2. CASE r.expect = "colon"
      <4>1. PICK m \in Nat : /\ Len(body) = 4 * m + 2 /\ Opened(body, m)
                             /\ IsString(body[Len(body)])
        BY <3>2 DEF Holds, AtColon
      <4> QED BY <4>1
    <3>3. CASE r.expect = "value"
      <4>1. PICK m \in Nat : /\ Len(body) = 4 * m + 3 /\ Opened(body, m)
                             /\ IsString(body[Len(body) - 1])
        BY <3>3 DEF Holds, AtValue
      <4>2. Len(body) - 1 = 4 * m + 2
        BY <4>1
      <4> QED BY <4>1, <4>2
    <3> QED BY <1>4, <3>1, <3>2, <3>3
  <2>2. ~TokenAt(body, 4 * m + 2, ObjectEnd)
    BY <1>1, <2>1 DEF TokenAt, IsString
  <2>3. ~MemberAt(body, m + 1)
    <3>1. 4 * (m + 1) = 4 * m + 4
      OBVIOUS
    <3> QED BY <1>1, <2>1, <3>1 DEF MemberAt
  <2> QED BY <2>1, <2>2, <2>3, AfterOpening
<1> QED BY <1>2, <1>3, <1>4

Accepted(body, n, verb) ==
    /\ VerbOf(body, n) # "" /\ VerbOf(body, n) = verb
    /\ Cardinality(Fields(body, n)) <= MaxFields /\ Len(body) <= MaxBody

\* The parser takes exactly the objects, with the last verb they name.
THEOREM ParserTakesObjects ==
    ASSUME NEW body \in Seq(Texts)
    PROVE  Parse(body).ok <=>
             \E n \in 0..Len(body) : IsObject(body, n) /\ Accepted(body, n, Parse(body).verb)
<1> DEFINE r == Progress(body)[Len(body)]
<1>1. Len(body) \in Nat /\ Len(body) \in 0..Len(body) /\ DOMAIN body = 1..Len(body)
  OBVIOUS
<1>2. Holds(body, Len(body), r)
  BY <1>1, ProgressHolds
<1>3. /\ Parse(body).ok <=> Len(body) <= MaxBody /\ r.expect = "end" /\ r.verb # ""
      /\ Parse(body).verb = r.verb
  BY DEF Parse
<1> HIDE DEF r
<1>4. r.expect \in {"object", "key", "colon", "value", "separator", "end", "bad"}
  BY <1>2 DEF Holds, ParserStates
<1>5. ASSUME NEW n \in Nat, IsObject(body, n) PROVE n \in 0..Len(body)
  <2>1. n > 0 => n \in 1..n
    OBVIOUS
  <2>2. n > 0 => MemberAt(body, n)
    BY <1>5, <2>1 DEF IsObject
  <2> QED BY <1>1, <2>2 DEF MemberAt
<1>6. CASE r.expect = "end"
  <2>1. PICK m \in Nat : IsObject(body, m) /\ Taken(body, m, r)
    BY <1>2, <1>6 DEF Holds, AtEnd
  <2>2. m \in 0..Len(body)
    BY <1>5, <2>1
  <2>3. Parse(body).ok => Accepted(body, m, r.verb)
    <3>1. Cardinality(Fields(body, m)) <= MaxFields /\ VerbOf(body, m) = r.verb
      BY <2>1 DEF Taken
    <3> QED BY <1>3, <3>1 DEF Accepted
  <2>4. \A n : Accepted(body, n, r.verb) => Parse(body).ok
    BY <1>3, <1>6 DEF Accepted
  <2> QED BY <1>3, <2>1, <2>2, <2>3, <2>4
<1>7. CASE r.expect = "bad"
  <2>1. \A n \in Nat : IsObject(body, n) => Cardinality(Fields(body, n)) > MaxFields
    BY <1>2, <1>7 DEF Holds, Hopeless
  <2>2. \A n \in 0..Len(body) : n \in Nat /\ Cardinality(Fields(body, n)) \in Nat
    BY <1>1, FieldsAreFinite
  <2>3. ASSUME NEW n \in 0..Len(body), IsObject(body, n), Accepted(body, n, r.verb)
        PROVE  FALSE
    <3>1. Cardinality(Fields(body, n)) <= MaxFields
      BY <2>3 DEF Accepted
    <3> QED BY <2>1, <2>2, <2>3, <3>1, ParserAssumption
  <2> QED BY <1>3, <1>7, <2>3
<1>8. CASE r.expect \notin {"end", "bad"}
  <2>1. \A n \in 0..Len(body) : ~IsObject(body, n)
    BY <1>1, <1>2, <1>4, <1>8, Unfinished
  <2> QED BY <1>3, <1>8, <2>1
<1> QED BY <1>6, <1>7, <1>8

-----------------------------------------------------------------------------
(* WebApi: the queue.                                                      *)

\* An entry of the command queue.
Entries ==
    [id : Nat, path : WiimoteRoutes, state : {"queued"} \cup WorkerStates]

\* The ids are the places in the queue, and the next one is the next place.
QueueInvariant ==
    /\ entries \in Seq(Entries)
    /\ promised \in Seq(WiimoteRoutes)
    /\ nextId = Len(entries) + 1 /\ Len(promised) = Len(entries)
    /\ \A i \in DOMAIN entries : entries[i].id = i /\ entries[i].path = promised[i]

\* What every reason that is not "queued" comes to.
LEMMA StatusOf ==
    ASSUME NEW reason
    PROVE  /\ HttpStatus(reason) = 202 <=> reason = "queued"
           /\ HttpStatus(reason) = 200 <=> reason = "ok"
  BY DEF HttpStatus

\* An answer asks nothing of the device.
LEMMA AnswerOf ==
    ASSUME NEW reason
    PROVE  /\ Answer(reason).status = HttpStatus(reason)
           /\ Answer(reason).op = "none"
           /\ ~Answer(reason).done
  BY DEF Answer

\* An answer that does nothing to the queue tells its effect.
Honest(answer) ==
    /\ answer.status = 200 /\ answer.op \notin Unanswered \cup {"none"} => answer.done
    /\ answer.status # 200 => ~answer.done
    /\ answer.status # 202

LEMMA AnswersAreHonest ==
    ASSUME NEW reason, reason # "queued"
    PROVE  Honest(Answer(reason))
<1>0. HttpStatus(reason) # 202
  BY StatusOf
<1>1. Answer(reason).status # 202
  BY <1>0, AnswerOf, Zenon
<1>2. Answer(reason).op \in Unanswered \cup {"none"}
  BY AnswerOf, Zenon
<1> QED BY <1>1, <1>2, AnswerOf, Zenon DEF Honest

\* No reason for a refusal is a success.
LEMMA RefusalIsOne ==
    ASSUME NEW op, NEW t
    PROVE  Refusal(op, t) \notin {"ok", "queued"}
  BY DEF Refusal, DiscoveryStartReason, DiscoveryStopReason, DisconnectReason,
         WiimoteReason

\* What the device answers to an operation tells whether it was done.
LEMMA PerformedIsHonest ==
    ASSUME NEW op, NEW t
    PROVE  Honest(Perform(op, t))
<1> DEFINE reason == IF Accepts(op, t) \/ op \in Unanswered THEN "ok"
                     ELSE Refusal(op, t)
           answer == Perform(op, t)
<1>1. reason # "queued" /\ (reason = "ok" <=> Accepts(op, t) \/ op \in Unanswered)
  BY RefusalIsOne
<1>2. answer = [Answer(reason) EXCEPT !.op = op, !.done = Accepts(op, t)]
  BY DEF Perform
<1> HIDE DEF reason, answer
<1>3. answer.status = HttpStatus(reason) /\ answer.op = op
      /\ (answer.done <=> Accepts(op, t))
  BY <1>2 DEF Answer
<1>0. HttpStatus(reason) # 202 /\ (HttpStatus(reason) = 200 <=> reason = "ok")
  BY <1>1, StatusOf
<1>4. answer.status # 202
  BY <1>0, <1>3, Zenon
<1>5. answer.status = 200 <=> Accepts(op, t) \/ op \in Unanswered
  <2>1. answer.status = HttpStatus(reason)
    BY <1>3
  <2>2. HttpStatus(reason) = 200 <=> Accepts(op, t) \/ op \in Unanswered
    BY <1>0, <1>1
  <2> QED BY <2>1, <2>2, Zenon
<1>6. Honest(answer)
  BY <1>3, <1>4, <1>5, Zenon DEF Honest
<1> QED BY <1>6 DEF answer

\* No handler says "queued" of a command it has not queued.
LEMMA VerdictReasons ==
    ASSUME NEW path \in WiimoteRoutes \cup WifiRoutes, NEW cmd
    PROVE  Verdict(path, cmd).reason # "queued"
<1>1. \A reason : Refuse(reason).reason = reason
  BY DEF Refuse
<1>2. \A op : Wants(op).reason = "ok"
  BY DEF Wants
<1>3. \A key, v : v.reason # "queued" => Needs(cmd, key, v).reason # "queued"
  BY <1>1 DEF Needs
<1>4. \A key, Values, v : v.reason # "queued" => Valid(cmd, key, Values, v).reason # "queued"
  BY <1>1 DEF Valid
<1>5. \A keys, v : v.reason # "queued" => Filled(cmd, keys, v).reason # "queued"
  BY <1>1 DEF Filled
<1>6. PostScan(cmd).reason # "queued" /\ PostDiscovery(cmd).reason # "queued"
  BY <1>1, <1>2 DEF PostScan, PostDiscovery
<1>7. PostDisconnect(cmd).reason # "queued"
  BY <1>1, <1>2, <1>4 DEF PostDisconnect
<1>8. PostWifiToken(cmd).reason # "queued"
  BY <1>1, <1>2, <1>5 DEF PostWifiToken
<1> QED BY <1>1, <1>2, <1>3, <1>4, <1>5, <1>6, <1>7, <1>8
        DEF Verdict, WiimoteRoutes, WifiRoutes

\* A request ends with an honest answer that leaves the queue alone, or in the
\* queue with an answer that says so.
IsQueued(r) ==
    /\ r.path \in WiimoteRoutes
    /\ entries' = Append(entries, Entry(r.path, nextId))
    /\ nextId' = nextId + 1
    /\ promised' = Append(promised, r.path)
    /\ did' = Did(r.body, [Answer("queued") EXCEPT !.id = nextId])

IsAnswered(r) == \E answer : Honest(answer) /\ Finish(r, answer)

\* So it is with a command, whatever its body and the device.
LEMMA CommandEnds ==
    ASSUME NEW r, Command(r)
    PROVE  IsAnswered(r) \/ IsQueued(r)
<1> DEFINE cmd == Parse(r.body)
           v == Verdict(r.path, cmd)
<1>1. v.reason # "queued"
  BY VerdictReasons DEF Command, IsCommand
<1>2. \/ BadBody(r, cmd)
      \/ RefuseCommand(r, v)
      \/ QueueCommand(r) \/ RunCommand(r, v.op)
  BY DEF Command
<1> HIDE DEF cmd, v
<1>3. CASE BadBody(r, cmd)
  <2>1. Finish(r, Answer("missing_argument")) \/ Finish(r, Answer("bad_argument"))
    BY <1>3 DEF BadBody
  <2> QED BY <2>1, AnswersAreHonest DEF IsAnswered
<1>4. CASE RefuseCommand(r, v)
  BY <1>1, <1>4, AnswersAreHonest DEF RefuseCommand, IsAnswered
<1>5. CASE QueueCommand(r)
  <2>1. Finish(r, Answer("queue_full")) \/ IsQueued(r)
    BY <1>5 DEF QueueCommand, Queued, IsQueued
  <2> QED BY <2>1, AnswersAreHonest DEF IsAnswered
<1>6. CASE RunCommand(r, v.op)
  BY <1>6, PerformedIsHonest DEF RunCommand, IsAnswered
<1> QED BY <1>2, <1>3, <1>4, <1>5, <1>6

LEMMA StatusIsHonest ==
    ASSUME NEW id
    PROVE  Honest([Answer("ok") EXCEPT !.id = id])
<1> DEFINE answer == [Answer("ok") EXCEPT !.id = id]
<1>1. answer.status = HttpStatus("ok") /\ answer.op = "none" /\ ~answer.done
  BY DEF Answer
<1> HIDE DEF answer
<1>2. HttpStatus("ok") # 202
  BY StatusOf
<1>3. answer.status # 202
  BY <1>1, <1>2, Zenon
<1>4. answer.op \in Unanswered \cup {"none"}
  BY <1>1, Zenon
<1>5. Honest(answer)
  BY <1>1, <1>3, <1>4, Zenon DEF Honest
<1> QED BY <1>5 DEF answer

\* So it is with every request.
LEMMA RouteEnds ==
    ASSUME NEW r, Route(r)
    PROVE  IsAnswered(r) \/ IsQueued(r)
<1>1. CASE ServeStatic(r)
  BY <1>1, AnswersAreHonest DEF ServeStatic, IsAnswered
<1>2. CASE Unauthorized(r)
  BY <1>2, AnswersAreHonest DEF Unauthorized, IsAnswered
<1>3. CASE GetCommandStatus(r)
  <2>1. \/ Finish(r, Answer("bad_argument")) \/ Finish(r, Answer("not_found"))
        \/ Finish(r, [Answer("ok") EXCEPT !.id = r.id])
    BY <1>3 DEF GetCommandStatus
  <2> QED BY <2>1, AnswersAreHonest, StatusIsHonest DEF IsAnswered
<1>4. CASE Upgrade(r)
  BY <1>4, AnswersAreHonest DEF Upgrade, IsAnswered
<1>5. CASE Read(r)
  BY <1>5, AnswersAreHonest DEF Read, IsAnswered
<1>6. CASE NotFound(r)
  BY <1>6, AnswersAreHonest DEF NotFound, IsAnswered
<1> QED BY <1>1, <1>2, <1>3, <1>4, <1>5, <1>6, CommandEnds DEF Route

\* The queue is only ever added to, and an update changes a state.
LEMMA QueueInvariance == Spec => []QueueInvariant
<1>1. Init => QueueInvariant
  <2> SUFFICES ASSUME Init PROVE QueueInvariant
    OBVIOUS
  <2>1. entries = <<>> /\ promised = <<>> /\ nextId = 1
    BY DEF Init
  <2>2. \A S : <<>> \in Seq(S)
    OBVIOUS
  <2>3. Len(<<>>) = 0 /\ DOMAIN <<>> = {}
    OBVIOUS
  <2> QED BY <2>1, <2>2, <2>3 DEF QueueInvariant
<1>2. QueueInvariant /\ [Next]_vars => QueueInvariant'
  <2> SUFFICES ASSUME QueueInvariant, [Next]_vars PROVE QueueInvariant'
    OBVIOUS
  <2>1. CASE UNCHANGED <<entries, nextId, promised>>
    BY <2>1 DEF QueueInvariant
  <2>2. ASSUME NEW r, Route(r) PROVE QueueInvariant'
    <3>1. CASE ~UNCHANGED <<entries, nextId, promised>>
      <4> DEFINE e == Entry(r.path, nextId)
      <4>1. /\ r.path \in WiimoteRoutes
            /\ entries' = Append(entries, e)
            /\ nextId' = nextId + 1
            /\ promised' = Append(promised, r.path)
        BY <2>2, <3>1, RouteEnds DEF IsAnswered, IsQueued, Finish
      <4>2. nextId \in Nat /\ nextId = Len(entries) + 1 /\ Len(promised) = Len(entries)
            /\ entries \in Seq(Entries) /\ promised \in Seq(WiimoteRoutes)
        BY DEF QueueInvariant
      <4>3. e \in Entries /\ e.id = nextId /\ e.path = r.path
        BY <4>1, <4>2 DEF Entry, Entries
      <4> HIDE DEF e
      <4>4. /\ entries' \in Seq(Entries) /\ Len(entries') = Len(entries) + 1
            /\ \A i \in 1..Len(entries) : entries'[i] = entries[i]
            /\ entries'[Len(entries) + 1] = e
        BY <4>1, <4>2, <4>3
      <4>5. /\ promised' \in Seq(WiimoteRoutes) /\ Len(promised') = Len(promised) + 1
            /\ \A i \in 1..Len(promised) : promised'[i] = promised[i]
            /\ promised'[Len(promised) + 1] = r.path
        BY <4>1, <4>2
      <4>6. ASSUME NEW i \in DOMAIN entries'
            PROVE  entries'[i].id = i /\ entries'[i].path = promised'[i]
        <5>1. i \in 1..Len(entries) \/ i = Len(entries) + 1
          BY <4>2, <4>4
        <5>2. CASE i \in 1..Len(entries)
          BY <4>2, <4>4, <4>5, <5>2 DEF QueueInvariant
        <5>3. CASE i = Len(entries) + 1
          BY <4>2, <4>3, <4>4, <4>5, <5>3
        <5> QED BY <5>1, <5>2, <5>3
      <4> QED BY <4>1, <4>2, <4>4, <4>5, <4>6 DEF QueueInvariant
    <3> QED BY <2>1, <3>1
  <2>3. ASSUME NEW id, NEW state \in WorkerStates, Update(id, state) PROVE QueueInvariant'
    <3>1. /\ entries' = [i \in DOMAIN entries |->
                           IF entries[i].id = id THEN [entries[i] EXCEPT !.state = state]
                           ELSE entries[i]]
          /\ UNCHANGED <<nextId, promised>>
      BY <2>3 DEF Update
    <3>2. entries \in Seq(Entries) /\ DOMAIN entries = 1..Len(entries) /\ Len(entries) \in Nat
      BY DEF QueueInvariant
    <3>3. ASSUME NEW i \in 1..Len(entries)
          PROVE  entries'[i] \in Entries /\ entries'[i].id = entries[i].id
                 /\ entries'[i].path = entries[i].path
      <4>1. entries[i] \in Entries
        BY <3>2
      <4> QED BY <3>1, <3>2, <4>1 DEF Entries
    <3>4. /\ entries' \in Seq(Entries) /\ Len(entries') = Len(entries)
          /\ DOMAIN entries' = 1..Len(entries)
      <4>1. entries' \in [1..Len(entries) -> Entries]
        BY <3>1, <3>2, <3>3
      <4> QED BY <3>2, <4>1
    <3> QED BY <3>1, <3>2, <3>3, <3>4 DEF QueueInvariant
  <2>4. CASE Next
    BY <2>2, <2>3, <2>4 DEF Next
  <2> QED BY <2>1, <2>4 DEF vars
<1> QED BY <1>1, <1>2, PTL DEF Spec

\* Every id an answer has promised is found, with the route it was promised
\* for, and no two entries share an id: whatever the queue's limit.
THEOREM PromisedIdsAreFoundInvariant == Spec => []PromisedIdsAreFound
<1>1. QueueInvariant => PromisedIdsAreFound
  <2> SUFFICES ASSUME QueueInvariant PROVE PromisedIdsAreFound
    OBVIOUS
  <2>1. DOMAIN promised = DOMAIN entries
    BY DEF QueueInvariant
  <2> QED BY <2>1 DEF QueueInvariant, PromisedIdsAreFound
<1> QED BY <1>1, QueueInvariance, PTL

\* A request's body, or none, is what the answer is kept with.
LEMMA BodyKept ==
    ASSUME NEW r, Route(r)
    PROVE  did'.body = <<>> \/ did'.body = r.body
<1>1. \A body, answer : Did(body, answer).body = body
  BY DEF Did
<1>2. CASE IsAnswered(r)
  BY <1>1, <1>2 DEF IsAnswered, Finish
<1>3. CASE IsQueued(r)
  BY <1>1, <1>3 DEF IsQueued
<1> QED BY <1>2, <1>3, RouteEnds

\* An answer says what its request has done, at every stage of the router.
THEOREM AnswerTellsEffectProperty == Spec => AnswerTellsEffect
<1> DEFINE A == did' # did =>
             /\ did'.status = 200 /\ did'.op \notin Unanswered \cup {"none"} => did'.done
             /\ did'.status # 200 => ~did'.done
             /\ did'.status = 202 <=> Len(entries') > Len(entries)
             /\ did'.status = 202 => did'.id = nextId /\ entries'[Len(entries')].id = did'.id
<1>1. QueueInvariant /\ [Next]_vars => [A]_vars
  <2> SUFFICES ASSUME QueueInvariant, Next, did' # did PROVE A
    BY DEF vars
  <2>1. PICK r : Route(r)
    BY DEF Next, Update
  <2>2. entries \in Seq(Entries) /\ Len(entries) \in Nat /\ nextId \in Nat
    BY DEF QueueInvariant
  <2>3. CASE IsAnswered(r)
    <3>1. PICK answer : Honest(answer) /\ Finish(r, answer)
      BY <2>3 DEF IsAnswered
    <3>2. entries' = entries /\ did'.status = answer.status /\ did'.op = answer.op
          /\ (did'.done <=> answer.done)
      BY <3>1 DEF Finish, Did
    <3>3. ~(Len(entries') > Len(entries))
      BY <2>2, <3>2
    <3>4. did'.status # 202
      BY <3>1, <3>2, Zenon DEF Honest
    <3>5. did'.status = 200 /\ did'.op \notin Unanswered \cup {"none"} => did'.done
      <4> SUFFICES ASSUME did'.status = 200, did'.op \notin Unanswered \cup {"none"}
                   PROVE  did'.done
        OBVIOUS
      <4>1. answer.status = 200
        BY <3>2
      <4>2. answer.op \notin Unanswered \cup {"none"}
        <5> DEFINE Silent == Unanswered \cup {"none"}
        <5>1. did'.op \notin Silent
          OBVIOUS
        <5> HIDE DEF Silent
        <5>2. answer.op \notin Silent
          BY <3>2, <5>1, Zenon
        <5> QED BY <5>2 DEF Silent
      <4> QED BY <3>1, <3>2, <4>1, <4>2, Zenon DEF Honest
    <3>6. did'.status # 200 => ~did'.done
      BY <3>1, <3>2, Zenon DEF Honest
    <3> QED BY <3>3, <3>4, <3>5, <3>6, Zenon
  <2>4. CASE IsQueued(r)
    <3> DEFINE e == Entry(r.path, nextId)
    <3>1. /\ entries' = Append(entries, e) /\ r.path \in WiimoteRoutes
          /\ did' = Did(r.body, [Answer("queued") EXCEPT !.id = nextId])
      BY <2>4 DEF IsQueued
    <3>2. e \in Entries /\ e.id = nextId
      BY <2>2, <3>1 DEF Entry, Entries
    <3> HIDE DEF e
    <3>3. Len(entries') = Len(entries) + 1 /\ entries'[Len(entries')] = e
      BY <2>2, <3>1, <3>2
    <3>4. did'.status = 202 /\ ~did'.done /\ did'.id = nextId
      BY <3>1, StatusOf DEF Did, Answer
    <3>5. Len(entries') > Len(entries) /\ entries'[Len(entries')].id = did'.id
      BY <2>2, <3>2, <3>3, <3>4
    <3>6. did'.status # 200
      BY <3>4
    <3> QED BY <3>4, <3>5, <3>6, Zenon
  <2> QED BY <2>1, <2>3, <2>4, RouteEnds
<1> QED BY <1>1, QueueInvariance, PTL DEF Spec, AnswerTellsEffect

-----------------------------------------------------------------------------
(* WebApi: the bodies.                                                     *)

\* A sequence over a set is one over every larger set.
LEMMA LargerSeq ==
    ASSUME NEW S, NEW T, S \subseteq T, NEW s \in Seq(S)
    PROVE  s \in Seq(T)
  OBVIOUS

\* A command runs or is refused on its merits exactly when its body begins with
\* an object of at most MaxFields fields that names a verb, and the verb it
\* runs is the last one named.
THEOREM BodyIsObjectInvariant == Spec => []BodyIsObject
<1> DEFINE BodyType == did.body \in Seq(Texts)
<1>1. Init => BodyType
  <2>1. Init => did.body = <<>>
    BY DEF Init, Nothing, Did
  <2>2. <<>> \in Seq(Texts)
    OBVIOUS
  <2> QED BY <2>1, <2>2
<1>2. BodyType /\ [Next]_vars => BodyType'
  <2> SUFFICES ASSUME BodyType, [Next]_vars PROVE BodyType'
    OBVIOUS
  <2>1. CASE did' = did
    BY <2>1
  <2>2. CASE did' # did
    <3>1. PICK r \in Requests \cup FirstRequests : Route(r)
      BY <2>2 DEF Next, Update, vars
    <3>2. r.body \in Seq(STRING)
      BY <3>1, WebAssumption
    <3>3. r.body \in Seq(Texts) /\ <<>> \in Seq(Texts)
      <4>1. STRING \subseteq Texts
        BY DEF Texts
      <4>2. <<>> \in Seq(Texts)
        OBVIOUS
      <4>3. r.body \in Seq(Texts)
        BY <3>2, <4>1, LargerSeq
      <4> QED BY <4>2, <4>3
    <3> QED BY <3>1, <3>3, BodyKept
  <2> QED BY <2>1, <2>2
<1>3. BodyType => BodyIsObject
  <2> SUFFICES ASSUME BodyType PROVE BodyIsObject
    OBVIOUS
  <2> DEFINE body == did.body
             verb == Parse(body).verb
  <2>1. Parse(body).ok <=> \E n \in 0..Len(body) : IsObject(body, n) /\ Accepted(body, n, verb)
    BY ParserTakesObjects
  <2> DEFINE cmd == Parse(body)
             sizes == {n \in 0..Len(body) : IsObject(body, n)}
             Takes(n) == /\ VerbOf(body, n) # "" /\ VerbOf(body, n) = cmd.verb
                         /\ Cardinality(Fields(body, n)) <= MaxFields
                         /\ Len(body) <= MaxBody
  <2>2. \A n : Takes(n) <=> Accepted(body, n, verb)
    BY DEF Accepted
  <2>3. cmd.ok <=> \E n \in sizes : Takes(n)
    <3> HIDE DEF Takes
    <3> QED BY <2>1, <2>2
  <2> QED BY <2>3 DEF BodyIsObject
<1> QED BY <1>1, <1>2, <1>3, PTL DEF Spec
=============================================================================
