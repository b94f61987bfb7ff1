------------------------- MODULE SerialControlProofs -------------------------
(***************************************************************************)
(* Proofs about SerialControl, for every set of lines, every limit and     *)
(* every span of the clock.                                                *)
(***************************************************************************)
EXTENDS SerialControl, SequenceTheorems, TLAPS

\* A remainder is below n.
LEMMA ModRange ==
    ASSUME NEW n \in Nat \ {0}, NEW a \in Nat
    PROVE  a % n \in 0..(n - 1)
  BY Z3

\* A position less than two rings away goes round once at most.
LEMMA ModOnce ==
    ASSUME NEW n \in Nat \ {0}, NEW a \in Nat, a < 2 * n
    PROVE  a % n = IF a < n THEN a ELSE a - n
  BY Z3

\* A difference that falls below 0 comes back once round.
LEMMA ModDifference ==
    ASSUME NEW n \in Nat \ {0}, NEW a \in 0..(n - 1), NEW b \in 0..(n - 1)
    PROVE  (a - b) % n = IF a >= b THEN a - b ELSE (a - b) + n
  BY Z3

Sentences == Seq(Words)

\* What is on its way is made of words; a line begun is finished by one piece.
UartHoldsWords ==
    /\ waiting \in Seq(Sentences)
    /\ partial \in Sentences /\ rest \in Sentences /\ inputLine \in Sentences
    /\ rest = <<>> => partial = <<>>
    /\ rest # <<>> => rest \in Pieces

Inv == TypeOK /\ UartHoldsWords

LEMMA Constants ==
    /\ ClockSpan \in Nat \ {0} /\ DefaultWindow \in 1..(ClockSpan - 1)
    /\ MaxLine \in Nat /\ MaxWaiting \in Nat
    /\ SplitLines \subseteq Lines
    /\ \A line \in Lines : line \in Sentences /\ line # <<>>
  BY SerialAssumption DEF Sentences

LEMMA EmptySentence ==
    /\ <<>> \in Sentences /\ Len(<<>>) = 0 /\ <<>> \in Seq(Sentences)
    /\ \A s \in Sentences : Len(s) \in Nat /\ (s # <<>> => Len(s) > 0)
    /\ TooLong \notin Sentences
  <1>1. <<>> \in Sentences /\ Len(<<>>) = 0 /\ <<>> \in Seq(Sentences)
    BY EmptySeq DEF Sentences
  <1>2. \A s \in Sentences : Len(s) \in Nat /\ (s # <<>> => Len(s) > 0)
    BY EmptySeq, LenProperties DEF Sentences
  <1>3. ASSUME TooLong \in Sentences PROVE FALSE
    <2>1. Len(TooLong) = 1 /\ TooLong[1] = "too long" BY DEF TooLong
    <2>2. 1 \in 1..Len(TooLong)
      <3>1. Len(TooLong) = 1 BY <2>1, Zenon
      <3>2. 1 \in 1..1 OBVIOUS
      <3> QED BY <3>1, <3>2, Zenon
    <2>3. TooLong \in Seq(Words) BY <1>3, Zenon DEF Sentences
    <2>4. TooLong[1] \in Words BY <2>2, <2>3, ElementOfSeq, Zenon
    <2>5. "too long" \in Words BY <2>1, <2>4, Zenon
    <2> QED BY <2>5, Zenon DEF Words
  <1> QED BY <1>1, <1>2, <1>3

\* A line cut in two is two sentences that make it whole again.
LEMMA Cuts ==
    ASSUME NEW line \in SplitLines, NEW k \in 1..(Len(line) - 1)
    PROVE  /\ Prefix(line, k) \in Sentences /\ Suffix(line, k) \in Sentences
           /\ Suffix(line, k) # <<>>
           /\ Prefix(line, k) \in Pieces /\ Suffix(line, k) \in Pieces
  <1>1. line \in Sentences /\ Len(line) \in Nat BY Constants, EmptySentence
  <1>2. \A i \in 1..Len(line) : line[i] \in Words BY <1>1, ElementOfSeq DEF Sentences
  <1>3. /\ 1 \in Int /\ k \in Int /\ k + 1 \in Int /\ Len(line) \in Int
        /\ \A i \in 1..k : i \in 1..Len(line)
        /\ \A i \in (k + 1)..Len(line) : i \in 1..Len(line)
        /\ k + 1 <= Len(line)
    BY <1>1
  <1>4. Prefix(line, k) \in Sentences
    BY <1>2, <1>3, SubSeqProperties DEF Prefix, Sentences
  <1>5. Suffix(line, k) \in Sentences /\ Len(Suffix(line, k)) = Len(line) - (k + 1) + 1
    BY <1>2, <1>3, SubSeqProperties DEF Suffix, Sentences
  <1>6. Suffix(line, k) # <<>> BY <1>1, <1>3, <1>5, EmptySentence
  <1> DEFINE cut == {Prefix(line, j) : j \in 1..(Len(line) - 1)}
                      \cup {Suffix(line, j) : j \in 1..(Len(line) - 1)}
  <1>7. Prefix(line, k) \in cut /\ Suffix(line, k) \in cut BY Zenon
  <1>8. cut \subseteq Pieces BY DEF Pieces
  <1> QED BY <1>4, <1>5, <1>6, <1>7, <1>8, Zenon

LEMMA Joined ==
    ASSUME NEW s \in Sentences, NEW t \in Sentences
    PROVE  s \o t \in Sentences /\ Len(s \o t) = Len(s) + Len(t)
  BY ConcatProperties DEF Sentences

\* The buffer takes no more than a line holds.
LEMMA BufferBound ==
    ASSUME inputLine \in Sentences, NEW words \in Sentences
    PROVE  /\ Buffered(words) \in Sentences /\ Len(Buffered(words)) <= MaxLine
           /\ words # <<>> /\ MaxLine > 0 => Buffered(words) # <<>>
  <1> DEFINE all == inputLine \o words
  <1>1. all \in Sentences /\ Len(all) = Len(inputLine) + Len(words) BY Joined
  <1>2. Len(all) \in Nat /\ Len(inputLine) \in Nat /\ Len(words) \in Nat
        /\ (words # <<>> => Len(words) > 0)
    BY <1>1, EmptySentence
  <1>3. CASE Len(all) > MaxLine
    <2>1. \A i \in 1..MaxLine : all[i] \in Words
      BY <1>1, <1>2, <1>3, ElementOfSeq, Constants DEF Sentences
    <2> HIDE DEF all
    <2>2. SubSeq(all, 1, MaxLine) \in Sentences
          /\ Len(SubSeq(all, 1, MaxLine)) = IF 1 <= MaxLine THEN MaxLine - 1 + 1 ELSE 0
      BY <2>1, SubSeqProperties, Constants DEF Sentences
    <2>3. Buffered(words) = SubSeq(all, 1, MaxLine) BY <1>3 DEF all, Buffered
    <2>4. Len(Buffered(words)) = MaxLine /\ Buffered(words) \in Sentences
      BY <2>2, <2>3, Constants
    <2>5. Len(<<>>) = 0 BY EmptySentence
    <2> HIDE <2>2, <2>3
    <2> QED BY <2>4, <2>5, Constants
  <1>4. CASE ~(Len(all) > MaxLine)
    <2>1. Buffered(words) = all BY <1>4 DEF Buffered
    <2> HIDE DEF all
    <2> QED BY <1>1, <1>2, <1>4, <2>1, Constants, EmptySentence
  <1> QED BY <1>3, <1>4

\* What a step may do to the session.
SessionMoves ==
    \/ UNCHANGED <<sessionVars, age>>
    \/ LockSession /\ UNCHANGED age
    \/ /\ unlocked' = TRUE /\ unlockedAt' = now /\ age' = 0
       /\ unlockDuration' \in 1..(ClockSpan - 1)
       /\ now' = now

LEMMA UnlockMoves ==
    ASSUME NEW line, HandleUnlock(line), now' = now
    PROVE  SessionMoves
  <1>1. \A s : Ticks(s) \in 0..(ClockSpan - 1) BY Constants DEF Ticks
  <1>2. DefaultWindow \in 0..(ClockSpan - 1) BY Constants
  <1>3. CASE UnlockReply(line) # "ok" BY <1>3 DEF HandleUnlock, SessionMoves
  <1>4. CASE UnlockReply(line) = "ok"
    <2> DEFINE d == IF Len(line) >= 4 THEN Ticks(line[4]) ELSE DefaultWindow
    <2>1. d \in 0..(ClockSpan - 1) BY <1>1, <1>2
    <2>2. Unlock(d) BY <1>4 DEF HandleUnlock
    <2> HIDE DEF d
    <2>3. CASE d = 0 BY <2>2, <2>3 DEF Unlock, SessionMoves
    <2>4. CASE d # 0
      <3>1. d \in 1..(ClockSpan - 1) BY <2>1, <2>4
      <3> QED BY <2>2, <2>4, <3>1 DEF Unlock, SessionMoves
    <2> QED BY <2>3, <2>4
  <1> QED BY <1>3, <1>4

LEMMA CommandMoves ==
    ASSUME NEW line, CommandLine(line), now' = now
    PROVE  SessionMoves
  <1>1. CASE UNCHANGED <<sessionVars, age>> BY <1>1 DEF SessionMoves
  <1>2. CASE Dispatch(line) BY <1>1, <1>2, UnlockMoves DEF Dispatch
  <1> QED BY <1>1, <1>2 DEF CommandLine

\* Session and clock keep their ranges.
LEMMA RangesKept ==
    ASSUME TypeOK, SessionMoves, now' \in 0..(ClockSpan - 1)
    PROVE  /\ unlocked' \in BOOLEAN
           /\ unlockedAt' \in 0..(ClockSpan - 1) /\ unlockDuration' \in 0..(ClockSpan - 1)
           /\ age' \in 0..ClockSpan
  <1>0. /\ unlocked \in BOOLEAN /\ now \in 0..(ClockSpan - 1)
        /\ unlockedAt \in 0..(ClockSpan - 1) /\ unlockDuration \in 0..(ClockSpan - 1)
        /\ age \in 0..ClockSpan
    BY DEF TypeOK
  <1>1. 0 \in 0..(ClockSpan - 1) /\ 0 \in 0..ClockSpan /\ 1..(ClockSpan - 1) \subseteq 0..(ClockSpan - 1)
    BY Constants
  <1>2. CASE UNCHANGED <<sessionVars, age>> BY <1>0, <1>2, Zenon DEF sessionVars
  <1>3. CASE LockSession /\ UNCHANGED age BY <1>0, <1>1, <1>3, Zenon DEF LockSession
  <1>4. CASE unlocked' = TRUE /\ unlockedAt' = now /\ age' = 0 /\ unlockDuration' \in 1..(ClockSpan - 1)
    BY <1>0, <1>1, <1>4, Zenon
  <1> QED BY <1>2, <1>3, <1>4, Zenon DEF SessionMoves

\* The terminal sends words.
LEMMA TerminalKeeps ==
    ASSUME Inv, Terminal
    PROVE  UartHoldsWords' /\ Len(waiting') <= MaxWaiting
  <1>0. /\ Len(waiting) \in Nat /\ inputLine' = inputLine
        /\ waiting \in Seq(Sentences) /\ partial \in Sentences /\ rest \in Sentences
        /\ inputLine \in Sentences /\ Len(waiting) <= MaxWaiting
    BY LenProperties DEF Inv, UartHoldsWords, TypeOK, Terminal, readerVars
  <1>1. CASE SendLine
    <2>1. PICK line \in Lines : waiting' = Append(waiting, line) BY <1>1 DEF SendLine
    <2>2. waiting' \in Seq(Sentences) /\ Len(waiting') = Len(waiting) + 1
      BY <1>0, <2>1, AppendProperties, Constants
    <2>3. partial' = partial /\ rest' = rest /\ Len(waiting) < MaxWaiting
      BY <1>1 DEF SendLine
    <2>4. Len(waiting') <= MaxWaiting BY <1>0, <2>2, <2>3, Constants
    <2> QED BY <1>0, <2>2, <2>3, <2>4 DEF Inv, UartHoldsWords
  <1>2. CASE SendBeginning
    <2>1. PICK line \in SplitLines : \E k \in 1..(Len(line) - 1) :
             partial' = Prefix(line, k) /\ rest' = Suffix(line, k)
      BY <1>2 DEF SendBeginning
    <2>2. PICK k \in 1..(Len(line) - 1) : partial' = Prefix(line, k) /\ rest' = Suffix(line, k)
      BY <2>1
    <2>3. partial' \in Sentences /\ rest' \in Sentences /\ rest' # <<>> /\ rest' \in Pieces
      BY <2>2, Cuts
    <2>4. waiting' = waiting BY <1>2 DEF SendBeginning
    <2> QED BY <1>0, <2>3, <2>4 DEF Inv, UartHoldsWords
  <1>3. CASE SendEnd
    <2>1. waiting' = Append(waiting, partial \o rest) /\ partial' = <<>> /\ rest' = <<>>
          /\ Len(waiting) < MaxWaiting
      BY <1>3 DEF SendEnd
    <2>2. partial \o rest \in Sentences BY <1>0, Joined
    <2>3. waiting' \in Seq(Sentences) /\ Len(waiting') = Len(waiting) + 1
      BY <1>0, <2>1, <2>2, AppendProperties
    <2>4. Len(waiting') <= MaxWaiting BY <1>0, <2>1, <2>3, Constants
    <2> QED BY <1>0, <2>1, <2>3, <2>4, EmptySentence DEF UartHoldsWords
  <1> QED BY <1>1, <1>2, <1>3 DEF Terminal

\* So does the reader, which keeps the bound of its buffer.
LEMMA ReaderKeeps ==
    ASSUME Inv, ProcessSerialControl
    PROVE  Inv'
  <1>0. /\ waiting \in Seq(Sentences) /\ Len(waiting) \in Nat
        /\ partial \in Sentences /\ rest \in Sentences /\ inputLine \in Sentences
        /\ Len(waiting) <= MaxWaiting
    BY LenProperties DEF Inv, UartHoldsWords, TypeOK
  <1>1. rest' = rest /\ serialControlEnabled' = serialControlEnabled /\ token' = token /\ now' = now
    BY DEF ProcessSerialControl
  <1>2. CASE waiting # <<>>
    <2>1. /\ CommandLine(Fill(Head(waiting))) /\ inputLine' = <<>> /\ inputOverflow' = FALSE
          /\ waiting' = Tail(waiting) /\ partial' = partial
      BY <1>2 DEF ProcessSerialControl, ClearInput
    <2>2. waiting' \in Seq(Sentences) /\ Len(waiting') = Len(waiting) - 1
      BY <1>0, <1>2, <2>1, HeadTailProperties
    <2>3. SessionMoves BY <1>1, <2>1, CommandMoves
    <2>4. UartHoldsWords'
      BY <1>0, <1>1, <2>1, <2>2, EmptySentence DEF Inv, UartHoldsWords
    <2>5. Len(inputLine') <= MaxLine /\ Len(waiting') <= MaxWaiting
      BY <1>0, <2>1, <2>2, EmptySentence, Constants
    <2>6. TypeOK BY DEF Inv
    <2>7. now \in 0..(ClockSpan - 1) /\ serialControlEnabled \in BOOLEAN /\ token \in Tokens
      BY <2>6 DEF TypeOK
    <2>8. /\ unlocked' \in BOOLEAN /\ age' \in 0..ClockSpan
          /\ unlockedAt' \in 0..(ClockSpan - 1) /\ unlockDuration' \in 0..(ClockSpan - 1)
      BY <1>1, <2>3, <2>6, <2>7, RangesKept
    <2> QED BY <1>1, <2>1, <2>4, <2>5, <2>7, <2>8, Zenon DEF Inv, TypeOK
  <1>3. CASE waiting = <<>>
    <2>1. /\ inputLine' = IF inputOverflow THEN inputLine ELSE Buffered(partial)
          /\ inputOverflow' = (Fill(partial) = TooLong)
          /\ partial' = <<>> /\ waiting' = waiting /\ UNCHANGED <<sessionVars, age>>
      BY <1>3 DEF ProcessSerialControl
    <2>2. Len(inputLine) <= MaxLine BY DEF Inv, TypeOK
    <2>3. inputLine' \in Sentences /\ Len(inputLine') <= MaxLine
      BY <1>0, <2>1, <2>2, BufferBound
    <2>4. inputOverflow' \in BOOLEAN BY <2>1
    <2>5. UartHoldsWords'
      BY <1>0, <1>1, <2>1, <2>3, EmptySentence DEF Inv, UartHoldsWords
    <2> QED BY <1>1, <2>1, <2>3, <2>4, <2>5, Zenon DEF Inv, TypeOK, sessionVars
  <1> QED BY <1>2, <1>3

LEMMA Invariance == Spec => []Inv
  <1>1. Init => Inv
    <2> SUFFICES ASSUME Init PROVE Inv OBVIOUS
    <2>1. UartHoldsWords BY EmptySentence DEF Init, UartHoldsWords
    <2>2. TypeOK
      <3>1. Len(<<>>) <= MaxLine /\ Len(<<>>) <= MaxWaiting /\ 0 \in 0..(ClockSpan - 1) /\ 0 \in 0..ClockSpan
        BY EmptySentence, Constants
      <3>2. "token" \in Tokens BY DEF Tokens
      <3> QED BY <3>1, <3>2, Zenon DEF Init, TypeOK
    <2> QED BY <2>1, <2>2 DEF Inv
  <1>2. Inv /\ [Next]_vars => Inv'
    <2> SUFFICES ASSUME Inv, [Next]_vars PROVE Inv' OBVIOUS
    <2>1. CASE ProcessSerialControl BY <2>1, ReaderKeeps
    <2>2. CASE Terminal
      <3>1. UartHoldsWords' /\ Len(waiting') <= MaxWaiting BY <2>2, TerminalKeeps
      <3> QED BY <2>2, <3>1, Zenon DEF Terminal, Inv, TypeOK, readerVars, sessionVars
    <2>3. CASE Tick
      <3>1. now' \in 0..(ClockSpan - 1) /\ age' \in 0..ClockSpan
        <4>1. now + 1 \in Nat BY DEF Inv, TypeOK
        <4>2. (now + 1) % ClockSpan \in 0..(ClockSpan - 1) BY <4>1, Constants, ModRange, Zenon
        <4> QED BY <2>3, <4>2, Constants DEF Tick, Inv, TypeOK
      <3> QED BY <2>3, <3>1, Zenon
            DEF Tick, Inv, TypeOK, UartHoldsWords, uartVars, readerVars, sessionVars
    <2>4. ASSUME NEW enabled \in BOOLEAN, EnableSerialControl(enabled) PROVE Inv'
      <3>1. UNCHANGED <<uartVars, token, now, age>> /\ serialControlEnabled' = enabled
        BY <2>4 DEF EnableSerialControl
      <3>2. CASE enabled
        <4>1. UNCHANGED <<inputLine, inputOverflow, sessionVars>>
          BY <2>4, <3>2 DEF EnableSerialControl
        <4> QED BY <3>1, <4>1, Zenon DEF Inv, TypeOK, UartHoldsWords, uartVars, sessionVars
      <3>3. CASE ~enabled
        <4>1. ClearInput /\ LockSession BY <2>4, <3>3 DEF EnableSerialControl
        <4>2. SessionMoves BY <3>1, <4>1 DEF SessionMoves
        <4>3. UartHoldsWords'
          BY <3>1, <4>1, EmptySentence DEF Inv, UartHoldsWords, uartVars, ClearInput
        <4>4. now \in 0..(ClockSpan - 1) BY DEF Inv, TypeOK
        <4>5. 0 \in 0..(ClockSpan - 1) /\ Len(inputLine') <= MaxLine
          BY <4>1, EmptySentence, Constants DEF ClearInput
        <4> QED BY <3>1, <4>1, <4>3, <4>5, Zenon
              DEF Inv, TypeOK, uartVars, ClearInput, LockSession
      <3> QED BY <3>2, <3>3
    <2>5. CASE Configure
      BY <2>5, Zenon DEF Configure, Inv, TypeOK, UartHoldsWords, uartVars, readerVars, sessionVars
    <2>6. CASE UNCHANGED vars
      BY <2>6, Zenon DEF vars, Inv, TypeOK, UartHoldsWords, uartVars, readerVars, sessionVars
    <2> QED BY <2>1, <2>2, <2>3, <2>4, <2>5, <2>6 DEF Next, SketchStep
  <1> QED BY <1>1, <1>2, PTL DEF Spec

\* Every variable keeps its type, and the buffer its bound: processSerialControl
\* writes no word behind the end of serialInputLine_.
THEOREM TypeCorrectness == Spec => []TypeOK
  <1>1. Inv => TypeOK BY DEF Inv
  <1> QED BY <1>1, Invariance, PTL

----------------------------------------------------------------------------
(* The window.                                                             *)

\* Until the clock has gone all the way round, the difference isUnlocked takes
\* is the time that has really passed.
AgeIsMeasured == unlocked /\ age # ClockSpan => (now - unlockedAt) % ClockSpan = age

\* What is answered without a look at the device asks nothing of it.
LEMMA AnswersAskNothing ==
    ASSUME NEW line, NEW reply
    PROVE  Did(line, Answer(reply)).op = "none" /\ Nothing.op = "none"
  BY Zenon DEF Did, Answer, Nothing, Silent

\* Only the verbs that are not privileged reach the device from a locked line.
LEMMA UnprivilegedVerbs ==
    ASSUME NEW line, NEW t, line[2] \notin Privileged
    PROVE  Handle(line, t).op \in {"none", "requestStatus"}
  <1>1. CASE line[2] = "status" BY <1>1 DEF Handle, Answer
  <1>2. CASE line[2] = "request-status"
    <2>1. HandleRequestStatus(line, t).op \in {"none", "requestStatus"}
      BY DEF HandleRequestStatus, WhenConnected, Ask, Answer
    <2> QED BY <1>2, <2>1 DEF Handle
  <1>3. CASE line[2] \notin Verbs
    <2>1. Handle(line, t) = Answer("unknown_command") BY <1>3 DEF Handle, Verbs
    <2> QED BY <2>1 DEF Answer
  <1> QED BY <1>1, <1>2, <1>3 DEF Privileged

\* An operation that wants an open session is asked for only in one.
LEMMA PrivilegedNeedsSession ==
    ASSUME NEW line, CommandLine(line), RequireUnlock,
           did'.op \notin {"none", "requestStatus"}
    PROVE  IsUnlocked
  <1>1. \A reply : did' # Did(line, Answer(reply)) BY AnswersAskNothing, Zenon
  <1>2. Dispatch(line) BY <1>1 DEF CommandLine, Silent
  <1>3. ~HandleUnlock(line) BY <1>1 DEF HandleUnlock
  <1>4. PICK t \in Targets : ~Locked(line) /\ did' = Did(line, Handle(line, t))
    BY <1>1, <1>2, <1>3 DEF Dispatch
  <1>5. Handle(line, t).op \notin {"none", "requestStatus"} BY <1>4 DEF Did
  <1> QED BY <1>4, <1>5, UnprivilegedVerbs DEF Locked

\* A step that takes no line leaves no trace of one.
LEMMA OtherStepsTakeNothing ==
    ASSUME Next, did' # Nothing
    PROVE  /\ ProcessSerialControl /\ waiting # <<>>
           /\ CommandLine(Fill(Head(waiting)))
  BY DEF Next, ProcessSerialControl, SketchStep, EnableSerialControl, Configure, Terminal, Tick

\* One tick later the difference is one more.
LEMMA TickMeasures ==
    ASSUME TypeOK, AgeIsMeasured, Tick
    PROVE  AgeIsMeasured'
  <1> SUFFICES ASSUME unlocked, age' # ClockSpan
               PROVE  (now' - unlockedAt) % ClockSpan = age'
    BY DEF AgeIsMeasured, Tick, sessionVars
  <1>1. /\ now \in 0..(ClockSpan - 1) /\ unlockedAt \in 0..(ClockSpan - 1)
        /\ age \in 0..ClockSpan /\ now + 1 \in Nat /\ now + 1 < 2 * ClockSpan
    BY Constants DEF TypeOK
  <1>2. age' = age + 1 /\ age < ClockSpan - 1 BY <1>1, Constants DEF Tick
  <1>3. age = IF now >= unlockedAt THEN now - unlockedAt ELSE (now - unlockedAt) + ClockSpan
    <2>1. (now - unlockedAt) % ClockSpan = age BY <1>1, <1>2, Constants DEF AgeIsMeasured
    <2> QED BY <1>1, <2>1, Constants, ModDifference, Zenon
  <1>4. now' = IF now + 1 < ClockSpan THEN now + 1 ELSE (now + 1) - ClockSpan
    BY <1>1, Constants, ModOnce, Zenon DEF Tick
  <1>5. now' \in 0..(ClockSpan - 1) BY <1>1, <1>4, Constants
  <1>6. (now' - unlockedAt) % ClockSpan
          = IF now' >= unlockedAt THEN now' - unlockedAt ELSE (now' - unlockedAt) + ClockSpan
    BY <1>1, <1>5, Constants, ModDifference, Zenon
  <1> DEFINE passed == (now' - unlockedAt) % ClockSpan
  <1>7. passed = IF now' >= unlockedAt THEN now' - unlockedAt ELSE (now' - unlockedAt) + ClockSpan
    BY <1>6, Zenon
  <1> HIDE DEF passed
  <1>8. passed = age' BY <1>1, <1>2, <1>3, <1>4, <1>5, <1>7, Constants
  <1> QED BY <1>8 DEF passed

LEMMA SessionMeasures ==
    ASSUME TypeOK, AgeIsMeasured, SessionMoves, now' = now
    PROVE  AgeIsMeasured'
  <1>1. CASE UNCHANGED <<sessionVars, age>> BY <1>1 DEF sessionVars, AgeIsMeasured
  <1>2. CASE LockSession BY <1>2 DEF LockSession, AgeIsMeasured
  <1>3. CASE unlockedAt' = now /\ age' = 0
    <2>1. now \in 0..(ClockSpan - 1) /\ now >= now /\ now - now = 0 BY Constants DEF TypeOK
    <2>2. (now - now) % ClockSpan = 0 BY <2>1, Constants, ModDifference, Zenon
    <2> QED BY <1>3, <2>2, Zenon DEF AgeIsMeasured
  <1> QED BY <1>1, <1>2, <1>3 DEF SessionMoves

\* What any step but a tick does to the session.
LEMMA StepMoves ==
    ASSUME [Next]_vars, ~Tick
    PROVE  SessionMoves /\ now' = now
  <1>1. CASE ProcessSerialControl
    <2>1. now' = now BY <1>1 DEF ProcessSerialControl
    <2> QED BY <1>1, <2>1, CommandMoves DEF ProcessSerialControl, SessionMoves
  <1>2. ASSUME NEW enabled \in BOOLEAN, EnableSerialControl(enabled)
        PROVE  SessionMoves /\ now' = now
    BY <1>2 DEF EnableSerialControl, SessionMoves
  <1>3. CASE Configure \/ Terminal BY <1>3 DEF Configure, Terminal, SessionMoves
  <1>4. CASE UNCHANGED vars BY <1>4 DEF vars, SessionMoves
  <1> QED BY <1>1, <1>2, <1>3, <1>4 DEF Next, SketchStep

LEMMA AgeAlwaysMeasured == Spec => []AgeIsMeasured
  <1>1. Init => AgeIsMeasured BY DEF Init, AgeIsMeasured
  <1>2. TypeOK /\ AgeIsMeasured /\ [Next]_vars => AgeIsMeasured'
    BY TickMeasures, StepMoves, SessionMeasures, Zenon
  <1> QED BY <1>1, <1>2, TypeCorrectness, PTL DEF Spec

\* serialCommandDispatch asks a privileged operation of the device only within
\* the window of an unlock, by the time that really passed since.
THEOREM PrivilegedInWindow == Spec => PrivilegedOnlyInWindow
  <1>1. TypeOK /\ AgeIsMeasured /\ [Next]_vars
          => [did'.op \notin {"none", "requestStatus"} /\ RequireUnlock
                => unlocked /\ (age < unlockDuration \/ age = ClockSpan)]_vars
    <2> SUFFICES ASSUME TypeOK, AgeIsMeasured, Next, RequireUnlock,
                        did'.op \notin {"none", "requestStatus"}
                 PROVE  unlocked /\ (age < unlockDuration \/ age = ClockSpan)
      OBVIOUS
    <2>1. did' # Nothing BY AnswersAskNothing, Zenon
    <2>2. IsUnlocked BY <2>1, OtherStepsTakeNothing, PrivilegedNeedsSession
    <2> QED BY <2>2, Zenon DEF IsUnlocked, AgeIsMeasured
  <1> QED BY <1>1, TypeCorrectness, AgeAlwaysMeasured, PTL DEF Spec, PrivilegedOnlyInWindow

----------------------------------------------------------------------------
(* The lock.                                                               *)

OpenMeansEnabled == unlocked => serialControlEnabled

\* A command that opens the session is an unlock with the token.
LEMMA OpenedByUnlock ==
    ASSUME NEW line, CommandLine(line), ~unlocked, unlocked'
    PROVE  /\ did'.line # <<>> /\ did'.line[2] = "unlock"
           /\ did'.line[3] = token /\ did'.reply = "ok"
  <1>1. Dispatch(line) BY DEF CommandLine, sessionVars
  <1>2. HandleUnlock(line) /\ Len(line) >= 2 /\ line[2] = "unlock"
    BY <1>1 DEF Dispatch, sessionVars
  <1>3. UnlockReply(line) = "ok" BY <1>2 DEF HandleUnlock, sessionVars
  <1>4. did'.line = line /\ did'.reply = "ok"
    BY <1>2, <1>3, Zenon DEF HandleUnlock, Did, Answer
  <1>5. line[3] = token BY <1>3 DEF UnlockReply
  <1>6. line # <<>> BY <1>2, EmptySentence
  <1> QED BY <1>2, <1>4, <1>5, <1>6, Zenon

LEMMA OpenStep ==
    ASSUME TypeOK, OpenMeansEnabled, [Next]_vars
    PROVE  /\ OpenMeansEnabled'
           /\ unlocked' /\ ~unlocked => ProcessSerialControl /\ CommandLine(Fill(Head(waiting)))
  <1>0. unlocked \in BOOLEAN /\ serialControlEnabled \in BOOLEAN BY DEF TypeOK
  <1>1. CASE ProcessSerialControl
    <2>1. serialControlEnabled /\ serialControlEnabled' = serialControlEnabled
      BY <1>1 DEF ProcessSerialControl
    <2>2. waiting = <<>> => UNCHANGED unlocked BY <1>1 DEF ProcessSerialControl, sessionVars
    <2>3. unlocked' /\ ~unlocked => waiting # <<>> BY <1>0, <2>2
    <2>4. waiting # <<>> => CommandLine(Fill(Head(waiting))) BY <1>1 DEF ProcessSerialControl
    <2>5. OpenMeansEnabled' BY <2>1, Zenon DEF OpenMeansEnabled
    <2> QED BY <1>1, <2>3, <2>4, <2>5, Zenon
  <1>2. ASSUME NEW enabled \in BOOLEAN, EnableSerialControl(enabled)
        PROVE  OpenMeansEnabled' /\ (unlocked' => unlocked)
    BY <1>0, <1>2, Zenon DEF EnableSerialControl, LockSession, sessionVars, OpenMeansEnabled
  <1>3. CASE Configure \/ Terminal \/ Tick \/ UNCHANGED vars
    <2>1. unlocked' = unlocked /\ serialControlEnabled' = serialControlEnabled
      BY <1>3, Zenon DEF Configure, Terminal, Tick, vars, readerVars, sessionVars
    <2> QED BY <2>1, Zenon DEF OpenMeansEnabled
  <1> QED BY <1>1, <1>2, <1>3, Zenon DEF Next, SketchStep

LEMMA OpenAlwaysEnabled == Spec => []OpenMeansEnabled
  <1>1. Init => OpenMeansEnabled BY DEF Init, OpenMeansEnabled
  <1>2. TypeOK /\ OpenMeansEnabled /\ [Next]_vars => OpenMeansEnabled' BY OpenStep, Zenon
  <1> QED BY <1>1, <1>2, TypeCorrectness, PTL DEF Spec

\* enableSerialControl(false) locks: an open session was opened while serial
\* control was on, by an unlock with the token in force.
THEOREM DisablingLocks == Spec => DisableLocks
  <1>1. TypeOK /\ OpenMeansEnabled /\ [Next]_vars
          => [unlocked' => /\ serialControlEnabled'
                           /\ ~unlocked => /\ did'.line # <<>> /\ did'.line[2] = "unlock"
                                           /\ did'.line[3] = token /\ did'.reply = "ok"]_vars
    <2> SUFFICES ASSUME TypeOK, OpenMeansEnabled, [Next]_vars, unlocked'
                 PROVE  /\ serialControlEnabled'
                        /\ ~unlocked => /\ did'.line # <<>> /\ did'.line[2] = "unlock"
                                        /\ did'.line[3] = token /\ did'.reply = "ok"
      OBVIOUS
    <2>1. serialControlEnabled' BY OpenStep, Zenon DEF OpenMeansEnabled
    <2>2. ASSUME ~unlocked
          PROVE  /\ did'.line # <<>> /\ did'.line[2] = "unlock"
                 /\ did'.line[3] = token /\ did'.reply = "ok"
      BY <2>2, OpenStep, OpenedByUnlock, Zenon
    <2> QED BY <2>1, <2>2, Zenon
  <1> QED BY <1>1, TypeCorrectness, OpenAlwaysEnabled, PTL DEF Spec, DisableLocks

----------------------------------------------------------------------------
(* The lines: the reader implements LineService.                           *)

Taken == Sentences \cup {TooLong}

\* Fill and PendingLines as functions of the buffer.
FillOf(buf, over, words) ==
    IF over \/ Len(buf \o words) > MaxLine THEN TooLong ELSE buf \o words

LinesOf(w, buf, over) ==
    [i \in DOMAIN w |-> IF i = 1 THEN FillOf(buf, over, w[1]) ELSE Whole(w[i])]

CurrentOf(w, p, buf, over) == IF w = <<>> THEN FillOf(buf, over, p) ELSE Whole(p)

LEMMA LinesNow ==
    /\ PendingLines = LinesOf(waiting, inputLine, inputOverflow)
    /\ PendingLines' = LinesOf(waiting', inputLine', inputOverflow')
    /\ PendingCurrent = CurrentOf(waiting, partial, inputLine, inputOverflow)
    /\ PendingCurrent' = CurrentOf(waiting', partial', inputLine', inputOverflow')
  BY DEF PendingLines, PendingCurrent, LinesOf, CurrentOf, Fill, FillOf, Whole

LEMMA FillIsTaken ==
    ASSUME NEW buf \in Sentences, NEW over \in BOOLEAN, NEW words \in Sentences
    PROVE  /\ FillOf(buf, over, words) \in Taken /\ Whole(words) \in Taken
           /\ FillOf(<<>>, FALSE, words) = Whole(words)
           /\ Whole(<<>>) = <<>>
  <1>1. buf \o words \in Sentences BY Joined
  <1>2. <<>> \o words = words BY ConcatEmptySeq DEF Sentences
  <1>3. ~(Len(<<>>) > MaxLine) BY EmptySentence, Constants
  <1> QED BY <1>1, <1>2, <1>3, Zenon DEF FillOf, Whole, Taken

\* What comes behind what has been read extends it.
LEMMA FillExtends ==
    ASSUME NEW buf \in Sentences, NEW over \in BOOLEAN,
           NEW words \in Sentences, NEW p \in Sentences
    PROVE  /\ FillOf(buf, over, words \o p) = Service!Extend(FillOf(buf, over, words), p)
           /\ Whole(words \o p) = Service!Extend(Whole(words), p)
  <1> DEFINE all == buf \o words
  <1>1. /\ all \in Sentences /\ words \o p \in Sentences
        /\ Len(all) \in Nat /\ Len(p) \in Nat /\ Len(words) \in Nat
        /\ all # TooLong /\ words # TooLong
    BY Joined, EmptySentence
  <1>2. all \o p = buf \o (words \o p) BY ConcatAssociative DEF Sentences
  <1>3. Len(all \o p) = Len(all) + Len(p) /\ Len(words \o p) = Len(words) + Len(p)
    BY <1>1, Joined
  <1>4. FillOf(buf, over, words) = IF over \/ Len(all) > MaxLine THEN TooLong ELSE all
    BY DEF FillOf
  <1>5. FillOf(buf, over, words \o p)
          = IF over \/ Len(all \o p) > MaxLine THEN TooLong ELSE all \o p
    BY <1>2, Zenon DEF FillOf
  <1> HIDE DEF all
  <1>6. Len(all) > MaxLine => Len(all \o p) > MaxLine BY <1>1, <1>3, Constants
  <1>7. Len(words) > MaxLine => Len(words \o p) > MaxLine BY <1>1, <1>3, Constants
  <1>8. FillOf(buf, over, words \o p) = Service!Extend(FillOf(buf, over, words), p)
    BY <1>1, <1>3, <1>4, <1>5, <1>6, Zenon DEF Service!Extend
  <1>9. Whole(words \o p) = Service!Extend(Whole(words), p)
    BY <1>1, <1>3, <1>7, Zenon DEF Service!Extend, Whole
  <1> QED BY <1>8, <1>9

LEMMA LinesType ==
    ASSUME NEW w \in Seq(Sentences), NEW buf \in Sentences, NEW over \in BOOLEAN
    PROVE  /\ LinesOf(w, buf, over) \in Seq(Taken)
           /\ Len(LinesOf(w, buf, over)) = Len(w) /\ Len(w) \in Nat
           /\ \A i \in 1..Len(w) : LinesOf(w, buf, over)[i] =
                IF i = 1 THEN FillOf(buf, over, w[1]) ELSE Whole(w[i])
  <1>1. Len(w) \in Nat /\ DOMAIN w = 1..Len(w) BY LenProperties
  <1>2. \A i \in 1..Len(w) : w[i] \in Sentences BY ElementOfSeq
  <1>3. \A i \in 1..Len(w) :
          (IF i = 1 THEN FillOf(buf, over, w[1]) ELSE Whole(w[i])) \in Taken
    BY <1>2, FillIsTaken
  <1>4. LinesOf(w, buf, over)
          = [i \in 1..Len(w) |-> IF i = 1 THEN FillOf(buf, over, w[1]) ELSE Whole(w[i])]
    BY <1>1 DEF LinesOf
  <1>5. LinesOf(w, buf, over) \in [1..Len(w) -> Taken] BY <1>3, <1>4
  <1>6. LinesOf(w, buf, over) \in Seq(Taken) BY <1>1, <1>5, SeqDef
  <1>7. Len(LinesOf(w, buf, over)) = Len(w) BY <1>1, <1>5, <1>6, LenProperties
  <1> QED BY <1>1, <1>4, <1>6, <1>7

\* Taking the oldest line leaves the others, unread.
LEMMA LinesTaken ==
    ASSUME NEW w \in Seq(Sentences), w # <<>>, NEW buf \in Sentences, NEW over \in BOOLEAN
    PROVE  /\ LinesOf(w, buf, over) # <<>>
           /\ Head(LinesOf(w, buf, over)) = FillOf(buf, over, Head(w))
           /\ Tail(LinesOf(w, buf, over)) = LinesOf(Tail(w), <<>>, FALSE)
  <1> DEFINE L == LinesOf(w, buf, over)
             T == LinesOf(Tail(w), <<>>, FALSE)
  <1>1. /\ L \in Seq(Taken) /\ Len(L) = Len(w) /\ Len(w) \in Nat
        /\ \A i \in 1..Len(w) : L[i] = IF i = 1 THEN FillOf(buf, over, w[1]) ELSE Whole(w[i])
    BY LinesType
  <1>2. /\ Tail(w) \in Seq(Sentences) /\ Len(Tail(w)) = Len(w) - 1
        /\ \A i \in 1..Len(Tail(w)) : Tail(w)[i] = w[i + 1]
    BY HeadTailProperties
  <1>3. /\ T \in Seq(Taken) /\ Len(T) = Len(w) - 1
        /\ \A i \in 1..(Len(w) - 1) :
             T[i] = IF i = 1 THEN FillOf(<<>>, FALSE, Tail(w)[1]) ELSE Whole(Tail(w)[i])
    <2>1. Tail(w) \in Seq(Sentences) /\ <<>> \in Sentences /\ FALSE \in BOOLEAN
      BY <1>2, EmptySentence
    <2>2. /\ T \in Seq(Taken) /\ Len(T) = Len(Tail(w))
          /\ \A i \in 1..Len(Tail(w)) :
               T[i] = IF i = 1 THEN FillOf(<<>>, FALSE, Tail(w)[1]) ELSE Whole(Tail(w)[i])
      BY <2>1, LinesType, Zenon
    <2> QED BY <1>2, <2>2, Zenon
  <1>4. Len(w) > 0 BY EmptySeq
  <1>5. \A i \in 1..Len(w) : w[i] \in Sentences BY ElementOfSeq
  <1> HIDE DEF L, T
  <1>6. \A i \in 1..(Len(w) - 1) : T[i] = Whole(w[i + 1])
    <2> SUFFICES ASSUME NEW i \in 1..(Len(w) - 1) PROVE T[i] = Whole(w[i + 1])
      OBVIOUS
    <2>1. i + 1 \in 1..Len(w) /\ Tail(w)[i] = w[i + 1] BY <1>1, <1>2
    <2>2. w[i + 1] \in Sentences BY <1>5, <2>1
    <2>3. FillOf(<<>>, FALSE, w[i + 1]) = Whole(w[i + 1])
      BY <2>2, FillIsTaken, EmptySentence
    <2>4. CASE i = 1
      <3>1. T[i] = FillOf(<<>>, FALSE, Tail(w)[i]) BY <1>3, <2>4
      <3> QED BY <2>1, <2>3, <3>1, Zenon
    <2>5. CASE i # 1
      <3>1. T[i] = Whole(Tail(w)[i]) BY <1>3, <2>5
      <3> QED BY <2>1, <3>1, Zenon
    <2> QED BY <2>4, <2>5
  <1>7. L # <<>> BY <1>1, <1>4, EmptySentence
  <1>8. /\ Tail(L) \in Seq(Taken) /\ Len(Tail(L)) = Len(w) - 1
        /\ \A i \in 1..Len(Tail(L)) : Tail(L)[i] = L[i + 1]
    BY <1>1, <1>7, HeadTailProperties
  <1>9. \A i \in 1..(Len(w) - 1) : Tail(L)[i] = T[i]
    <2> SUFFICES ASSUME NEW i \in 1..(Len(w) - 1) PROVE Tail(L)[i] = T[i]
      OBVIOUS
    <2>1. i + 1 \in 1..Len(w) /\ i + 1 # 1 BY <1>1
    <2>2. L[i + 1] = Whole(w[i + 1]) BY <1>1, <2>1
    <2>3. Tail(L)[i] = L[i + 1] BY <1>8
    <2> QED BY <1>6, <2>2, <2>3
  <1>10. Tail(L) = T BY <1>3, <1>8, <1>9, SeqEqual
  <1>11. Head(L) = L[1] /\ Head(w) = w[1] OBVIOUS
  <1>12. L[1] = FillOf(buf, over, w[1]) BY <1>1, <1>4
  <1> QED BY <1>7, <1>10, <1>11, <1>12 DEF L, T

\* A line sent comes behind the others.
LEMMA LinesAppended ==
    ASSUME NEW w \in Seq(Sentences), NEW x \in Sentences,
           NEW buf \in Sentences, NEW over \in BOOLEAN
    PROVE  LinesOf(Append(w, x), buf, over)
             = Append(LinesOf(w, buf, over), CurrentOf(w, x, buf, over))
  <1> DEFINE L == LinesOf(w, buf, over)
             A == LinesOf(Append(w, x), buf, over)
             c == CurrentOf(w, x, buf, over)
  <1>1. /\ L \in Seq(Taken) /\ Len(L) = Len(w) /\ Len(w) \in Nat
        /\ \A i \in 1..Len(w) : L[i] = IF i = 1 THEN FillOf(buf, over, w[1]) ELSE Whole(w[i])
    BY LinesType
  <1>2. /\ Append(w, x) \in Seq(Sentences) /\ Len(Append(w, x)) = Len(w) + 1
        /\ \A i \in 1..Len(w) : Append(w, x)[i] = w[i]
        /\ Append(w, x)[Len(w) + 1] = x
    BY AppendProperties
  <1>3. /\ A \in Seq(Taken) /\ Len(A) = Len(w) + 1
        /\ \A i \in 1..(Len(w) + 1) :
             A[i] = IF i = 1 THEN FillOf(buf, over, Append(w, x)[1]) ELSE Whole(Append(w, x)[i])
    <2>1. /\ A \in Seq(Taken) /\ Len(A) = Len(Append(w, x))
          /\ \A i \in 1..Len(Append(w, x)) :
               A[i] = IF i = 1 THEN FillOf(buf, over, Append(w, x)[1]) ELSE Whole(Append(w, x)[i])
      BY <1>2, LinesType, Zenon
    <2> QED BY <1>2, <2>1, Zenon
  <1>4. c \in Taken BY FillIsTaken DEF CurrentOf
  <1>5. w = <<>> <=> Len(w) = 0 BY EmptySeq
  <1>6. A[Len(w) + 1] = c
    <2>1. Len(w) + 1 \in 1..(Len(w) + 1) BY <1>1
    <2>2. CASE w = <<>>
      <3>1. Len(w) + 1 = 1 BY <1>5, <2>2
      <3>2. A[Len(w) + 1] = FillOf(buf, over, Append(w, x)[Len(w) + 1])
        BY <1>3, <2>1, <3>1
      <3> QED BY <1>2, <2>2, <3>2, Zenon DEF CurrentOf
    <2>3. CASE w # <<>>
      <3>1. Len(w) + 1 # 1 BY <1>1, <1>5, <2>3
      <3>2. A[Len(w) + 1] = Whole(Append(w, x)[Len(w) + 1]) BY <1>3, <2>1, <3>1
      <3> QED BY <1>2, <2>3, <3>2, Zenon DEF CurrentOf
    <2> QED BY <2>2, <2>3
  <1> HIDE DEF L, A, c
  <1>7. /\ Append(L, c) \in Seq(Taken) /\ Len(Append(L, c)) = Len(w) + 1
        /\ \A i \in 1..Len(w) : Append(L, c)[i] = L[i]
        /\ Append(L, c)[Len(w) + 1] = c
    BY <1>1, <1>4, AppendProperties
  <1>8. \A i \in 1..(Len(w) + 1) : A[i] = Append(L, c)[i]
    <2> SUFFICES ASSUME NEW i \in 1..(Len(w) + 1) PROVE A[i] = Append(L, c)[i]
      OBVIOUS
    <2>1. CASE i = Len(w) + 1 BY <1>6, <1>7, <2>1, Zenon
    <2>2. CASE i # Len(w) + 1
      <3>1. i \in 1..Len(w) /\ (i = 1 => 1 \in 1..Len(w)) BY <1>1, <2>2
      <3>2. CASE i = 1
        <4>1. A[i] = FillOf(buf, over, Append(w, x)[i]) BY <1>3, <3>2
        <4>2. L[i] = FillOf(buf, over, w[i]) BY <1>1, <3>1, <3>2
        <4> QED BY <1>2, <1>7, <3>1, <4>1, <4>2, Zenon
      <3>3. CASE i # 1
        <4>1. A[i] = Whole(Append(w, x)[i]) BY <1>3, <3>3
        <4>2. L[i] = Whole(w[i]) BY <1>1, <3>1, <3>3
        <4> QED BY <1>2, <1>7, <3>1, <4>1, <4>2, Zenon
      <3> QED BY <3>2, <3>3
    <2> QED BY <2>1, <2>2
  <1>9. A = Append(L, c) BY <1>3, <1>7, <1>8, SeqEqual
  <1> QED BY <1>9 DEF L, A, c

\* How a step of the reader maps.
LEMMA ReaderImplements ==
    ASSUME Inv, ProcessSerialControl
    PROVE  Service!Take \/ Service!Read
  <1>0. /\ waiting \in Seq(Sentences) /\ inputOverflow \in BOOLEAN
        /\ partial \in Sentences /\ inputLine \in Sentences
    BY DEF Inv, UartHoldsWords, TypeOK
  <1>1. CASE waiting # <<>>
    <2>1. /\ CommandLine(Fill(Head(waiting))) /\ inputLine' = <<>> /\ inputOverflow' = FALSE
          /\ waiting' = Tail(waiting) /\ partial' = partial
      BY <1>1 DEF ProcessSerialControl, ClearInput
    <2>2. \A line : CommandLine(line) => did'.line = line
      BY DEF CommandLine, Dispatch, HandleUnlock, Did
    <2>3. did'.line = FillOf(inputLine, inputOverflow, Head(waiting))
      BY <2>1, <2>2, Zenon DEF Fill, FillOf
    <2>4. PendingLines # <<>> /\ did'.line = Head(PendingLines) /\ PendingLines' = Tail(PendingLines)
      BY <1>0, <1>1, <2>1, <2>3, LinesTaken, LinesNow, Zenon
    <2>5. PendingCurrent' = PendingCurrent
      <3>1. FillOf(<<>>, FALSE, partial) = Whole(partial) BY <1>0, FillIsTaken
      <3> QED BY <1>1, <2>1, <3>1, LinesNow, Zenon DEF CurrentOf
    <2>6. Begun' = FALSE BY <2>1 DEF Begun
    <2> QED BY <2>4, <2>5, <2>6, Zenon DEF Service!Take
  <1>2. CASE waiting = <<>>
    <2>1. /\ partial # <<>>
          /\ inputLine' = IF inputOverflow THEN inputLine ELSE Buffered(partial)
          /\ inputOverflow' = (Fill(partial) = TooLong)
          /\ partial' = <<>> /\ waiting' = waiting /\ did' = Nothing
      BY <1>2 DEF ProcessSerialControl
    <2> DEFINE all == inputLine \o partial
    <2>2. /\ all \in Sentences /\ Len(all) = Len(inputLine) + Len(partial)
          /\ all # TooLong /\ Len(inputLine) \in Nat /\ Len(partial) > 0 /\ Len(partial) \in Nat
      BY <1>0, <2>1, Joined, EmptySentence
    <2>3. Fill(partial) = IF inputOverflow \/ Len(all) > MaxLine THEN TooLong ELSE all
      BY DEF Fill
    <2>4. Len(all) > MaxLine \/ Buffered(partial) = all BY DEF Buffered
    <2>5. all # <<>> BY <2>2, EmptySentence
    <2> HIDE DEF all
    <2>6. inputOverflow' = (inputOverflow \/ Len(all) > MaxLine) BY <2>1, <2>2, <2>3
    <2>7. ~inputOverflow' => inputLine' = all BY <2>1, <2>4, <2>6
    <2>8. PendingLines' = PendingLines
      BY <1>2, <2>1, LinesNow DEF LinesOf
    <2>9. inputLine' \in Sentences BY <1>0, <2>1, BufferBound
    <2>10. PendingCurrent' = PendingCurrent
      <3>1. inputLine' \o <<>> = inputLine' BY <2>9, ConcatEmptySeq DEF Sentences
      <3>2. PendingCurrent' = IF inputOverflow' \/ Len(inputLine') > MaxLine
                              THEN TooLong ELSE inputLine'
        BY <1>2, <2>1, <3>1, LinesNow, Zenon DEF CurrentOf, FillOf
      <3>3. PendingCurrent = IF inputOverflow \/ Len(all) > MaxLine THEN TooLong ELSE all
        BY <1>2, LinesNow, Zenon DEF CurrentOf, FillOf, all
      <3> QED BY <2>6, <2>7, <3>2, <3>3, Zenon
    <2>11. Begun' \in BOOLEAN /\ (Begun => Begun')
      BY <2>5, <2>7, Zenon DEF Begun
    <2>12. did'.line = <<>> BY <2>1, Zenon DEF Nothing, Did
    <2> QED BY <2>8, <2>10, <2>11, <2>12, Zenon DEF Service!Read
  <1> QED BY <1>1, <1>2

LEMMA TerminalImplements ==
    ASSUME Inv, Terminal
    PROVE  Service!Arrive
  <1>0. /\ waiting \in Seq(Sentences) /\ inputOverflow \in BOOLEAN
        /\ partial \in Sentences /\ rest \in Sentences /\ inputLine \in Sentences
        /\ rest = <<>> => partial = <<>>
        /\ rest # <<>> => rest \in Pieces
    BY DEF Inv, UartHoldsWords, TypeOK
  <1>1. inputLine' = inputLine /\ inputOverflow' = inputOverflow /\ did' = Nothing
    BY DEF Terminal, readerVars
  <1>2. did'.line = <<>> /\ Begun' = Begun BY <1>1, Zenon DEF Nothing, Did, Begun
  \* What a piece makes of the line it comes behind.
  <1>3. ASSUME NEW p \in Sentences
        PROVE  CurrentOf(waiting, partial \o p, inputLine, inputOverflow)
                 = Service!Extend(PendingCurrent, p)
    <2>1. /\ FillOf(inputLine, inputOverflow, partial \o p)
               = Service!Extend(FillOf(inputLine, inputOverflow, partial), p)
          /\ Whole(partial \o p) = Service!Extend(Whole(partial), p)
      BY <1>0, <1>3, FillExtends, Zenon
    <2> QED BY <2>1, LinesNow, Zenon DEF CurrentOf
  <1>4. ASSUME NEW p \in Sentences, waiting' = Append(waiting, partial \o p), partial' = <<>>
        PROVE  /\ PendingLines' = Append(PendingLines, Service!Extend(PendingCurrent, p))
               /\ PendingCurrent' = <<>>
    <2>1. partial \o p \in Sentences BY <1>0, <1>4, Joined
    <2>2. PendingLines' = Append(PendingLines, CurrentOf(waiting, partial \o p, inputLine, inputOverflow))
      BY <1>0, <1>1, <1>4, <2>1, LinesAppended, LinesNow, Zenon
    <2>3. waiting' # <<>> BY <1>0, <1>4, <2>1, AppendProperties
    <2>4. PendingCurrent' = Whole(<<>>) BY <1>4, <2>3, LinesNow, Zenon DEF CurrentOf
    <2>5. Whole(<<>>) = <<>> BY EmptySentence, Constants DEF Whole
    <2> QED BY <1>3, <1>4, <2>2, <2>4, <2>5, Zenon
  <1>5. CASE SendLine
    <2>1. PICK line \in Lines : waiting' = Append(waiting, line) BY <1>5 DEF SendLine
    <2>2. partial = <<>> /\ partial' = <<>> BY <1>0, <1>5 DEF SendLine
    <2>3. line \in Sentences /\ line \in Pieces BY Constants DEF Pieces
    <2>4. partial \o line = line BY <2>2, <2>3, ConcatEmptySeq DEF Sentences
    <2> QED BY <1>2, <1>4, <2>1, <2>2, <2>3, <2>4, Zenon DEF Service!Arrive
  <1>6. CASE SendEnd
    <2>1. waiting' = Append(waiting, partial \o rest) /\ partial' = <<>> /\ rest # <<>>
      BY <1>6 DEF SendEnd
    <2> QED BY <1>0, <1>2, <1>4, <2>1, Zenon DEF Service!Arrive
  <1>7. CASE SendBeginning
    <2>1. PICK line \in SplitLines : \E k \in 1..(Len(line) - 1) : partial' = Prefix(line, k)
      BY <1>7 DEF SendBeginning
    <2>2. PICK k \in 1..(Len(line) - 1) : partial' = Prefix(line, k) BY <2>1
    <2>3. partial' \in Sentences /\ partial' \in Pieces BY <2>2, Cuts
    <2>4. partial = <<>> /\ waiting' = waiting BY <1>0, <1>7 DEF SendBeginning
    <2>5. partial \o partial' = partial' BY <2>3, <2>4, ConcatEmptySeq DEF Sentences
    <2>6. PendingCurrent' = Service!Extend(PendingCurrent, partial')
      BY <1>1, <1>3, <2>3, <2>4, <2>5, LinesNow, Zenon
    <2>7. PendingLines' = PendingLines BY <1>1, <2>4, LinesNow, Zenon
    <2> QED BY <1>2, <2>3, <2>6, <2>7, Zenon DEF Service!Arrive
  <1> QED BY <1>5, <1>6, <1>7 DEF Terminal

\* Disabling loses what has been read of the oldest line, and nothing else.
LEMMA DisableImplements ==
    ASSUME Inv, EnableSerialControl(FALSE)
    PROVE  Service!Cut \/ Service!Rest
  <1>0. /\ waiting \in Seq(Sentences) /\ inputOverflow \in BOOLEAN
        /\ partial \in Sentences /\ inputLine \in Sentences
    BY DEF Inv, UartHoldsWords, TypeOK
  <1>1. /\ inputLine' = <<>> /\ inputOverflow' = FALSE
        /\ waiting' = waiting /\ partial' = partial /\ did' = Nothing
    BY DEF EnableSerialControl, ClearInput, uartVars
  <1>2. did'.line = <<>> /\ Begun' = FALSE BY <1>1 DEF Nothing, Did, Begun
  <1>3. CASE ~Begun
    <2>1. inputLine = <<>> /\ inputOverflow = FALSE BY <1>0, <1>3 DEF Begun
    <2>2. PendingLines' = PendingLines /\ PendingCurrent' = PendingCurrent
      BY <1>1, <2>1, LinesNow, Zenon
    <2>3. Begun = FALSE BY <1>3, Zenon DEF Begun
    <2> QED BY <1>2, <2>2, <2>3, Zenon DEF Service!Rest
  <1>4. CASE Begun /\ waiting = <<>>
    <2>1. LinesOf(waiting, inputLine, inputOverflow) \in Seq(Taken)
          /\ Len(LinesOf(waiting, inputLine, inputOverflow)) = 0
          /\ LinesOf(waiting, <<>>, FALSE) \in Seq(Taken)
          /\ Len(LinesOf(waiting, <<>>, FALSE)) = 0
      BY <1>0, <1>4, LinesType, EmptySentence
    <2>2. PendingLines = <<>> /\ PendingLines' = <<>>
      BY <1>1, <2>1, LinesNow, EmptySeq
    <2> QED BY <1>2, <1>4, <2>2, Zenon DEF Service!Cut
  <1>5. CASE Begun /\ waiting # <<>>
    <2>1. /\ PendingLines # <<>> /\ Tail(PendingLines) = Tail(PendingLines')
      BY <1>0, <1>1, <1>5, LinesTaken, LinesNow, EmptySentence, Zenon
    <2>2. Len(PendingLines') = Len(PendingLines)
      <3>1. Len(LinesOf(waiting, inputLine, inputOverflow)) = Len(waiting)
        BY <1>0, LinesType, Zenon
      <3>2. Len(LinesOf(waiting, <<>>, FALSE)) = Len(waiting)
        BY <1>0, LinesType, EmptySentence, Zenon
      <3> QED BY <1>1, <3>1, <3>2, LinesNow, Zenon
    <2>3. PendingCurrent' = PendingCurrent BY <1>1, <1>5, LinesNow, Zenon DEF CurrentOf
    <2> QED BY <1>2, <1>5, <2>1, <2>2, <2>3, Zenon DEF Service!Cut
  <1> QED BY <1>3, <1>4, <1>5

\* processSerialControl and its overflow flag implement LineService.
THEOREM Implementation == Spec => ImplementsLines
  <1>1. Init => Service!Init
    <2> SUFFICES ASSUME Init PROVE Service!Init OBVIOUS
    <2>1. waiting = <<>> /\ partial = <<>> /\ inputLine = <<>> /\ inputOverflow = FALSE /\ did = Nothing
      BY DEF Init
    <2>2. LinesOf(<<>>, <<>>, FALSE) = <<>>
      <3>1. LinesOf(<<>>, <<>>, FALSE) \in Seq(Taken) /\ Len(LinesOf(<<>>, <<>>, FALSE)) = 0
        BY LinesType, EmptySentence
      <3> QED BY <3>1, EmptySeq
    <2>3. FillOf(<<>>, FALSE, <<>>) = <<>> BY FillIsTaken, EmptySentence, Zenon
    <2>4. PendingLines = <<>> /\ PendingCurrent = <<>>
      BY <2>1, <2>2, <2>3, LinesNow, Zenon DEF CurrentOf
    <2>5. Begun = FALSE /\ did.line = <<>> BY <2>1 DEF Begun, Nothing, Did
    <2> QED BY <2>4, <2>5, Zenon DEF Service!Init
  <1>2. Inv /\ [Next]_vars
          => [\/ Service!Arrive \/ Service!Read \/ Service!Take \/ Service!Cut \/ Service!Rest]_(Service!vars)
    <2> SUFFICES ASSUME Inv, [Next]_vars
                 PROVE  \/ Service!Arrive \/ Service!Read \/ Service!Take \/ Service!Cut
                        \/ Service!Rest \/ UNCHANGED Service!vars
      BY Zenon
    <2>1. CASE UNCHANGED <<inputLine, inputOverflow, waiting, partial>> /\ did' = Nothing
      <3>1. PendingLines' = PendingLines /\ PendingCurrent' = PendingCurrent /\ Begun' = Begun
        BY <2>1, LinesNow, Zenon DEF Begun
      <3>2. did'.line = <<>> BY <2>1 DEF Nothing, Did
      <3> QED BY <3>1, <3>2, Zenon DEF Service!Rest
    <2>2. ASSUME NEW enabled \in BOOLEAN, EnableSerialControl(enabled), enabled
          PROVE  UNCHANGED <<inputLine, inputOverflow, waiting, partial>> /\ did' = Nothing
      BY <2>2 DEF EnableSerialControl, uartVars
    <2>3. CASE Configure \/ Tick BY <2>1, <2>3 DEF Configure, Tick, uartVars, readerVars
    <2>4. CASE UNCHANGED vars
      <3>1. UNCHANGED <<inputLine, inputOverflow, waiting, partial, did>>
        BY <2>4 DEF vars, uartVars, readerVars
      <3>2. PendingLines' = PendingLines /\ PendingCurrent' = PendingCurrent /\ Begun' = Begun
        BY <3>1, LinesNow, Zenon DEF Begun
      <3> QED BY <3>1, <3>2, Zenon DEF Service!vars
    <2>5. ASSUME NEW enabled \in BOOLEAN, EnableSerialControl(enabled)
          PROVE  Service!Cut \/ Service!Rest \/ (UNCHANGED <<inputLine, inputOverflow, waiting, partial>> /\ did' = Nothing)
      <3>1. enabled \/ enabled = FALSE BY <2>5
      <3> QED BY <2>2, <2>5, <3>1, DisableImplements, Zenon
    <2>6. CASE SketchStep BY <2>1, <2>3, <2>5, <2>6, Zenon DEF SketchStep
    <2> QED BY <2>3, <2>4, <2>6, ReaderImplements, TerminalImplements, Zenon DEF Next
  <1> QED BY <1>1, <1>2, Invariance, PTL DEF Spec, ImplementsLines, Service!Spec

----------------------------------------------------------------------------
(* The answers.                                                            *)

\* AnswerTellsOutcome of one answer.
Tells(a) ==
    /\ a.op \notin {"none", "scanOn", "scanOff", "setAutoReconnect", "clearReconnectCache"}
         => (a.reply = "ok") = a.done
    /\ a.reply \notin {"ok", "none"} => ~a.done
    /\ a.reply = "rejected" => a.op \in {"startDiscovery", "stopDiscovery"}

LEMMA AnswerTells ==
    ASSUME NEW reply, reply # "rejected"
    PROVE  Tells(Answer(reply))
  BY DEF Tells, Answer

\* The argument checks answer by themselves or hand the outcome on.
LEMMA ChecksTell ==
    ASSUME NEW line, NEW i, NEW Valid, NEW t, NEW outcome, Tells(outcome)
    PROVE  /\ Tells(Needs(line, i, Valid, outcome)) /\ Tells(MayHave(line, i, Valid, outcome))
           /\ Tells(WhenConnected(t, outcome))
  BY AnswerTells DEF Needs, MayHave, WhenConnected

\* An operation with a result tells it, if it is refused for a cause that holds.
LEMMA AskTells ==
    ASSUME NEW op, NEW t, NEW reason, reason \notin {"ok", "none"},
           Accepts(op, t) \in BOOLEAN,
           ~Accepts(op, t) /\ reason = "rejected" => op \in {"startDiscovery", "stopDiscovery"}
    PROVE  Tells(Ask(op, t, reason))
  BY DEF Tells, Ask

\* An operation without one always answers ok.
LEMMA TellTells ==
    ASSUME NEW op \in {"scanOn", "scanOff", "setAutoReconnect", "clearReconnectCache"}, NEW t
    PROVE  Tells(Tell(op, t))
  BY DEF Tells, Tell

LEMMA Reasons ==
    ASSUME NEW t \in Targets
    PROVE  /\ WiimoteReason(t) \notin {"ok", "none"} /\ DisconnectReason(t) \notin {"ok", "none"}
           /\ DiscoveryStartReason(t) \notin {"ok", "none"} /\ DiscoveryStopReason(t) \notin {"ok", "none"}
           /\ WiimoteReason(t) = "rejected" => t.connected /\ t.handle
           /\ DisconnectReason(t) = "rejected" => t.started /\ t.connected /\ t.handle
           /\ t.connected => t.inited
  BY DEF Targets, WiimoteReason, DisconnectReason, DiscoveryStartReason, DiscoveryStopReason

\* What the device accepts, operation by operation.
LEMMA Acceptance ==
    ASSUME NEW t \in Targets
    PROVE  /\ \A op \in {"setLeds", "setReportingMode", "requestStatus"} :
                Accepts(op, t) = (t.connected /\ t.handle)
           /\ Accepts("disconnect", t) = (t.inited /\ t.connected /\ t.handle)
           /\ Accepts("startDiscovery", t) \in BOOLEAN /\ Accepts("stopDiscovery", t) \in BOOLEAN
           /\ Accepts("restartWifi", t) \in BOOLEAN
           /\ \A op \in {"setAccelerometer", "setWifiControl", "setWifiMode", "setWifiNetwork"} :
                Accepts(op, t)
  BY DEF Accepts, Targets

LEMMA HandleTells ==
    ASSUME NEW line, NEW t \in Targets
    PROVE  Tells(Handle(line, t))
  <1>1. Tells(HandleLed(line, t)) /\ Tells(HandleRequestStatus(line, t)) /\ Tells(HandleMode(line, t))
    <2>1. \A op \in {"setLeds", "setReportingMode", "requestStatus"} : Tells(Ask(op, t, WiimoteReason(t)))
      BY AskTells, Reasons, Acceptance
    <2> QED BY <2>1, ChecksTell, Zenon DEF HandleLed, HandleRequestStatus, HandleMode
  <1>2. Tells(HandleDisconnect(line, t))
    <2>1. Tells(Ask("disconnect", t, DisconnectReason(t))) BY AskTells, Reasons, Acceptance
    <2> QED BY <2>1, ChecksTell, Zenon DEF HandleDisconnect
  <1>3. Tells(HandleDiscover(line, t))
    <2>1. Tells(Ask("startDiscovery", t, DiscoveryStartReason(t)))
          /\ Tells(Ask("stopDiscovery", t, DiscoveryStopReason(t)))
      BY AskTells, Reasons, Acceptance
    <2> QED BY <2>1, AnswerTells DEF HandleDiscover
  <1>4. /\ Tells(HandleAccel(line, t)) /\ Tells(HandleWifiControl(line, t))
        /\ Tells(HandleWifiMode(line, t)) /\ Tells(HandleWifiSetNetwork(line, t))
    <2>1. \A op \in {"setAccelerometer", "setWifiControl", "setWifiMode", "setWifiNetwork"} :
            \A reason : reason \notin {"ok", "none"} => Tells(Ask(op, t, reason))
      BY AskTells, Acceptance
    <2>2. Tells(Ask("setAccelerometer", t, WiimoteReason(t))) BY <2>1, Reasons
    <2>3. \A op \in {"setWifiControl", "setWifiMode", "setWifiNetwork"} : Tells(Ask(op, t, "rejected"))
      BY <2>1
    <2>4. Tells(HandleAccel(line, t)) /\ Tells(HandleWifiControl(line, t)) /\ Tells(HandleWifiMode(line, t))
      BY <2>2, <2>3, ChecksTell DEF HandleAccel, HandleWifiControl, HandleWifiMode
    <2>5. Tells(HandleWifiSetNetwork(line, t)) BY <2>3, AnswerTells DEF HandleWifiSetNetwork
    <2> QED BY <2>4, <2>5
  <1>5. Tells(HandleWifiRestart(line, t)) BY AskTells, Acceptance DEF HandleWifiRestart
  <1>6. Tells(HandleScan(line, t)) /\ Tells(HandleReconnect(line, t))
    <2>1. /\ Tells(Tell("scanOn", t)) /\ Tells(Tell("scanOff", t))
          /\ Tells(Tell("setAutoReconnect", t)) /\ Tells(Tell("clearReconnectCache", t))
      BY TellTells
    <2>2. Tells(Tell(IF line[3] = "on" THEN "scanOn" ELSE "scanOff", t))
          /\ Tells(Tell(IF line[3] = "clear" THEN "clearReconnectCache" ELSE "setAutoReconnect", t))
      BY <2>1
    <2> QED BY <2>2, ChecksTell, Zenon DEF HandleScan, HandleReconnect
  <1>7. Tells(HandleWifiSetToken(line, t)) /\ Tells(Answer("ok")) /\ Tells(Answer("unknown_command"))
    BY AnswerTells DEF HandleWifiSetToken
  <1>8. CASE line[2] \in Verbs
    BY <1>1, <1>2, <1>3, <1>4, <1>5, <1>6, <1>7, <1>8 DEF Handle, Verbs
  <1>9. CASE line[2] \notin Verbs
    <2>1. Handle(line, t) = Answer("unknown_command") BY <1>9 DEF Handle, Verbs
    <2> QED BY <1>7, <2>1
  <1> QED BY <1>8, <1>9

LEMMA CommandTells ==
    ASSUME NEW line, CommandLine(line)
    PROVE  Tells(did')
  <1>0. ASSUME NEW a, Tells(a), did' = Did(line, a) PROVE Tells(did')
    <2>1. did'.reply = a.reply /\ did'.op = a.op /\ did'.done = a.done BY <1>0, Zenon DEF Did
    <2> QED BY <1>0, <2>1, Zenon DEF Tells
  <1>1. ASSUME NEW reply, reply # "rejected", did' = Did(line, Answer(reply)) PROVE Tells(did')
    BY <1>0, <1>1, AnswerTells, Zenon
  <1>2. ASSUME Dispatch(line) PROVE Tells(did')
    <2>1. CASE HandleUnlock(line)
      <3>1. UnlockReply(line) # "rejected" BY DEF UnlockReply
      <3> QED BY <1>1, <2>1, <3>1, Zenon DEF HandleUnlock
    <2>2. CASE ~HandleUnlock(line)
      <3>1. PICK t \in Targets :
              did' = Did(line, IF Len(line) < 2 THEN Answer("unknown_command")
                               ELSE IF line[2] = "wifi-status" THEN Answer("wifi")
                               ELSE IF Locked(line) THEN Answer("locked")
                               ELSE Handle(line, t))
        BY <1>2, <2>2 DEF Dispatch
      <3>2. Tells(Answer("unknown_command")) /\ Tells(Answer("wifi")) /\ Tells(Answer("locked"))
        BY AnswerTells
      <3> QED BY <1>0, <3>1, <3>2, HandleTells, Zenon
    <2> QED BY <2>1, <2>2
  <1>3. "line_too_long" # "rejected" /\ "none" # "rejected" /\ "too_many_tokens" # "rejected"
    OBVIOUS
  <1> QED BY <1>1, <1>2, <1>3, Zenon DEF CommandLine, Silent

\* ok means done, and any other answer means that nothing was done.
THEOREM AnswersTellOutcome == Spec => []AnswerTellsOutcome
  <1>0. Tells(Nothing)
    <2>1. Nothing.op = "none" /\ Nothing.reply = "none" /\ Nothing.done = FALSE
      BY Zenon DEF Nothing, Did, Silent, Answer
    <2> QED BY <2>1 DEF Tells
  <1>1. Init => AnswerTellsOutcome
    BY <1>0, Zenon DEF Init, AnswerTellsOutcome, Tells
  <1>2. AnswerTellsOutcome /\ [Next]_vars => AnswerTellsOutcome'
    <2> SUFFICES ASSUME AnswerTellsOutcome, [Next]_vars PROVE AnswerTellsOutcome'
      OBVIOUS
    <2>1. CASE UNCHANGED vars BY <2>1, Zenon DEF vars, AnswerTellsOutcome
    <2>2. CASE Next
      <3>1. Tells(did') BY <1>0, <2>2, OtherStepsTakeNothing, CommandTells, Zenon
      <3> QED BY <3>1, Zenon DEF Tells, AnswerTellsOutcome
    <2> QED BY <2>1, <2>2
  <1> QED BY <1>1, <1>2, PTL DEF Spec

=============================================================================
