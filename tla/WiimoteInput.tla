---------------------------- MODULE WiimoteInput ----------------------------
(***************************************************************************)
(* The way of an input report to the sketch: the ring of the session core  *)
(* (tinywiimote/protocol/wiimote_reports.cpp), filled by task(), and the   *)
(* parser behind available() (esp32wiimote/data_parser.cpp) with the       *)
(* button and sensor state it keeps.                                       *)
(*                                                                         *)
(* A report is what the parser reads of it: its kind and, where its kind   *)
(* carries them, the core buttons, the Nunchuk's C and Z, the              *)
(* accelerometer and the stick.  Accelerometer and stick are one number    *)
(* each, 0 being their state after a reset.                                *)
(***************************************************************************)
EXTENDS Integers, FiniteSets

CONSTANTS
    Capacity,       \* RECEIVED_DATA_MAX_NUM
    Kinds,          \* the kinds of report the Wiimote sends
    Core,           \* the buttons of the Wiimote itself
    NunchukButtons, \* C and Z
    Tilts, Sticks,  \* values of the accelerometer and of the stick
    FilterChoices,  \* what the sketch may filter
    Threshold       \* nunchukStickThreshold, of a squared distance

Filters == {"Button", "NunchukStick", "Accel"}

ASSUME InputAssumption ==
    /\ Capacity \in Nat \ {0}
    /\ Core \cap NunchukButtons = {}
    /\ Tilts \subseteq Nat /\ Sticks \subseteq Nat
    /\ FilterChoices \subseteq Filters
    /\ Threshold \in Nat \ {0}

VARIABLES
    slots, itemCount, writeIndex, readIndex,    \* WiimoteReports
    buttons, previousButtons,                   \* ButtonStateManager
    accel, nunchuk, previousNunchuk,            \* SensorStateManager
    filter,
    result          \* of the last available()

ringVars == <<slots, itemCount, writeIndex, readIndex>>
stateVars == <<buttons, previousButtons, accel, nunchuk, previousNunchuk>>
vars == <<ringVars, stateVars, filter, result>>

\* 0x20 stands for every report of a kind below 0x30; "short" has fewer than
\* four bytes.
Report(kind, core, cz, tilt, stick) ==
    [kind |-> kind, core |-> core, cz |-> cz, tilt |-> tilt, stick |-> stick]

ButtonKinds == {"0x30", "0x31", "0x32", "0x35"}
AccelKinds == {"0x31", "0x35"}
NunchukKinds == {"0x32", "0x35"}

Reports ==
    {r \in {Report(k, {}, {}, 0, 0) : k \in {"0x20", "short"}}
           \cup {Report("0x30", c, {}, 0, 0) : c \in SUBSET Core}
           \cup {Report("0x31", c, {}, t, 0) : c \in SUBSET Core, t \in Tilts}
           \cup {Report("0x32", c, n, 0, s) : c \in SUBSET Core, n \in SUBSET NunchukButtons, s \in Sticks}
           \cup {Report("0x35", c, n, t, s) :
                   c \in SUBSET Core, n \in SUBSET NunchukButtons, t \in Tilts, s \in Sticks} :
        r.kind \in Kinds}

NoReport == Report("short", {}, {}, 0, 0)

Init ==
    /\ slots = [i \in 0..(Capacity - 1) |-> NoReport]
    /\ itemCount = 0 /\ writeIndex = 0 /\ readIndex = 0
    /\ buttons = {} /\ previousButtons = {}
    /\ accel = 0 /\ nunchuk = 0 /\ previousNunchuk = 0
    /\ filter = {}
    /\ result = 0

----------------------------------------------------------------------------
(* The ring.                                                               *)

\* Mutated form: the index runs off the end of the array.
Next1_NoWrap(i) == i + 1

Next1(i) == (i + 1) % Capacity

\* Mutated form: a full ring takes the report over its oldest one.
Put_Overwrites(r) ==
    /\ slots' = [slots EXCEPT ![writeIndex] = r]
    /\ writeIndex' = Next1(writeIndex)
    /\ itemCount' = IF itemCount = Capacity THEN itemCount ELSE itemCount + 1
    /\ UNCHANGED <<readIndex, stateVars, filter, result>>

\* A report that arrives: a full ring refuses it.
Put(r) ==
    /\ IF itemCount >= Capacity THEN UNCHANGED <<slots, itemCount, writeIndex>>
       ELSE /\ slots' = [slots EXCEPT ![writeIndex] = r]
            /\ writeIndex' = Next1(writeIndex)
            /\ itemCount' = itemCount + 1
    /\ UNCHANGED <<readIndex, stateVars, filter, result>>

\* WiimoteReports::read
Take ==
    /\ readIndex' = Next1(readIndex)
    /\ itemCount' = itemCount - 1
    /\ UNCHANGED <<slots, writeIndex>>

----------------------------------------------------------------------------
(* The parser.  Each flag is computed where the code computes it: that of  *)
(* the buttons before the Nunchuk's own buttons are added.                 *)

CoreOf(r) == IF r.kind \in ButtonKinds THEN r.core ELSE buttons

ButtonChanged(r) == "Button" \notin filter /\ CoreOf(r) # previousButtons

AccelChanged(r) == "Accel" \notin filter /\ r.kind \in AccelKinds \cup NunchukKinds

Distance(r) == (r.stick - previousNunchuk) * (r.stick - previousNunchuk)

\* Mutated form: a move of exactly the threshold is no change.
StickChanged_Strict(r) ==
    /\ "NunchukStick" \notin filter
    /\ r.kind \in NunchukKinds
    /\ Distance(r) > Threshold

StickChanged(r) ==
    /\ "NunchukStick" \notin filter
    /\ r.kind \in NunchukKinds
    /\ Distance(r) >= Threshold

\* Mutated form: the buttons of the Nunchuk stay pressed.
ButtonsOf_Sticky(r) == CoreOf(r) \cup r.cz \cup (buttons \cap NunchukButtons)

ButtonsOf(r) == CoreOf(r) \cup r.cz
AccelOf(r) == IF r.kind \in AccelKinds THEN r.tilt ELSE 0
NunchukOf(r) == IF r.kind \in NunchukKinds THEN r.stick ELSE 0

Changed(r) == ButtonChanged(r) \/ AccelChanged(r) \/ StickChanged(r)

\* Mutated form: what is stored for the next comparison is the state before.
Parse_LatePrevious(r) ==
    /\ buttons' = ButtonsOf(r) /\ previousButtons' = buttons
    /\ accel' = AccelOf(r)
    /\ nunchuk' = NunchukOf(r) /\ previousNunchuk' = nunchuk
    /\ result' = IF Changed(r) THEN 1 ELSE 0

Parse(r) ==
    /\ buttons' = ButtonsOf(r) /\ previousButtons' = buttons'
    /\ accel' = AccelOf(r)
    /\ nunchuk' = NunchukOf(r) /\ previousNunchuk' = nunchuk'
    /\ result' = IF Changed(r) THEN 1 ELSE 0

\* ESP32Wiimote::available: one report at most.
ParseData ==
    /\ IF itemCount = 0 THEN result' = 0 /\ UNCHANGED <<ringVars, stateVars>>
       ELSE /\ Take
            /\ LET r == slots[readIndex] IN
               IF r.kind = "short" THEN result' = 0 /\ UNCHANGED stateVars ELSE Parse(r)
    /\ UNCHANGED filter

AddFilter(f) ==
    /\ filter' = filter \cup {f}
    /\ UNCHANGED <<ringVars, stateVars, result>>

Next ==
    \/ \E r \in Reports : Put(r)
    \/ ParseData
    \/ \E f \in FilterChoices : AddFilter(f)

Spec == Init /\ [][Next]_vars

----------------------------------------------------------------------------
(* Properties.                                                             *)

\* Every variable has its type; the indices stay in the array.
TypeOK ==
    /\ slots \in [0..(Capacity - 1) -> Reports \cup {NoReport}]
    /\ itemCount \in 0..Capacity
    /\ writeIndex \in 0..(Capacity - 1) /\ readIndex \in 0..(Capacity - 1)
    /\ buttons \in SUBSET (Core \cup NunchukButtons)
    /\ previousButtons \in SUBSET (Core \cup NunchukButtons)
    /\ accel \in Tilts \cup {0}
    /\ nunchuk \in Sticks \cup {0} /\ previousNunchuk \in Sticks \cup {0}
    /\ filter \in SUBSET Filters
    /\ result \in {0, 1}

\* The ring is a queue: from readIndex, itemCount slots.
Queue == [i \in 1..itemCount |-> slots[(readIndex + i - 1) % Capacity]]

Fifo == INSTANCE ReportFifo WITH Items <- Reports, Bound <- Capacity, queue <- Queue

\* The ring keeps the order of the reports, repeats none and drops none but a
\* report that finds it full: wiimote_reports.cpp implements ReportFifo.
ImplementsFifo == Fifo!Spec

Newest == slots[IF writeIndex = 0 THEN Capacity - 1 ELSE writeIndex - 1]

\* A sketch that has read everything holds the buttons of the newest report
\* the ring took, the Nunchuk's included: none is left pressed by an earlier
\* report.
CaughtUp ==
    itemCount = 0 /\ Newest.kind \in ButtonKinds => buttons = Newest.core \cup Newest.cz

\* API.md, available(): 0 means no new data.  A read that returns 0 with no
\* filter on the buttons has released nothing and pressed none of the Wiimote's
\* own; it may have pressed C or Z, which are compared one report late, so that
\* no two such reads in a row hide a press.
QuietReadKeepsButtons ==
    [][itemCount' < itemCount /\ result' = 0 /\ "Button" \notin filter
       => buttons' \ NunchukButtons = buttons \/ buttons' = buttons]_vars

\* The same for the stick: unfiltered, it moves unnoticed only to rest (a
\* report without extension resets it) or by less than the threshold.
QuietReadKeepsStick ==
    [][itemCount' < itemCount /\ result' = 0 /\ "NunchukStick" \notin filter
       => nunchuk' = 0 \/ (nunchuk' - nunchuk) * (nunchuk' - nunchuk) < Threshold]_vars

=============================================================================
