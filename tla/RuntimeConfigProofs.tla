------------------------- MODULE RuntimeConfigProofs -------------------------
(***************************************************************************)
(* Proofs about RuntimeConfig, for every set of values of the settings and *)
(* every number of faults.                                                 *)
(***************************************************************************)
EXTENDS RuntimeConfig, TLAPS

LEMMA Defaults == ASSUME NEW ttl \in Ttls PROVE DefaultSnapshot(ttl) \in Snapshots
  BY RuntimeConfigAssumption DEF DefaultSnapshot, Snapshots

LEMMA FiveKeys == Len(WriteOrder) = 5
  BY DEF WriteOrder

LEMMA KeyOrder ==
    /\ WriteOrder[1] = "autoReconnect" /\ WriteOrder[2] = "ttl" /\ WriteOrder[3] = "led"
    /\ WriteOrder[4] = "mode" /\ WriteOrder[5] = "continuous"
  BY DEF WriteOrder

\* Which setting a step of a save writes.
LEMMA WriteByKey ==
    ASSUME nvs \in Snapshots, snapshot \in Snapshots, written \in 0..5, WriteKey
    PROVE  \/ written = 0 /\ nvs' = [nvs EXCEPT !.autoReconnect = snapshot.autoReconnect]
                /\ present' = present \cup {"autoReconnect"}
           \/ written = 1 /\ nvs' = [nvs EXCEPT !.ttl = snapshot.ttl]
                /\ present' = present \cup {"ttl"}
           \/ written = 2 /\ nvs' = [nvs EXCEPT !.led = snapshot.led]
                /\ present' = present \cup {"led"}
           \/ written = 3 /\ nvs' = [nvs EXCEPT !.mode = snapshot.mode]
                /\ present' = present \cup {"mode"}
           \/ written = 4 /\ nvs' = [nvs EXCEPT !.continuous = snapshot.continuous]
                /\ present' = present \cup {"continuous"}
  <1>1. written \in {0, 1, 2, 3, 4} BY FiveKeys DEF WriteKey
  <1>2. /\ nvs' = [nvs EXCEPT ![WriteOrder[written + 1]] = snapshot[WriteOrder[written + 1]]]
        /\ present' = present \cup {WriteOrder[written + 1]}
    BY DEF WriteKey
  <1>3. CASE written = 0
    <2>1. WriteOrder[written + 1] = "autoReconnect" BY <1>3, KeyOrder
    <2> QED BY <1>2, <1>3, <2>1, Zenon
  <1>4. CASE written = 1
    <2>1. WriteOrder[written + 1] = "ttl" BY <1>4, KeyOrder
    <2> QED BY <1>2, <1>4, <2>1, Zenon
  <1>5. CASE written = 2
    <2>1. WriteOrder[written + 1] = "led" BY <1>5, KeyOrder
    <2> QED BY <1>2, <1>5, <2>1, Zenon
  <1>6. CASE written = 3
    <2>1. WriteOrder[written + 1] = "mode" BY <1>6, KeyOrder
    <2> QED BY <1>2, <1>6, <2>1, Zenon
  <1>7. CASE written = 4
    <2>1. WriteOrder[written + 1] = "continuous" BY <1>7, KeyOrder
    <2> QED BY <1>2, <1>7, <2>1, Zenon
  <1> QED BY <1>1, <1>3, <1>4, <1>5, <1>6, <1>7

Flags ==
    /\ ready \in BOOLEAN /\ inited \in BOOLEAN /\ loaded \in BOOLEAN /\ baseKnown \in BOOLEAN
    /\ coreAutoReconnect \in BOOLEAN

Values ==
    /\ phase \in {"off", "opening", "loading", "saving", "running"}
    /\ written \in 0..5
    /\ nvs \in Snapshots /\ snapshot \in Snapshots /\ base \in Snapshots /\ target \in Snapshots
    /\ present \subseteq Keys
    /\ coreTtl \in Ttls
    /\ faults \in 0..MaxFaults

LEMMA FlagsAndValues == TypeOK = (Flags /\ Values)
  BY FiveKeys DEF TypeOK, Flags, Values

LEMMA FlagsKept == Values /\ Flags /\ [Next]_vars => Flags'
  <1> SUFFICES ASSUME Values, Flags, [Next]_vars PROVE Flags'
    OBVIOUS
  <1>1. CASE Boot BY <1>1, Zenon DEF Boot, Flags, saveVars, coreVars
  <1>2. CASE OpenStore BY <1>2, Zenon DEF OpenStore, Flags, saveVars, coreVars
  <1>3. CASE LoadFinds
    <2>1. nvs.autoReconnect \in BOOLEAN BY DEF Values, Snapshots
    <2> QED BY <1>3, <2>1, Zenon DEF LoadFinds, Flags, saveVars
  <1>4. CASE LoadFails BY <1>4, Zenon DEF LoadFails, BeginSave, Flags, saveVars, coreVars
  <1>5. CASE WriteKey BY <1>5, Zenon DEF WriteKey, Flags, saveVars, coreVars
  <1>6. CASE Commit BY <1>6, Zenon DEF Commit, Flags, saveVars, coreVars
  <1>7. CASE SaveFails BY <1>7, Zenon DEF SaveFails, Flags, saveVars, coreVars
  <1>8. CASE SetLeds BY <1>8, Zenon DEF SetLeds, Persist, BeginSave, Flags, saveVars, coreVars
  <1>9. CASE SetReportingMode BY <1>9, Zenon DEF SetReportingMode, Persist, BeginSave, Flags, saveVars, coreVars
  <1>10. CASE SetAutoReconnectEnabled BY <1>10, Zenon DEF SetAutoReconnectEnabled, Persist, BeginSave, Flags, saveVars, coreVars
  <1>11. CASE HostSendAvailable BY <1>11, Zenon DEF HostSendAvailable, Flags, saveVars, coreVars
  <1>12. CASE PowerCut BY <1>12, Zenon DEF PowerCut, Flags, saveVars, coreVars
  <1>13. CASE UNCHANGED vars BY <1>13, Zenon DEF vars, Flags, saveVars, coreVars
  <1> QED
    BY <1>1, <1>2, <1>3, <1>4, <1>5, <1>6, <1>7, <1>8, <1>9, <1>10, <1>11, <1>12, <1>13 DEF Next

LEMMA ValuesKept == Values /\ [Next]_vars => Values'
  <1> SUFFICES ASSUME Values, [Next]_vars PROVE Values'
    OBVIOUS
  <1> USE FiveKeys
  <1>1. CASE Boot BY <1>1, Defaults DEF Boot, Values, flashVars, saveVars, coreVars
  <1>2. CASE OpenStore BY <1>2, RuntimeConfigAssumption DEF OpenStore, Fault, Values, flashVars, saveVars, coreVars
  <1>3. CASE LoadFinds BY <1>3 DEF LoadFinds, Values, flashVars, saveVars, coreVars, Snapshots
  <1>4. CASE LoadFails BY <1>4, RuntimeConfigAssumption DEF LoadFails, BeginSave, Fault, Values, flashVars, saveVars, coreVars
  <1>5. CASE WriteKey
    <2>1. nvs' \in Snapshots /\ present' \subseteq Keys
      BY <1>5, WriteByKey DEF Values, Snapshots, Keys
    <2> QED BY <1>5, <2>1 DEF WriteKey, Values, coreVars
  <1>6. CASE Commit BY <1>6 DEF Commit, Values, flashVars, saveVars, coreVars
  <1>7. CASE SaveFails BY <1>7, RuntimeConfigAssumption DEF SaveFails, Fault, Values, flashVars, saveVars, coreVars
  <1>8. CASE SetLeds
    <2>1. snapshot' \in Snapshots BY <1>8 DEF SetLeds, Values, Snapshots
    <2> QED BY <1>8, <2>1 DEF SetLeds, Persist, BeginSave, Values, flashVars, saveVars, coreVars
  <1>9. CASE SetReportingMode
    <2>1. snapshot' \in Snapshots BY <1>9 DEF SetReportingMode, Values, Snapshots
    <2> QED BY <1>9, <2>1 DEF SetReportingMode, Persist, BeginSave, Values, flashVars, saveVars, coreVars
  <1>10. CASE SetAutoReconnectEnabled
    <2>1. snapshot' \in Snapshots BY <1>10 DEF SetAutoReconnectEnabled, Values, Snapshots
    <2> QED BY <1>10, <2>1 DEF SetAutoReconnectEnabled, Persist, BeginSave, Values, flashVars, saveVars, coreVars
  <1>11. CASE HostSendAvailable BY <1>11 DEF HostSendAvailable, Values, flashVars, saveVars, coreVars
  <1>12. CASE PowerCut BY <1>12, RuntimeConfigAssumption DEF PowerCut, Fault, Values, flashVars, saveVars, coreVars
  <1>13. CASE UNCHANGED vars BY <1>13 DEF vars, Values, flashVars, saveVars, coreVars
  <1> QED
    BY <1>1, <1>2, <1>3, <1>4, <1>5, <1>6, <1>7, <1>8, <1>9, <1>10, <1>11, <1>12, <1>13 DEF Next

\* The type invariant: the settings in flash and in memory are always settings.
THEOREM TypeCorrectness == Spec => []TypeOK
  <1>1. Init => Flags
    BY Zenon DEF Init, Flags
  <1>2. Init => Values
    <2> SUFFICES ASSUME Init PROVE Values
      OBVIOUS
    <2>1. snapshot \in Snapshots /\ coreTtl \in Ttls BY Defaults DEF Init
    <2>2. nvs = snapshot /\ base = nvs /\ target = snapshot BY DEF Init
    <2>3. phase = "off" /\ written = 0 /\ present = {} /\ faults = 0 BY DEF Init
    <2> QED BY <2>1, <2>2, <2>3, RuntimeConfigAssumption DEF Values
  <1>3. Init => TypeOK
    BY <1>1, <1>2, FlagsAndValues
  <1>4. TypeOK /\ [Next]_vars => Flags' /\ Values'
    BY FlagsAndValues, FlagsKept, ValuesKept
  <1>5. Flags' /\ Values' => TypeOK'
    BY FiveKeys DEF TypeOK, Flags, Values
  <1> QED BY <1>3, <1>4, <1>5, PTL DEF Spec

----------------------------------------------------------------------------
(* A save under way.                                                       *)

\* What flash holds once n keys of the save are written.
Halfway(n) ==
    [autoReconnect |-> IF n >= 1 THEN target.autoReconnect ELSE base.autoReconnect,
     ttl |-> IF n >= 2 THEN target.ttl ELSE base.ttl,
     led |-> IF n >= 3 THEN target.led ELSE base.led,
     mode |-> IF n >= 4 THEN target.mode ELSE base.mode,
     continuous |-> IF n >= 5 THEN target.continuous ELSE base.continuous]

\* No command changes more than one setting; the reporting mode has two keys.
OneSetting ==
    \/ target = [base EXCEPT !.autoReconnect = target.autoReconnect]
    \/ target = [base EXCEPT !.led = target.led]
    \/ target = [base EXCEPT !.mode = target.mode, !.continuous = target.continuous]

WrittenPresent ==
    /\ written >= 1 => "autoReconnect" \in present
    /\ written >= 2 => "ttl" \in present
    /\ written >= 3 => "led" \in present
    /\ written >= 4 => "mode" \in present
    /\ written >= 5 => "continuous" \in present

SaveHolds ==
    phase = "saving" =>
        /\ ready /\ target = snapshot
        /\ nvs = Halfway(written) /\ WrittenPresent
        /\ baseKnown => OneSetting /\ present = Keys

StartHolds ==
    /\ phase # "off" => coreTtl = snapshot.ttl
    /\ phase = "opening" => ~ready
    /\ phase = "loading" => ready

IInv == StartHolds /\ SaveHolds /\ SnapshotHolds /\ OnlyModeTears

\* A save not begun has written nothing, one at its end everything.
LEMMA HalfwayEnds ==
    ASSUME TypeOK
    PROVE  Halfway(0) = base /\ Halfway(5) = target
  BY DEF TypeOK, Snapshots, Halfway

\* One setting is old or new, the reporting mode apart.
LEMMA HalfwayTears ==
    ASSUME TypeOK, OneSetting, NEW n \in 0..5
    PROVE  Halfway(n) \in {base, target, [target EXCEPT !.continuous = base.continuous]}
  <1> USE DEF TypeOK, Snapshots, Halfway
  <1>1. CASE target = [base EXCEPT !.autoReconnect = target.autoReconnect]
    <2>1. CASE n = 0 BY <2>1, HalfwayEnds
    <2>2. CASE n >= 1
      <3>1. Halfway(n) = target BY <1>1, <2>2
      <3> QED BY <3>1
    <2> QED BY <2>1, <2>2
  <1>2. CASE target = [base EXCEPT !.led = target.led]
    <2>1. CASE n <= 2
      <3>1. Halfway(n) = base BY <1>2, <2>1
      <3> QED BY <3>1
    <2>2. CASE n >= 3
      <3>1. Halfway(n) = target BY <1>2, <2>2
      <3> QED BY <3>1
    <2> QED BY <2>1, <2>2
  <1>3. CASE target = [base EXCEPT !.mode = target.mode, !.continuous = target.continuous]
    <2>0. target.autoReconnect = base.autoReconnect /\ target.ttl = base.ttl /\ target.led = base.led
      BY <1>3
    <2>1. CASE n <= 3
      <3>1. Halfway(n) = base BY <2>0, <2>1
      <3> QED BY <3>1
    <2>2. CASE n = 4
      <3>1. Halfway(n) = [target EXCEPT !.continuous = base.continuous]
        BY <1>3, <2>2
      <3> QED BY <3>1
    <2>3. CASE n = 5 BY <2>3, HalfwayEnds
    <2> QED BY <2>1, <2>2, <2>3
  <1> QED BY <1>1, <1>2, <1>3 DEF OneSetting

\* A save begins with nothing written.
LEMMA SaveBegins ==
    ASSUME TypeOK, TypeOK', ready', nvs' = nvs, present' = present,
           NEW known, BeginSave(snapshot', known), coreTtl' = snapshot'.ttl,
           known => present = Keys /\ OneSetting'
    PROVE  IInv'
  <1>1. /\ phase' = "saving" /\ written' = 0 /\ target' = snapshot' /\ base' = nvs
        /\ baseKnown' = known
    BY DEF BeginSave
  <1>2. Halfway(0)' = base' BY HalfwayEnds, TypeOK' DEF TypeOK, Snapshots, Halfway
  <1>3. nvs' = Halfway(written)' BY <1>1, <1>2 DEF Halfway
  <1>4. SaveHolds' BY <1>1, <1>3 DEF SaveHolds, WrittenPresent
  <1> QED BY <1>1, <1>4 DEF IInv, StartHolds, SnapshotHolds, OnlyModeTears

\* A command's save changes one setting of what flash holds.
LEMMA CommandSaves ==
    ASSUME TypeOK, TypeOK', IInv, phase = "running",
           ready' = ready, coreTtl' = coreTtl, nvs' = nvs, present' = present,
           Persist(snapshot'), snapshot'.ttl = snapshot.ttl,
           \/ snapshot' = [snapshot EXCEPT !.autoReconnect = snapshot'.autoReconnect]
           \/ snapshot' = [snapshot EXCEPT !.led = snapshot'.led]
           \/ snapshot' = [snapshot EXCEPT !.mode = snapshot'.mode,
                                           !.continuous = snapshot'.continuous]
    PROVE  IInv'
  <1>1. coreTtl = snapshot.ttl BY DEF IInv, SnapshotHolds
  <1>2. CASE ready
    <2>1. present = Keys /\ nvs = snapshot BY <1>2 DEF IInv, SnapshotHolds
    <2>2. BeginSave(snapshot', TRUE) BY <1>2 DEF Persist
    <2>3. target' = snapshot' /\ base' = snapshot BY <2>1, <2>2 DEF BeginSave
    <2>4. OneSetting' BY <2>3 DEF OneSetting
    <2> QED BY <1>1, <1>2, <2>1, <2>2, <2>4, SaveBegins
  <1>3. CASE ~ready
    <2>1. UNCHANGED <<phase, saveVars>> BY <1>3 DEF Persist
    <2> QED BY <1>1, <1>3, <2>1 DEF IInv, StartHolds, SaveHolds, SnapshotHolds, OnlyModeTears, saveVars
  <1> QED BY <1>2, <1>3

\* A key more in flash, one step further.
LEMMA WriteGoesOn ==
    ASSUME TypeOK, IInv, WriteKey
    PROVE  SaveHolds'
  <1>1. /\ phase = "saving" /\ UNCHANGED <<phase, snapshot, ready, base, baseKnown, target>>
        /\ written' = written + 1
    BY DEF WriteKey
  <1>2. /\ ready /\ target = snapshot /\ nvs = Halfway(written) /\ WrittenPresent
        /\ baseKnown => OneSetting /\ present = Keys
    BY <1>1 DEF IInv, SaveHolds
  <1>3. written \in 0..5 BY FiveKeys DEF TypeOK
  <1>4. nvs' = Halfway(written)'
    BY <1>1, <1>2, <1>3, WriteByKey DEF Halfway, TypeOK, Snapshots
  <1>5. WrittenPresent' BY <1>1, <1>2, <1>3, WriteByKey DEF WrittenPresent, TypeOK
  <1>6. present = Keys => present' = Keys BY <1>3, WriteByKey DEF TypeOK, Keys
  <1>7. OneSetting => OneSetting' BY <1>1 DEF OneSetting
  <1> QED BY <1>1, <1>2, <1>4, <1>5, <1>6, <1>7 DEF SaveHolds

----------------------------------------------------------------------------
LEMMA Inductive ==
    ASSUME TypeOK, TypeOK', IInv, [Next]_vars
    PROVE  IInv'
  <1> USE DEF IInv
  <1>1. CASE Boot
    <2>1. /\ coreTtl' = snapshot'.ttl /\ phase' = "opening" /\ ~ready'
          /\ UNCHANGED <<nvs, present, base, baseKnown, target>>
      BY <1>1 DEF Boot, DefaultSnapshot, flashVars, saveVars
    <2> QED BY <2>1 DEF StartHolds, SaveHolds, SnapshotHolds, OnlyModeTears
  <1>2. CASE OpenStore
    <2>1. /\ phase = "opening" /\ UNCHANGED <<nvs, snapshot, coreTtl, base, baseKnown, target>>
          /\ present' \in {present, {}}
          /\ \/ phase' = "loading" /\ ready'
             \/ phase' = "running" /\ ready' = ready
      BY <1>2 DEF OpenStore, flashVars, saveVars, coreVars
    <2>2. ~ready \/ phase' = "loading" BY <1>2, <2>1 DEF OpenStore, StartHolds
    <2> QED BY <2>1, <2>2 DEF StartHolds, SaveHolds, SnapshotHolds, OnlyModeTears
  <1>3. CASE LoadFinds
    <2>1. /\ phase' = "running" /\ present = Keys /\ snapshot' = nvs /\ coreTtl' = nvs.ttl
          /\ UNCHANGED <<nvs, present, base, baseKnown, target>>
      BY <1>3 DEF LoadFinds, flashVars, saveVars
    <2> QED BY <2>1 DEF StartHolds, SaveHolds, SnapshotHolds, OnlyModeTears
  <1>4. CASE LoadFails
    <2>1. /\ phase = "loading" /\ ready /\ coreTtl = snapshot.ttl
          /\ UNCHANGED <<nvs, present, snapshot, ready, coreTtl>>
      BY <1>4 DEF LoadFails, StartHolds, flashVars, coreVars
    <2>2. BeginSave(snapshot', FALSE) BY <1>4 DEF LoadFails, BeginSave
    <2> QED BY <2>1, <2>2, SaveBegins
  <1>5. CASE WriteKey
    <2>1. /\ phase = "saving" /\ UNCHANGED <<phase, snapshot, coreTtl, base, baseKnown, target>>
      BY <1>5 DEF WriteKey, coreVars
    <2>2. SaveHolds' BY <1>5, WriteGoesOn
    <2>3. /\ baseKnown' => OneSetting' /\ present' = Keys
          /\ nvs' = Halfway(written)'
      BY <2>1, <2>2 DEF SaveHolds
    <2>4. nvs' = Halfway(written + 1) /\ written + 1 \in 0..5 /\ (OneSetting' => OneSetting)
      BY <1>5, <2>1, <2>3, FiveKeys DEF Halfway, WriteKey, TypeOK, OneSetting
    <2>5. baseKnown' => nvs' \in {base, target, [target EXCEPT !.continuous = base.continuous]}
      BY <2>3, <2>4, HalfwayTears
    <2> QED BY <2>1, <2>2, <2>3, <2>5 DEF StartHolds, SnapshotHolds, OnlyModeTears
  <1>6. CASE Commit
    <2>1. /\ phase = "saving" /\ written = 5 /\ phase' = "running"
          /\ UNCHANGED <<nvs, present, snapshot, ready, coreTtl, base, baseKnown, target>>
      BY <1>6, FiveKeys DEF Commit, flashVars, saveVars, coreVars
    <2>2. nvs = snapshot /\ present = Keys
      <3>1. nvs = Halfway(5) /\ target = snapshot /\ WrittenPresent BY <2>1 DEF SaveHolds
      <3>2. {"autoReconnect", "ttl", "led", "mode", "continuous"} \subseteq present
        BY <2>1, <3>1 DEF WrittenPresent
      <3>3. present = Keys BY <3>2, Zenon DEF TypeOK, Keys
      <3> QED BY <3>1, <3>3, HalfwayEnds
    <2> QED BY <2>1, <2>2 DEF StartHolds, SaveHolds, SnapshotHolds, OnlyModeTears
  <1>7. CASE SaveFails
    <2>1. /\ phase = "saving" /\ phase' = "running" /\ ~ready'
          /\ UNCHANGED <<nvs, present, snapshot, coreTtl, base, baseKnown, target>>
      BY <1>7 DEF SaveFails, flashVars, saveVars, coreVars
    <2> QED BY <2>1 DEF StartHolds, SaveHolds, SnapshotHolds, OnlyModeTears
  <1>8. CASE SetLeds
    <2>1. /\ phase = "running" /\ Persist(snapshot')
          /\ UNCHANGED <<nvs, present, ready, coreTtl>>
          /\ snapshot' = [snapshot EXCEPT !.led = snapshot'.led] /\ snapshot'.ttl = snapshot.ttl
      BY <1>8 DEF SetLeds, flashVars, coreVars, TypeOK, Snapshots
    <2> QED BY <2>1, CommandSaves
  <1>9. CASE SetReportingMode
    <2>1. /\ phase = "running" /\ Persist(snapshot')
          /\ UNCHANGED <<nvs, present, ready, coreTtl>>
          /\ snapshot' = [snapshot EXCEPT !.mode = snapshot'.mode,
                                          !.continuous = snapshot'.continuous]
          /\ snapshot'.ttl = snapshot.ttl
      BY <1>9 DEF SetReportingMode, flashVars, coreVars, TypeOK, Snapshots
    <2> QED BY <2>1, CommandSaves
  <1>10. CASE SetAutoReconnectEnabled
    <2>1. /\ phase = "running" /\ Persist(snapshot')
          /\ UNCHANGED <<nvs, present, ready, coreTtl>>
          /\ snapshot' = [snapshot EXCEPT !.autoReconnect = snapshot'.autoReconnect]
          /\ snapshot'.ttl = snapshot.ttl
      BY <1>10 DEF SetAutoReconnectEnabled, flashVars, TypeOK, Snapshots
    <2> QED BY <2>1, CommandSaves
  <1>11. CASE HostSendAvailable
    BY <1>11 DEF HostSendAvailable, flashVars, saveVars, StartHolds, SaveHolds, SnapshotHolds,
                 OnlyModeTears, WrittenPresent, Halfway, OneSetting
  <1>12. CASE PowerCut
    <2>1. phase' = "off" /\ UNCHANGED <<nvs, present, base, baseKnown, target>>
      BY <1>12 DEF PowerCut, flashVars, saveVars
    <2> QED BY <2>1 DEF StartHolds, SaveHolds, SnapshotHolds, OnlyModeTears
  <1>13. CASE UNCHANGED vars
    BY <1>13 DEF vars, flashVars, saveVars, coreVars, StartHolds, SaveHolds, SnapshotHolds,
                 OnlyModeTears, WrittenPresent, Halfway, OneSetting
  <1> QED
    BY <1>1, <1>2, <1>3, <1>4, <1>5, <1>6, <1>7, <1>8, <1>9, <1>10, <1>11, <1>12, <1>13 DEF Next

LEMMA SettingsHold == Spec => []IInv
  <1>1. Init => IInv
    BY DEF Init, DefaultSnapshot, IInv, StartHolds, SaveHolds, SnapshotHolds, OnlyModeTears
  <1>2. TypeOK /\ TypeOK' /\ IInv /\ [Next]_vars => IInv'
    BY Inductive
  <1> QED BY <1>1, <1>2, TypeCorrectness, PTL DEF Spec

\* The sketch runs on the settings that are in flash, as long as the store is
\* believed ready, whatever failed or was cut before.
THEOREM SnapshotHoldsInvariant == Spec => []SnapshotHolds
  <1>1. IInv => SnapshotHolds BY DEF IInv
  <1> QED BY <1>1, SettingsHold, PTL

\* A cut or a failure tears no setting but the reporting mode.
THEOREM OnlyModeTearsInvariant == Spec => []OnlyModeTears
  <1>1. IInv => OnlyModeTears BY DEF IInv
  <1> QED BY <1>1, SettingsHold, PTL
=============================================================================
