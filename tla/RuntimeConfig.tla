---------------------------- MODULE RuntimeConfig ----------------------------
(***************************************************************************)
(* The runtime configuration: the snapshot ESP32Wiimote holds, its five    *)
(* keys in flash (config/runtime_config_store.cpp) and the start that      *)
(* loads or first saves it (ESP32Wiimote::init), with power cuts between   *)
(* any two keys and NVS calls that fail.                                   *)
(***************************************************************************)
EXTENDS Naturals, Sequences

CONSTANTS
    Ttls, LedMasks, Modes,      \* values of the settings
    DefaultLed, DefaultMode,    \* 0 and ReportingMode::CoreButtons
    Faults,                     \* of "power", "write", "read", "erase", "nvs"
    MaxFaults                   \* bound on faults in a behaviour

ASSUME RuntimeConfigAssumption ==
    /\ Ttls # {} /\ DefaultLed \in LedMasks /\ DefaultMode \in Modes
    /\ MaxFaults \in Nat

Keys == {"autoReconnect", "ttl", "led", "mode", "continuous"}

\* Mutated form: the flag is written before its mode.
WriteOrder_FlagFirst == <<"autoReconnect", "ttl", "led", "continuous", "mode">>

\* The order in which writeSnapshot writes the keys.
WriteOrder == <<"autoReconnect", "ttl", "led", "mode", "continuous">>

\* RuntimeConfigSnapshot
Snapshots ==
    [autoReconnect : BOOLEAN, ttl : Ttls, led : LedMasks, mode : Modes, continuous : BOOLEAN]

DefaultSnapshot(ttl) ==
    [autoReconnect |-> FALSE, ttl |-> ttl, led |-> DefaultLed, mode |-> DefaultMode,
     continuous |-> FALSE]

VARIABLES
    nvs,        \* flash: the value of each key
    present,    \* flash: the keys that are there
    phase,      \* where the main task is: off, opening, loading, saving, running
    written,    \* keys the save under way has written
    snapshot,   \* runtimeConfigSnapshot_
    ready,      \* runtimeConfigStoreReady_
    inited,     \* deviceInited, set by the Bluetooth task
    coreAutoReconnect, coreTtl,     \* the session core's copies
    loaded,     \* history: this start found a snapshot
    base,       \* history: what flash held before the last save
    baseKnown,  \* history: all of that could be read
    target,     \* history: the snapshot of the last save
    faults      \* history: faults so far

coreVars == <<inited, coreAutoReconnect, coreTtl>>
flashVars == <<nvs, present>>
saveVars == <<written, base, baseKnown, target>>
vars == <<flashVars, saveVars, phase, snapshot, ready, coreVars, loaded, faults>>

Fault(kind) == kind \in Faults /\ faults < MaxFaults /\ faults' = faults + 1

----------------------------------------------------------------------------
(* Saving, one key at a time.                                              *)

\* RuntimeConfigStore::save begins.
BeginSave(s, known) ==
    /\ phase' = "saving" /\ written' = 0
    /\ target' = s /\ base' = nvs /\ baseKnown' = known

WriteKey ==
    /\ phase = "saving" /\ written < Len(WriteOrder)
    /\ LET key == WriteOrder[written + 1] IN
         nvs' = [nvs EXCEPT ![key] = snapshot[key]] /\ present' = present \cup {key}
    /\ written' = written + 1
    /\ UNCHANGED <<phase, snapshot, ready, coreVars, loaded, base, baseKnown, target, faults>>

Commit ==
    /\ phase = "saving" /\ written = Len(WriteOrder)
    /\ phase' = "running"
    /\ UNCHANGED <<flashVars, saveVars, snapshot, ready, coreVars, loaded, faults>>

\* Mutated form: a failed save is not remembered.
SaveFails_StaysReady ==
    /\ phase = "saving"
    /\ Fault("write")
    /\ phase' = "running"
    /\ UNCHANGED <<flashVars, saveVars, snapshot, ready, coreVars, loaded>>

\* nvs_open, an nvs_set or nvs_commit fails: what is written stays written.
SaveFails ==
    /\ phase = "saving"
    /\ Fault("write")
    /\ phase' = "running" /\ ready' = FALSE
    /\ UNCHANGED <<flashVars, saveVars, snapshot, coreVars, loaded>>

----------------------------------------------------------------------------
(* The start.                                                              *)

\* The constructor, BluetoothController::init and the time to live of the
\* configuration, which a new firmware may have changed.
Boot ==
    /\ phase = "off"
    /\ phase' = "opening"
    /\ \E ttl \in Ttls : snapshot' = DefaultSnapshot(ttl) /\ coreTtl' = ttl
    /\ coreAutoReconnect' = TRUE /\ inited' = FALSE
    /\ ready' = FALSE /\ loaded' = FALSE
    /\ UNCHANGED <<flashVars, saveVars, faults>>

\* ensureNvsReady: a partition it cannot use is erased and opened again; either
\* may fail.
OpenStore ==
    /\ phase = "opening"
    /\ \/ phase' = "loading" /\ ready' = TRUE /\ UNCHANGED <<present, faults>>
       \/ Fault("erase") /\ phase' = "loading" /\ ready' = TRUE /\ present' = {}
       \/ Fault("nvs") /\ phase' = "running" /\ present' \in {present, {}} /\ UNCHANGED ready
    /\ UNCHANGED <<nvs, saveVars, snapshot, coreVars, loaded>>

\* The session core takes the policy only once the Bluetooth task has started it.
LoadFinds ==
    /\ phase = "loading" /\ present = Keys
    /\ snapshot' = nvs /\ coreTtl' = nvs.ttl
    /\ coreAutoReconnect' = IF inited THEN nvs.autoReconnect ELSE coreAutoReconnect
    /\ loaded' = TRUE /\ phase' = "running"
    /\ UNCHANGED <<flashVars, saveVars, ready, inited, faults>>

\* Nothing to load, or a read that fails: the defaults are saved over it.
LoadFails ==
    /\ phase = "loading"
    /\ IF present = Keys THEN Fault("read") ELSE UNCHANGED faults
    /\ BeginSave(snapshot, FALSE)
    /\ UNCHANGED <<flashVars, snapshot, ready, coreVars, loaded>>

\* notifyHostSendAvailable, in the Bluetooth task.
HostSendAvailable ==
    /\ phase # "off" /\ ~inited
    /\ inited' = TRUE
    /\ UNCHANGED <<flashVars, saveVars, phase, snapshot, ready, coreAutoReconnect, coreTtl, loaded, faults>>

PowerCut ==
    /\ phase # "off"
    /\ Fault("power")
    /\ phase' = "off"
    /\ UNCHANGED <<flashVars, saveVars, snapshot, ready, coreVars, loaded>>

----------------------------------------------------------------------------
(* The commands of the sketch, the serial line and the web.                *)

\* persistRuntimeConfigSnapshot
Persist(s) ==
    IF ready THEN BeginSave(s, TRUE) ELSE UNCHANGED <<phase, saveVars>>

\* Accepted, which needs a connected Wiimote.
SetLeds ==
    /\ phase = "running" /\ inited
    /\ \E mask \in LedMasks : snapshot' = [snapshot EXCEPT !.led = mask]
    /\ Persist(snapshot')
    /\ UNCHANGED <<flashVars, ready, coreVars, loaded, faults>>

SetReportingMode ==
    /\ phase = "running" /\ inited
    /\ \E mode \in Modes, continuous \in BOOLEAN :
         snapshot' = [snapshot EXCEPT !.mode = mode, !.continuous = continuous]
    /\ Persist(snapshot')
    /\ UNCHANGED <<flashVars, ready, coreVars, loaded, faults>>

\* Saved whether or not the session core takes it.
SetAutoReconnectEnabled ==
    /\ phase = "running"
    /\ \E enabled \in BOOLEAN :
         /\ snapshot' = [snapshot EXCEPT !.autoReconnect = enabled]
         /\ coreAutoReconnect' = IF inited THEN enabled ELSE coreAutoReconnect
    /\ Persist(snapshot')
    /\ UNCHANGED <<flashVars, ready, inited, coreTtl, loaded, faults>>

----------------------------------------------------------------------------
Init ==
    /\ present = {}
    /\ phase = "off" /\ written = 0
    /\ \E ttl \in Ttls : snapshot = DefaultSnapshot(ttl) /\ coreTtl = ttl
    /\ ready = FALSE
    /\ inited = FALSE /\ coreAutoReconnect = TRUE
    /\ loaded = FALSE
    /\ nvs = snapshot /\ base = nvs /\ baseKnown = FALSE /\ target = snapshot
    /\ faults = 0

Next ==
    \/ Boot \/ OpenStore \/ LoadFinds \/ LoadFails
    \/ WriteKey \/ Commit \/ SaveFails
    \/ SetLeds \/ SetReportingMode \/ SetAutoReconnectEnabled
    \/ HostSendAvailable \/ PowerCut

Spec == Init /\ [][Next]_vars

----------------------------------------------------------------------------
(* Properties.                                                             *)

\* Every variable has its type.
TypeOK ==
    /\ phase \in {"off", "opening", "loading", "saving", "running"}
    /\ written \in 0..Len(WriteOrder)
    /\ nvs \in Snapshots /\ snapshot \in Snapshots /\ base \in Snapshots /\ target \in Snapshots
    /\ present \subseteq Keys
    /\ ready \in BOOLEAN /\ inited \in BOOLEAN /\ loaded \in BOOLEAN /\ baseKnown \in BOOLEAN
    /\ coreAutoReconnect \in BOOLEAN /\ coreTtl \in Ttls
    /\ faults \in 0..MaxFaults

\* Whenever the sketch runs, the time to live in force is that of the snapshot,
\* whichever way the start went; and as long as the store is believed ready,
\* flash holds exactly the snapshot: no command leaves a setting unsaved.
SnapshotHolds ==
    phase = "running" => /\ coreTtl = snapshot.ttl
                         /\ ready => present = Keys /\ nvs = snapshot

\* Whatever is cut or fails, flash never mixes two settings: it holds what it
\* held before the last save, or what was to be saved, or the new reporting mode
\* with the old continuous flag, or nothing after an erase.  A save of the
\* defaults over what could not be read is the exception.
OnlyModeTears ==
    baseKnown => /\ present \in {{}, Keys}
                 /\ nvs \in {base, target, [target EXCEPT !.continuous = base.continuous]}

\* src/docs/ARCHITECTURE.md:450: "reconnect policy fields are persisted in NVS
\* via RuntimeConfigStore and restored on startup".
PolicyRestored ==
    loaded /\ phase = "running" => coreAutoReconnect = snapshot.autoReconnect

=============================================================================
