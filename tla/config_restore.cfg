SPECIFICATION Spec
CONSTANTS
    Ttls = {0}
    LedMasks = {0}
    Modes = {"core"}
    DefaultLed = 0
    DefaultMode = "core"
    Faults = {"power"}
    MaxFaults = 1
INVARIANTS
    PolicyRestored
