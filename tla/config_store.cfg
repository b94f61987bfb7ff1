SPECIFICATION Spec
CONSTANTS
    Ttls = {0, 3}
    LedMasks = {0, 1}
    Modes = {"core", "accel"}
    DefaultLed = 0
    DefaultMode = "core"
    Faults = {"power", "write", "read", "erase", "nvs"}
    MaxFaults = 3
INVARIANTS
    SnapshotHolds
    OnlyModeTears
