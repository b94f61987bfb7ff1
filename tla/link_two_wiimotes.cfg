SPECIFICATION Spec
CONSTANTS
    NoDevice = NoDevice
    NoHandle = NoHandle
    Devices = {w1, w2}
    Wiimotes = {w1, w2}
    Handles = {h1, h2}
    MaxScanned = 2
    MaxTable = 2
    UseAccelerometer = TRUE
    Commands = {}
    Faults = {}
    MaxTx = 1
    MaxRx = 2
INVARIANTS
    SingleSession
CHECK_DEADLOCK FALSE
