SPECIFICATION Spec
CONSTANTS
    NoDevice = NoDevice
    NoHandle = NoHandle
    Devices = {w1, w2}
    Wiimotes = {w1, w2}
    Handles = {h1, h2}
    MaxScanned = 2
    MaxTable = 1
    UseAccelerometer = TRUE
    Commands = {}
    Faults = {}
    MaxTx = 3
    MaxRx = 3
PROPERTIES
    CachesConnectedDevice
CHECK_DEADLOCK FALSE
