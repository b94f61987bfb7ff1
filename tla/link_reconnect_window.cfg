SPECIFICATION Spec
CONSTANTS
    NoDevice = NoDevice
    NoHandle = NoHandle
    Devices = {w1}
    Wiimotes = {w1}
    Handles = {h1}
    MaxScanned = 1
    MaxTable = 1
    UseAccelerometer = TRUE
    Commands = {}
    Faults = {"loss"}
    MaxTx = 1
    MaxRx = 1
PROPERTIES
    LossOpensFastReconnect
CHECK_DEADLOCK FALSE
