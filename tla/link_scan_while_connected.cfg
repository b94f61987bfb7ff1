SPECIFICATION Spec
CONSTANTS
    NoDevice = NoDevice
    NoHandle = NoHandle
    Devices = {w1}
    Wiimotes = {w1}
    Handles = {h1}
    MaxScanned = 1
    MaxTable = 1
    UseAccelerometer = TRUE
    Commands = {"setScanEnabled"}
    Faults = {}
    MaxTx = 1
    MaxRx = 1
PROPERTIES
    ScanKeepsConnection
CHECK_DEADLOCK FALSE
