SPECIFICATION Spec
CONSTANTS
    NoDevice = NoDevice
    NoHandle = NoHandle
    Devices = {o1, w1}
    Wiimotes = {w1}
    Handles = {h1}
    MaxScanned = 2
    MaxTable = 1
    UseAccelerometer = TRUE
    Commands = {"setScanEnabled", "startDiscovery", "stopDiscovery", "disconnect",
                "setAutoReconnect", "clearReconnectCache", "output"}
    Faults = {"page", "loss", "name"}
    MaxTx = 1
    MaxRx = 2
INVARIANTS
    TypeOK
    OnlyWiimotes
CHECK_DEADLOCK FALSE
