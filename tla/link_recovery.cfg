SPECIFICATION FairSpec
CONSTANTS
    NoDevice = NoDevice
    NoHandle = NoHandle
    Devices = {w1}
    Wiimotes = {w1}
    Handles = {h1}
    MaxScanned = 1
    MaxTable = 1
    UseAccelerometer = TRUE
    Commands = {"disconnect", "setAutoReconnect"}
    Faults = {"loss", "page", "name"}
    MaxTx = 2
    MaxRx = 2
PROPERTIES
    KeepsSearching
    FailureIsAnswered
CHECK_DEADLOCK FALSE
