SPECIFICATION Spec
CONSTANTS
    NoDevice = NoDevice
    NoHandle = NoHandle
    Devices = {w1}
    Wiimotes = {w1}
    Handles = {h1}
    MaxScanned = 1
    MaxTable = 2
    UseAccelerometer = TRUE
    Commands = {}
    Faults = {"loss"}
    MaxTx = 2
    MaxRx = 2
INVARIANTS
    FallbackAnswersItsPage
CHECK_DEADLOCK FALSE
