SPECIFICATION Spec
CONSTANTS
    NoDevice = NoDevice
    NoHandle = NoHandle
    Devices = {o1, w1}
    Wiimotes = {w1}
    Handles = {h1}
    MaxScanned = 1
    MaxTable = 2
    UseAccelerometer = TRUE
    Commands = {"disconnect", "setAutoReconnect", "clearReconnectCache", "output", "stopDiscovery"}
    Faults = {"status", "page", "name", "l2cap"}
    MaxTx = 3
    MaxRx = 2
INVARIANTS
    SessionIsLive
    ConnectedHasSession
    ChannelsFindRoom
    FallbackAnswersItsPage
CHECK_DEADLOCK FALSE
