SPECIFICATION FairSpec
CONSTANTS
    Blocks = {b1, b2, b3, b4}
    NoBlock = NoBlock
    Packets = {p1}
    NoPacket = NoPacket
    TxQueueSize = 2
    RxQueueSize = 2
    MaxBurst = 1
    Faults = {}
PROPERTIES
    TaskReturns
CHECK_DEADLOCK FALSE
