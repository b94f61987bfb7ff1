SPECIFICATION FairSpec
CONSTANTS
    Blocks = {b1, b2, b3}
    NoBlock = NoBlock
    Packets = {p1, p2}
    NoPacket = NoPacket
    TxQueueSize = 1
    RxQueueSize = 2
    MaxBurst = 2
    Faults = {"start", "memory"}
INVARIANTS
    HeapIsOwned
PROPERTIES
    ImplementsChannel
    Progress
CHECK_DEADLOCK FALSE
