SPECIFICATION StreamSpec
CONSTANTS
    Channels = {input, status}
    Clients = {first, second}
    NoClient = none
    Capacity = 3
    SeqSpan = 6
    MaxEvents = 9
SYMMETRY Symmetry
INVARIANTS
    RingHoldsLatest
    ReplayIsExact
