SPECIFICATION Spec
CONSTANTS
    Capacity = 2
    Kinds = {"short", "0x20", "0x31", "0x35"}
    Core = {"A"}
    NunchukButtons = {"C"}
    Tilts = {2}
    Sticks = {0, 1, 3}
    Threshold = 4
    FilterChoices = {"Button", "Accel", "NunchukStick"}
INVARIANTS
    TypeOK
    CaughtUp
PROPERTIES
    ImplementsFifo
    QuietReadKeepsButtons
    QuietReadKeepsStick
