SPECIFICATION FairSpec
CONSTANTS
    UseAccelerometer = TRUE
    SketchModes = {"0x30"}
    AckLengths = {6, 8}
    MaxTraffic = 3
INVARIANTS
    TypeOK
    AnswerIsComing
    NunchukModeInForce
PROPERTIES
    DetectionEnds
    PortIsRecognised
