SPECIFICATION FairSpec
CONSTANTS
    UseAccelerometer = TRUE
    SketchModes = {"0x30"}
    AckLengths = {6}
    MaxTraffic = 2
PROPERTIES
    NunchukIsDetected
