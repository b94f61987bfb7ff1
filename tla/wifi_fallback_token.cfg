SPECIFICATION Spec
CONSTANTS
    Configurations <- FallbackConfigurations
    Sources = {"sketch", "web"}
    Faults = {}
INVARIANTS
    TokenInForceIsAccepted
