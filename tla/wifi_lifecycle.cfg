SPECIFICATION FairSpec
CONSTANTS
    Configurations <- SomeConfigurations
    Sources = {"sketch", "setup", "serial", "web"}
    Faults = {"join", "bind"}
INVARIANTS
    StageProgress
    RequestKeepsServer
    ReadyIsServing
    ReadyMatchesMode
    FailureIsReported
PROPERTIES
    ImplementsService
    StartSettles
