SPECIFICATION Spec
CONSTANTS
    Lines <- MCLines
    SplitLines <- MCSplitLines
    MaxWaiting = 1
    MaxLine = 6
    MaxTokens = 5
    RequireUnlock = TRUE
    ClockSpan = 3
    DefaultWindow = 2
INVARIANTS
    TypeOK
    AnswerTellsOutcome
PROPERTIES
    PrivilegedOnlyInWindow
    DisableLocks
    ImplementsLines
