SPECIFICATION Spec
CONSTANTS
    Requests <- MCRequests
    FirstRequests <- MCFirstRequests
    Contexts <- MCContexts
    QueueCapacity = 2
    MaxFields = 2
    MaxBody = 16
INVARIANTS
    PromisedIdsAreFound
    BodyIsObject
PROPERTIES
    AnswerTellsEffect
