CONSTANTS
    r1 = r1
    r2 = r2
    r3 = r3
    r4 = r4
    None = None
    Requests <- FourRequests
    Modes <- Main
    MaxKeyAttempts = 2
SYMMETRY Interchangeable
SPECIFICATION Spec
INVARIANTS
    SignedByPublishedKey
    AnswersAreTrue
    EveryRequestProceeds
PROPERTIES
    ConditionalUpdateIsExact
    SerialSteps
CHECK_DEADLOCK FALSE
