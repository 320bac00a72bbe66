CONSTANTS
    r1 = r1
    r2 = r2
    r3 = r3
    i1 = i1
    None = None
    Requests <- ThreeRequests
    Items <- OneItem
    Expectations = {0, 1}
    MaxAttempts = 2
    Faulty = TRUE
SYMMETRY InterchangeableRequests
SPECIFICATION Spec
INVARIANTS
    StateIsReplay
    TrueAnswers
PROPERTIES
    ImplementsAtomicLog
CHECK_DEADLOCK FALSE
