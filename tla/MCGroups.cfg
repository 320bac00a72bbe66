\* Rough conditions, conditional writers, serial writers.
CONSTANTS
    r1 = r1
    r2 = r2
    r3 = r3
    r4 = r4
    g1 = g1
    g2 = g2
    None = None
    Names <- TwoNames
    Requests <- FourRequests
    Calls <- AllCalls
    Modes <- Main
    MaxInFlight = 2
    MaxOther = 1
SPECIFICATION Spec
CHECK_DEADLOCK FALSE
SYMMETRY Interchangeable
INVARIANTS
    AnswersAreTrue
    CarefulWritesResolve
PROPERTIES
    DeleteSparesUsed
