CONSTANTS
    r1 = r1
    r2 = r2
    r3 = r3
    r4 = r4
    None = None
    Requests <- FourRequests
    Modes <- Activation
    MaxKeyAttempts = 3
SPECIFICATION Spec
PROPERTIES
    LifecycleRespected
CHECK_DEADLOCK FALSE
