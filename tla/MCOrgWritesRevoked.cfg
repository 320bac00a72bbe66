CONSTANTS
    r1 = r1
    r2 = r2
    r3 = r3
    r4 = r4
    None = None
    Requests <- FourRequests
    Modes <- Revocation
    MaxKeyAttempts = 3
SPECIFICATION Spec
PROPERTIES
    RevokedForever
CHECK_DEADLOCK FALSE
