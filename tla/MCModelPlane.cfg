\* Writers, consumers, listings and historical reads.
CONSTANTS
    s1 = s1
    s2 = s2
    a = a
    b = b
    None = None
    r1 = r1
    r2 = r2
    Slots <- TwoSlots
    Ids = {1, 2}
    Docs <- TwoDocs
    Replicas <- TwoReplicas
    Limit = 1
    FoldPageSize = 2
    MaxPolls = 2
    MaxRevision = 9
    MaxLog = 6
    Modes <- Main
SPECIFICATION FairSpec
CHECK_DEADLOCK FALSE
INVARIANTS
    AnswersAreTrue
    ConsumerSeesLog
    FoldIsHistory
PROPERTIES
    EveryoneProceeds
