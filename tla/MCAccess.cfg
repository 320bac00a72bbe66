CONSTANTS
    c1 = c1
    None = None
    Clients = {c1}
    Fgrns <- MCFgrns
    Teams <- MCTeams
    Joiners <- MCJoiners
    Loads <- MCLoads
    Writes <- MCWrites
    Seeds <- MCSeeds
    Queries <- MCQueries
    Snapshot <- MCSnapshot
    Unquotable <- MCUnquotable
    Modes = {"spine", "teams", "store", "walk"}
    MaxRevision = 4
    Names <- RoleNames
    Actions <- Grants
    Inputs <- Arguments
SPECIFICATION AccessSpec
CHECK_DEADLOCK FALSE
INVARIANTS
    SpineIsTree
    WalksAgree
    AnswersReplay
    RecordsAreFounded
    ResultIsRight
