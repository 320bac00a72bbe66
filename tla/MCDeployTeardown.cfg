CONSTANTS
    None = None
    Modes = {"seed"}
    Lower <- MCLower
    Digits = {"7"}
    Upper = {"U"}
    Segments <- MCSegments
    NativeIds <- MCNativeIds
    Parts <- MCParts
    Addrs = {"addr1", "addr2"}
    LowerCase <- MCLowerCase
    Operators = {o1, o2}
    Files <- MCFiles
    Queries <- MCQueries
    TestFlags <- MCTestFlags
    MaxJobs = 3
    Documents <- MCDocuments
    Overrides <- MCOverrides
    VpFeature = TRUE
    MemRequests = {1, 2, 3}
    MemLoads = {1, 2}
    Seeds = {None, 0}
    Values = {"g1", "g2"}
    CustomAttrNames = {"dept", "name"}
    Schemas <- MCSchemas
    AttrMaps <- MCAttrMaps
    SeedFiles <- MCSeedFiles
    SeedFlags <- MCSeedFlags
    WellFormed <- MCWellFormed
    Alphabet <- MCAlphabet
    DashboardPool = "dashboard"
    PoolsAtFirst <- MCPools
    RowsAtFirst <- MCRows
    MaxRuns = 3
    Configs = {"c1", "c2"}
    OrgNames = {"n1", "n2"}
    GroupConfigs = {"e1", "e2"}
    MaxWrites = 3
    AuditOrgs = {p1}
    EventWriters = {w1, w2}
    AuditKinds = {"OrgUpdated", "GroupPut"}
    MaxEvents = 3
SPECIFICATION Spec
CHECK_DEADLOCK FALSE
INVARIANT TeardownIsRecoverable
