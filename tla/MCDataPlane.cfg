\* The proxy and the axum layer with two concurrent requests, and the key
\* cache with two concurrent lookups.
CONSTANTS
    None = None
    Bucket <- MCBucket
    IsResourceId <- MCIsId
    IsId <- MCIsId
    MaxDrift = 2
    Slots = {s1, s2}
    Configs <- MCConfigs
    Requests <- MCRequests
    Now = 6
    PublishedKeys <- MCPublished
    Memberships <- MCMemberships
    Records <- MCRecords
    UpstreamReplies <- MCReplies
    Lookups = {s1, s2}
    Answered = {s1}
    KeySets <- MCKeySets
    CacheTtl = 1
    MaxFlight = 1
    MaxClock = 3
    MaxCalls = 3
    Names = {"member", "admin", "owner"}
    Deployments = {"dynamo", "memory", "openDynamo", "openMemory"}
    CpSlots = {s1}
    CpRequests <- MCCpRequests
    MemberRows <- MCMemberRows
    Malformed = Malformed
    CpUsers = {"alice"}
    CpOrgs = {"o1", "o2"}
    OrgKeyPem <- MCOrgKeyPem
    CpJwt <- MCCpJwt
    Modes = {"http", "jwks", "cp"}
SPECIFICATION Spec
INVARIANTS
    ForwardsAreDecided
    DecisionsAreReportedOnce
    AppSeesTheCaller
    FlagsAreExplained
    AnswersAllowTheirOrigin
    KeyAnswersAreTrue
    HandlersRunAsGranted
PROPERTIES
    LookupsAreIndependent
