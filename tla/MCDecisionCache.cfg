\* Two proxies share a Redis; three appends share a counter.
CONSTANTS
    r1 = r1
    r2 = r2
    r3 = r3
    p1 = p1
    p2 = p2
    c1 = c1
    c2 = c2
    alice = alice
    acme = acme
    admins = admins
    editors = editors
    None = None
    Instances <- TwoProxies
    Slots <- TwoSlots
    Queries <- ThreeQueries
    Capacity = 1
    TTL = 1
    Second = 2
    Delay = 1
    MaxWrites = 2
    Modes <- Main
SPECIFICATION MCSpec
INVARIANTS
    ServedIsFresh
PROPERTIES
    Settles
    EveryCallReturns
