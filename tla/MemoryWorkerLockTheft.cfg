SPECIFICATION FairSpec
CONSTANTS
    a = a
    b = b
    c = c
    r = r
    Nobody = Nobody
    Worker = {a, b, c}
    Repairer = {r}
    HostOf <- TwoHosts
    MayCrash = {a}
    MayStall = {c}
    MaxIterations = 1
    MaxFaults = 0
INVARIANTS
    NothingIsLeftBehind
PROPERTIES
    OrphanIsReclaimed
