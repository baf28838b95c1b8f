SPECIFICATION Spec
CONSTANTS
    a = a
    b = b
    c = c
    r = r
    Nobody = Nobody
    Worker = {a, b, c}
    Repairer = {}
    HostOf <- OneHost
    MayCrash = {}
    MayStall = {a, b, c}
    MaxIterations = 2
    MaxFaults = 2
INVARIANTS
    TypeOK
    MutualExclusion
PROPERTIES
    RefusedByRunning
    OnlyOwnerChanges
