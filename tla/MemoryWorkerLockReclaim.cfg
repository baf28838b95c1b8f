SPECIFICATION Spec
CONSTANTS
    a = a
    b = b
    c = c
    r = r
    Nobody = Nobody
    Worker = {a, b, c}
    Repairer = {r}
    HostOf <- OneHost
    MayCrash = {a}
    MayStall = {}
    MaxIterations = 1
    MaxFaults = 0
PROPERTIES
    ReclaimsWhatItSaw
