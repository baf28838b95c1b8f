SPECIFICATION FairSpec
CONSTANTS
    N = 2
    Kinds <- SpinKinds
    MaxBlocks = 1
    MaxProgress = 0
    MaxWake = 1
    MaxFallbacks = 0
    MaxFaults = 0
    CancelReasons = {}
PROPERTIES
    DrainEnds
CHECK_DEADLOCK FALSE
