SPECIFICATION FairSpec
CONSTANTS
    N = 2
    Kinds <- LiveKinds
    MaxBlocks = 2
    MaxProgress = 1
    MaxWake = 1
    MaxFallbacks = 0
    MaxFaults = 1
    CancelReasons = {"tool_cancel"}
PROPERTIES
    DrainEnds
    RegistryIsReleased
