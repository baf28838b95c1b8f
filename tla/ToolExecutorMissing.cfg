SPECIFICATION Spec
CONSTANTS
    N = 2
    Kinds <- MixedKinds
    MaxBlocks = 1
    MaxProgress = 0
    MaxWake = 1
    MaxFallbacks = 0
    MaxFaults = 1
    CancelReasons = {}
INVARIANTS
    AnsweredOnce
