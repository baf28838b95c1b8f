SPECIFICATION Spec
CONSTANTS
    N = 3
    Kinds <- SafetyKinds
    MaxBlocks = 2
    MaxProgress = 0
    MaxWake = 1
    MaxFallbacks = 1
    MaxFaults = 0
    CancelReasons = {"tool_cancel", "other"}
INVARIANTS
    TypeOK
    ExclusiveExecution
    QueueIsFifo
    AnsweredOnce
    ListsAreLive
PROPERTIES
    NoStartAfterCancel
    CancelIsContained
