SPECIFICATION FairSpec
CONSTANTS
    MaxBatchSize = 2
    MaxQueueSize = 1
    FailureLimits <- Limits
    MaxThrows = 2
    MaxMessages = 3
    MaxCalls = 2
INVARIANTS
    TypeOK
    MessagesInPlace
    WriteIsSettled
    BufferIsBounded
PROPERTIES
    DeliversInOrder
    CallersReturn
CHECK_DEADLOCK FALSE
