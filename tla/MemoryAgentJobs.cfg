SPECIFICATION FairSpec
CONSTANTS
    e1 = e1
    e2 = e2
    Event = {e1}
    SessionOf <- OneSession
    Type = {1, 2}
    Llm = {2}
    ScanWindow = 2
    DirtyThreshold = 2
    MaxAttempts = 1
    RetryCap = 2
    MaxFailures = 2
    MaxCrashes = 1
    MaxCliRetries = 1
INVARIANTS
    TypeOK
    ConsumedWasRun
    OneJobPerKey
PROPERTIES
    RunsOnce
    EveryEventIsWorkedOn
    FailedIsSettled
