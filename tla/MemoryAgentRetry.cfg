SPECIFICATION Spec
CONSTANTS
    e1 = e1
    e2 = e2
    Event = {e1}
    SessionOf <- OneSession
    Type = {1, 2}
    Llm = {2}
    ScanWindow = 2
    DirtyThreshold = 2
    MaxAttempts = 3
    RetryCap = 4
    MaxFailures = 1
    MaxCrashes = 0
    MaxCliRetries = 0
INVARIANTS
    RetriesAreBounded
