SPECIFICATION FairSpec
CONSTANTS
    MaxCommands = 3
    MaxChains = 2
    MaxCancels = 2
INVARIANTS
    TypeOK
    GuardIsHeld
    OneChainAtATime
    VanishByFailureOnly
    HandledOnce
PROPERTIES
    LeaveInOrder
    WorkIsDone
CHECK_DEADLOCK FALSE
