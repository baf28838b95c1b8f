CONSTANTS
    p1 = p1
    p2 = p2
    a = a
    c = c
    Free = Free
    Stale = Stale
    Procs = {p1, p2}
    RunIds = {a, c}
    Keys <- Kx
    Requests <- MCRequests
    Flow <- MCFlow
    MaxReceipts = 2
    MaxRuns = 2
    MaxRev = 4
    MaxFaults = 1
    MaxAnswers = 5

SYMMETRY MCSymmetry
SPECIFICATION Spec
INVARIANTS TypeOK RegistryIsCoherent DispatchedOnce OneAnswer
PROPERTIES SettledStays KeepsTheLedger
CHECK_DEADLOCK FALSE
