CONSTANTS
    Conns = {c1, c2}
    NULL = NULL
    LISTENER = LISTENER
    Backlog = 2
    page = page
    Paths <- MCPaths
    Index = page
    Arrivals <- MCArrivals
SPECIFICATION Spec
INVARIANTS
    TypeOK
    ThreadReleasesWhatItAccepts
    OnlyTargetsSurvive
    NoBadFree
    StaleTargetIsAllocated
    UnloadedIsClean
    LostPortIsNotServed
    ClientsInOrder
CHECK_DEADLOCK FALSE
PROPERTIES
    ServesUnlessLost
    StopComesNearer
    StopCompletesOrSpins
    WaitingEnds
