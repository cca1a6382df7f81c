CONSTANTS
    Conns = {c1, c2}
    NULL = NULL
    LISTENER = LISTENER
    Backlog = 2
    page = page
    Paths <- MCPaths
    Index = page
    Arrivals <- FewArrivals
SPECIFICATION Spec
INVARIANTS
    HandlerHoldsSocket
    UnloadedHoldsNothing
CHECK_DEADLOCK FALSE
PROPERTIES
    ImplementsService
    StopComesNearer
    StopCompletesOrSpins
    WaitingEnds
