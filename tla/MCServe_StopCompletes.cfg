CONSTANTS
    Conns = {c1}
    NULL = NULL
    LISTENER = LISTENER
    Backlog = 1
    page = page
    Paths <- MCPaths
    Index = page
    Arrivals <- FewArrivals
SPECIFICATION Spec
PROPERTY
    StopCompletes
CHECK_DEADLOCK FALSE
