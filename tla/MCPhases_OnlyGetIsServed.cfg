CONSTANTS
    Conns = {c1, c2}
    NULL = NULL
    LISTENER = LISTENER
    Backlog = 2
    page = page
    Paths <- MCPaths
    Index = page
    Arrivals <- MCArrivals
SPECIFICATION Spec
INVARIANT OnlyGetIsServed
CHECK_DEADLOCK FALSE
