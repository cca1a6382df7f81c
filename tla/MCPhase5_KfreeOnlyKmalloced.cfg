CONSTANTS
    Conns = {c1, c2}
    NULL = NULL
    LISTENER = LISTENER
    LITERAL = LITERAL
    Backlog = 2
    index = index
    page = page
    Paths <- MCPaths
    Index = index
    Arrivals <- MCArrivals
SPECIFICATION Spec
INVARIANT
    KfreeOnlyKmalloced
CHECK_DEADLOCK FALSE
