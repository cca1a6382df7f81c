CONSTANTS
    Conns = {c1}
    NULL = NULL
    index = index
    page = page
    Paths <- MCPaths
    Index = index
    Arrivals <- AllArrivals
SPECIFICATION HSpec
INVARIANT
    TargetIsOfThisMessage
CHECK_DEADLOCK FALSE
