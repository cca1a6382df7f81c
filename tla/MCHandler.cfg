CONSTANTS
    Conns = {c1}
    NULL = NULL
    index = index
    page = page
    Paths <- MCPaths
    Index = index
    Arrivals <- AllArrivals
SPECIFICATION HSpec
INVARIANTS
    HTypeOK
    NothingHeldBetweenConnections
    BadFreeOnlyWithoutSeparator
    AnswerFitsRequest
    OneResponse
CHECK_DEADLOCK FALSE
PROPERTY HandlerAdvances
