CONSTANTS
    Conns = {c1, c2, c3, c4}
    NULL = NULL
    LISTENER = LISTENER
    Backlog = 3
SPECIFICATION Spec
SYMMETRY Symmetry
INVARIANTS
    TypeOK
    SocketOwnership
    ListenerOutlivesThread
    UnloadedIsClean
    StopLetsOneThrough
