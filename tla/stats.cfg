SPECIFICATION Spec
CONSTANTS
    NULL = NULL
    p1 = p1
    p2 = p2
    p3 = p3
    Fids = {1, 2}
    Callers = {p1, p2}
    Calls = 3
    CTR_MOD = 3
INVARIANTS
    TypeOK
    CountedOnce
    DuplicatesRaced
    TableRecent
SYMMETRY Symmetric
CHECK_DEADLOCK FALSE
