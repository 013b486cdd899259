SPECIFICATION FairSpec
CONSTANTS
    NULL = NULL
    main = main
    side = side
    l1 = l1
    l2 = l2
    l3 = l3
    r1 = r1
    r2 = r2
    r3 = r3
    c1 = c1
    c2 = c2
    g1 = g1
    g2 = g2
    g3 = g3
    g4 = g4
    w1 = w1
    w2 = w2
    t1 = t1
    t2 = t2
    Listeners = {l1}
    Rules = {r1}
    Chains = {c1, c2}
    Filters = {g1, g2}
    Ids = {1, 2, 3}
    Endpoints <- Hosts
    OCTET_BITS = 2
    Garbage = {0, 1}
    Names = {main, side}
    Writers = {w1, w2}
    Script <- Lively
    Threads = {t1, t2}
    Frames = 1
    Lens = {1}
    UINT_MOD = 8
    Scarce = FALSE
PROPERTIES
    FrameDispatched
    CommandReturns
CHECK_DEADLOCK FALSE
