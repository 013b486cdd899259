SPECIFICATION SysSpec
CONSTANTS
    NULL = NULL
    mon0 = mon0
    d1 = d1
    d2 = d2
    i1 = i1
    i2 = i2
    w1 = w1
    w2 = w2
    f1 = f1
    f2 = f2
    f3 = f3
    main = main
    l1 = l1
    l2 = l2
    r1 = r1
    r2 = r2
    c1 = c1
    c2 = c2
    g1 = g1
    g2 = g2
    Rmmod = rmmod
    Names = {mon0}
    Present = {mon0}
    Short = {}
    Devs = {d1}
    Irqs = {i1}
    Writers = {w1, rmmod}
    Script <- DeviceLines
    Budget <- Once
    Interruptible = {}
    Frames = {f1, f2}
    Lens = {1}
    KWORK_MAX = 2
    CTR_MOD = 3
    DROP_MOD = 2
    Faults = FALSE
    Listeners = {l1, l2}
    Rules = {r1}
    Chains = {c1}
    Filters = {g1}
    Ids = {1, 2}
    Endpoints <- Homes
    Garbage = {0}
    OCTET_BITS = 2
    ChainNames = {main}
    UINT_MOD = 2
    Scarce = FALSE
    Users = {w2, rmmod}
    Lines <- Configure
    Orderly = TRUE
INVARIANTS
    WalksSafe
    WalkerAlive
    GoneQuiet
PROPERTIES
    Captures
SYMMETRY Symmetric
CHECK_DEADLOCK FALSE
