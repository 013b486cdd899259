SPECIFICATION FairSpec
CONSTANTS
    NULL = NULL
    mon0 = mon0
    mon1 = mon1
    d1 = d1
    d2 = d2
    d3 = d3
    i1 = i1
    i2 = i2
    w1 = w1
    w2 = w2
    f1 = f1
    f2 = f2
    f3 = f3
    f4 = f4
    Names = {mon0}
    Present = {mon0}
    Short = {}
    Devs = {d1}
    Irqs = {i1}
    Writers = {w1, w2}
    Script <- AddAndRead
    Budget <- Once
    Interruptible = {w2}
    Frames = {f1}
    Lens = {1}
    KWORK_MAX = 1
    CTR_MOD = 2
    DROP_MOD = 2
    Faults = FALSE
PROPERTIES
    CommandReturns
CHECK_DEADLOCK FALSE
