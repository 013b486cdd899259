SPECIFICATION FairSpec
CONSTANTS
    NULL = NULL
    mon0 = mon0
    mon1 = mon1
    d1 = d1
    d2 = d2
    d3 = d3
    i1 = i1
    i2 = i2
    w1 = w1
    w2 = w2
    f1 = f1
    f2 = f2
    f3 = f3
    f4 = f4
    Names = {mon0}
    Present = {mon0}
    Short = {}
    Devs = {d1}
    Irqs = {i1}
    Writers = {w1, w2}
    Script <- AddAndRead
    Budget <- Once
    Interruptible = {}
    Frames = {f1, f2}
    Lens = {1}
    KWORK_MAX = 2
    CTR_MOD = 1
    DROP_MOD = 1
    Faults = FALSE
PROPERTIES
    QueuedWorkRuns
    RecvReturns
    CommandReturns
CHECK_DEADLOCK FALSE
