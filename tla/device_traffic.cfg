SPECIFICATION Spec
CONSTANTS
    NULL = NULL
    mon0 = mon0
    mon1 = mon1
    d1 = d1
    d2 = d2
    d3 = d3
    i1 = i1
    i2 = i2
    w1 = w1
    w2 = w2
    f1 = f1
    f2 = f2
    f3 = f3
    f4 = f4
    Names = {mon0, mon1}
    Present = {mon0, mon1}
    Short = {}
    Devs = {d1, d2}
    Irqs = {i1, i2}
    Writers = {w1, w2}
    Script <- OnlyAdds
    Budget <- Once
    Interruptible = {}
    Frames = {f1, f2, f3}
    Lens = {2}
    KWORK_MAX = 2
    CTR_MOD = 3
    DROP_MOD = 4
    Faults = FALSE
INVARIANTS
    FreelistOK
    FrameOwned
    LeaksAreDrops
    NoWorkLost
    QueueNumbered
PROPERTIES
    HeadersConsecutive
SYMMETRY Symmetric
CHECK_DEADLOCK FALSE
