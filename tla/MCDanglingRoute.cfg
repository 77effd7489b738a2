\* A disabled server that is synchronized away and enabled again.
SPECIFICATION Spec

CONSTANTS
    None         = None
    Default      = Default
    Callers      = {c1}
    BoundKeys    = {}
    Versions     = {v1}
    Secrets      = {s1}
    Instances    = {i1, i2, i3, i4}
    Attempts     = {t1, t2}
    Reconnects   = {}
    Services     = {x1, x2, x3, x4, x5, x6, x7}
    MaxStarts    = 1
    MaxTries     = 4
    MaxLifecycle = 0
    MaxRequests  = 4
    MayPanic     = FALSE
    MayDrop      = FALSE
    Kinds        <- DanglingEvents

INVARIANTS
    NoDemandPanics
