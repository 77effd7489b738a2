\* Every demand is answered, with attempts superseded and panicking.
SPECIFICATION FairSpec

CONSTANTS
    None         = None
    Default      = Default
    Callers      = {c1, c2, c3}
    BoundKeys    = {}
    Versions     = {v1, v2}
    Secrets      = {s1}
    Instances    = {i1, i2, i3, i4}
    Attempts     = {t1, t2, t3}
    Reconnects   = {}
    Services     = {x1, x2, x3, x4, x5, x6, x7}
    MaxStarts    = 1
    MaxTries     = 4
    MaxLifecycle = 0
    MaxRequests  = 1
    MayPanic     = TRUE
    MayDrop      = FALSE
    Kinds        <- UpdateFaults

INVARIANTS
    NoStrandedWaiter

PROPERTIES
    DemandAnswered
