\* Enable events against disables, blocks, updates and deletion, with attempts that may panic.
SPECIFICATION Spec

CONSTANTS
    None         = None
    Default      = Default
    Callers      = {c1, c2}
    BoundKeys    = {}
    Versions     = {v1, v2}
    Secrets      = {s1}
    Instances    = {i1, i2, i3, i4}
    Attempts     = {t1, t2}
    Reconnects   = {}
    Services     = {x1, x2, x3, x4, x5, x6, x7}
    MaxStarts    = 1
    MaxTries     = 3
    MaxLifecycle = 2
    MaxRequests  = 4
    MayPanic     = TRUE
    MayDrop      = FALSE
    Kinds        <- LifecycleEvents

SYMMETRY ValueSymmetry

INVARIANTS
    TypeOK
    DisabledStaysDown

PROPERTIES
    DisableIsFinal
    FreshPublication
    KeepsPromise
