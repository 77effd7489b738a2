\* Requests of two affinities whose futures are dropped, at any of their awaits.
SPECIFICATION Spec

CONSTANTS
    None         = None
    Default      = Default
    Callers      = {c1, c2}
    BoundKeys    = {k1}
    Versions     = {v1, v2}
    Secrets      = {s1}
    Instances    = {i1, i2, i3, i4, i5}
    Attempts     = {t1, t2}
    Reconnects   = {}
    Services     = {x1, x2, x3, x4, x5, x6, x7}
    MaxStarts    = 1
    MaxTries     = 4
    MaxLifecycle = 1
    MaxRequests  = 1
    MayPanic     = FALSE
    MayDrop      = TRUE
    Kinds        <- DroppedFaults

SYMMETRY ValueSymmetry

INVARIANTS
    NoStrandedWaiter
    ServedServiceLive
    AffinityIsolation
