\* A preview whose request is dropped between the registration of its attempt and the spawn of its task.
SPECIFICATION Spec

CONSTANTS
    None         = None
    Keys         = {k1}
    ServerKey    = k1
    Prints       = {f1, f2}
    Previews     = {p1, p2}
    Demands      = {d1}
    Starts       = {t1, t2, t3, t4}
    MaxRequests  = 3
    MaxRotations = 1
    MaxFaults    = 0
    MaxDrops     = 1

SYMMETRY Symmetry

\* The requests are bounded.
CHECK_DEADLOCK FALSE

INVARIANTS
    NoStrandedPreview
