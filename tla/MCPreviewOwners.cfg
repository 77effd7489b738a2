\* Previews and demands of one subject, with rotated secrets, reloads, closed services and dropped requests.
SPECIFICATION Spec

CONSTANTS
    None         = None
    Keys         = {k1}
    ServerKey    = k1
    Prints       = {f1, f2}
    Previews     = {p1, p2}
    Demands      = {d1, d2}
    Starts       = {t1, t2, t3}
    MaxRequests  = 3
    MaxRotations = 1
    MaxFaults    = 1
    MaxDrops     = 1

SYMMETRY Symmetry

\* The requests are bounded.
CHECK_DEADLOCK FALSE

INVARIANTS
    TypeOK
    OnePlace
    NothingLeaks
    AttemptsAreUnderWay
    OwnersAreCollected
    DiscoversOwnLaunch


    
