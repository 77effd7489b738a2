\* One validation session: opened, listed, called, closed, expired, authorized anew and dropped.
SPECIFICATION Spec

CONSTANTS
    None          = None
    Requests      = {r1, r2, r3}
    Services      = {x1, x2, x3}
    MaxGeneration = 2

SYMMETRY Symmetry

INVARIANTS
    TypeOK
    NothingLeaks
    ReservationsAreOwned
    ClosingIsUnderWay
    AttemptsAreHeld

PROPERTIES
    OvertakenAttemptsAreMute
    ReplacementsSurvive
