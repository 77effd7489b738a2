\* Two readers of a server against invalidations, a reset, failed loads and dropped requests.
SPECIFICATION Spec

CONSTANTS
    None        = None
    Readers     = {r1, r2}
    Writers     = {w1}
    Servers     = {s1}
    Flights     = {f1, f2}
    Capacity    = 1
    MaxRevision = 3
    MaxResets   = 1
    MaxFailures = 1

SYMMETRY Symmetry

INVARIANTS
    TypeOK
    ResetForgets
    FreshAfterInvalidation
    SingleFlight
