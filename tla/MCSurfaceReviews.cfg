\* Observations, reviews, saves and a rollback of one surface over two capabilities.
SPECIFICATION Spec

CONSTANTS
    Refs            = {r1, r2}
    Versions        = {v1, v2}
    None            = None
    MaxObservations = 3
    MaxSaves        = 1
    MaxRollbacks    = 1
    MaxDecisions    = 1

SYMMETRY Symmetry

\* The steps are bounded, and a job that fails on a mismatch has nowhere to go.
CHECK_DEADLOCK FALSE

INVARIANTS
    TypeOK
    SurfaceIsCurrent
    ReviewsFollowCatalog

PROPERTIES
    PendingIsNotPublished
