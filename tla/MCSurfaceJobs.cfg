\* Nothing gets lost between the catalog and a surface, or between a surface and its consumer.
SPECIFICATION Spec

CONSTANTS
    None        = None
    Consumers   = {c1}
    Servers     = {s1, s2}
    Workers     = {w1, w2}
    Kinds       = {"save", "rollback", "revoke"}
    MaxRevision = 2
    MaxSaves    = 1
    MaxFaults   = 1

SYMMETRY Symmetry

INVARIANTS
    TypeOK
    NoLostChange
    AnnouncedInOrder

PROPERTIES
    LeaseIsRespected
