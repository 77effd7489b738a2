\* A consumer catches up with the catalog and hears of every publication, through supersedes and a crash.
SPECIFICATION FairSpec

CONSTANTS
    None        = None
    Consumers   = {c1}
    Servers     = {s1}
    Workers     = {w1, w2}
    Kinds       = {"revoke"}
    MaxRevision = 3
    MaxSaves    = 1
    MaxFaults   = 1

PROPERTIES
    ImplementsPromise
