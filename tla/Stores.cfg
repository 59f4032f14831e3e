\* The four adapters, with failures.
SPECIFICATION Spec
CONSTANTS
    Requests = {r1, r2, r3, r4}
    Keys = {k1}
    Adapters = {"ristretto", "freecache", "redis", "valkey"}
    TTLs <- SomeTTLs
    TicksPerSecond = 2
    NearTTL = 1
    BufferSize = 2
    MaxTime = 2
    Faults = TRUE
    None = None
SYMMETRY Symmetry
INVARIANTS
    TypeOK
PROPERTIES
    NoValueOutlivesItsTTL
    RemovedIsGone
    TTLTrue
