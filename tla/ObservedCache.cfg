\* Three requests: a read that joins another, whose load was begun by a third.
SPECIFICATION ObservedSpec
CONSTANTS
    Requests = {r1, r2, r3}
    Keys = {k1}
    Ops = {"Get", "Delete"}
    FeatureSets <- LoadingBuilds
    MaxVersion = 1
    StoreFaults = FALSE
    LoaderFaults = FALSE
    None = None
SYMMETRY Symmetry
INVARIANTS
    ReadsMerged
    CtxErrorHasCause
    SharedTrue
    LoadsCounted
PROPERTIES
    LoadersAreFlights
    RecordsKept
