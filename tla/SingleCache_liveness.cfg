\* Callers are scheduled; loaders may hang.
SPECIFICATION HangingSpec
CONSTANTS
    Requests = {r1, r2}
    Keys = {k1}
    Ops = {"Get", "Set", "Delete"}
    FeatureSets <- FullBuilds
    MaxVersion = 1
    StoreFaults = FALSE
    LoaderFaults = FALSE
    None = None
PROPERTIES
    AllReturn
    CancelledReturns
