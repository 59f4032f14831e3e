\* The default build: reads are merged and nothing else.
SPECIFICATION Spec
CONSTANTS
    Requests = {r1, r2, r3}
    Keys = {k1}
    Ops = {"Get", "GetWithTTL", "Set"}
    FeatureSets = {{"singleflight"}}
    MaxVersion = 0
    StoreFaults = FALSE
    LoaderFaults = FALSE
    None = None
INVARIANTS
    NoReadPanics
