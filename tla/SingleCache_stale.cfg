\* Logical expiry with a loader.
SPECIFICATION HangingSpec
CONSTANTS
    Requests = {r1, r2}
    Keys = {k1}
    Ops = {"Get", "Set"}
    FeatureSets = {{"singleflight", "logicExpire", "logicLoader"}}
    MaxVersion = 0
    StoreFaults = FALSE
    LoaderFaults = FALSE
    None = None
PROPERTIES
    StaleAnsweredAtOnce
