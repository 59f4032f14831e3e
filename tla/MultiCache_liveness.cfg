\* Goroutines are scheduled and loaders return.
SPECIFICATION FairSpec
CONSTANTS
    Requests = {r1, r2}
    Keys = {k1}
    Depth = 2
    Ops = {"Get", "Set", "Clear"}
    Configs <- MergedBuilds
    MaxVersion = 0
    LevelFaults = FALSE
    LoaderFaults = FALSE
    None = None
PROPERTIES
    AllEnd
