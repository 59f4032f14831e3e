\* Writes to two levels, both of which may fail.
SPECIFICATION Spec
CONSTANTS
    Requests = {r1, r2}
    Keys = {k1}
    Depth = 2
    Ops = {"Set", "Delete"}
    Configs <- DefaultBuild
    MaxVersion = 0
    LevelFaults = TRUE
    LoaderFaults = FALSE
    None = None
INVARIANTS
    AllErrorsReturned
