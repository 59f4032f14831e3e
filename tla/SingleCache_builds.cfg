\* Every build and every operation, two requests, and every fault.
SPECIFICATION Spec
CONSTANTS
    Requests = {r1, r2}
    Keys = {k1}
    Ops = {"Get", "GetWithTTL", "Set", "Delete", "Clear"}
    FeatureSets <- AllBuilds
    MaxVersion = 1
    StoreFaults = TRUE
    LoaderFaults = TRUE
    None = None
SYMMETRY Symmetry
INVARIANTS
    TypeOK
    AnswersTrue
    FreshAfterInvalidation
PROPERTIES
    AnswerKept
