\* Two requests, each way to end a Get, and every fault of a level.
SPECIFICATION Spec
CONSTANTS
    Requests = {r1, r2}
    Keys = {k1}
    Depth = 2
    Ops = {"Get", "Set", "Delete"}
    Configs <- AllBuilds
    MaxVersion = 1
    LevelFaults = TRUE
    LoaderFaults = FALSE
    None = None
SYMMETRY Symmetry
INVARIANTS
    TypeOK
    AnswersTrue
    FreshAfterDelete
    LevelsAgree
    LoaderWaived
    WriteBackBeforeReturn
PROPERTIES
    AnswerKept
    LoaderIsFlight
