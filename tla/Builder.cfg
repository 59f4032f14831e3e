\* Every sequence of a few options and two calls of Build.
SPECIFICATION Spec
CONSTANTS
    MaxCalls = 4
    MaxBuilds = 2
INVARIANTS
    TypeOK
    DurationsAccepted
PROPERTIES
    StagesInOrder
    NothingDropped
