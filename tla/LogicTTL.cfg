\* Two processes whose clocks differ, three ways to store, and restarts.
SPECIFICATION Spec
CONSTANTS
    Processes = {p1, p2}
    Deployments <- SomeDeployments
    Half = 8
    Start = 2
    MaxTime = 6
    Skew = 1
    Remote = remote
    None = None
SYMMETRY Symmetry
INVARIANTS
    TypeOK
    ExpiryHonoured
    UnreadableHasCause
PROPERTIES
    KeepsPromise
