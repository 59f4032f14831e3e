\* Two keys and three callers: flights of both keys, and a flight joined while
\* another caller has given up.  Callers are scheduled; the loader may hang.
SPECIFICATION HangingSpec
CONSTANTS
    Requests = {r1, r2, r3}
    Keys = {k1, k2}
    Results = {value, ctxErr}
    CtxErr = ctxErr
    None = None
INVARIANTS
    TypeOK
    LoadsExclusive
    WaitersServed
    CtxErrorHasCause
PROPERTIES
    NoJoinAfterDelivery
    CancelledReturns
    CallersReturn
