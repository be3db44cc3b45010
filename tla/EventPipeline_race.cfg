CONSTANTS
    Events = {e1, e2}
    Tasks = {t1, t2}
    u1 = u1
    Users = {u1}
    OwnerOf <- OneOwner
    MayFail <- OneStep
    ResolveMayFail = TRUE
    Anonymous = Anonymous
    NoKey = NoKey
    NoEvent = NoEvent
    NoTask = NoTask
SYMMETRY Interchangeable
SPECIFICATION Spec
INVARIANT TypeOK NoLostEvent OverlapNeedsAnonymous
