CONSTANTS
    Events = {e1}
    Tasks = {t1, t2}
    u1 = u1
    Users = {u1}
    OwnerOf <- OneOwner
    MayFail <- StepOfEachKind
    ResolveMayFail = FALSE
    Anonymous = Anonymous
    NoKey = NoKey
    NoEvent = NoEvent
    NoTask = NoTask
SPECIFICATION LiveSpec
INVARIANT OutcomeExplained
PROPERTY EventuallySettled
