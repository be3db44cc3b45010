CONSTANTS
    o1 = o1
    o2 = o2
    ann = ann
    anne = anne
    anna = anna
    Ops = {o1}
    Entities = {ann, anne}
    ResourceOf <- TwoResources
    Matches <- MatchesTwo
    Limits = {10}
    DefaultLimit = 10
    Tasks = {t1, t2}
    Requests <- RequestsSingle
    Others = {"merge", "confirm", "patch", "delete"}
    NoEntity = NoEntity
    NoTask = NoTask
SYMMETRY Interchangeable
SPECIFICATION Spec
PROPERTY ConfirmationMerges
\* With both rows deleted no request is left.
CHECK_DEADLOCK FALSE
