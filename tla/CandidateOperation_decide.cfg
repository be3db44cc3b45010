CONSTANTS
    o1 = o1
    o2 = o2
    ann = ann
    anne = anne
    anna = anna
    Ops = {o1, o2}
    Entities = {ann, anne}
    ResourceOf <- OneResource
    Matches <- MatchesTwo
    Limits = {10}
    DefaultLimit = 10
    Tasks = {t1, t2}
    Requests <- RequestsOne
    Others = {"select_existing"}
    NoEntity = NoEntity
    NoTask = NoTask
SPECIFICATION LiveSpec
INVARIANT TypeOK OneConfirmationPerEntity
PROPERTY FirstDecisionDecides
PROPERTY EventuallyAnswered
