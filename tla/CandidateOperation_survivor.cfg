CONSTANTS
    o1 = o1
    o2 = o2
    ann = ann
    anne = anne
    anna = anna
    Ops = {o1, o2}
    Entities = {ann, anne, anna}
    ResourceOf <- TwoResources
    Matches <- MatchesThree
    Limits = {1, 10}
    DefaultLimit = 10
    Tasks = {t1, t2}
    Requests <- RequestsChain
    Others = {"select_existing", "create_new"}
    NoEntity = NoEntity
    NoTask = NoTask
SYMMETRY Interchangeable
SPECIFICATION Spec
INVARIANT MergesHaveASurvivor
