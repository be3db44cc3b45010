CONSTANTS
    e1 = e1
    e2 = e2
    Events = {e1, e2}
    Kind <- KindOf
    Mentions <- MentionsOf
    Names <- PeopleNames
    Surname <- SurnameOf
    Family <- NoFamily
    Inside <- InsidePairs
    Alike <- AlikePairs
    Fuzzy <- FuzzyScores
    AutoMerge = 80
    Confirm = 70
    MaxRows = 3
    MaxRuns <- RunsOf
    Requests = {"merge", "confirm", "delete", "delete_event"}
    NoSurname = NoSurname
    NoFact = NoFact
    NoEvent = NoEvent
    NoRun = NoRun
SPECIFICATION Spec
INVARIANTS TypeOK TwinsOverlapped
PROPERTIES KnownPeopleAreFound RunKeepsWhatItRead LookalikesAreAsked
CHECK_DEADLOCK FALSE
