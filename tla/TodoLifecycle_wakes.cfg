CONSTANTS
    Todos = {d1}
    Tasks = {t1}
    Actions = {}
    JobRuns = FALSE
    NoRequest = NoRequest
SPECIFICATION LiveSpec
PROPERTY SnoozedWakes
CHECK_DEADLOCK FALSE
