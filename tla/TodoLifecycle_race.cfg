CONSTANTS
    Todos = {d1, d2}
    Tasks = {t1, t2}
    Actions = {"completed", "dismissed"}
    JobRuns = TRUE
    NoRequest = NoRequest
SYMMETRY Interchangeable
SPECIFICATION Spec
INVARIANT TypeOK SnoozedIsScheduled
PROPERTY NoSnoozeCutShort
\* With every todo deleted no request is left.
CHECK_DEADLOCK FALSE
