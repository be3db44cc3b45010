CONSTANTS
    NoTodo = NoTodo
    OfTodos <- TodoParameters
    OfLinks <- LinkParameters
    OfPromises <- PromiseParameters
    OfReminders <- ReminderParameters
    OfBriefs <- BriefParameters
    OfTokens <- TokenParameters
    OfCalls <- CallParameters
    OfLimits <- LimitParameters
SPECIFICATION Spec
INVARIANTS
    TypeOK RemindersAreLimited TokensRenew CallsAreExhaustive LimitHolds
PROPERTIES
    TwinsAreReplaced ReplacedIsOutranked OneRowPerPair EncountersAddUp
    SharedAreAttended AnalysisKeepsAnswers NotesAreKept
CHECK_DEADLOCK FALSE
