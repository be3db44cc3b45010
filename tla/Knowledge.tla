------------------------------ MODULE Knowledge ------------------------------
(***************************************************************************)
(* What the program makes of events, and how it asks for it: the todos it  *)
(* generates, associations, promises, reminders and briefs, the gateway's  *)
(* tokens, calls of the language model and rate limits.  Each is checked   *)
(* beside its own environment; here they share no state, so a behaviour of *)
(* one of them, with the others at rest, stands for all: focus names the   *)
(* one that moves.                                                         *)
(***************************************************************************)
EXTENDS Naturals

\* The parameters of the parts: for each a record of the constants of its module.
CONSTANTS OfTodos, OfLinks, OfPromises, OfReminders, OfBriefs, OfTokens, OfCalls, OfLimits

VARIABLES
    focus,
    gen_todo, gen_at, gen_answer, gen_kept, gen_skipped, gen_verdict, gen_runs,
    assoc_status, assoc_traits, assoc_source, assoc_met,
    assoc_marked, assoc_rows, assoc_merges, assoc_at, assoc_event, assoc_who, assoc_pairs,
    assoc_busy, assoc_seen, assoc_runs,
    prom_todo, prom_at, prom_read, prom_found, prom_pc, prom_request,
    prom_row, prom_since, prom_runs, prom_sent,
    rem_now, rem_rows, rem_status, rem_score, rem_pref, rem_log, rem_pc,
    rem_request, rem_seen, rem_scoring, rem_shared, rem_peak, rem_sent,
    brief_brief, brief_done, brief_events, brief_pc, brief_left, brief_todos,
    brief_whom, brief_read, brief_edit, brief_lock, brief_held, brief_won,
    brief_edits,
    token_access, token_due, token_refresh, token_lock, token_call,
    token_renewed, token_revoked,
    model_up, model_redis, model_memory, model_call,
    rate_redis, rate_memory, rate_age, rate_allowed, rate_wait

Generation == INSTANCE TodoGeneration WITH
    Ids <- OfTodos.Ids, Titles <- OfTodos.Titles, Likeness <- OfTodos.Likeness,
    Answers <- OfTodos.Answers,
    Fallbacks <- OfTodos.Fallbacks, Links <- OfTodos.Links,
    MaxRuns <- OfTodos.MaxRuns, NoTodo <- OfTodos.NoTodo,
    todo <- gen_todo, at <- gen_at, answer <- gen_answer, kept <- gen_kept,
    skipped <- gen_skipped, verdict <- gen_verdict, runs <- gen_runs

Link == INSTANCE Associations WITH
    People <- OfLinks.People, Events <- OfLinks.Events, Recent <- OfLinks.Recent,
    Traits <- OfLinks.Traits, Meetings <- OfLinks.Meetings,
    Threshold <- OfLinks.Threshold, MaxRuns <- OfLinks.MaxRuns,
    MaxWork <- OfLinks.MaxWork,
    Investing <- OfLinks.Investing, Startup <- OfLinks.Startup,
    NoEvent <- OfLinks.NoEvent,
    status <- assoc_status, traits <- assoc_traits, source <- assoc_source,
    met <- assoc_met, marked <- assoc_marked,
    rows <- assoc_rows, merges <- assoc_merges, at <- assoc_at, event <- assoc_event, who <- assoc_who,
    pairs <- assoc_pairs, busy <- assoc_busy, seen <- assoc_seen,
    runs <- assoc_runs

Promise == INSTANCE PromiseTracking WITH
    Todos <- OfPromises.Todos, Added <- OfPromises.Added, Type <- OfPromises.Type,
    Says <- OfPromises.Says, EventSays <- OfPromises.EventSays,
    Related <- OfPromises.Related, EventPeople <- OfPromises.EventPeople,
    Clients <- OfPromises.Clients, Asked <- OfPromises.Asked,
    MaxRuns <- OfPromises.MaxRuns, MaxRequests <- OfPromises.MaxRequests,
    Nobody <- OfPromises.Nobody,
    todo <- prom_todo, at <- prom_at, read <- prom_read, found <- prom_found,
    pc <- prom_pc, request <- prom_request, row <- prom_row, since <- prom_since,
    runs <- prom_runs, sent <- prom_sent

Reminder == INSTANCE DailyReminders WITH
    Todos <- OfReminders.Todos, Type <- OfReminders.Type, Role <- OfReminders.Role,
    Person <- OfReminders.Person, Due <- OfReminders.Due,
    Priority <- OfReminders.Priority, EventOf <- OfReminders.EventOf,
    Origin <- OfReminders.Origin, Meetings <- OfReminders.Meetings,
    Made <- OfReminders.Made, Times <- OfReminders.Times,
    Clients <- OfReminders.Clients, Asked <- OfReminders.Asked,
    MaxRequests <- OfReminders.MaxRequests, NoDue <- OfReminders.NoDue,
    NoOne <- OfReminders.NoOne,
    now <- rem_now, rows <- rem_rows, status <- rem_status, score <- rem_score,
    pref <- rem_pref, log <- rem_log, pc <- rem_pc, request <- rem_request,
    seen <- rem_seen, scoring <- rem_scoring, shared <- rem_shared,
    peak <- rem_peak, sent <- rem_sent

Brief == INSTANCE Briefs WITH
    People <- OfBriefs.People, Todos <- OfBriefs.Todos, Type <- OfBriefs.Type,
    Role <- OfBriefs.Role, Overdue <- OfBriefs.Overdue, Links <- OfBriefs.Links,
    Steps <- OfBriefs.Steps, Clients <- OfBriefs.Clients, Notes <- OfBriefs.Notes,
    Aware <- OfBriefs.Aware, MaxEvents <- OfBriefs.MaxEvents,
    MaxEdits <- OfBriefs.MaxEdits, Nobody <- OfBriefs.Nobody,
    brief <- brief_brief, done <- brief_done, events <- brief_events,
    pc <- brief_pc, left <- brief_left, todos <- brief_todos, whom <- brief_whom,
    read <- brief_read, edit <- brief_edit, lock <- brief_lock, held <- brief_held,
    won <- brief_won, edits <- brief_edits

Token == INSTANCE RelayTokens WITH
    Calls <- OfTokens.Calls, MaxRetries <- OfTokens.MaxRetries,
    access <- token_access, due <- token_due, refresh <- token_refresh,
    lock <- token_lock, call <- token_call, renewed <- token_renewed,
    revoked <- token_revoked

Model == INSTANCE ModelCalls WITH
    Callers <- OfCalls.Callers, Prompts <- OfCalls.Prompts,
    MaxRetries <- OfCalls.MaxRetries, FallbackAfter <- OfCalls.FallbackAfter,
    MaxTokens <- OfCalls.MaxTokens, MemorySize <- OfCalls.MemorySize,
    up <- model_up, redis <- model_redis, memory <- model_memory,
    call <- model_call

Rate == INSTANCE RateLimiter WITH
    Limit <- OfLimits.Limit, Window <- OfLimits.Window,
    Requests <- OfLimits.Requests,
    redis <- rate_redis, memory <- rate_memory, age <- rate_age,
    allowed <- rate_allowed, wait <- rate_wait

ASSUME ConstantsOK ==
    /\ Generation!ConstantsOK
    /\ Link!ConstantsOK
    /\ Promise!ConstantsOK
    /\ Reminder!ConstantsOK
    /\ Brief!ConstantsOK
    /\ Token!ConstantsOK
    /\ Model!ConstantsOK
    /\ Rate!ConstantsOK

gen == <<gen_todo, gen_at, gen_answer, gen_kept, gen_skipped, gen_verdict,
    gen_runs>>
assoc == <<assoc_status, assoc_traits, assoc_source, assoc_met,
    assoc_marked, assoc_rows, assoc_merges, assoc_at, assoc_event, assoc_who, assoc_pairs,
    assoc_busy, assoc_seen, assoc_runs>>
prom == <<prom_todo, prom_at, prom_read, prom_found, prom_pc, prom_request,
    prom_row, prom_since, prom_runs, prom_sent>>
rem == <<rem_now, rem_rows, rem_status, rem_score, rem_pref, rem_log, rem_pc,
    rem_request, rem_seen, rem_scoring, rem_shared, rem_peak, rem_sent>>
brief == <<brief_brief, brief_done, brief_events, brief_pc, brief_left,
    brief_todos, brief_whom, brief_read, brief_edit, brief_lock, brief_held,
    brief_won, brief_edits>>
token == <<token_access, token_due, token_refresh, token_lock, token_call,
    token_renewed, token_revoked>>
model == <<model_up, model_redis, model_memory, model_call>>
rate == <<rate_redis, rate_memory, rate_age, rate_allowed, rate_wait>>
vars == <<focus, gen, assoc, prom, rem, brief, token, model, rate>>

\* A part at rest waits in one of its initial states.
Init ==
    /\ focus \in {"gen", "assoc", "prom", "rem", "brief", "token", "model", "rate"}
    /\ Generation!Init
    /\ Link!Init
    /\ Promise!Init
    /\ Reminder!Init
    /\ Brief!Init
    /\ Token!Init
    /\ Model!Init
    /\ Rate!Init
    /\ focus # "model" => model_up /\ model_redis = [p \in OfCalls.Prompts |-> "none"]

Next ==
    \/ /\ focus = "gen" /\ Generation!Next
       /\ UNCHANGED <<focus, assoc, prom, rem, brief, token, model, rate>>
    \/ /\ focus = "assoc" /\ Link!Next
       /\ UNCHANGED <<focus, gen, prom, rem, brief, token, model, rate>>
    \/ /\ focus = "prom" /\ Promise!Next
       /\ UNCHANGED <<focus, gen, assoc, rem, brief, token, model, rate>>
    \/ /\ focus = "rem" /\ Reminder!Next
       /\ UNCHANGED <<focus, gen, assoc, prom, brief, token, model, rate>>
    \/ /\ focus = "brief" /\ Brief!Next
       /\ UNCHANGED <<focus, gen, assoc, prom, rem, token, model, rate>>
    \/ /\ focus = "token" /\ Token!Next
       /\ UNCHANGED <<focus, gen, assoc, prom, rem, brief, model, rate>>
    \/ /\ focus = "model" /\ Model!Next
       /\ UNCHANGED <<focus, gen, assoc, prom, rem, brief, token, rate>>
    \/ /\ focus = "rate" /\ Rate!Next
       /\ UNCHANGED <<focus, gen, assoc, prom, rem, brief, token, model>>

Spec == Init /\ [][Next]_vars

----------------------------------------------------------------------------
(* Properties *)

\* Types of the state of the part that moves.
TypeOK ==
    CASE focus = "gen" -> Generation!TypeOK
      [] focus = "assoc" -> Link!TypeOK
      [] focus = "prom" -> Promise!TypeOK
      [] focus = "rem" -> Reminder!TypeOK
      [] focus = "brief" -> Brief!TypeOK
      [] focus = "token" -> Token!TypeOK
      [] focus = "model" -> Model!TypeOK
      [] focus = "rate" -> Rate!TypeOK

\* Of near-identical todos step 4 leaves beside each other only a new one and
\* those that are no closer to it than the one it replaced (TodoDeduplicator);
\* step 11 suggests nothing twice.
TwinsAreReplaced == Generation!TwinsAreReplaced

\* A stored todo gives way only to a near-identical one of higher rank, and the
\* commit that deletes it inserts a successor.
ReplacedIsOutranked == Generation!ReplacedIsOutranked

\* Two people have one association of a type, whatever merges move.
OneRowPerPair == Link!OneRowPerPair

\* Encounters are added to an association and never lost.
EncountersAddUp == Link!EncountersAddUp

\* The events a row names are events both its people attended, unless a step
\* wrote what it had read before another write.
SharedAreAttended == Link!SharedAreAttended

\* What the user says of a promise while it is analysed is kept.
AnalysisKeepsAnswers == Promise!AnalysisKeepsAnswers

\* No day has more reminders than the threshold, unless two lists were made at
\* once; and the quiet hours are an interval, across midnight as well.
RemindersAreLimited ==
    focus = "rem" => Reminder!ThresholdHolds /\ Reminder!QuietIsAnInterval

\* A note is replaced by another one, or by a writer that had not seen it.
NotesAreKept == Brief!NotesAreKept

\* Calls that find the token due renew it once together, and no caller sees that
\* a token has grown old (_ensure_token, the 401 paths of RelayEndpoints).
TokensRenew == focus = "token" => Token!RenewedOnce /\ Token!ExpiryIsInvisible

\* A model call returns content whatever is cached, and fails only after all its
\* attempts, the fallback model among them (LLMClient._call_with_retry).
CallsAreExhaustive == focus = "model" => Model!CallsAreExhaustive

\* No window lets more than the limit through, per store, and whoever waits as
\* the memory window tells him is let through (RateLimiter.is_allowed).
LimitHolds == focus = "rate" => Rate!LimitHolds
=============================================================================
