# PromiseLink in TLA+

PromiseLink is a local-first relationship manager: a FastAPI server over one
SQLite file that turns notes about meetings and calls (*events*) into people and
companies (*entities*), *to-dos* and promises, and reminds its user of them. It
runs on the user's computer; a relay connection lets a phone reach it through a
gateway.

This directory specifies its core: the pipeline that processes an event and what
each of its steps makes of it (people, todos, promises, associations, scores,
briefs), the requests that change the same rows meanwhile, and the services
around it (planned events, the relay, pairing, the gateway's tokens, calls of the
language model, rate limits). The interest is in order: requests that interleave
at every `await`, background runs, a lock, a database with one writer, retries,
time-outs and a server that may stop. TLC checks the modules on small instances,
TLAPS proves the theorems listed below for every instance. Paths are relative to
the repository; without a directory, a file of `src/promiselink` is meant.

- [1. The system](#1-the-system)
- [2. Modules](#2-modules)
- [3. Runs](#3-runs)
- [4. Proofs](#4-proofs)
- [5. What the code does against what it says](#5-what-the-code-does-against-what-it-says)
- [6. Not modelled](#6-not-modelled)
- [7. Plan](#7-plan)

## 1. The system

One Python process, one asyncio event loop, one SQLite database in WAL mode.
Concurrency is that of coroutines: two requests of one user (two tabs, the phone
through the relay, a client that retries) interleave at every `await`, and every
database call is one. Sessions run in autocommit until their first write: a
SELECT sees what is committed and holds nothing, an UPDATE names a primary key,
writes the columns that differ from what was read and does not compare them with
what is there. Three things order work: SQLite's single writer, an
`asyncio.Lock` per user (`database.get_pipeline_lock`), and, in one place, a
compare-and-set (`w5_operation_service.claim_operation`).

| Component | State | Operations | What is hard | What makes it correct | Module |
|---|---|---|---|---|---|
| Event requests (`api/v1/events.py`, `event_pipeline_api.py`) | `events` rows, jobs queued in the request | create, upload, batch, retry, accept-degraded, delete | status read, then written without comparison; the job is queued after the commit | an event is never pending or processing with nobody to settle it | EventPipeline |
| Event pipeline (`services/event_pipeline.py`, `services/steps/`) | the run's context, `events.status`, `failed_steps`, the user's lock | thirteen steps and 10b, one transaction each; early stop; catch-all | steps fail in different ways; the row changes between the steps; the owner lookup may fail | one run per user at a time; an outcome that agrees with its reasons; it ends | EventPipeline |
| Extraction and resolution (`steps/step_02_*`, `services/entity_extractor.py`, `entity_resolution.py`) | `entities` rows, the run's indexes and session | extract, compare, ask the model, merge or store | a run decides on people it read before it waited for the writer | a known person is found again; what only resembles is not merged unasked | PersonResolution |
| Todo generation (`steps/step_04_*`, `step_11_*`, `services/todo_generator.py`, `todo_deduplicator.py`) | `todos` rows, the run's candidates | generate, filter, cap, insert, deduplicate, suggest | two measures of likeness; the user moves todos in between | near-identical todos stay beside each other only where the closest one was replaced; a todo goes only for a near-identical one that matters more | TodoGeneration |
| Promises (`steps/step_05_*`, `services/promise_*.py`, `api/v1/promises.py`) | promise columns of `todos` | analyse, correct, confirm, fulfil, draft | a run analyses again over what the user decides meanwhile | what the user has decided during a run survives it | PromiseTracking |
| Associations (`steps/step_10*`, `services/association_*.py`, `entity_merge_service.py`) | `associations`, people's events and marks | discover, accumulate, full scan, mark, merge | merges that cross a run's steps and each other, whole JSON written from old copies | one row per pair and type; the shared events are those both attended | Associations |
| Reminders (`steps/step_07_*`, `services/todo_priority_calculator.py`, `api/v1/reminders.py`) | `reminder_logs`, `todos.status`, scores, preferences | score, list, press, batch, prefer | count, then insert; a batch is one transaction | no more than the fatigue limit is sent | DailyReminders |
| Briefs (`steps/step_12_*`, `services/relationship_brief_service.py`, its API) | `relationship_briefs` rows with a version | update from an event, patch | a JSON column read, awaited on, and written back | the user's notes survive a run | Briefs |
| Candidate operations (`services/w5_operation_service.py`, `correct_event`) | `entity_corrections` rows, tokens, the candidates' digest | issue, verify, claim, merge, reject, replay | two submissions with two decisions, a lost answer, an expired token, an item that fails after others were done | the first decision is final and is what everyone is told; a confirmation has its merge | CandidateOperation |
| Entity endpoints (`api/v1/entities.py`, `services/entity_merge_service.py`) | `entities.status`, `merged_into` | merge, confirm, PATCH, DELETE | no lock; checks and writes in different transactions | merged profiles lead to one that survives | CandidateOperation, Associations |
| Todo lifecycle (`services/todo_state_machine.py`, `api/v1/todos.py`) | `todos.status`, `snooze_schedules` | PATCH, confirm or reject, delete, the recovery job | requests and job decide on what they read earlier; the schedule outlives the status | a snooze has a schedule and is not cut short | TodoLifecycle |
| Planned events (`api/v1/scheduled_events.py`, `main.py`) | `scheduled_events.status`, the link to the event | create, update, record, cancel, delete, the five-minute job | the job writes over what it read before | a recorded row has its event; what has ended stays so; what is due is marked | ScheduledEvents |
| Relay (`services/relay_wss_client.py`) | connection state, token, rejection counter | connect, serve, reconnect, stop | backoff, counted rejections, a stop at any moment | a transient error never ends it, a rejected licence does | RelayLink, RelayState |
| Gateway calls (`services/relay_client.py`) | cached access and refresh token, a lock | JSON, multipart and stream calls | several calls find the token due; one 401 is forgiven | renewed once for all; age is never seen by a caller | RelayTokens |
| Pairing (`api/v1/pair.py`, `pair_page.py`, `core/activation.py`, `main.py`) | code, poller task, licence in `.env`, the relay client | start, poll, activate, restart | page and poller activate the same code | one client, with the stored licence | Pairing |
| Model calls (`services/llm_client.py`, `services/cache_service.py`) | cached answers in Redis or memory | look, ask, escalate, store | empty answers of older versions; Redis comes and goes | content or all attempts made | ModelCalls |
| Rate limiting (`core/rate_limiter.py`, `core/redis.py`) | windows in memory or in Redis | allow | fallback from one to the other | at most the limit per window and store | RateLimiter |
| Database layer (`database.py`) | sessions, locks | `get_async_session`, `commit_with_retry` | what a rollback between two commits takes with it | a normal return means it is written (it does not, section 5) | CommitRetry |
| Server life cycle (`main.py`) | pending tasks, shutdown flag | start, drain, stop | what is cut off | nothing at start-up repairs it, so a stop is a fault | in EventPipeline, CandidateOperation, ScheduledEvents, Pairing |

How they interact. A request hands its event to the pipeline by
`BackgroundTasks`; recording a planned event does the same. A run takes the
user's lock and writes, step by step, rows that the endpoints write too:
corrections wait for that lock, the entity, todo, promise, reminder and brief
endpoints do not. The steps read what earlier steps have stored (step 10 the
people of step 2, steps 5 and 7 the todos of step 4, step 11 the associations of
step 10) and call the model client, which may go through the gateway with the
relay's tokens. The pairing page starts and replaces the relay client; the phone
then reaches the same endpoints through it. PROJECT.json lists every component,
also those without a module and why, and the hazards at the lines where they
bite.

## 2. Modules

Every module follows the same reading of the code. A handler that reads a row
and writes it after an `await` is two actions; what lies between two awaits is
one. A transaction is one action unless another coroutine can see or prevent
part of it. The read is remembered in the request's own variables, and the write
uses what is remembered, as the code does. A failed step, a refused request and
a rolled back transaction are actions too. Definitions marked *Mutant* in a
module are variants of the definition that follows them with one plausible bug;
nothing uses them, they document what each property is sensitive to.

### EventPipeline

The event row, the requests that write it, and the runs that process it.

| Variable | Code |
|---|---|
| `status`, `failedSteps` | `Event.status`, `Event.failed_steps` (`models/event.py`) |
| `pc`, `ev` | where a task is and the event it has; a task is one request and the background jobs Starlette awaits in the same coroutine after the response |
| `queue` | jobs added with `background_tasks.add_task` and not started |
| `key`, `holder` | the owner the run resolved (`event_pipeline.py:139-155`), and the holder of that owner's `asyncio.Lock` |
| `failed`, `verdict` | `ctx.failed_steps` and the status a stopped run wants to leave |
| `faulted` | history: the events that a fault without an answer in the code has hit |

Every pipeline step is an action named after its class, and differs from its
neighbours where the code does: which failures it records, which set
`should_stop`, which exceptions it does not catch, and what it does when its
event has been deleted. Step01 is three actions, because it verifies `pending` in
one transaction, writes `processing` in a second and classifies in a third. The
end of a stopped run is two (`MarkRead`, `MarkWrite`), because the comparison
with `processing` is a SELECT. `MayFail` names the steps whose failures an
instance explores; the proofs hold for any. What a step computes is left out: no
property here depends on it.

Faults are a group of their own: a `refresh` after the commit that raises, LLM
clients that cannot be built, database errors in Step01, Step13 and in the
transaction that marks a stopped run, and a server stop. They are separate from
failing steps since the code has an answer to a failing step and none to these.

### FirstDecision, CandidateOperation

`FirstDecision` is the promise of `w5_operation_service.py:8-13` in two
variables: the decision on each operation and the answers given. It is decided
once, and every answer is that decision.

`CandidateOperation` is what implements it.

| Variable | Code |
|---|---|
| `db` | the committed rows: `Entity.status`, `properties.merged_into`, `EntityCorrection.operation_status`, the selection, and the entities a correction is about (`entity_id`) |
| `work`, `writer` | the rows as the transaction that holds SQLite's write lock sees them, and the request that holds it |
| `digest`, `token` | the candidates a token was signed for; signed, or past its time to live |
| `pc`, `items`, `at` | where a request is, what it submitted, the item it has reached |
| `known` | the status in the ORM objects the request has loaded: a second SELECT of a row returns the object of the first (the identity map), which is why a request can hold a stale `issued` |
| `pair` | the two entities a merge, or the one a confirmation, has checked |
| `holder` | the user's pipeline lock |
| `told` | history: the answers clients have received |

`correct_event` is followed in its two phases. First every item is verified and
nothing written (`Preflight`, `Refuse`); then, under the lock and in one
transaction, each item is replayed, lost to another claim, rejected, or claimed
and merged; a conflict at any item rolls back all of them. Committing and
answering are separate, so that a stop between them is possible. The other
writers of entities run beside it: the merge and confirm endpoints with their
read apart from their write, PATCH, DELETE, and the older corrections
(`select_existing`, `create_new`, `ignore`). `Others` chooses which of them an
instance explores.

Two details matter. A candidate's list may contain tombstones (the query of
`generate_entity_candidates` filters `deleted` only), so a client may select one
and the merge must refuse it. And the digest is drawn with the limit of the
query but recomputed with the default; both are modelled.

The mapping is
`decision[o] = IF db.op[o] \in {"confirmed","rejected"} THEN db.op[o] ELSE "none"`
and `told` as it is.

### TodoLifecycle

| Variable | Code |
|---|---|
| `status` | `Todo.status` |
| `schedule` | the todo's `snooze_schedules` row, and whether its time has come |
| `request` | what each request has read and is about to write |
| `job` | `recover_expired_snoozes`: schedules selected, looked at, todos to wake |

PATCH tests the transition it makes against the status it read; the reminder
page, a rejection and a correction test nothing. The write comes later and
compares nothing. A second snooze needs a second schedule row, and the primary
key is the todo: while the old row is there, that INSERT, and with it the
request, fails. The ORM writes only columns that differ from what was read,
which is why `DirectWrite` of the status already seen changes nothing. The job's
`session.get` may run at any time between its SELECT and its commit; that is a
superset of what the ORM's flushing does. `recover_at` is abstracted to *waiting*
or *due*: the comparison of its text form is not modelled. `JobRuns` says whether
anything calls the job.

### PersonResolution

Step 2 for the events of one user: what a text mentions, the six comparisons in
their order, the question to the model, the write in a savepoint per mention and
the one commit per event.

| Variable | Code |
|---|---|
| `live` | the events that exist |
| `db`, `draft`, `writer` | the committed `entities`, the rows as the writer sees them, the run that holds SQLite's write lock |
| `index`, `seen` | the indexes a run loads once; the identity map of its session |
| `queue`, `choice` | mentions still to resolve, the decision on the one at hand |
| `together` | history: runs that overlapped |

Names are values with a surname; the numeric measures (`difflib`, the fuzzy
score) are constants of the instance, the thresholds and every comparison built
on them are the code's. The user's merge, confirm and delete requests, and the
deletion of an event with its people, run beside it. The pipeline lock is *not*
assumed to separate the runs: a failed owner lookup removes it
(`event_pipeline.py:152`), and `TwinsOverlapped` says what that costs.

### TodoGeneration

Steps 4 and 11: the answers of the prompts, the pre-filter (`_is_duplicate_todo`),
the cap of three by priority, the deduplicator against open rows and within the
batch (the greedy pass is the one set it leaves: `WithinBatch`), the replacement of a
near-identical row that matters less, the failed flush, the suggestions for new
associations, and the user's moves between any two of them. The Jaccard ratio of
two titles is a constant of the instance, `Likeness`, in hundredths: symmetric and
nothing else, since "near" and "similar" are not transitive in the code. Only the
best match of a new todo is compared with it or replaced (`BestMatches`; among
equals the order of the SELECT decides, which has none).

### Associations

| Variable | Code |
|---|---|
| `status`, `traits`, `source`, `met` | a person: status, `properties` by field, `source_event_id`, `event_ids` |
| `marked` | `properties.frequent_contact` |
| `rows` | `associations`: ends, type, `shared_events`, the older single-event evidence, the event |
| `pairs`, `busy`, `seen` | what the steps have read: linked pairs, pairs above the threshold, the JSON of the people |
| `merges` | `merge_entities` under way: which two profiles, and the copies it has read |

Step 2 loads its index (`Begin`) and writes the whole JSON of whom it recognises
from the copies in it (`Record`). Step 10 reads the linked pairs, then discovers
and accumulates; without people in the event it scans all; step 10b counts, loads
and marks, again whole JSON. `merge_entities` reads both profiles (`MergeRead`) and
writes them, and under the write lock the associations, later (`MergeWrite`); it
takes no pipeline lock, so its two halves fall between any two steps of the run and
of other merges. The two SELECTs of the profiles are one step. All eleven rules that can
yield a link are there; what never can in this code (the semantic fallback, the
configured chains) is absent with a comment. Confidence is left out: it decides
between two labels nothing here reads.

### PromiseTracking

Step 5 and what the user does to a promise meanwhile. `Directions` are the rule
table and the type table with their confidences, and the model's answer where
they are not sure; `Mapped` is `_map_entities`. `Written` is the ORM's update of
the columns that differ. `since` remembers the channels by which the user
answered after the run had read.

### DailyReminders

Step 7's score in ten thousandths with its five parts, the daily list with the
preferences, its log, the buttons and the batch, preferences and deletions. A
clock in hours gives urgency and midnight. `shared` records two lists made at
once, `peak` the highest threshold the user has had.

### Briefs, MCBriefs

Step 12 over the people of an event and the user's PATCH. A step holds the write
lock from its first write to its commit; `held` is what it has not committed,
`read` the row a writer will write back. `Strength` and `NextActions` are the
code's formulas. An edit gives notes, concerns or both, also empty ones, which clear
them. `Aware` says whether the database keeps time zones: SQLite does
not, and the rules that compare with the clock are then skipped, as in the code.
`won` lists the versions accepted edits had named.

### ScheduledEvents

`row`, the table; `event`, what each record request has stored and whether its
run is queued; `call` and `job`, what a request or the maintenance job has read
and does next; `stale`, the items written after a change the writer had missed.
Recording is two commits and then the queue, each a step of its own. A server
stop forgets requests, queue and job where they are.

### RelayLink, RelayState

`RelayLink` is the task of `RelayWSSClient`: token, handshake, message loop, one
task per forwarded request, the growing delay, the counter of rejections, the
stop with its five seconds. `RelayState` is what the rest of the program sees of
it: trying, connected, rejected or stopped. The mapping is `loop` and `terminal`
to the four states; `Pairing` uses `RelayState` for every client it starts.

### Pairing

The code and the licence behind it (`code`, `offer`), the licence stored
(`env`), the clients (`client`, `holder`), the page and the poller with what
each has found (`seen`) and the activation that waits for an old client
(`request`). The gateway may accept and reject a licence in turn (`Judge`); a client
that was connected can come back with its `token` for a while. A restart keeps only
`env` and what the gateway knows. `crossed`
records two activations under way at once.

### RelayTokens, ModelCalls, RateLimiter, CommitRetry

`RelayTokens`: calls that share a token, its renewal under a lock by refresh
token first and licence second, the retries of JSON calls, the one 401 each kind
of call forgives. `ModelCalls`: the cache in Redis or memory, the purge of empty
answers, the attempts with the fallback model and the doubled budget.
`RateLimiter`: both windows as sets of requests with their ages; Redis may have
run its pipeline before it fails and memory decides. A request's member of the
Redis set carries the clock's reading (`rate_limiter.py:125`), so two requests
are taken to have two readings. `CommitRetry`: two sessions, a file lock, and
what `rollback` between two attempts takes with it.

### Services, Knowledge, MCKnowledge

`Services` instantiates ScheduledEvents, RelayLink and Pairing, `Knowledge` the
eight modules of derived data and calls. The parts of one of them share no
state in the code either (they meet through rows or tokens that each part's own
environment already changes at any time), so a behaviour in which only one part
moves, with the others at rest in an initial state, stands for all; `focus` names
that part. This keeps the state space the sum and not the product, and a proof
about the whole is one about each part: a step is a step of one part and leaves
the others' variables alone.

Both leave the instance open. `Services` takes the constants of its parts by
name, and its cfg gives them. `Knowledge` takes one record of constants for each
part (`OfLinks`, `OfReminders`, ...), whose fields are what the part's own
CONSTANTS are, and assumes of them what the part's `ConstantsOK` says;
`MCKnowledge` has the records of the run.

## 3. Runs

Each passing run is exhaustive on its instance.

| Run | Instance | Shows |
|---|---|---|
| `pipeline_race` | 2 tasks, 2 events of one user; extraction, owner lookup and every fault may fail | types; no event lost; runs of one user overlap only after a failed owner lookup |
| `pipeline_outcomes` | 2 tasks, 1 event; one failing step of each of five kinds; fair | the outcome agrees with its reasons; an event no fault hits gets one |
| `candidate_decides` | 2 tokens about one entity, 2 requests of one or two items; fair | implements `FirstDecision`; one confirmation per entity; every request ends |
| `candidate_survivor` | 3 entities that match one another, tokens about two of them, limits 1 and 10, `select_existing` and `create_new` | merges under the pipeline lock leave a survivor |
| `candidate_beside_writers` | 1 token, 2 entities, merge, confirm, PATCH, DELETE | a confirmation is committed with its merge, between active entities |
| `todo_schedules` | 2 todos, 2 requests, the recovery job | a snoozed todo has its schedule; no snooze is cut short |
| `people` | 2 events, 5 mentions of similar people, the first event run twice, 3 rows, every request | a known name gets no second row; two active rows of a name come from overlapping runs; a run loses nothing it has read; look-alikes are asked about |
| `services` | planned: 2 items, 3 calls, clock 0..1; relay: 3 rejections, delays 1 to 4, 2 forwards; pairing: 2 licences, 3 clients; fair | a recorded row has its event and a linked one its run; what has ended stays so but for stale writes; what is due is marked; rejections are bounded; a rejected licence comes to rest and a good one is connected again; the loop implements `RelayState`; one client with the stored licence; a matched code is activated |
| `knowledge` | todos: 4 rows, 2 runs, 3 answers, 5 titles; associations: 3 people, 2 events, 3 runs, 4 runs and merges together, threshold 2; promises: 3 todos, 2 runs, 2 requests; reminders: 3 todos, 2 clients, hours 22 and 25, 3 requests; briefs: 2 people, 1 todo, 2 runs, 1 edit; tokens: 2 calls, 3 attempts; model: 2 callers, 2 prompts, 2 attempts, a memory of one; rate: limit 2, window 3, 4 requests | a run leaves near twins only beside one that replaced a closer row, and replaces only what it outranks; one row per pair and type; meetings add up and are those both attended; an analysis undoes no correction; notes are kept; the fatigue limit and the rate limit hold; tokens are renewed once; calls exhaust their attempts |
| `todo_wakes`, `commit_retry`, `brief_conflict` | the smallest instance | a claim of the repository that the code does not keep (section 5) |

Why these bounds are enough. The hazards are races of *two*: of two requests
about one row, of a request and a run, of a run and its successor, of a request
and a job. Two tasks give each of them; a third would be a third copy of the
same code. A second event in `pipeline_race` is what makes two runs of one user
wait for each other and what a batch queues behind the first. Two tokens about
one entity are what a client gets by asking twice. A cycle of merges needs two
entities, a chain three; a link that a merge turns around needs three people.
In `pipeline_outcomes` the five steps are one of each way to fail: retried by the
user, final, recorded, stopping although non-critical, and raising past the step.
In `people` the mentions are one name at two companies, a look-alike in Latin
script and two people of one surname: every step of the comparison decides for
one of them. In `knowledge` four generated todos exceed the cap of three, the
titles include two that are near a third and not near each other, and one that is
similar only to the third; their answers come with both orders of priority. Four
runs and merges of associations are two runs beside two merges that cross, or three
runs beside one. The hours lie on both sides
of a midnight, and the second attempt is the fallback model's. A planned event can
be read by a request, by another and by the job before any of them writes. The
relay's limit of three leaves room for one, two and three rejections between two
connections. The proofs remove the bounds for the properties they cover.

Some properties are about the code only under a condition, and the property or
the instance states it: `OneConfirmationPerEntity` is checked without
`create_new`, PATCH and the confirm endpoint, which can revive a tombstone (the
entity may then rightly be confirmed again); `MergesHaveASurvivor` is checked for
writers under the pipeline lock (the merge endpoint takes none, section 5);
`SnoozedIsScheduled` without snoozing from the reminder page, which writes no
schedule. `RecordsAreSound`, `EndedIsFinal`, `OneRowPerPair`,
`NotesAreKept` name the stale write that is the one exception, `SharedAreAttended`
the four (step 2, discovery, scan and the second of two crossing merges, each from
an outdated copy): they say that nothing *else* breaks the rule. `RemindersAreLimited`
excepts two lists made at once, `LinkIsOfTheLicence` two activations that cross.

Deadlock is checked except where a system may run out of rows or of requests,
whose number is bounded: the todo runs, `candidate_beside_writers`, `people`,
`services`, `knowledge` and the violation runs.

### Fairness

`EventPipeline`: weak fairness of a task's own progress (the event loop resumes
every coroutine whose `await` returns; LLM and database calls have time-outs),
strong fairness of taking the lock (`asyncio.Lock` wakes waiters in order).
Requests and faults are not fair: nobody has to submit, retry or fail.

`CandidateOperation`: the same for a request and the pipeline lock; a write that
cannot get SQLite's write lock gives up after `busy_timeout`, so waiting for it
ends by itself.

`TodoLifecycle`: requests end, time passes, and the recovery is fair *if it
runs*; in `todo_wakes` nothing calls it, as nothing in `src/promiselink` does.

`services`: the maintenance job is a loop created at start-up, so its steps are
weakly fair. Of the relay, timers fire (`Wake`, `Expire`), a stop takes effect
and an awaited local call answers or times out: weak fairness. That an attempt
made again and again is once let through, as a connection or as a rejection, is
an assumption about the network, stated as strong fairness of `Open` and `Deny`;
nothing is assumed of connections that break. Of pairing, the poller's and the
page's timers go on, and a lost answer of the gateway is asked for again (strong
fairness of `PollerLearns`, `PollerActivates`, `PageLearns`; weak fairness of the
rest): the server is not restarted for ever between two rounds of the poller.
The conjuncts carry the `focus` of their part, so a part at rest owes nothing.

## 4. Proofs

Each module of proofs is about the module it extends, and the runs of section 3
check the same properties. The modules are `EventPipelineProofs`,
`CandidateOperationProofs`, `TodoLifecycleProofs`, `ScheduledEventsProofs`,
`ServicesProofs`, `PersonResolutionProofs`, `KnowledgeProofs` (tokens, model
calls, promises, briefs, rate limits, reminders, and the types of all parts) and
`RunProofs` (todos and associations). The last two and `ServicesProofs` are about
the joint modules, so that what they prove is what the run checks. They assume of
the constants what each module's `ConstantsOK` says (owners are users, requests
are sequences of items, the null values are not in the sets they stand outside of,
limits and times are counts).
Four theorems assume one thing more: that certain endpoints which bypass a lock
or the state machine are not called, or that the owner lookup does not fail.
Each names it, and the run that checks the same property has it too.

**No event is lost** (`NothingLost`), **runs of one owner are serial**
(`RunsOfOneOwnerAreSerial`), **types** (`TypeCorrect`). `NoLostEvent` is not
inductive alone: that a run past its mark owns its event means nothing without
knowing that a task at such a place has an event at all and that a run inside
the steps holds the lock of its key. `Shape` says this. Two facts carry the
argument. A run inside the steps leaves them only having settled the row, having
found it settled by someone else, or with the event on the fault record; so the
twenty-odd actions of a run are first shown to be *quiet* (they move the run and
are entitled to), and the invariants are proved once for quiet steps and then
for the few that write rows. And a write of `pending` always comes with a job in
the writer's own queue, which only its own draining empties. Serialisation
follows from `HoldsLock`: two runs inside hold their keys' locks, and a run's
key is its event's owner or nobody.

**Outcomes are explained** (`OutcomesExplained`, as long as the owner lookup does
not fail). What has to be known beside the property is in `Explained`: a row
that is pending carries no reasons, a run that is about to settle its row finds
none in it, a run that stopped has one, and a run that took the lock of nobody has
no event left. Then no two runs have one existing event (`OneRunPerEvent`), so
nobody writes reasons behind the back of a run. With a failing lookup the property
is false: TLC finds two retries of one event that run side by side, the second
to finish completing it over the reasons the first has left.

**The first decision decides** (`Implements`), **answers never differ**
(`AnswersNeverDiffer`). The invariant is `Inv`: the writer's view agrees with the
committed rows on every decided operation (`WriterView`); what a request
remembers of an operation is committed, or is its own and it is the writer
(`Remembers`); a request about to answer knows a decision for each of its items
(`ItemsDecided`). A lost claim reads the winner's decision inside the
transaction, where nobody else can write, so it too is remembered truthfully. A
step that is no response only adds decisions; a response only repeats committed
ones, since a request that answers is no longer the writer.

**A confirmation has its merge** (`ConfirmationsMerge`). Beside `Inv` it needs
`OwnMerges`: what the writer has changed of an entity is to merge it, out of an
active status in the committed rows, and each of its uncommitted confirmations
has its merge in its view. Endpoints that take no lock cannot invalidate it: they
write only when there is no writer.

**One confirmation stands** (`OneConfirmationStands`, under `NoRevival`: no call
of create_new, of the confirm endpoint or of PATCH). The invariant is
`AllConsumed`: a confirmation uses its entity up, in the committed rows and in
the writer's view, so a second one about the same entity finds a tombstone or a
deleted row. The assumption is what the argument needs: each of the three can make
the entity active again.

**Locked merges have a survivor** (`LockedMergesSurvive`, under
`AllMergesLocked`: the merge endpoint and PATCH are not called). Whoever merges
holds the lock, and its target is not a tombstone when it writes
(`LockedPairs`). A group of entities merged into one another that the write
completes contains the source, hence the target; the target is not merged, so it
is the survivor. Without the lock two merges that cross leave two tombstones
(section 5).

**Nobody waits in a circle** (`NoLockLeaks`, `NoCircularWait`). Why requests and
runs end is liveness, which TLC checks; what can be proved is its safe half. A
lock of the pipeline is held by a run inside its steps with that key
(`HeldInside`), the converse of `HoldsLock`: a lock that outlived its run would
satisfy that one. In a correction the pipeline lock is held past the wait for it,
and SQLite's write lock by nobody but the holder (`LocksInOrder`); so whoever has
a lock finds the other free or its own, and waits for no request of this kind.

**No snooze is cut short** (`NoneCutShort`), **types** (`TypeCorrect`), **a
snooze keeps its schedule** (`SnoozesKeepTheirSchedule`). The job deletes
schedules it read some awaits ago, and its writes compare nothing; the reason it
is safe anyway is the primary key of `snooze_schedules`. Every schedule on the
job's list is due, or its todo is gone for good (`JobHolds`), because a new one
cannot be inserted while the old one is there. The last theorem assumes that the
reminder page snoozes nothing: it writes no schedule.

**Recording is sound** (`RecordingIsSound`), **what has ended stays**
(`EndedStays`). The invariant, in `ScheduledEventsProofs`, adds to the three
parts of the property what a request is good for at each place (`CallHolds`: a
row it read as open, an event only after the first commit), that a recorded row
stands (`RecordStands`) and that what the job is about to clean is old
(`CleansOld`), each up to stale writes. A step is `Honest` if it overwrites what
has ended only with a stale write; that all steps but `Clean` are honest is
proved once per action, and the rest follows from it: whoever writes an ended
row had read it open, hence is stale. `Clean` removes what was old when it was
selected, and nothing honest makes an old row younger. `ServicesProofs` takes
all of this over by instantiating that module.

**Rejections stay bounded** (`RejectionsStayBounded`), **the loop implements
RelayState** (`LinkImplementsState`). `RejectionsCount` says that a loop that
runs has not given up and may still be rejected once, that the rejections since
the last connection are among those counted, and that a connected loop has none;
`EndsForAReason` that an ended loop was told to stop or has given up. The
refinement uses that a running loop has no terminal reason, so a stop always maps
to *stopped* and giving up to *rejected*.

**The link stays with the licence** (`LinkStaysWithLicence`), of `Pairing`. As long
as no two activations have crossed, one activation waits at most, for the client
that is held, which it will replace by one with the licence already stored, and
nothing but what is held runs (`OneAtATime`); when none waits, what is held has
the stored licence (`HeldIsStored`). The middle is what is easy to miss: between
the commit of the new licence and the end of the old client the two disagree, and
the property survives only because the waiting activation is the one who knows.

**Twins come from overlapping runs** (`TwinsOverlap`), of `PersonResolution`, and
with it **no event has twins of its own** (`NoTwinsOfOneEvent`). The property is
about committed rows and not inductive. Its strengthening follows a mention from
the comparison to the commit: a run that does not merge it has not seen the name
in its index (`NotKnown`), and whoever has it in the rows by then was stored by a
run beside it (`NotStored`); `TwinsApart` is the property for the rows as the
writer sees them. Around these, a session knows people who are still who they
were when it met them (`SessionHolds`), although names, statuses and aliases are
written by others at any time, and the writer only adds (`DraftExtends`). The
lemma everything rests on is that a person of the mention's name among the
candidates is always merged into (`AllMerge`): it needs `AutoMerge <= 80`, what an
alias gives. Step 2 passes 0.80 (`config.py:230`); with the engine's own default
of 0.85 an alias at another company would only be asked about, and the theorem
would be false. It also needs that step 2 hands the engine no dictionary of
synonyms. **Known people are found** (`KnownFound`), **a run keeps what it read**
(`KeepsWhatItRead`) and **look-alikes are asked about** (`LookalikesAsked`) follow
from the same invariant and from what each of the seven steps may answer. What merges
without being asked about includes a name contained in a composite one with "/"
(`entity_resolution.py:548`, the constant `Inside`): a Latin name or a title in
"A/B" merges at 0.80 with no other evidence.

**Near twins are replaced** (`NearTwinsReplaced`) and **what is replaced has a
successor** (`ReplacedHasSuccessor`), of `TodoGeneration`, for every symmetric
measure of likeness. What is to be inserted is a set of todos with their places in
the answer. The invariant says that places tell them apart (`GenPlaces`), so of two
todos one always comes before the other and, in the greedy pass, only one of two
that are similar stays; and that the suggestions of step 11 differ in their titles
(`GenTitles`). `GenSurvivor` is the comparison with the rows: a new todo near-identical
to a row has a best match that is at least as close, so it is dropped or replaces
that one; if that one is another row, the two twins stay (section 5). A row that goes
has been matched by a todo that may still fall out of the batch; then an earlier one
of the batch stays that is similar to it and matters at least as much. It need not be
similar to the row. `GenWritten` is the commit: each new todo gets a row of its own.
**The batch has one outcome** (`BatchHasOneOutcome`): a greedy pass over a finite
set leaves exactly one set, so `WithinBatch` neither blocks nor chooses.

**No twin rows** (`NoTwinRows`), **encounters are kept** (`EncountersAreKept`),
**what is counted was attended** (`RecordedWereAttended`), of `Associations`. The
invariant has types (`Shape`, `RowsShape`), that the event a person first came up
in is among those attended, in the table and in every copy that will be written
back (`SourcesMet`), and that whoever is being merged exists (`MergesKnown`). What a
step or a merge writes is sound if its copy is current; if it is not, the property
names that step. The proof found that the property had once been said of too little:
an event in the *old* field of a row, moved by a merge to people of whom one did not
attend it, is later appended to the list by a discovery that had nothing to do with
the merge. `SharedAreAttended` counts the old field among what a row records, which
is what the accumulation does. `EncountersAddUp` has the premise that nothing the
step read has changed, properties or pairs.

**Tokens are renewed once** (`TokensAreRenewedOnce`). Who renews holds the lock and
found the token due (`TokenHolds`), so a renewal always follows a token that was
due (`TokenFresh`); and a call that has used up its renewal posts a token that is
alive unless the gateway withdrew it (`TokenPosts`).

**Calls are exhaustive** (`CallsExhaust`). Each call's attempts, models and doubled
budgets are counted together (`Counted`): the fallback model is in use from the
attempt where it begins. This assumes that it begins among the attempts that are
made (`FallbackAfter <= MaxRetries`), as the defaults do (`config.py:200-210`); with
a later one a call fails without it.

**Answers are kept** (`AnswersAreKept`), of `PromiseTracking`. A correction needs
the lock that a run holds, so while a run is under way no answer given by one is
newer than what it read (`NoneCorrected`); and a column the run does not change
keeps what it holds by then (`WritesColumns`), so a promise is reopened only by a
run that had read it as something else than open. `PromiseComplete` says that a
row has the columns this is about.

**Notes stay** (`NotesStay`), of `Briefs`. A step that will write a row holds what
it read with its note in it (`ReadsNoted`, `HoldsNotes`), and the derived parts
never touch it (`EventKeepsNote`); so a note changes by an edit that says so, or by
a writer whose copy is not the row any more.

**The limit holds** (`LimitsHold`), of `RateLimiter`. What Redis let through is in
its window and was let through below the limit; the memory window *is* what it let
through. For the promise to the caller the invariant names a witness
(`RateWaits`): some request of the memory window whose age and the remaining wait
make up the window, so that when the wait is over it has left, and the window,
which admits nobody while it is full, has room. Of Redis the same is false, since
it records refused requests too (section 5). Sets are counted by the theorems on
finite sets; that an oldest request exists is the least number of a set
(`LeastOf`).

**Reminders stay limited** (`RemindersStayLimited`), of `DailyReminders`. The count
and the log lie in two steps, and buttons, deletions, preferences and midnight
between them. `RemFits` says, as long as no two lists are made at once, that every
day stays within the highest threshold and that a list under way still fits into
today *and into every later day*: a midnight that passes between count and commit
moves the list to another day, which is empty since nothing is logged for the
future. A list adds as many rows as it has todos (a bijection), and the buttons
rewrite what was taken, never when it was sent (`RemUntouched`). `QuietHours` is
the arithmetic of the clock: the comparison with two cases and the interval
modulo 24 are the same.

**The batch has one outcome** (`BatchHasOneOutcome`), of `TodoGeneration`. The
code compares the batch with itself in a loop over a sorted list; the model says
which set stays: whoever is similar to none that stays before it. Such a
definition could have no solution, and the step would be blocked, or several, and
the model would choose where the code cannot. It has exactly one, for any answers
and rows: todos with different places are in a strict order (`GenOrder`,
`GenStrict`), so each has a rank, the number of those before it (`GenRanks`). If
two sets differed, the todo of least rank they differ on would be settled by
earlier ones on which they agree (`GenOutcome`); and if the todos up to some rank
had no outcome, the least such rank would extend the outcome below it by one todo
(`GenSettles`). Both take the least element of a set of numbers (`LeastOf`),
which stands in for induction.

**Candidates keep their types** (`TypeCorrect` of `CandidateOperation`). What a
token is bound to is drawn from the matches of an entity, without the deleted and
up to a limit (`CandidatesTyped`): entities, whatever the rows and the limit.
`TokenTypes` and `Told` add tokens and answers to the types
in `Inv`; an answer is a decision because a request that answers knows one for
each of its items (`ItemsDecided`).

**Knowledge keeps its types** (`TypeCorrect` of `Knowledge`). Each of the eight
parts has an invariant of types beside the one its other theorems use, and several
need that one. The memory cache stays within its size, since what a write puts in
replaces the entry of its prompt or the oldest one (`RemovesOne`), and budgets
within theirs. A call of another
kind than JSON makes its second attempt only with its one new token. A score
is cut to 0 .. 10000 and its five parts are counts, urgency with its slope and the
dependency with its cap among them (`ScoreCounts`). A stored brief has one to five
suggestions, because the fallback is appended where no rule gives any, and its
strength is between 0 and 100 whatever it counts.

Only model-checked: liveness (`EventuallySettled`, `EventuallyAnswered`,
`DueIsMarked`, `LinkServes`, `MatchedIsActivated`), which is out of the prover's
reach, as ENABLED is; of the first two the part about locks is proved. Every
invariant and every action property of a run that passes is stated by a theorem.

## 5. What the code does against what it says

Three of these are runs that find a violation; PROJECT.json quotes the lines.

| Run | Said | Done |
|---|---|---|
| `todo_wakes` | a snoozed todo returns to pending (`docs/spec/PRD_v1.md:3042`) | nothing calls the recovery |
| `commit_retry` | the helper retries "so transient lock contention does not cause data loss" (`database.py:194`) | the rollback between two attempts drops the pending changes; the next commit is empty and returns normally |
| `brief_conflict` | "Returns 409 Conflict if version mismatch" (`api/v1/relationship_briefs.py:435`) | two edits that name one version both pass the comparison and both are accepted |

The rest was met while modelling. Each is in the models, as an action, a missing
guard or the condition of a property.

Events and the pipeline:

- No event is to be stuck in `processing` after error recovery
  (`tests/e2e/test_pipeline_mock_e2e.py:894`); if the transaction that marks a
  stopped run fails, it is logged and the event stays
  (`event_pipeline.py:211`). No endpoint accepts that status.
- Memory is non-critical and degrades (`step_13_complete.py:29`); a failing store
  sets `should_stop`, so the event is failed and later steps do not run.
- Retry works only on failed or awaiting events (`event_pipeline_api.py:216`); of
  two retries that both read such a status, the second resets an event that is
  being processed (`:239`).
- A failed owner lookup leaves the lock key empty, and the run proceeds beside
  another run of the same user (`event_pipeline.py:152`); `OverlapNeedsAnonymous`
  is the strongest form that holds, and `OutcomeExplained` needs lookups that
  succeed.
- No code retries an `awaiting_retry` event by itself, which `PRD_v1.md:505`
  describes.

People, candidates, merges:

- The target of a merge survives (`entities.py:380`); two crossing merges, which
  take no lock, leave two tombstones (`entity_merge_service.py:96`, `:255`).
- The confirm endpoint writes `confirmed` over whatever has become of the entity
  since it read it; a tombstone comes back with `merged_into` set
  (`entity_merge_service.py:283-295`).
- A token issued with a limit below the number of candidates is refused although
  nothing has changed (`event_pipeline_api.py:708`, digest recomputed with the
  default limit).
- Merged rows are to be excluded from the candidates (`entity_resolution.py:412`);
  the fallback query counts them (`:485`).
- The worker that removes old corrections is never started (`main.py:162`).

Todos and reminders:

- No transitions out of terminal states (`todo_state_machine.py:39`); two PATCH
  requests that read `pending`: the later one reopens what the earlier one ended
  (`todos.py:372`).
- After leaving `snoozed` by hand the old schedule remains, and the next snooze
  fails on its primary key (`todo_state_machine.py:164`).
- The reminder page snoozes without a schedule and changes todos that have ended
  (`reminders.py:262-273`).
- A batch is to go on where one todo fails ("部分失败不阻塞"); it is one commit, and a
  todo deleted meanwhile fails all of them (`reminders.py:367`).
- The list is logged on each load, so refreshing the page uses the day's
  threshold up; snoozed todos are listed; quiet hours are reported, not kept.
- The dependency score follows "up to 3 hops", but no edge leaves a promise of
  theirs, so every chain has two todos. Scores are computed when the event's
  pipeline runs and at no other time (`Test_Plan_v1.md:5077` expects them to rise).
- The cap of three is per run, not per event (`todo_deduplicator.py:4`), and comes
  before the deduplication: duplicates can crowd out a fourth, different todo. A
  replaced row may hold a promise the user has confirmed.
- "Near-identical todos never coexist" (`todo_deduplicator.py:204`): a new todo near
  two open rows that are not near each other replaces the closer one and stays beside
  the other (`:192-221`). And a todo whose replacement is queued may be dropped by the
  comparison of the batch with itself (`:248`), in favour of one that need not be
  similar to the row that goes.

Promises:

- A later run of the same event overwrites directions, confirmations and
  fulfilments it reads (`step_05`, 76-83): `AnalysisKeepsAnswers` protects only what
  the user decides during a run, and not through the confirm endpoint, which
  does not take the lock (`todos.py:453`).
- A draft is to be generated or retrieved (`promises.py:246`); where the todo has
  properties already, the JSON is changed in place, which the ORM does not see
  (`:302-311`), so the draft is never stored. So is PATCH's feedback
  (`todos.py:381`).
- A correction that changes the direction of a promise leaves promisor and
  beneficiary where they were.

Associations and briefs:

- Two people with any keyword each are linked: the base of 0.4 exceeds the
  threshold of 0.3. The semantic fallback gives at most 0.3 and never links.
- A row that a merge has turned around is not seen by the unique constraint; a
  second one can follow, and later look-ups of one row then fail
  (`event_pipeline_api.py:1316`).
- The full scan and the co-occurrence rule do not leave out tombstones
  (`association_discovery.py:317-320` against `association_graph.py:80`).
- Step 2 (`entity_resolution.py:325-380`), step 10b
  (`frequent_contact_scanner.py:172`) and `merge_entities`
  (`entity_merge_service.py:96`, `:144`) write whole JSON columns from what they read
  before: a merge in between, or the first of two that cross, loses the events it had
  carried over, while its associations stay moved. `SharedAreAttended` names these
  writes, and the discovery that lists what old copies say. After a failed step 10
  the scanner counts one event too many.
- The `modify` correction of an association gives a row another type
  (`event_pipeline_api.py:1333-1336`) and can so make a second row of a pair; it is
  not modelled, and `OneRowPerPair` speaks of what is.
- Dates read from SQLite have no zone, so recency and overdue rules of the briefs
  never apply; the count of interactions is that of all the user's events plus
  one; every person of an event gets all its todos.
- `RelationshipStageMachine.apply_transition` and `PromiseFulfillmentEngine` are
  called by nothing.

Relay, pairing, limits:

- Rejections are documented as consecutive (`relay_wss_client.py:107`); a session
  that ends by an exception does not reset the counter (`:218`). The bound of
  `RejectionsAreBounded` is therefore on the generous side for the gateway.
- A page that shows a rejected licence does not activate the next one by itself
  (`pair_page.py:237`); two activations that cross may leave two clients running.
- Refused requests are added to the Redis window too, so its `retry_after` may
  not be enough (`rate_limiter.py:41`).

## 6. Not modelled

- Inside modelled components: the cascade of an event's deletion over todos,
  associations and snapshots; todo-scope candidate operations and corrections of
  todos, promises and associations in one request; the todos and embeddings a
  merge moves; priority overrides and feedback; the drain of pending tasks at
  shutdown (a stop is modelled as a fault instead); the dormant and overuse
  scanners; activation of a licence on the gateway's side.
- Memory and search: ranking, and a store that fails is a failing step of the
  pipeline. Nothing else reads what it keeps.
- Numbers and text where no property tells values apart: difflib and fuzzy scores
  (constants of an instance), confidence labels, drafts, prompts, parsing of model
  answers (any answer may come, also none).
- Dashboards, search, export, privacy pages, health: they read, or delete on
  request.
- Demand input: one insert. Cryptography, login, migrations, logging and metrics,
  the web front end, the launcher and packaging.

## 7. Plan

1. Todo-scope operations in `CandidateOperation`, then the mixed request.
2. The cascade of an event's deletion beside a run, over the tables of
   `Knowledge`.
3. Memory and its ranking; the drain at shutdown.

The project keeps to a dozen runs, one for each question: a new module joins the
joint run it belongs to, or takes the place of a run that has become weaker.
