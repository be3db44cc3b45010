--------------------------- MODULE EventPipeline ---------------------------
(***************************************************************************)
(* The life of an event: the HTTP handlers that create, retry, accept and  *)
(* delete it, the background pipeline that processes it in one short       *)
(* database transaction per step, the per-user asyncio lock the pipeline   *)
(* runs under, and the faults (a failing database call, a server stop)     *)
(* that interrupt them.                                                    *)
(*                                                                         *)
(* A task is one HTTP request together with the background work Starlette  *)
(* runs in the same coroutine once the response is out.  Two tasks         *)
(* interleave at every await, so each handler that reads a row and writes  *)
(* it back later is two actions, and each pipeline step is one.            *)
(***************************************************************************)
EXTENDS FiniteSets

CONSTANTS
    Events,         \* event rows; an id is used once
    Users,          \* owners of events
    OwnerOf,        \* OwnerOf[e] is Event.user_id
    Tasks,          \* concurrent requests, a bound on concurrency only
    MayFail,        \* the steps whose failure the instance explores
    ResolveMayFail, \* whether the owner lookup may raise SQLAlchemyError
    Anonymous,      \* the lock key "" of a lookup that found no owner
    NoKey, NoEvent, NoTask

Critical == {"step01_verify_event", "step02_extract_entities",
             "step04_todo_generation", "step05_promise_analysis"}
NonCritical == {"step03_semantic_embedding", "step06_resource_overuse",
                "step07_priority_scoring", "step08_notification",
                "step09_memory_storage", "step10_association_discovery",
                "step10b_frequent_contact", "step11_association_todos",
                "step12_relationship_brief_update"}
StepNames == Critical \cup NonCritical

\* The names that contain "extract", "verify" or "scope".
LLMSteps == {"step01_verify_event", "step02_extract_entities"}

\* What failed_steps can hold: step names, or the text of an exception that
\* reached the catch-all before any step had failed.
Reasons == StepNames \cup {"exception"}

Keys == Users \cup {Anonymous}

Retryable == {"failed", "awaiting_retry"}
Settled == Retryable \cup {"completed", "degraded_completed"}
Statuses == Settled \cup {"none", "pending", "processing", "deleted"}

\* Where a run that is past the "processing" mark can be.
Working == StepNames \cup {"step13_complete_event", "mark_read", "mark_write"}
\* Where a run holds its lock.
InLock == Working \cup {"verify", "mark", "release"}
Requesting == {"batch", "retry", "accept"}
Places == {"idle", "drain", "resolve", "lock"} \cup Requesting \cup InLock

ASSUME ConstantsOK ==
    /\ OwnerOf \in [Events -> Users]
    /\ MayFail \subseteq StepNames
    /\ ResolveMayFail \in BOOLEAN
    /\ Anonymous \notin Users
    /\ NoKey \notin Keys
    /\ NoEvent \notin Events
    /\ NoTask \notin Tasks

VARIABLES
    status,      \* Event.status, "none" before the insert, "deleted" after
    failedSteps, \* Event.failed_steps
    pc,          \* where each task is
    ev,          \* the event a task works on
    key,         \* the lock key a run resolved
    failed,      \* ctx.failed_steps of a run
    verdict,     \* the status a stopped run wants to leave behind
    queue,       \* background jobs a request has added and not started
    holder,      \* who holds the asyncio lock of each key
    faulted      \* history: events an unrepaired fault has hit

rows == <<status, failedSteps>>
vars == <<status, failedSteps, pc, ev, key, failed, verdict, queue, holder,
          faulted>>

Init ==
    /\ status = [e \in Events |-> "none"]
    /\ failedSteps = [e \in Events |-> {}]
    /\ pc = [t \in Tasks |-> "idle"]
    /\ ev = [t \in Tasks |-> NoEvent]
    /\ key = [t \in Tasks |-> NoKey]
    /\ failed = [t \in Tasks |-> {}]
    /\ verdict = [t \in Tasks |-> "none"]
    /\ queue = [t \in Tasks |-> {}]
    /\ holder = [k \in Keys |-> NoTask]
    /\ faulted = {}

Exists(e) == status[e] \notin {"none", "deleted"}

Goto(t, place) == pc' = [pc EXCEPT ![t] = place]

----------------------------------------------------------------------------
(* Requests *)

\* POST /events and /events/upload: insert the row, commit, queue the job.
CreateEvent(t, e) ==
    /\ pc[t] = "idle"
    /\ status[e] = "none"
    /\ status' = [status EXCEPT ![e] = "pending"]
    /\ queue' = [queue EXCEPT ![t] = {e}]
    /\ Goto(t, "drain")
    /\ UNCHANGED <<failedSteps, ev, key, failed, verdict, holder, faulted>>

StartBatch(t) ==
    /\ pc[t] = "idle"
    /\ Goto(t, "batch")
    /\ UNCHANGED <<rows, ev, key, failed, verdict, queue, holder, faulted>>

\* POST /events/batch: one iteration of the loop, with its own commit.
BatchCreateEvent(t, e) ==
    /\ pc[t] = "batch"
    /\ status[e] = "none"
    /\ status' = [status EXCEPT ![e] = "pending"]
    /\ queue' = [queue EXCEPT ![t] = @ \cup {e}]
    /\ UNCHANGED <<failedSteps, pc, ev, key, failed, verdict, holder, faulted>>

EndBatch(t) ==
    /\ pc[t] = "batch"
    /\ Goto(t, "drain")
    /\ UNCHANGED <<rows, ev, key, failed, verdict, queue, holder, faulted>>

\* POST /events/{id}/retry reads the row and rejects a status it cannot retry.
RetryRead(t, e) ==
    /\ pc[t] = "idle"
    /\ status[e] \in Retryable
    /\ Goto(t, "retry")
    /\ ev' = [ev EXCEPT ![t] = e]
    /\ UNCHANGED <<rows, key, failed, verdict, queue, holder, faulted>>

\* Mutants are variants of the definition that follows them, each with one
\* plausible bug; no action of the specification uses them.

\* Mutant: the handler commits and forgets add_task.
RetryWriteUnqueued(t) ==
    /\ pc[t] = "retry"
    /\ Goto(t, "idle")
    /\ ev' = [ev EXCEPT ![t] = NoEvent]
    /\ status' = [status EXCEPT ![ev[t]] = IF Exists(ev[t]) THEN "pending" ELSE @]
    /\ UNCHANGED <<failedSteps, key, failed, verdict, queue, holder, faulted>>

\* Mutant: a retry keeps the failed steps of the run before.
RetryWriteKeepsReasons(t) ==
    /\ pc[t] = "retry"
    /\ Exists(ev[t])
    /\ ev' = [ev EXCEPT ![t] = NoEvent]
    /\ status' = [status EXCEPT ![ev[t]] = "pending"]
    /\ queue' = [queue EXCEPT ![t] = {ev[t]}]
    /\ Goto(t, "drain")
    /\ UNCHANGED <<failedSteps, key, failed, verdict, holder, faulted>>

\* The commit of the retry: an UPDATE that no longer looks at the status.
RetryWrite(t) ==
    /\ pc[t] = "retry"
    /\ ev' = [ev EXCEPT ![t] = NoEvent]
    /\ LET e == ev[t] IN
         \/ /\ Exists(e)
            /\ status' = [status EXCEPT ![e] = "pending"]
            /\ failedSteps' = [failedSteps EXCEPT ![e] = {}]
            /\ queue' = [queue EXCEPT ![t] = {e}]
            /\ Goto(t, "drain")
         \/ /\ ~Exists(e)
            /\ Goto(t, "idle")
            /\ UNCHANGED <<rows, queue>>
    /\ UNCHANGED <<key, failed, verdict, holder, faulted>>

\* POST /events/{id}/accept-degraded, the same two transactions.
AcceptRead(t, e) ==
    /\ pc[t] = "idle"
    /\ status[e] \in Retryable
    /\ Goto(t, "accept")
    /\ ev' = [ev EXCEPT ![t] = e]
    /\ UNCHANGED <<rows, key, failed, verdict, queue, holder, faulted>>

AcceptWrite(t) ==
    /\ pc[t] = "accept"
    /\ Goto(t, "idle")
    /\ ev' = [ev EXCEPT ![t] = NoEvent]
    /\ status' = [status EXCEPT ![ev[t]] =
                    IF Exists(ev[t]) THEN "degraded_completed" ELSE @]
    /\ UNCHANGED <<failedSteps, key, failed, verdict, queue, holder, faulted>>

\* DELETE /events/{id}: takes no pipeline lock.
DeleteEvent(e) ==
    /\ Exists(e)
    /\ status' = [status EXCEPT ![e] = "deleted"]
    /\ failedSteps' = [failedSteps EXCEPT ![e] = {}]
    /\ UNCHANGED <<pc, ev, key, failed, verdict, queue, holder, faulted>>

----------------------------------------------------------------------------
(* The background run: before the lock *)

\* process_event_background is awaited for the next queued event.
NextJob(t) ==
    /\ pc[t] = "drain"
    /\ \/ /\ queue[t] = {}
          /\ Goto(t, "idle")
          /\ UNCHANGED <<ev, queue>>
       \/ \E e \in queue[t] :
            /\ queue' = [queue EXCEPT ![t] = @ \ {e}]
            /\ ev' = [ev EXCEPT ![t] = e]
            /\ Goto(t, "resolve")
    /\ UNCHANGED <<rows, key, failed, verdict, holder, faulted>>

\* The owner lookup chooses the lock; an error or a missing row leaves "".
ResolveOwner(t) ==
    /\ pc[t] = "resolve"
    /\ \/ /\ Exists(ev[t])
          /\ key' = [key EXCEPT ![t] = OwnerOf[ev[t]]]
       \/ /\ ~Exists(ev[t]) \/ ResolveMayFail
          /\ key' = [key EXCEPT ![t] = Anonymous]
    /\ Goto(t, "lock")
    /\ UNCHANGED <<rows, ev, failed, verdict, queue, holder, faulted>>

\* Mutant: the lock is looked up but not waited for.
AcquireLockUnguarded(t) ==
    /\ pc[t] = "lock"
    /\ holder' = [holder EXCEPT ![key[t]] = t]
    /\ Goto(t, "verify")
    /\ UNCHANGED <<rows, ev, key, failed, verdict, queue, faulted>>

AcquireLock(t) ==
    /\ pc[t] = "lock"
    /\ holder[key[t]] = NoTask
    /\ holder' = [holder EXCEPT ![key[t]] = t]
    /\ Goto(t, "verify")
    /\ UNCHANGED <<rows, ev, key, failed, verdict, queue, faulted>>

----------------------------------------------------------------------------
(* The background run: the steps.  A run that finds its event gone, or not *)
(* pending, stops with a result of its own and touches the row no more.    *)

Stop(t, verd) ==
    /\ verdict' = [verdict EXCEPT ![t] = verd]
    /\ Goto(t, "mark_read")

\* The verdict on a run that stopped early, from the steps that failed.
StopVerdict(fs) ==
    IF fs \cap LLMSteps # {} THEN "awaiting_retry" ELSE "failed"

\* An exception no step caught: the catch-all wants the event "failed".
Raise(t) ==
    /\ failed' = [failed EXCEPT ![t] = IF @ = {} THEN {"exception"} ELSE @]
    /\ Stop(t, "failed")

Fail(t) == failed' = [failed EXCEPT ![t] = @ \cup {pc[t]}]

\* The step fails, says so, and the run goes on.
Proceed(t, next) ==
    /\ Goto(t, next)
    /\ \/ UNCHANGED failed
       \/ pc[t] \in MayFail /\ Fail(t)
    /\ UNCHANGED verdict

\* The step fails and sets should_stop.
FailAndStop(t) ==
    /\ pc[t] \in MayFail
    /\ Fail(t)
    /\ Stop(t, StopVerdict(failed[t] \cup {pc[t]}))

\* An exception outside the ones the step catches.
RaiseFrom(t) == pc[t] \in MayFail /\ Raise(t)

GiveUp(t) == Goto(t, "release") /\ UNCHANGED <<failed, verdict>>

StepFrame == UNCHANGED <<rows, ev, key, queue, holder, faulted>>

VerifyPending(t) ==
    /\ pc[t] = "verify"
    /\ Goto(t, IF status[ev[t]] = "pending" THEN "mark" ELSE "release")
    /\ UNCHANGED <<failed, verdict>>
    /\ StepFrame

\* A second transaction: the status is not looked at again.
MarkProcessing(t) ==
    /\ pc[t] = "mark"
    /\ IF Exists(ev[t])
         THEN /\ status' = [status EXCEPT ![ev[t]] = "processing"]
              /\ Goto(t, "step01_verify_event")
         ELSE /\ Goto(t, "release")
              /\ UNCHANGED status
    /\ UNCHANGED <<failedSteps, ev, key, failed, verdict, queue, holder,
                   faulted>>

\* Scope classification and title, the third and fourth transactions of
\* Step01: the first failing is caught, the second is not.
ClassifyScope(t) ==
    /\ pc[t] = "step01_verify_event"
    /\ IF Exists(ev[t])
         THEN \/ Goto(t, "step02_extract_entities") /\ UNCHANGED <<failed, verdict>>
              \/ FailAndStop(t)
              \/ RaiseFrom(t)
         ELSE GiveUp(t)
    /\ StepFrame

\* An empty extraction is recorded and the run goes on; an error stops it.
ExtractEntities(t) ==
    /\ pc[t] = "step02_extract_entities"
    /\ IF Exists(ev[t])
         THEN Proceed(t, "step03_semantic_embedding") \/ FailAndStop(t)
         ELSE GiveUp(t)
    /\ StepFrame

SemanticEmbedding(t) ==
    /\ pc[t] = "step03_semantic_embedding"
    /\ Proceed(t, "step04_todo_generation")
    /\ StepFrame

GenerateTodos(t) ==
    /\ pc[t] = "step04_todo_generation"
    /\ IF Exists(ev[t])
         THEN Proceed(t, "step05_promise_analysis")
         ELSE GiveUp(t)
    /\ StepFrame

\* scalar_one() on a deleted event raises, which the step records.
AnalysePromises(t) ==
    /\ pc[t] = "step05_promise_analysis"
    /\ IF Exists(ev[t])
         THEN Proceed(t, "step06_resource_overuse")
         ELSE /\ Fail(t)
              /\ Goto(t, "step06_resource_overuse")
              /\ UNCHANGED verdict
    /\ StepFrame

CheckResourceOveruse(t) ==
    /\ pc[t] = "step06_resource_overuse"
    /\ Proceed(t, "step07_priority_scoring")
    /\ StepFrame

ScorePriority(t) ==
    /\ pc[t] = "step07_priority_scoring"
    /\ Proceed(t, "step08_notification")
    /\ StepFrame

Notify(t) ==
    /\ pc[t] = "step08_notification"
    /\ Proceed(t, "step09_memory_storage")
    /\ StepFrame

\* Nothing is stored for a deleted event; a failing store stops the run.
StoreMemory(t) ==
    /\ pc[t] = "step09_memory_storage"
    /\ \/ Goto(t, "step10_association_discovery") /\ UNCHANGED <<failed, verdict>>
       \/ Exists(ev[t]) /\ FailAndStop(t)
    /\ StepFrame

\* Steps 10 and 10b catch SQLAlchemyError only.
DiscoverAssociations(t) ==
    /\ pc[t] = "step10_association_discovery"
    /\ Proceed(t, "step10b_frequent_contact") \/ RaiseFrom(t)
    /\ StepFrame

ScanFrequentContacts(t) ==
    /\ pc[t] = "step10b_frequent_contact"
    /\ Proceed(t, "step11_association_todos") \/ RaiseFrom(t)
    /\ StepFrame

AssociationTodos(t) ==
    /\ pc[t] = "step11_association_todos"
    /\ Proceed(t, "step12_relationship_brief_update")
    /\ StepFrame

UpdateBriefs(t) ==
    /\ pc[t] = "step12_relationship_brief_update"
    /\ Proceed(t, "step13_complete_event")
    /\ StepFrame

\* Mutant: a status the CHECK constraint of the table does not know.
FinalStatusUnknown(fs) == IF fs = {} THEN "completed" ELSE "degraded"

FinalStatus(fs) ==
    CASE fs \cap Critical # {} -> "failed"
      [] fs \cap Critical = {} /\ fs # {} -> "degraded_completed"
      [] fs = {} -> "completed"

\* Step13 writes whatever the row holds now, and failed_steps only if the
\* run has some.
CompleteEvent(t) ==
    /\ pc[t] = "step13_complete_event"
    /\ IF Exists(ev[t])
         THEN /\ status' = [status EXCEPT ![ev[t]] = FinalStatus(failed[t])]
              /\ failedSteps' = [failedSteps EXCEPT ![ev[t]] =
                                   IF failed[t] = {} THEN @ ELSE failed[t]]
         ELSE UNCHANGED rows
    /\ GiveUp(t)
    /\ UNCHANGED <<ev, key, queue, holder, faulted>>

\* A stopped run marks its event only if it still reads "processing"; the
\* write that follows no longer compares.
MarkRead(t) ==
    /\ pc[t] = "mark_read"
    /\ Goto(t, IF status[ev[t]] = "processing" THEN "mark_write" ELSE "release")
    /\ UNCHANGED <<failed, verdict>>
    /\ StepFrame

MarkWrite(t) ==
    /\ pc[t] = "mark_write"
    /\ IF Exists(ev[t])
         THEN /\ status' = [status EXCEPT ![ev[t]] = verdict[t]]
              /\ failedSteps' = [failedSteps EXCEPT ![ev[t]] = failed[t]]
         ELSE UNCHANGED rows
    /\ GiveUp(t)
    /\ UNCHANGED <<ev, key, queue, holder, faulted>>

\* Mutant: a run that ends does not release its lock.
ReleaseLockLeaks(t) ==
    /\ pc[t] = "release"
    /\ key' = [key EXCEPT ![t] = NoKey]
    /\ ev' = [ev EXCEPT ![t] = NoEvent]
    /\ failed' = [failed EXCEPT ![t] = {}]
    /\ verdict' = [verdict EXCEPT ![t] = "none"]
    /\ Goto(t, "drain")
    /\ UNCHANGED <<rows, queue, holder, faulted>>

\* Leaving "async with pipeline_lock"; the coroutine takes its next job.
ReleaseLock(t) ==
    /\ pc[t] = "release"
    /\ holder' = [holder EXCEPT ![key[t]] = NoTask]
    /\ key' = [key EXCEPT ![t] = NoKey]
    /\ ev' = [ev EXCEPT ![t] = NoEvent]
    /\ failed' = [failed EXCEPT ![t] = {}]
    /\ verdict' = [verdict EXCEPT ![t] = "none"]
    /\ Goto(t, "drain")
    /\ UNCHANGED <<rows, queue, faulted>>

----------------------------------------------------------------------------
(* Faults: database errors the code has no answer to, and a server stop *)

\* session.refresh() raises after the commit of a creation or a retry: the
\* client sees an error and the job is never queued.
RefreshFails(t, e) ==
    /\ \/ /\ pc[t] \in {"idle", "batch"}
          /\ status[e] = "none"
          /\ UNCHANGED <<pc, ev, failedSteps>>
       \/ /\ pc[t] = "retry" /\ ev[t] = e /\ Exists(e)
          /\ Goto(t, "idle")
          /\ ev' = [ev EXCEPT ![t] = NoEvent]
          /\ failedSteps' = [failedSteps EXCEPT ![e] = {}]
    /\ status' = [status EXCEPT ![e] = "pending"]
    /\ faulted' = faulted \cup {e}
    /\ UNCHANGED <<key, failed, verdict, queue, holder>>

\* The run's clients cannot be built: the exception leaves the background
\* task, and Starlette drops the jobs behind it.
StartFails(t) ==
    /\ pc[t] = "resolve"
    /\ Goto(t, "idle")
    /\ faulted' = faulted \cup {ev[t]} \cup queue[t]
    /\ ev' = [ev EXCEPT ![t] = NoEvent]
    /\ queue' = [queue EXCEPT ![t] = {}]
    /\ UNCHANGED <<rows, key, failed, verdict, holder>>

\* A database error in Step01's first two transactions reaches the catch-all
\* while the event is still pending.
VerifyRaises(t) ==
    /\ pc[t] \in {"verify", "mark"}
    /\ Raise(t)
    /\ faulted' = faulted \cup {ev[t]}
    /\ UNCHANGED <<rows, ev, key, queue, holder>>

\* Step13's own transaction fails.
CompleteRaises(t) ==
    /\ pc[t] = "step13_complete_event"
    /\ Raise(t)
    /\ StepFrame

\* The transaction that marks a stopped run fails, and the error is logged.
MarkFails(t) ==
    /\ pc[t] \in {"mark_read", "mark_write"}
    /\ GiveUp(t)
    /\ faulted' = faulted \cup {ev[t]}
    /\ UNCHANGED <<rows, ev, key, queue, holder>>

\* The process stops: coroutines and locks are gone, committed rows are not.
\* Nothing at start-up looks for the events it left behind.
ServerStops ==
    /\ \E t \in Tasks : pc[t] # "idle"
    /\ pc' = [t \in Tasks |-> "idle"]
    /\ ev' = [t \in Tasks |-> NoEvent]
    /\ key' = [t \in Tasks |-> NoKey]
    /\ failed' = [t \in Tasks |-> {}]
    /\ verdict' = [t \in Tasks |-> "none"]
    /\ queue' = [t \in Tasks |-> {}]
    /\ holder' = [k \in Keys |-> NoTask]
    /\ faulted' = faulted \cup {e \in Events : status[e] \in {"pending", "processing"}}
    /\ UNCHANGED rows

----------------------------------------------------------------------------

Request ==
    \/ \E t \in Tasks : StartBatch(t)
    \/ \E t \in Tasks, e \in Events :
         \/ CreateEvent(t, e) \/ BatchCreateEvent(t, e)
         \/ RetryRead(t, e)   \/ AcceptRead(t, e)
    \/ \E e \in Events : DeleteEvent(e)

\* What a coroutine does by itself once it is running, the lock apart.
Progress(t) ==
    \/ EndBatch(t) \/ RetryWrite(t) \/ AcceptWrite(t)
    \/ NextJob(t) \/ ResolveOwner(t)
    \/ VerifyPending(t) \/ MarkProcessing(t) \/ ClassifyScope(t)
    \/ ExtractEntities(t) \/ SemanticEmbedding(t) \/ GenerateTodos(t)
    \/ AnalysePromises(t) \/ CheckResourceOveruse(t) \/ ScorePriority(t)
    \/ Notify(t) \/ StoreMemory(t) \/ DiscoverAssociations(t)
    \/ ScanFrequentContacts(t) \/ AssociationTodos(t) \/ UpdateBriefs(t)
    \/ CompleteEvent(t) \/ MarkRead(t) \/ MarkWrite(t) \/ ReleaseLock(t)

Fault ==
    \/ \E t \in Tasks : \/ StartFails(t) \/ VerifyRaises(t)
                        \/ CompleteRaises(t) \/ MarkFails(t)
    \/ \E t \in Tasks, e \in Events : RefreshFails(t, e)
    \/ ServerStops

Next ==
    \/ Request
    \/ \E t \in Tasks : Progress(t) \/ AcquireLock(t)
    \/ Fault

Spec == Init /\ [][Next]_vars

\* The event loop keeps running every coroutine that can run, LLM and
\* database calls return or time out, and asyncio.Lock wakes its waiters in
\* order, so a run that waits while the lock is released again and again gets it.
Fairness ==
    \A t \in Tasks : WF_vars(Progress(t)) /\ SF_vars(AcquireLock(t))

LiveSpec == Spec /\ Fairness

----------------------------------------------------------------------------
(* Properties *)

TypeOK ==
    /\ status \in [Events -> Statuses]
    /\ failedSteps \in [Events -> SUBSET Reasons]
    /\ pc \in [Tasks -> Places]
    /\ ev \in [Tasks -> Events \cup {NoEvent}]
    /\ key \in [Tasks -> Keys \cup {NoKey}]
    /\ failed \in [Tasks -> SUBSET Reasons]
    /\ verdict \in [Tasks -> Retryable \cup {"none"}]
    /\ queue \in [Tasks -> SUBSET Events]
    /\ holder \in [Keys -> Tasks \cup {NoTask}]
    /\ faulted \subseteq Events

\* Some task will still look at e while it is pending ...
PickedUp(e) ==
    \E t \in Tasks : \/ e \in queue[t]
                     \/ ev[t] = e /\ pc[t] \in {"resolve", "lock", "verify", "mark"}
\* ... and some run past its mark will still settle it.
WorkedOn(e) == \E t \in Tasks : ev[t] = e /\ pc[t] \in Working

\* No event is lost: whatever requests race with the pipeline, an event no
\* fault has hit and that is pending has a run to come, and one that is
\* processing has a run at work (event_pipeline.py, retry, accept, delete).
NoLostEvent ==
    \A e \in Events \ faulted :
        /\ status[e] = "pending" => PickedUp(e)
        /\ status[e] = "processing" => WorkedOn(e)

\* Two runs for one user overlap only if one of them took the lock of nobody,
\* after its owner lookup failed: the per-user lock serialises every other
\* pair, whatever is created, retried, deleted or dropped meanwhile.
OverlapNeedsAnonymous ==
    \A s, t \in Tasks :
        (s # t /\ {pc[s], pc[t]} \subseteq InLock /\ OwnerOf[ev[s]] = OwnerOf[ev[t]])
            => Anonymous \in {key[s], key[t]}

\* What the user sees of an outcome agrees with why it came about: an event
\* to retry names the steps that failed, a completed one names none.
OutcomeExplained ==
    \A e \in Events :
        /\ status[e] \in Retryable => failedSteps[e] # {}
        /\ status[e] = "completed" => failedSteps[e] = {}

\* A submitted or retried event reaches an outcome, or is deleted, unless a
\* fault has hit it.
EventuallySettled ==
    \A e \in Events :
        status[e] \in {"pending", "processing"}
            ~> (status[e] \in Settled \cup {"deleted"} \/ e \in faulted)
=============================================================================
