--------------------------- MODULE TodoLifecycle ---------------------------
(***************************************************************************)
(* The status of a todo and the row that will wake it when it is snoozed.  *)
(*                                                                         *)
(* PATCH /todos goes through TodoStateMachine; the reminder page, a        *)
(* rejection and a correction write the status themselves.  Every handler  *)
(* SELECTs the todo, decides on what it read and, after further awaits,    *)
(* UPDATEs it by primary key in a transaction that compares nothing:       *)
(* a read and a write, between which other requests run.  The ORM writes a *)
(* column only if it differs from what was read, and an UPDATE that finds  *)
(* no row fails the request.                                               *)
(***************************************************************************)
CONSTANTS
    Todos,       \* todo rows; an id is used once
    Tasks,       \* concurrent requests, a bound on concurrency only
    Actions,     \* the reminder page's actions the instance explores
    JobRuns,     \* whether anything calls recover_expired_snoozes
    NoRequest

Terminal == {"done", "dismissed"}
TodoStatus == Terminal \cup {"pending", "in_progress", "snoozed"}

\* Mutants are variants of the definition that follows them, each with one
\* plausible bug; no action of the specification uses them.

\* Mutant: the name of the action goes into the column.
StatusOfVerbatim ==
    [completed |-> "completed", dismissed |-> "dismissed", snoozed |-> "snoozed"]

\* What the reminder page's actions write.
StatusOf == [completed |-> "done", dismissed |-> "dismissed", snoozed |-> "snoozed"]

ASSUME ConstantsOK ==
    /\ Actions \subseteq DOMAIN StatusOf
    /\ JobRuns \in BOOLEAN
    /\ NoRequest \notin [via : {"patch", "write"}, todo : Todos,
                         saw : TodoStatus, to : TodoStatus]

VARIABLES
    status,    \* Todo.status, "none" before the insert, "gone" after
    schedule,  \* the todo's snooze_schedules row: "none", "waiting" or "due"
    request,   \* what each task has read and is about to write
    job        \* the recovery: schedules to look at, looked at, todos to wake

vars == <<status, schedule, request, job>>

Requests == [via : {"patch", "write"}, todo : Todos, saw : TodoStatus, to : TodoStatus]
IdleJob == [rest |-> {}, seen |-> {}, wake |-> {}]

Exists(d) == status[d] \in TodoStatus

Init ==
    /\ status = [d \in Todos |-> "none"]
    /\ schedule = [d \in Todos |-> "none"]
    /\ request = [t \in Tasks |-> NoRequest]
    /\ job = IdleJob

----------------------------------------------------------------------------
(* Requests *)

\* The pipeline and a manual promise insert todos as pending.
CreateTodo(d) ==
    /\ status[d] = "none"
    /\ status' = [status EXCEPT ![d] = "pending"]
    /\ UNCHANGED <<schedule, request, job>>

Begin(t, via, d, to) ==
    /\ request[t] = NoRequest
    /\ Exists(d)
    /\ request' = [request EXCEPT ![t] =
                     [via |-> via, todo |-> d, saw |-> status[d], to |-> to]]
    /\ UNCHANGED <<status, schedule, job>>

ValidTransitions ==
    {"pending"} \X {"in_progress", "done", "dismissed", "snoozed"}
        \cup {"in_progress"} \X {"done", "dismissed", "pending"}
        \cup {<<"snoozed", "pending">>}

\* PATCH /todos/{id}: TodoStateMachine.transition tests the status read.
PatchTodo(t, d, to) ==
    /\ <<status[d], to>> \in ValidTransitions
    /\ Begin(t, "patch", d, to)

\* POST /reminders/{id}/action and /batch-action test nothing.
RemindAction(t, d, act) ==
    /\ act \in Actions
    /\ Begin(t, "write", d, StatusOf[act])

\* PATCH /todos/{id}/confirm and correct_event dismiss what is rejected.
RejectTodo(t, d) == Begin(t, "write", d, "dismissed")

End(t) == request' = [request EXCEPT ![t] = NoRequest]

\* Mutant: the schedule of an earlier snooze is replaced.
PatchWriteReplaces(t) ==
    LET r == request[t] IN
    /\ r # NoRequest
    /\ r.via = "patch"
    /\ Exists(r.todo)
    /\ status' = [status EXCEPT ![r.todo] = r.to]
    /\ schedule' = IF r.to = "snoozed"
                     THEN [schedule EXCEPT ![r.todo] = "waiting"] ELSE schedule
    /\ End(t)
    /\ UNCHANGED job

\* UPDATE, and INSERT of the schedule, whose primary key is the todo's.
PatchWrite(t) ==
    LET r == request[t] IN
    /\ r # NoRequest
    /\ r.via = "patch"
    /\ Exists(r.todo)
    /\ r.to = "snoozed" => schedule[r.todo] = "none"
    /\ status' = [status EXCEPT ![r.todo] = r.to]
    /\ schedule' = IF r.to = "snoozed"
                     THEN [schedule EXCEPT ![r.todo] = "waiting"] ELSE schedule
    /\ End(t)
    /\ UNCHANGED job

DirectWrite(t) ==
    LET r == request[t] IN
    /\ r # NoRequest
    /\ r.via = "write"
    /\ Exists(r.todo)
    /\ status' = IF r.to # r.saw THEN [status EXCEPT ![r.todo] = r.to] ELSE status
    /\ End(t)
    /\ UNCHANGED <<schedule, job>>

\* The row is gone, the schedule is already there, or the database is busy.
WriteFails(t) ==
    /\ request[t] # NoRequest
    /\ End(t)
    /\ UNCHANGED <<status, schedule, job>>

\* DELETE /todos/{id} and the deduplication of the pipeline; the foreign key
\* cascades to the schedule.
DeleteTodo(d) ==
    /\ Exists(d)
    /\ status' = [status EXCEPT ![d] = "gone"]
    /\ schedule' = [schedule EXCEPT ![d] = "none"]
    /\ UNCHANGED <<request, job>>

----------------------------------------------------------------------------
(* recover_expired_snoozes *)

SnoozeExpires(d) ==
    /\ schedule[d] = "waiting"
    /\ schedule' = [schedule EXCEPT ![d] = "due"]
    /\ UNCHANGED <<status, request, job>>

JobSelect ==
    /\ JobRuns
    /\ job = IdleJob
    /\ job' = [job EXCEPT !.rest = {d \in Todos : schedule[d] = "due"}]
    /\ UNCHANGED <<status, schedule, request>>

\* session.get of one todo.
JobGet(d) ==
    /\ d \in job.rest
    /\ job' = [rest |-> job.rest \ {d},
               seen |-> job.seen \cup {d},
               wake |-> IF status[d] = "snoozed" THEN job.wake \cup {d} ELSE job.wake]
    /\ UNCHANGED <<status, schedule, request>>

\* One transaction wakes and deletes; a schedule already gone is no error.
JobWrite ==
    /\ job.rest = {} /\ job.seen # {}
    /\ \A d \in job.wake : Exists(d)
    /\ status' = [d \in Todos |-> IF d \in job.wake THEN "pending" ELSE status[d]]
    /\ schedule' = [d \in Todos |-> IF d \in job.seen THEN "none" ELSE schedule[d]]
    /\ job' = IdleJob
    /\ UNCHANGED request

\* An UPDATE that matches no row, or a busy database, undoes all of it.
JobFails ==
    /\ job # IdleJob
    /\ job' = IdleJob
    /\ UNCHANGED <<status, schedule, request>>

----------------------------------------------------------------------------

Finish(t) == PatchWrite(t) \/ DirectWrite(t) \/ WriteFails(t)

Next ==
    \/ \E d \in Todos : \/ CreateTodo(d) \/ DeleteTodo(d)
                        \/ SnoozeExpires(d) \/ JobGet(d)
    \/ \E t \in Tasks, d \in Todos :
         \/ \E to \in TodoStatus : PatchTodo(t, d, to)
         \/ \E act \in DOMAIN StatusOf : RemindAction(t, d, act)
         \/ RejectTodo(t, d)
    \/ \E t \in Tasks : Finish(t)
    \/ JobSelect \/ JobWrite \/ JobFails

Spec == Init /\ [][Next]_vars

\* Requests end, time passes, and a job that runs keeps running.
Fairness ==
    /\ \A t \in Tasks : WF_vars(Finish(t))
    /\ \A d \in Todos : WF_vars(SnoozeExpires(d)) /\ WF_vars(JobGet(d))
    /\ WF_vars(JobSelect) /\ WF_vars(JobWrite)

LiveSpec == Spec /\ Fairness

----------------------------------------------------------------------------
(* Properties *)

TypeOK ==
    /\ status \in [Todos -> TodoStatus \cup {"none", "gone"}]
    /\ schedule \in [Todos -> {"none", "waiting", "due"}]
    /\ request \in [Tasks -> Requests \cup {NoRequest}]
    /\ job \in [rest : SUBSET Todos, seen : SUBSET Todos, wake : SUBSET Todos]

\* A snoozed todo always has the row that will wake it, also when snoozes,
\* wake-ups by hand, deletions and the recovery job overlap: unless the
\* reminder page snoozed it, which writes no schedule.
SnoozedIsScheduled ==
    \A d \in Todos : status[d] = "snoozed" => schedule[d] # "none"

\* The recovery never throws away a snooze that has not expired: a todo woken
\* by hand and snoozed again while the job is at work keeps its new time.
NoSnoozeCutShort ==
    [][\A d \in Todos :
         schedule[d] = "waiting" =>
             schedule'[d] \in {"waiting", "due"} \/ status'[d] = "gone"]_vars

(* Claims of the repository that the code does not keep *)

\* "snoozed --> pending : Auto-recover on expiry."
SnoozedWakes ==
    \A d \in Todos : status[d] = "snoozed" ~> status[d] # "snoozed"
=============================================================================
