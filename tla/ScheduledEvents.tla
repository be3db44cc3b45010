--------------------------- MODULE ScheduledEvents ---------------------------
(***************************************************************************)
(* Planned interactions: a scheduled event is created, moved, recorded     *)
(* (which stores an event and queues its pipeline run), cancelled or       *)
(* deleted by requests, and marked overdue or cleaned up by a job that     *)
(* runs every five minutes.                                                *)
(*                                                                         *)
(* A request reads the row, decides, and commits an UPDATE by primary key  *)
(* of the columns it changed; SQLite compares nothing with what was read.  *)
(* The job does the same with a list of rows in one transaction.           *)
(***************************************************************************)
EXTENDS Integers, FiniteSets

CONSTANTS
    Items,     \* scheduled events
    Calls,     \* requests, each made once
    Horizon,   \* bound on the clock
    Keep,      \* how long a cancelled row is kept (30 days)
    NoCall, NoItem

\* Times are counted from 0; no item is an item of its own.
ConstantsOK == Horizon \in Nat /\ Keep \in Nat /\ NoItem \notin Items

Open == {"pending", "overdue"}
Ended == {"recorded", "cancelled"}
Status == Open \cup Ended \cup {"none", "deleted"}
Times == 0..Horizon
Ops == {"create", "update", "delete", "record", "cancel"}

VARIABLES
    now,
    row,     \* the scheduled_events table
    event,   \* the event a record request stored, and whether its run is queued
    call,    \* requests: what they read and what they do next
    job,     \* the job: what it does next, and the rows it selected
    stale    \* history: items a request or the job wrote after a change it missed

vars == <<now, row, event, call, job, stale>>

Absent == [status |-> "none", at |-> 0, changed |-> 0, link |-> NoCall]
Unread == [status |-> "none", at |-> 0]
Unused == [step |-> "new", item |-> NoItem, copy |-> Unread]
Over == [Unused EXCEPT !.step = "done"]

Init ==
    /\ now = 0
    /\ row = [i \in Items |-> Absent]
    /\ event = [c \in Calls |-> [state |-> "none", item |-> NoItem]]
    /\ call = [c \in Calls |-> Unused]
    /\ job = [step |-> "idle", rows |-> {}]
    /\ stale = {}

Exists(i) == row[i].status \notin {"none", "deleted"}

\* Mutant: a state the table does not know.
StatusAtDue(t) == IF t <= now THEN "due" ELSE "pending"
\* A planned time that has come makes the row overdue, one still ahead pending.
StatusAt(t) == IF t <= now THEN "overdue" ELSE "pending"

\* updated_at has onupdate=now: every UPDATE of a row moves it.
Save(i, r) == row' = [row EXCEPT ![i] = [r EXCEPT !.changed = now]]

\* What a writer missed: the row is no longer what it read.
Missed(i, copy) == IF row[i].status # copy.status THEN {i} ELSE {}

Goto(c, step) == call' = [call EXCEPT ![c].step = step]
Return(c) == call' = [call EXCEPT ![c] = Over]

----------------------------------------------------------------------------
(* Requests *)

Create(c, i, t) ==
    /\ call[c].step = "new" /\ row[i].status = "none"
    /\ Save(i, [Absent EXCEPT !.status = StatusAt(t), !.at = t])
    /\ Return(c)
    /\ UNCHANGED <<now, event, job, stale>>

\* Mutant: a recorded row may be recorded again.
RecordableTwice(status) == status \in Open \cup {"recorded"}
\* Every request on a row asks for one of the open states.
Recordable(status) == status \in Open

\* The SELECT and the checks; a row in another state is refused.
Read(c, i, op) ==
    /\ call[c].step = "new" /\ op # "create"
    /\ Exists(i)
    /\ call' = [call EXCEPT ![c] =
          IF Recordable(row[i].status)
          THEN [step |-> op, item |-> i,
                copy |-> [status |-> row[i].status, at |-> row[i].at]]
          ELSE Over]
    /\ UNCHANGED <<now, row, event, job, stale>>

\* An UPDATE that finds no row raises, and the request ends without effect.
Update(c, t) ==
    LET i == call[c].item
        copy == call[c].copy
        status == IF t # copy.at THEN StatusAt(t) ELSE copy.status
    IN  /\ call[c].step = "update"
        /\ IF Exists(i)
           THEN /\ Save(i, [row[i] EXCEPT !.at = t,
                             !.status = IF status = copy.status THEN @
                                        ELSE status])
                /\ stale' = stale \cup Missed(i, copy)
           ELSE UNCHANGED <<row, stale>>
        /\ Return(c)
        /\ UNCHANGED <<now, event, job>>

Delete(c) ==
    LET i == call[c].item IN
    /\ call[c].step = "delete"
    /\ row' = [row EXCEPT ![i].status = "deleted"]
    /\ stale' = stale \cup Missed(i, call[c].copy)
    /\ Return(c)
    /\ UNCHANGED <<now, event, job>>

Cancel(c) ==
    LET i == call[c].item IN
    /\ call[c].step = "cancel"
    /\ IF Exists(i)
       THEN /\ Save(i, [row[i] EXCEPT !.status = "cancelled"])
            /\ stale' = stale \cup Missed(i, call[c].copy)
       ELSE UNCHANGED <<row, stale>>
    /\ Return(c)
    /\ UNCHANGED <<now, event, job>>

\* Mutant: the row is committed before its event.
RecordRowFirst(c) ==
    LET i == call[c].item IN
    /\ call[c].step = "record" /\ Exists(i)
    /\ Save(i, [row[i] EXCEPT !.status = "recorded"])
    /\ stale' = stale \cup Missed(i, call[c].copy)
    /\ Goto(c, "link")
    /\ UNCHANGED <<now, event, job>>
\* The first commit: the event and the new status together.
Record(c) ==
    LET i == call[c].item IN
    /\ call[c].step = "record"
    /\ IF Exists(i)
       THEN /\ Save(i, [row[i] EXCEPT !.status = "recorded"])
            /\ event' = [event EXCEPT ![c] = [state |-> "stored", item |-> i]]
            /\ stale' = stale \cup Missed(i, call[c].copy)
            /\ Goto(c, "link")
       ELSE /\ Return(c)
            /\ UNCHANGED <<row, event, stale>>
    /\ UNCHANGED <<now, job>>

\* The second commit, and only then the background task.  Without the row it
\* raises, and the event stays without link and without a run.
Link(c) ==
    LET i == call[c].item IN
    /\ call[c].step = "link"
    /\ IF Exists(i)
       THEN /\ Save(i, [row[i] EXCEPT !.link = c])
            /\ event' = [event EXCEPT ![c].state = "queued"]
       ELSE UNCHANGED <<row, event>>
    /\ Return(c)
    /\ UNCHANGED <<now, job, stale>>

\* A commit that fails ("database is locked") rolls back and ends the request.
Fail(c) ==
    /\ call[c].step \in Ops \cup {"link"}
    /\ Return(c)
    /\ UNCHANGED <<now, row, event, job, stale>>

----------------------------------------------------------------------------
(* The maintenance job *)

Due(i) == row[i].status = "pending" /\ row[i].at <= now
Old(i) == row[i].status = "cancelled" /\ row[i].changed + Keep <= now

Work(step, rows) == job' = [step |-> step, rows |-> rows]

SelectDue ==
    /\ job.step = "idle"
    /\ LET due == {i \in Items : Due(i)} IN
       Work(IF due = {} THEN "marked" ELSE "mark", due)
    /\ UNCHANGED <<now, row, event, call, stale>>

\* Mutant: the marks are never committed.
MarkOverdueLost ==
    /\ job.step = "mark"
    /\ Work("marked", {})
    /\ UNCHANGED <<now, row, event, call, stale>>
\* One transaction: a row deleted meanwhile fails the marks of all of them, and
\* the exception also skips this round's cleanup.
MarkOverdue ==
    /\ job.step = "mark"
    /\ IF \A i \in job.rows : Exists(i)
       THEN /\ row' = [i \in Items |->
                  IF i \in job.rows
                  THEN [row[i] EXCEPT !.status = "overdue", !.changed = now]
                  ELSE row[i]]
            /\ stale' = stale \cup {i \in job.rows : row[i].status # "pending"}
            /\ Work("marked", {})
       ELSE /\ Work("idle", {})
            /\ UNCHANGED <<row, stale>>
    /\ UNCHANGED <<now, event, call>>

SelectOld ==
    /\ job.step = "marked"
    /\ Work("clean", {i \in Items : Old(i)})
    /\ UNCHANGED <<now, row, event, call, stale>>

Clean ==
    /\ job.step = "clean"
    /\ row' = [i \in Items |-> IF i \in job.rows
                               THEN [row[i] EXCEPT !.status = "deleted"]
                               ELSE row[i]]
    /\ stale' = stale \cup {i \in job.rows : row[i].status # "cancelled"}
    /\ Work("idle", {})
    /\ UNCHANGED <<now, event, call>>

----------------------------------------------------------------------------

\* The server stops: what is in flight ends where it is, and what was queued
\* as a background task is gone.  The job starts again with the server.
Stop ==
    /\ \E c \in Calls : call[c].step \in Ops \cup {"link"}
    /\ call' = [c \in Calls |-> IF call[c].step \in Ops \cup {"link"}
                                THEN Over
                                ELSE call[c]]
    /\ Work("idle", {})
    /\ UNCHANGED <<now, row, event, stale>>

Tick ==
    /\ now < Horizon
    /\ now' = now + 1
    /\ UNCHANGED <<row, event, call, job, stale>>

Job == SelectDue \/ MarkOverdue \/ SelectOld \/ Clean

Next ==
    \/ Job \/ Tick \/ Stop
    \/ \E c \in Calls :
        \/ \E i \in Items :
            \/ \E t \in Times : Create(c, i, t)
            \/ \E op \in Ops : Read(c, i, op)
        \/ \E t \in Times : Update(c, t)
        \/ Delete(c) \/ Cancel(c) \/ Record(c) \/ Link(c) \/ Fail(c)

Spec == Init /\ [][Next]_vars
\* The job's task is created at start-up and loops until the server stops.
FairSpec == Spec /\ WF_vars(Job)

----------------------------------------------------------------------------
(* Properties *)

TypeOK ==
    /\ now \in Times
    /\ row \in [Items -> [status : Status, at : Times, changed : Times,
                          link : Calls \cup {NoCall}]]
    /\ \A c \in Calls : /\ event[c].state \in {"none", "stored", "queued"}
                        /\ event[c].state = "none" <=> event[c].item = NoItem
                        /\ call[c].step \in Ops \cup {"new", "link", "done"}
                        /\ call[c].item \in Items \cup {NoItem}
                        /\ call[c].copy.at \in Times
    /\ job.step \in {"idle", "mark", "marked", "clean"}
    /\ job.rows \subseteq Items
    /\ stale \subseteq Items

\* What a row says was recorded is there: the status and the event come with
\* one commit, whatever fails after it.
RecordedHasEvent ==
    \A i \in Items : row[i].status = "recorded" =>
        \E c \in Calls : event[c].item = i

\* An interaction is recorded twice, with two events and two pipeline runs,
\* only if somebody wrote a row whose change they had not seen: two requests
\* that overlap, or a job that turned a recorded row back into an overdue one.
RecordedTwiceOnlyStale ==
    \A c, d \in Calls :
        c # d /\ event[c].state # "none" /\ event[c].item = event[d].item
        => event[c].item \in stale

\* A recorded or cancelled row is final, for the job as well; only a stale
\* write reopens it, and only an old cancelled row disappears.
EndedIsFinal ==
    [][\A i \in Items :
          row[i].status \in Ended /\ row'[i].status # row[i].status
          => i \in stale' \/ (row'[i].status = "deleted" /\ Old(i))]_vars

\* The link is the sign that the run was queued: an event whose run was lost
\* between the commits is never the one its row names, whoever wrote last.
LinkedIsQueued ==
    \A i \in Items : row[i].link # NoCall =>
        event[row[i].link] = [state |-> "queued", item |-> i]

\* Recording as a whole.
RecordsAreSound == RecordedHasEvent /\ LinkedIsQueued /\ RecordedTwiceOnlyStale

\* What is due does not stay pending: the job reaches it although a row that
\* is deleted under it fails a whole round.
DueIsMarked ==
    \A i \in Items : Due(i) ~> ~Due(i)
=============================================================================
