------------------------ MODULE TodoLifecycleProofs ------------------------
(***************************************************************************)
(* Why the recovery job discards no snooze that has not expired, and why a *)
(* snoozed todo keeps its schedule as long as the reminder page snoozes    *)
(* nothing, for any todos, requests and interleaving.  The reason is the   *)
(* primary key of snooze_schedules: while the job holds a schedule it has  *)
(* read, no request can snooze that todo anew.                             *)
(***************************************************************************)
EXTENDS TodoLifecycle, TLAPS

InJob == job.rest \cup job.seen

\* What the job has read: a due schedule is still there, or its todo has been
\* deleted.
JobHolds ==
    /\ job.wake \subseteq job.seen
    /\ \A d \in InJob : (Exists(d) /\ schedule[d] = "due") \/ status[d] = "gone"

\* A schedule belongs to a todo.
Owned == \A d \in Todos : schedule[d] # "none" => Exists(d)

\* Requests that bypass the state machine end a todo.
DirectWritesEnd ==
    \A t \in Tasks :
        (request[t] # NoRequest /\ request[t].via = "write") => request[t].to \in Terminal

\* A todo the job has seen and will not wake is not snoozed.
LeftAsleep == \A d \in job.seen \ job.wake : status[d] # "snoozed"

\* If the reminder page snoozes nothing, only the state machine does.
OnlyPatchSnoozes ==
    "snoozed" \notin Actions => DirectWritesEnd /\ LeftAsleep /\ SnoozedIsScheduled

Inv == TypeOK /\ JobHolds /\ Owned /\ OnlyPatchSnoozes

\* NoRequest is none of the requests, so what is not NoRequest has fields.
LEMMA RequestTypes ==
    ASSUME TypeOK, NEW t \in Tasks, request[t] # NoRequest
    PROVE  request[t] \in Requests
BY DEF TypeOK

\* The initial state.
LEMMA InvInit == Init => Inv
BY DEF Init, Inv, TypeOK, JobHolds, Owned, OnlyPatchSnoozes, DirectWritesEnd, LeftAsleep,
       InJob, IdleJob, SnoozedIsScheduled, TodoStatus, Terminal, Exists

\* Requests that read: only the task's request changes.
LEMMA ReadStep ==
    ASSUME Inv, NEW t \in Tasks, NEW d \in Todos,
           \/ \E to \in TodoStatus : PatchTodo(t, d, to)
           \/ \E act \in DOMAIN StatusOf : RemindAction(t, d, act)
           \/ RejectTodo(t, d)
    PROVE  Inv'
<1>1. PICK via \in {"patch", "write"}, to \in TodoStatus :
        /\ Begin(t, via, d, to)
        /\ (via = "write" /\ "snoozed" \notin Actions) => to \in Terminal
  BY DEF PatchTodo, RemindAction, RejectTodo, StatusOf, TodoStatus, Terminal, Inv
<1>2. request' = [request EXCEPT ![t] = [via |-> via, todo |-> d, saw |-> status[d], to |-> to]]
      /\ status[d] \in TodoStatus /\ UNCHANGED <<status, schedule, job>>
  BY <1>1 DEF Begin, Exists
<1>3. [via |-> via, todo |-> d, saw |-> status[d], to |-> to] \in Requests
  BY <1>2 DEF Requests
<1>4. TypeOK'
  BY <1>2, <1>3 DEF Inv, TypeOK
<1>5. OnlyPatchSnoozes'
  BY <1>1, <1>2 DEF Inv, TypeOK, OnlyPatchSnoozes, DirectWritesEnd, LeftAsleep,
                    SnoozedIsScheduled
<1> QED
  BY <1>2, <1>4, <1>5 DEF Inv, Owned, JobHolds, InJob, Exists

\* Requests that write: a snooze finds no schedule, so the job holds none.
LEMMA WriteStep ==
    ASSUME Inv, NEW t \in Tasks, Finish(t)
    PROVE  Inv'
<1>1. ASSUME PatchWrite(t) PROVE Inv'
  <2> DEFINE d == request[t].todo
  <2> DEFINE to == request[t].to
  <2>1. /\ request[t] # NoRequest /\ d \in Todos /\ to \in TodoStatus /\ Exists(d)
        /\ status' = [status EXCEPT ![d] = to]
        /\ to = "snoozed" => schedule[d] = "none"
        /\ schedule' = IF to = "snoozed" THEN [schedule EXCEPT ![d] = "waiting"] ELSE schedule
        /\ request' = [request EXCEPT ![t] = NoRequest]
        /\ job' = job
    BY <1>1, RequestTypes DEF PatchWrite, End, Inv, Requests
  <2> HIDE DEF d, to
  <2>2. TypeOK'
    BY <2>1 DEF Inv, TypeOK
  <2>3. Owned'
    BY <2>1 DEF Inv, TypeOK, Owned, Exists
  <2>4. to = "snoozed" => d \notin InJob
    BY <2>1 DEF Inv, JobHolds, Exists, TodoStatus, Terminal
  <2>5. \A c \in InJob : c \in Todos
    BY DEF Inv, TypeOK, InJob
  <2>6. JobHolds'
    BY <2>1, <2>4, <2>5 DEF Inv, TypeOK, JobHolds, InJob, Exists, TodoStatus, Terminal
  <2>7. OnlyPatchSnoozes'
    <3>1. DirectWritesEnd => DirectWritesEnd'
      BY <2>1 DEF Inv, TypeOK, DirectWritesEnd
    <3>2. LeftAsleep => LeftAsleep'
      BY <2>1, <2>4, <2>5 DEF Inv, TypeOK, LeftAsleep, InJob
    <3>3. SnoozedIsScheduled => SnoozedIsScheduled'
      BY <2>1 DEF Inv, TypeOK, SnoozedIsScheduled
    <3> QED
      BY <3>1, <3>2, <3>3 DEF Inv, OnlyPatchSnoozes
  <2> QED
    BY <2>2, <2>3, <2>6, <2>7 DEF Inv
<1>2. ASSUME DirectWrite(t) PROVE Inv'
  <2> DEFINE d == request[t].todo
  <2> DEFINE to == request[t].to
  <2>1. /\ request[t] # NoRequest /\ d \in Todos /\ to \in TodoStatus /\ Exists(d)
        /\ request[t].via = "write"
        /\ status' = [status EXCEPT ![d] = to] \/ status' = status
        /\ request' = [request EXCEPT ![t] = NoRequest]
        /\ schedule' = schedule /\ job' = job
    BY <1>2, RequestTypes DEF DirectWrite, End, Inv, Requests
  <2>2. DirectWritesEnd => to \in Terminal
    BY <2>1 DEF DirectWritesEnd
  <2> HIDE DEF d, to
  <2>3. TypeOK'
    BY <2>1 DEF Inv, TypeOK, TodoStatus
  <2>4. Owned' /\ JobHolds'
    BY <2>1 DEF Inv, TypeOK, Owned, JobHolds, InJob, Exists, TodoStatus, Terminal
  <2>5. OnlyPatchSnoozes'
    <3>1. DirectWritesEnd => DirectWritesEnd'
      BY <2>1 DEF Inv, TypeOK, DirectWritesEnd
    <3>2. (DirectWritesEnd /\ LeftAsleep /\ SnoozedIsScheduled)
            => LeftAsleep' /\ SnoozedIsScheduled'
      BY <2>1, <2>2 DEF Inv, TypeOK, LeftAsleep, SnoozedIsScheduled, Terminal
    <3> QED
      BY <3>1, <3>2 DEF Inv, OnlyPatchSnoozes
  <2> QED
    BY <2>3, <2>4, <2>5 DEF Inv
<1>3. ASSUME WriteFails(t) PROVE Inv'
  BY <1>3 DEF WriteFails, End, Inv, TypeOK, JobHolds, Owned, OnlyPatchSnoozes,
       DirectWritesEnd, LeftAsleep, InJob, SnoozedIsScheduled, Exists
<1> QED
  BY <1>1, <1>2, <1>3 DEF Finish

\* A todo comes, goes, or its snooze expires.
LEMMA TodoStep ==
    ASSUME Inv, NEW d \in Todos,
           CreateTodo(d) \/ DeleteTodo(d) \/ SnoozeExpires(d)
    PROVE  Inv'
<1>1. ASSUME CreateTodo(d) PROVE Inv'
  <2>1. d \notin InJob
    BY <1>1 DEF CreateTodo, Inv, JobHolds, Exists, TodoStatus, Terminal
  <2> QED
    BY <1>1, <2>1 DEF CreateTodo, Inv, TypeOK, JobHolds, Owned, OnlyPatchSnoozes,
         DirectWritesEnd, LeftAsleep, InJob, SnoozedIsScheduled, Exists, TodoStatus, Terminal
<1>2. ASSUME DeleteTodo(d) PROVE Inv'
  BY <1>2 DEF DeleteTodo, Inv, TypeOK, JobHolds, Owned, OnlyPatchSnoozes, DirectWritesEnd,
       LeftAsleep, InJob, SnoozedIsScheduled, Exists, TodoStatus, Terminal
<1>3. ASSUME SnoozeExpires(d) PROVE Inv'
  BY <1>3 DEF SnoozeExpires, Inv, TypeOK, JobHolds, Owned, OnlyPatchSnoozes, DirectWritesEnd,
       LeftAsleep, InJob, SnoozedIsScheduled, Exists, TodoStatus, Terminal
<1> QED
  BY <1>1, <1>2, <1>3

\* The recovery job.
LEMMA JobStep ==
    ASSUME Inv,
           JobSelect \/ JobWrite \/ JobFails \/ \E d \in Todos : JobGet(d)
    PROVE  Inv'
<1>1. ASSUME JobSelect PROVE Inv'
  <2>1. job' = [rest |-> {d \in Todos : schedule[d] = "due"}, seen |-> {}, wake |-> {}]
        /\ UNCHANGED <<status, schedule, request>>
    BY <1>1 DEF JobSelect, IdleJob
  <2> QED
    BY <2>1 DEF Inv, TypeOK, JobHolds, Owned, OnlyPatchSnoozes, DirectWritesEnd,
         LeftAsleep, InJob, SnoozedIsScheduled, Exists
<1>2. ASSUME NEW d \in Todos, JobGet(d) PROVE Inv'
  BY <1>2 DEF JobGet, Inv, TypeOK, JobHolds, Owned, OnlyPatchSnoozes, DirectWritesEnd,
       LeftAsleep, InJob, SnoozedIsScheduled, Exists, TodoStatus, Terminal
<1>3. ASSUME JobWrite PROVE Inv'
  <2>1. TypeOK'
    BY <1>3 DEF JobWrite, IdleJob, Inv, TypeOK, TodoStatus
  <2>2. JobHolds' /\ LeftAsleep'
    BY <1>3 DEF JobWrite, IdleJob, JobHolds, LeftAsleep, InJob
  <2>3. Owned'
    BY <1>3 DEF JobWrite, Inv, TypeOK, Owned, JobHolds, InJob, Exists, TodoStatus
  <2>4. (LeftAsleep /\ SnoozedIsScheduled) => SnoozedIsScheduled'
    BY <1>3 DEF JobWrite, Inv, TypeOK, LeftAsleep, JobHolds, SnoozedIsScheduled
  <2>5. DirectWritesEnd => DirectWritesEnd'
    BY <1>3 DEF JobWrite, DirectWritesEnd
  <2> QED
    BY <2>1, <2>2, <2>3, <2>4, <2>5 DEF Inv, OnlyPatchSnoozes
<1>4. ASSUME JobFails PROVE Inv'
  BY <1>4 DEF JobFails, IdleJob, Inv, TypeOK, JobHolds, Owned, OnlyPatchSnoozes,
       DirectWritesEnd, LeftAsleep, InJob, SnoozedIsScheduled, Exists
<1> QED
  BY <1>1, <1>2, <1>3, <1>4

\* Every step keeps the invariant.
LEMMA InvNext == Inv /\ [Next]_vars => Inv'
<1> SUFFICES ASSUME Inv, [Next]_vars PROVE Inv'
  OBVIOUS
<1>1. CASE Next
  BY <1>1, ReadStep, WriteStep, TodoStep, JobStep DEF Next
<1>2. CASE UNCHANGED vars
  BY <1>2 DEF vars, Inv, TypeOK, JobHolds, Owned, OnlyPatchSnoozes, DirectWritesEnd,
       LeftAsleep, InJob, SnoozedIsScheduled, Exists
<1> QED
  BY <1>1, <1>2

\* The invariant, which every theorem below rests on.
THEOREM Invariant == Spec => []Inv
  BY InvInit, InvNext, PTL DEF Spec

\* Rows, schedules, requests and the job keep their types.
THEOREM TypeCorrect == Spec => []TypeOK
<1>1. Inv => TypeOK
  BY DEF Inv
<1> QED
  BY Invariant, <1>1, PTL

\* A todo the state machine has snoozed has the row that will wake it; the
\* reminder page writes none, so it must not snooze (reminders.py).
THEOREM SnoozesKeepTheirSchedule ==
    ASSUME "snoozed" \notin Actions
    PROVE  Spec => []SnoozedIsScheduled
<1>1. Inv => SnoozedIsScheduled
  BY DEF Inv, OnlyPatchSnoozes
<1> QED
  BY Invariant, <1>1, PTL

\* No step but a deletion takes a schedule away before it has expired.
LEMMA NothingCutShort ==
    ASSUME Inv, [Next]_vars, NEW d \in Todos, schedule[d] = "waiting"
    PROVE  schedule'[d] \in {"waiting", "due"} \/ status'[d] = "gone"
<1>1. CASE JobWrite
  <2>1. d \notin job.seen \/ status[d] = "gone"
    BY DEF Inv, JobHolds, InJob
  <2>2. Exists(d)
    BY DEF Inv, Owned
  <2> QED
    BY <1>1, <2>1, <2>2 DEF JobWrite, Exists, TodoStatus, Terminal
<1>2. CASE \E c \in Todos : DeleteTodo(c) \/ SnoozeExpires(c)
  BY <1>2 DEF DeleteTodo, SnoozeExpires, Inv, TypeOK
<1>3. CASE \E t \in Tasks : PatchWrite(t)
  BY <1>3 DEF PatchWrite, Inv, TypeOK
<1>4. CASE UNCHANGED schedule
  BY <1>4
<1> QED
  BY <1>1, <1>2, <1>3, <1>4
  DEF Next, vars, CreateTodo, JobGet, JobSelect, JobFails, PatchTodo, RemindAction,
      RejectTodo, Begin, Finish, DirectWrite, WriteFails

\* The recovery cuts no snooze short (recover_expired_snoozes), whatever the
\* reminder page does.
THEOREM NoneCutShort == Spec => NoSnoozeCutShort
<1>1. Inv /\ [Next]_vars =>
        [\A d \in Todos : schedule[d] = "waiting" =>
           schedule'[d] \in {"waiting", "due"} \/ status'[d] = "gone"]_vars
  BY NothingCutShort
<1> QED
  BY Invariant, <1>1, PTL DEF Spec, NoSnoozeCutShort
=============================================================================
