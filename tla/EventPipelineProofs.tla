------------------------ MODULE EventPipelineProofs ------------------------
(***************************************************************************)
(* What EventPipeline promises for every set of events, users and tasks,   *)
(* every choice of failing steps, and every interleaving of requests, runs *)
(* and faults.                                                             *)
(***************************************************************************)
EXTENDS EventPipeline, TLAPS

Within(t) == pc[t] \in InLock \cup {"lock"}

\* How the fields of a task hang together, whatever the rows hold.
TaskShape ==
    \A t \in Tasks :
        /\ (Within(t) \/ pc[t] \in {"resolve", "retry", "accept"}) => ev[t] \in Events
        /\ Within(t) => key[t] \in {OwnerOf[ev[t]], Anonymous}
        /\ pc[t] \in {"mark_read", "mark_write"} => verdict[t] \in Retryable
        /\ pc[t] \in {"idle", "retry", "accept"} => queue[t] = {}

\* A run inside its steps holds the lock of its key.
HoldsLock == \A t \in Tasks : pc[t] \in InLock => holder[key[t]] = t

Shape == TypeOK /\ TaskShape /\ HoldsLock

\* A run inside the lock goes to another place inside it; no other run does
\* anything.
Moves(t) ==
    /\ pc' \in [Tasks -> Places] /\ pc'[t] \in InLock
    /\ failed' \in [Tasks -> SUBSET Reasons]
    /\ verdict' \in [Tasks -> Retryable \cup {"none"}]
    /\ \A s \in Tasks \ {t} : pc'[s] = pc[s] /\ verdict'[s] = verdict[s]
    /\ pc'[t] \in {"mark_read", "mark_write"} => verdict'[t] \in Retryable

\* What every step of a run inside the lock has in common.
Advance(t) ==
    /\ pc[t] \in InLock \ {"release"}
    /\ Moves(t)
    /\ status' \in [Events -> Statuses]
    /\ failedSteps' \in [Events -> SUBSET Reasons]
    /\ faulted \subseteq faulted' /\ faulted' \subseteq Events
    /\ UNCHANGED <<ev, key, queue, holder>>

\* The steps of a run inside the lock that leave the status of events alone.
Quiet(t) ==
    \/ VerifyPending(t) \/ ClassifyScope(t) \/ ExtractEntities(t)
    \/ SemanticEmbedding(t) \/ GenerateTodos(t) \/ AnalysePromises(t)
    \/ CheckResourceOveruse(t) \/ ScorePriority(t) \/ Notify(t)
    \/ StoreMemory(t) \/ DiscoverAssociations(t) \/ ScanFrequentContacts(t)
    \/ AssociationTodos(t) \/ UpdateBriefs(t) \/ MarkRead(t)
    \/ VerifyRaises(t) \/ CompleteRaises(t) \/ MarkFails(t)

\* Why a quiet step loses no event: the run stays where it was heading,
\* or has seen that its event needs it no more, or a fault is on record.
Entitled(t) ==
    /\ status' = status
    /\ pc[t] \in Working =>
         pc'[t] \in Working \/ status[ev[t]] # "processing" \/ ev[t] \in faulted'
    /\ pc[t] \in {"verify", "mark"} =>
         pc'[t] = "mark" \/ status[ev[t]] # "pending" \/ ev[t] \in faulted'

\* Where the places of a run lie.
LEMMA PlaceFacts ==
    /\ StepNames \cup {"step13_complete_event"} \subseteq Working
    /\ Working \subseteq InLock /\ InLock \subseteq Places
    /\ {"verify", "mark", "release", "mark_read", "mark_write"} \subseteq InLock
    /\ {"mark_read", "mark_write", "step13_complete_event"} \subseteq Working
    /\ {"verify", "mark", "release"} \cap Working = {}
    /\ {"step01_verify_event", "step02_extract_entities", "step03_semantic_embedding",
        "step04_todo_generation", "step05_promise_analysis", "step06_resource_overuse",
        "step07_priority_scoring", "step08_notification", "step09_memory_storage",
        "step10_association_discovery", "step10b_frequent_contact",
        "step11_association_todos", "step12_relationship_brief_update"} \subseteq StepNames
    /\ {"mark_read", "mark_write"} \cap (StepNames \cup {"step13_complete_event"}) = {}
BY DEF StepNames, Critical, NonCritical, Working, InLock, Places

\* The ways a step may end, seen as moves.
LEMMA StepEnds ==
    ASSUME TypeOK, NEW t \in Tasks
    PROVE  /\ \A next \in StepNames \cup {"step13_complete_event"} :
                 pc[t] \in StepNames /\ Proceed(t, next) => Moves(t) /\ pc'[t] = next
           /\ pc[t] \in StepNames /\ FailAndStop(t) => Moves(t) /\ pc'[t] = "mark_read"
           /\ Raise(t) => Moves(t) /\ pc'[t] = "mark_read"
           /\ GiveUp(t) => Moves(t) /\ pc'[t] = "release"
           /\ \A place \in InLock \ {"mark_read", "mark_write"} :
                 Goto(t, place) /\ UNCHANGED <<failed, verdict>>
                    => Moves(t) /\ pc'[t] = place
<1> USE DEF TypeOK, Moves, Goto, Places, InLock, Working, Reasons
<1> DEFINE Ends == StepNames \cup {"step13_complete_event"}
<1>1. ASSUME NEW next \in Ends, pc[t] \in StepNames, Proceed(t, next)
      PROVE  Moves(t) /\ pc'[t] = next
  <2>1. failed' \in [Tasks -> SUBSET Reasons]
    BY <1>1 DEF Proceed, Fail
  <2>2. verdict' = verdict /\ pc' = [pc EXCEPT ![t] = next]
    BY <1>1 DEF Proceed
  <2>3. next \notin {"mark_read", "mark_write"}
    BY DEF StepNames, Critical, NonCritical
  <2> QED BY <2>1, <2>2, <2>3
<1>2. ASSUME pc[t] \in StepNames, FailAndStop(t)
      PROVE  Moves(t) /\ pc'[t] = "mark_read"
  <2>1. failed' \in [Tasks -> SUBSET Reasons]
    BY <1>2 DEF FailAndStop, Fail
  <2>2. PICK verd \in Retryable : verdict' = [verdict EXCEPT ![t] = verd]
    BY <1>2 DEF FailAndStop, Stop, StopVerdict, Retryable
  <2>3. pc' = [pc EXCEPT ![t] = "mark_read"]
    BY <1>2 DEF FailAndStop, Stop
  <2> QED BY <2>1, <2>2, <2>3
<1>3. ASSUME Raise(t)
      PROVE  Moves(t) /\ pc'[t] = "mark_read"
  <2>1. failed' \in [Tasks -> SUBSET Reasons]
    BY <1>3 DEF Raise
  <2>2. verdict' = [verdict EXCEPT ![t] = "failed"] /\ pc' = [pc EXCEPT ![t] = "mark_read"]
    BY <1>3 DEF Raise, Stop
  <2> QED BY <2>1, <2>2 DEF Retryable
<1>4. ASSUME GiveUp(t)
      PROVE  Moves(t) /\ pc'[t] = "release"
  BY <1>4 DEF GiveUp
<1>5. ASSUME NEW place \in InLock \ {"mark_read", "mark_write"},
             Goto(t, place), UNCHANGED <<failed, verdict>>
      PROVE  Moves(t) /\ pc'[t] = place
  BY <1>5
<1> QED BY <1>1, <1>2, <1>3, <1>4, <1>5

\* A quiet step moves its run inside the lock and is entitled to: it leaves
\* every row alone and loses no event.
LEMMA QuietAdvances ==
    ASSUME Shape, NEW t \in Tasks, Quiet(t)
    PROVE  Advance(t) /\ Entitled(t)
<1> USE StepEnds, PlaceFacts DEF Shape, Advance, Entitled, StepFrame, rows
<1> TypeOK /\ ev[t] \in Events \cup {NoEvent} /\ (pc[t] \in InLock => ev[t] \in Events)
  BY DEF TypeOK, TaskShape, Within
<1> pc[t] \in Places
  BY DEF TypeOK
<1> status \in [Events -> Statuses] /\ failedSteps \in [Events -> SUBSET Reasons]
      /\ faulted \subseteq Events
  BY DEF TypeOK
<1>1. CASE VerifyPending(t)          BY <1>1 DEF VerifyPending
<1>2. CASE ClassifyScope(t)
  <2>1. pc[t] = "step01_verify_event" /\ pc[t] \in StepNames /\ pc[t] \in Working
    BY <1>2 DEF ClassifyScope
  <2>2. Moves(t)
    BY <1>2, <2>1 DEF ClassifyScope, RaiseFrom
  <2>3. pc'[t] \in Working \/ ~Exists(ev[t])
    BY <1>2, <2>1 DEF ClassifyScope, RaiseFrom
  <2> QED BY <1>2, <2>1, <2>2, <2>3 DEF ClassifyScope, Exists
<1>3. CASE ExtractEntities(t)
  <2>1. pc[t] = "step02_extract_entities" /\ pc[t] \in StepNames /\ pc[t] \in Working
    BY <1>3 DEF ExtractEntities
  <2>2. Moves(t)
    BY <1>3, <2>1 DEF ExtractEntities
  <2>3. pc'[t] \in Working \/ ~Exists(ev[t])
    BY <1>3, <2>1 DEF ExtractEntities
  <2> QED BY <1>3, <2>1, <2>2, <2>3 DEF ExtractEntities, Exists
<1>4. CASE SemanticEmbedding(t)      BY <1>4 DEF SemanticEmbedding
<1>5. CASE GenerateTodos(t)
  <2>1. pc[t] = "step04_todo_generation" /\ pc[t] \in StepNames /\ pc[t] \in Working
    BY <1>5 DEF GenerateTodos
  <2>2. Moves(t)
    BY <1>5, <2>1 DEF GenerateTodos
  <2>3. pc'[t] \in Working \/ ~Exists(ev[t])
    BY <1>5, <2>1 DEF GenerateTodos
  <2> QED BY <1>5, <2>1, <2>2, <2>3 DEF GenerateTodos, Exists
<1>6. CASE AnalysePromises(t)
  <2>1. pc[t] = "step05_promise_analysis" /\ pc[t] \in StepNames /\ pc[t] \in Working
    BY <1>6 DEF AnalysePromises
  <2>2. Moves(t) /\ pc'[t] = "step06_resource_overuse"
    <3>1. CASE Exists(ev[t])
      BY <1>6, <2>1, <3>1 DEF AnalysePromises
    <3>2. CASE ~Exists(ev[t])
      <4>1. failed' = [failed EXCEPT ![t] = @ \cup {pc[t]}] /\ verdict' = verdict
            /\ pc' = [pc EXCEPT ![t] = "step06_resource_overuse"]
        BY <1>6, <3>2 DEF AnalysePromises, Fail, Goto
      <4>2. failed' \in [Tasks -> SUBSET Reasons]
        BY <2>1, <4>1 DEF TypeOK, Reasons
      <4> QED BY <4>1, <4>2 DEF Moves, TypeOK
    <3> QED BY <3>1, <3>2
  <2> QED BY <1>6, <2>1, <2>2 DEF AnalysePromises
<1>7. CASE CheckResourceOveruse(t)   BY <1>7 DEF CheckResourceOveruse
<1>8. CASE ScorePriority(t)          BY <1>8 DEF ScorePriority
<1>9. CASE Notify(t)                 BY <1>9 DEF Notify
<1>10. CASE StoreMemory(t)           BY <1>10 DEF StoreMemory
<1>11. CASE DiscoverAssociations(t)
  <2>1. pc[t] = "step10_association_discovery" /\ pc[t] \in StepNames /\ pc[t] \in Working
    BY <1>11 DEF DiscoverAssociations
  <2>2. Moves(t) /\ pc'[t] \in Working
    BY <1>11, <2>1 DEF DiscoverAssociations, RaiseFrom
  <2> QED BY <1>11, <2>1, <2>2 DEF DiscoverAssociations
<1>12. CASE ScanFrequentContacts(t)
  <2>1. pc[t] = "step10b_frequent_contact" /\ pc[t] \in StepNames /\ pc[t] \in Working
    BY <1>12 DEF ScanFrequentContacts
  <2>2. Moves(t) /\ pc'[t] \in Working
    BY <1>12, <2>1 DEF ScanFrequentContacts, RaiseFrom
  <2> QED BY <1>12, <2>1, <2>2 DEF ScanFrequentContacts
<1>13. CASE AssociationTodos(t)      BY <1>13 DEF AssociationTodos
<1>14. CASE UpdateBriefs(t)          BY <1>14 DEF UpdateBriefs
<1>15. CASE MarkRead(t)
  <2>1. CASE status[ev[t]] # "processing"
    BY <1>15, <2>1 DEF MarkRead
  <2>2. CASE status[ev[t]] = "processing"
    <3>1. pc[t] = "mark_read" /\ verdict[t] \in Retryable
      BY <1>15 DEF MarkRead, TaskShape
    <3>2. Moves(t) /\ pc'[t] = "mark_write"
      BY <1>15, <2>2, <3>1 DEF MarkRead, Moves, Goto, TypeOK
    <3> QED BY <1>15, <3>1, <3>2 DEF MarkRead
  <2> QED BY <2>1, <2>2
<1>16. CASE VerifyRaises(t)          BY <1>16 DEF VerifyRaises
<1>17. CASE CompleteRaises(t)        BY <1>17 DEF CompleteRaises
<1>18. CASE MarkFails(t)             BY <1>18 DEF MarkFails
<1> QED BY <1>1, <1>2, <1>3, <1>4, <1>5, <1>6, <1>7, <1>8, <1>9, <1>10, <1>11,
           <1>12, <1>13, <1>14, <1>15, <1>16, <1>17, <1>18 DEF Quiet

----------------------------------------------------------------------------
(* Types, task shape and lock ownership *)

\* Whatever moves a run inside the lock keeps types, shape and lock ownership.
LEMMA AdvanceShape ==
    ASSUME Shape, NEW t \in Tasks, Advance(t)
    PROVE  Shape'
<1>1. TypeOK'
  BY DEF Shape, TypeOK, Advance, Moves
<1>2. TaskShape'
  <2> SUFFICES ASSUME NEW s \in Tasks
               PROVE  /\ (Within(s)' \/ pc'[s] \in {"resolve", "retry", "accept"}) => ev[s] \in Events
                      /\ Within(s)' => key[s] \in {OwnerOf[ev[s]], Anonymous}
                      /\ pc'[s] \in {"mark_read", "mark_write"} => verdict'[s] \in Retryable
                      /\ pc'[s] \in {"idle", "retry", "accept"} => queue[s] = {}
    BY DEF TaskShape, Within, Advance
  <2>1. CASE s # t
    BY <2>1 DEF Shape, TaskShape, Within, Advance, Moves
  <2>2. CASE s = t
    BY <2>2 DEF Shape, TaskShape, Within, Advance, Moves, InLock, Working,
                StepNames, Critical, NonCritical
  <2> QED BY <2>1, <2>2
<1>3. HoldsLock'
  BY DEF Shape, HoldsLock, Advance, Moves
<1> QED BY <1>1, <1>2, <1>3 DEF Shape

\* The three steps that write the event's row move their run too, and write a
\* status and reasons of the right type.
LEMMA RowWritesAdvance ==
    ASSUME Shape, NEW t \in Tasks,
           MarkProcessing(t) \/ CompleteEvent(t) \/ MarkWrite(t)
    PROVE  Advance(t)
<1> USE StepEnds, PlaceFacts DEF Shape, Advance, rows
<1>1. TypeOK /\ (pc[t] \in InLock => ev[t] \in Events)
  BY DEF TaskShape, Within
<1>2. CASE MarkProcessing(t)
  <2>1. status' \in [Events -> Statuses]
    BY <1>1, <1>2 DEF MarkProcessing, TypeOK, Statuses
  <2>2. Moves(t)
    BY <1>1, <1>2 DEF MarkProcessing
  <2> QED BY <1>1, <1>2, <2>1, <2>2 DEF MarkProcessing, TypeOK
<1>3. CASE CompleteEvent(t)
  <2>1. FinalStatus(failed[t]) \in Settled
    BY DEF FinalStatus, Settled, Retryable
  <2>2. status' \in [Events -> Statuses] /\ failedSteps' \in [Events -> SUBSET Reasons]
    BY <1>1, <1>3, <2>1 DEF CompleteEvent, TypeOK, Statuses
  <2> QED BY <1>1, <1>3, <2>2 DEF CompleteEvent, TypeOK
<1>4. CASE MarkWrite(t)
  <2>1. verdict[t] \in Statuses
    BY <1>4 DEF MarkWrite, TaskShape, Statuses, Settled
  <2>2. status' \in [Events -> Statuses] /\ failedSteps' \in [Events -> SUBSET Reasons]
    BY <1>1, <1>4, <2>1 DEF MarkWrite, TypeOK
  <2> QED BY <1>1, <1>4, <2>2 DEF MarkWrite, TypeOK
<1> QED BY <1>2, <1>3, <1>4

\* A step outside the lock keeps types, shape and lock ownership.
LEMMA OutsideShape ==
    ASSUME Shape, NEW t \in Tasks,
           \/ StartBatch(t) \/ EndBatch(t) \/ RetryWrite(t) \/ AcceptWrite(t)
           \/ NextJob(t) \/ ResolveOwner(t) \/ StartFails(t)
           \/ \E e \in Events : \/ CreateEvent(t, e) \/ BatchCreateEvent(t, e)
                               \/ RetryRead(t, e) \/ AcceptRead(t, e)
                               \/ RefreshFails(t, e)
    PROVE  Shape'
<1> USE ConstantsOK DEF Shape, TypeOK, TaskShape, HoldsLock, Within, Goto, rows, Keys,
        Requesting, Places, InLock, Working, StepNames, Critical, NonCritical
<1>1. CASE StartBatch(t)   BY <1>1 DEF StartBatch
<1>2. CASE EndBatch(t)     BY <1>2 DEF EndBatch
<1>3. CASE RetryWrite(t)   BY <1>3 DEF RetryWrite, Statuses
<1>4. CASE AcceptWrite(t)  BY <1>4 DEF AcceptWrite, Statuses, Settled
<1>5. CASE NextJob(t)      BY <1>5 DEF NextJob
<1>6. CASE ResolveOwner(t) BY <1>6 DEF ResolveOwner
<1>7. CASE StartFails(t)   BY <1>7 DEF StartFails
<1>8. ASSUME NEW e \in Events, CreateEvent(t, e) PROVE Shape'
  BY <1>8 DEF CreateEvent, Statuses
<1>9. ASSUME NEW e \in Events, BatchCreateEvent(t, e) PROVE Shape'
  BY <1>9 DEF BatchCreateEvent, Statuses
<1>10. ASSUME NEW e \in Events, RetryRead(t, e) PROVE Shape'
  BY <1>10 DEF RetryRead
<1>11. ASSUME NEW e \in Events, AcceptRead(t, e) PROVE Shape'
  BY <1>11 DEF AcceptRead
<1>12. ASSUME NEW e \in Events, RefreshFails(t, e) PROVE Shape'
  BY <1>12 DEF RefreshFails, Statuses
<1> QED BY <1>1, <1>2, <1>3, <1>4, <1>5, <1>6, <1>7, <1>8, <1>9, <1>10, <1>11, <1>12

\* Taking and releasing the pipeline lock keeps the shape; the run that
\* releases is the one that held, so no other run loses its lock.
LEMMA LockShape ==
    ASSUME Shape, NEW t \in Tasks, AcquireLock(t) \/ ReleaseLock(t)
    PROVE  Shape'
<1> USE ConstantsOK DEF Shape, TypeOK, TaskShape, HoldsLock, Within, Goto, rows
<1>1. CASE AcquireLock(t)
  <2>1. key[t] \in Keys /\ "verify" \in InLock
    BY <1>1, PlaceFacts DEF AcquireLock, Keys
  <2>2. HoldsLock'
    BY <1>1, <2>1 DEF AcquireLock
  <2>3. TypeOK'
    BY <1>1, <2>1, PlaceFacts DEF AcquireLock
  <2>4. TaskShape'
    BY <1>1, PlaceFacts DEF AcquireLock
  <2> QED BY <2>2, <2>3, <2>4
<1>2. CASE ReleaseLock(t)
  <2>1. pc[t] \in InLock /\ key[t] \in Keys
    BY <1>2, PlaceFacts DEF ReleaseLock, Keys
  <2>2. "drain" \in Places \ InLock
    BY DEF Places, InLock, Working, StepNames, Critical, NonCritical
  <2>3. HoldsLock'
    BY <1>2, <2>1, <2>2 DEF ReleaseLock
  <2>4. TypeOK'
    BY <1>2, <2>1, <2>2 DEF ReleaseLock
  <2>5. TaskShape'
    BY <1>2, <2>2 DEF ReleaseLock
  <2> QED BY <2>3, <2>4, <2>5
<1> QED BY <1>1, <1>2

\* A server stop, a deletion and a stutter keep the shape.
LEMMA GlobalShape ==
    ASSUME Shape, ServerStops \/ (\E e \in Events : DeleteEvent(e)) \/ UNCHANGED vars
    PROVE  Shape'
<1> USE DEF Shape, TypeOK, TaskShape, HoldsLock, Within, rows
<1>1. CASE ServerStops
  <2>1. "idle" \in Places \ InLock
    BY DEF Places, InLock, Working, StepNames, Critical, NonCritical
  <2> QED BY <1>1, <2>1 DEF ServerStops
<1>2. CASE \E e \in Events : DeleteEvent(e)
  BY <1>2 DEF DeleteEvent, Statuses
<1>3. CASE UNCHANGED vars
  BY <1>3 DEF vars
<1> QED BY <1>1, <1>2, <1>3

\* Types, task shape and lock ownership survive every step.
LEMMA ShapeInductive == Shape /\ [Next]_vars => Shape'
<1> SUFFICES ASSUME Shape, [Next]_vars PROVE Shape'
  OBVIOUS
<1>1. ASSUME NEW t \in Tasks, Quiet(t) PROVE Shape'
  BY <1>1, QuietAdvances, AdvanceShape
<1>2. ASSUME NEW t \in Tasks, MarkProcessing(t) \/ CompleteEvent(t) \/ MarkWrite(t)
      PROVE  Shape'
  BY <1>2, RowWritesAdvance, AdvanceShape
<1>3. CASE Request
  BY <1>3, OutsideShape, GlobalShape DEF Request
<1>4. ASSUME NEW t \in Tasks, Progress(t) PROVE Shape'
  BY <1>1, <1>2, <1>4, OutsideShape, LockShape DEF Progress, Quiet
<1>5. CASE Fault
  BY <1>1, <1>5, OutsideShape, GlobalShape DEF Fault, Quiet
<1> QED BY <1>3, <1>4, <1>5, LockShape, GlobalShape DEF Next

\* They hold when the server starts on an empty database.
LEMMA ShapeInitially == Init => Shape
  BY ConstantsOK DEF Init, Shape, TypeOK, TaskShape, HoldsLock, Within, Statuses, Places,
     InLock, Working, StepNames, Critical, NonCritical

\* They hold in every reachable state.
LEMMA ShapeAlways == Spec => []Shape
<1>1. Init => Shape
  BY ShapeInitially
<1>2. Shape /\ [Next]_vars => Shape'
  BY ShapeInductive
<1> QED BY <1>1, <1>2, PTL DEF Spec

\* Every variable keeps its type, whatever the handlers, runs and faults do.
THEOREM TypeCorrect == Spec => []TypeOK
<1>1. Shape => TypeOK
  BY DEF Shape
<1> QED BY <1>1, ShapeAlways, PTL

\* Whoever holds a lock is a run inside its steps, which holds the one of its key.
HeldInside ==
    \A k \in Keys :
        holder[k] # NoTask => pc[holder[k]] \in InLock /\ key[holder[k]] = k

LEMMA HeldInsideStep == ASSUME Shape, HeldInside, [Next]_vars PROVE HeldInside'
<1>0. /\ pc \in [Tasks -> Places] /\ key \in [Tasks -> Keys \cup {NoKey}]
      /\ holder \in [Keys -> Tasks \cup {NoTask}] /\ NoTask \notin Tasks
  BY ConstantsOK DEF Shape, TypeOK
<1>1. ASSUME NEW t \in Tasks, Advance(t) PROVE HeldInside'
  BY <1>0, <1>1 DEF Advance, Moves, HeldInside
\* A step before the lock is one of somebody who holds none.
<1>2. ASSUME NEW t \in Tasks, pc[t] \notin InLock, holder' = holder,
             \A s \in Tasks \ {t} : pc'[s] = pc[s] /\ key'[s] = key[s]
      PROVE  HeldInside'
  BY <1>0, <1>2 DEF HeldInside
<1>3. {"idle", "batch", "retry", "accept", "drain", "resolve", "lock"} \cap InLock = {}
  BY DEF InLock, Working, StepNames, Critical, NonCritical
<1>4. ASSUME NEW t \in Tasks,
             \/ StartBatch(t) \/ EndBatch(t) \/ RetryWrite(t) \/ AcceptWrite(t)
             \/ NextJob(t) \/ ResolveOwner(t) \/ StartFails(t)
             \/ \E e \in Events : \/ CreateEvent(t, e) \/ BatchCreateEvent(t, e)
                                 \/ RetryRead(t, e) \/ AcceptRead(t, e)
                                 \/ RefreshFails(t, e)
      PROVE  HeldInside'
  <2>1. pc[t] \notin InLock /\ holder' = holder
    BY <1>3, <1>4 DEF StartBatch, EndBatch, RetryWrite, AcceptWrite, NextJob, ResolveOwner,
       StartFails, CreateEvent, BatchCreateEvent, RetryRead, AcceptRead, RefreshFails
  <2>2. \A s \in Tasks \ {t} : pc'[s] = pc[s] /\ key'[s] = key[s]
    BY <1>0, <1>4 DEF StartBatch, EndBatch, RetryWrite, AcceptWrite, NextJob, ResolveOwner,
       StartFails, CreateEvent, BatchCreateEvent, RetryRead, AcceptRead, RefreshFails, Goto
  <2> QED BY <1>2, <2>1, <2>2
<1>5. ASSUME NEW t \in Tasks, AcquireLock(t) PROVE HeldInside'
  <2>1. /\ pc[t] = "lock" /\ pc' = [pc EXCEPT ![t] = "verify"] /\ key' = key
        /\ holder[key[t]] = NoTask /\ holder' = [holder EXCEPT ![key[t]] = t]
    BY <1>5 DEF AcquireLock, Goto
  <2>2. pc'[t] \in InLock /\ \A s \in Tasks \ {t} : pc'[s] = pc[s]
    BY <1>0, <2>1, PlaceFacts
  <2>3. \A k \in Keys : holder[k] # t
    BY <1>0, <1>3, <2>1 DEF HeldInside
  <2>4. \A k \in Keys : holder'[k] = IF k = key[t] THEN t ELSE holder[k]
    BY <1>0, <2>1
  <2> QED BY <1>0, <2>1, <2>2, <2>3, <2>4 DEF HeldInside
<1>6. ASSUME NEW t \in Tasks, ReleaseLock(t) PROVE HeldInside'
  <2>1. /\ pc' = [pc EXCEPT ![t] = "drain"] /\ key' = [key EXCEPT ![t] = NoKey]
        /\ holder' = [holder EXCEPT ![key[t]] = NoTask]
    BY <1>6 DEF ReleaseLock, Goto
  <2>2. \A s \in Tasks \ {t} : pc'[s] = pc[s] /\ key'[s] = key[s]
    BY <1>0, <2>1
  <2>3. \A k \in Keys : holder'[k] # NoTask => holder'[k] = holder[k] /\ holder[k] # t
    BY <1>0, <2>1 DEF HeldInside
  <2> QED BY <1>0, <2>2, <2>3 DEF HeldInside
<1>7. CASE ServerStops \/ (\E e \in Events : DeleteEvent(e)) \/ UNCHANGED vars
  BY <1>7 DEF ServerStops, DeleteEvent, vars, HeldInside
<1>8. ASSUME NEW t \in Tasks,
             Quiet(t) \/ MarkProcessing(t) \/ CompleteEvent(t) \/ MarkWrite(t)
      PROVE  HeldInside'
  BY <1>1, <1>8, QuietAdvances, RowWritesAdvance
<1>9. ASSUME NEW t \in Tasks, Progress(t) PROVE HeldInside'
  BY <1>4, <1>6, <1>8, <1>9 DEF Progress, Quiet
<1>10. CASE Request \/ Fault
  BY <1>4, <1>7, <1>8, <1>10 DEF Request, Fault, Quiet
<1> QED BY <1>5, <1>7, <1>9, <1>10 DEF Next

\* No end of a run, with its steps done, stopped, failed, raised or cut off by a
\* stop of the server, leaves a lock behind, and a run that has a lock waits for
\* none: whoever waits, waits for one that does not (process_event, its catch-all
\* and its "async with pipeline_lock").
THEOREM NoLockLeaks == Spec => []HeldInside
<1>1. Init => HeldInside
  BY ConstantsOK DEF Init, HeldInside
<1>2. Shape /\ HeldInside /\ [Next]_vars => HeldInside'
  BY HeldInsideStep
<1> QED BY <1>1, <1>2, ShapeAlways, PTL DEF Spec

\* The per-user lock keeps two runs of one user apart unless an owner lookup
\* had failed: two runs inside hold the locks of their keys, and the keys of
\* one owner's runs are that owner or nobody.
THEOREM RunsOfOneOwnerAreSerial == Spec => []OverlapNeedsAnonymous
<1>1. Shape => OverlapNeedsAnonymous
  BY DEF Shape, TaskShape, HoldsLock, OverlapNeedsAnonymous, Within
<1> QED BY <1>1, ShapeAlways, PTL

----------------------------------------------------------------------------
(* No event is lost *)

\* What e is owed, without the excuse of a fault.
Owed(e) ==
    /\ status[e] = "pending" => PickedUp(e)
    /\ status[e] = "processing" => WorkedOn(e)

\* A quiet step of a run loses no event: its own event by what entitles the
\* step, the others because their runs do not move.
LEMMA QuietKeeps ==
    ASSUME Shape, NoLostEvent, NEW t \in Tasks, Advance(t), Entitled(t)
    PROVE  NoLostEvent'
<1> SUFFICES ASSUME NEW e \in Events, e \notin faulted' PROVE Owed(e)'
  BY DEF NoLostEvent, Owed, PickedUp, WorkedOn
<1> e \notin faulted
  BY DEF Advance
<1>1. ASSUME status[e] = "pending" PROVE PickedUp(e)'
  <2>1. PICK s \in Tasks : \/ e \in queue[s]
                           \/ ev[s] = e /\ pc[s] \in {"resolve", "lock", "verify", "mark"}
    BY <1>1 DEF NoLostEvent, PickedUp
  <2>2. pc[t] \notin {"resolve", "lock"}
    BY DEF Advance, InLock, Working, StepNames, Critical, NonCritical
  <2> QED BY <1>1, <2>1, <2>2 DEF Advance, Moves, Entitled, PickedUp
<1>2. ASSUME status[e] = "processing" PROVE WorkedOn(e)'
  <2>1. PICK s \in Tasks : ev[s] = e /\ pc[s] \in Working
    BY <1>2 DEF NoLostEvent, WorkedOn
  <2> QED BY <1>2, <2>1 DEF Advance, Moves, Entitled, WorkedOn
<1> QED BY <1>1, <1>2 DEF Owed, Entitled

\* A run that writes the row of its event owes it what the new status says;
\* other events keep their runs.
LEMMA RowWritesKeep ==
    ASSUME Shape, NoLostEvent, NEW t \in Tasks,
           MarkProcessing(t) \/ CompleteEvent(t) \/ MarkWrite(t)
    PROVE  NoLostEvent'
<1> SUFFICES ASSUME NEW e \in Events, e \notin faulted' PROVE Owed(e)'
  BY DEF NoLostEvent, Owed, PickedUp, WorkedOn
<1>1. Advance(t) /\ faulted' = faulted /\ e \notin faulted
  BY RowWritesAdvance DEF MarkProcessing, CompleteEvent, MarkWrite
<1>2. ev[t] \in Events /\ pc[t] \notin {"resolve", "lock"}
  BY <1>1 DEF Advance, Shape, TaskShape, Within, InLock, Working, StepNames, Critical,
              NonCritical
<1>3. CASE e # ev[t]
  <2>1. status'[e] = status[e]
    BY <1>3, <1>1 DEF MarkProcessing, CompleteEvent, MarkWrite, rows, Shape, TypeOK
  <2>2. PickedUp(e) => PickedUp(e)'
    BY <1>1, <1>3 DEF PickedUp, Advance, Moves
  <2>3. WorkedOn(e) => WorkedOn(e)'
    BY <1>1, <1>3 DEF WorkedOn, Advance, Moves
  <2> QED BY <1>1, <2>1, <2>2, <2>3 DEF NoLostEvent, Owed
<1>4. CASE e = ev[t]
  <2>1. CASE MarkProcessing(t)
    <3>1. CASE Exists(e)
      <4>1. status'[e] = "processing" /\ pc'[t] = "step01_verify_event" /\ ev'[t] = e
        BY <1>4, <2>1, <3>1 DEF MarkProcessing, Goto, Shape, TypeOK
      <4> QED BY <4>1, PlaceFacts DEF Owed, WorkedOn
    <3>2. CASE ~Exists(e)
      BY <1>4, <2>1, <3>2 DEF MarkProcessing, Exists, Owed
    <3> QED BY <3>1, <3>2
  <2>2. CASE CompleteEvent(t) \/ MarkWrite(t)
    <3>1. CASE Exists(e)
      <4>1. FinalStatus(failed[t]) \in Settled
        BY DEF FinalStatus, Settled, Retryable
      <4>2. MarkWrite(t) => verdict[t] \in Settled
        BY DEF MarkWrite, Shape, TaskShape, Settled
      <4>3. status'[e] \in Settled
        BY <1>4, <2>2, <3>1, <4>1, <4>2 DEF CompleteEvent, MarkWrite, Shape, TypeOK
      <4> QED BY <4>3 DEF Owed, Settled, Retryable
    <3>2. CASE ~Exists(e)
      BY <1>4, <2>2, <3>2 DEF CompleteEvent, MarkWrite, Exists, Owed, rows
    <3> QED BY <3>1, <3>2
  <2> QED BY <2>1, <2>2
<1> QED BY <1>3, <1>4

\* Requests and the hand-over from a request to its runs.
LEMMA OutsideKeeps ==
    ASSUME Shape, NoLostEvent, NEW t \in Tasks,
           \/ StartBatch(t) \/ EndBatch(t) \/ RetryWrite(t) \/ AcceptWrite(t)
           \/ NextJob(t) \/ ResolveOwner(t) \/ StartFails(t)
           \/ \E x \in Events : \/ CreateEvent(t, x) \/ BatchCreateEvent(t, x)
                               \/ RetryRead(t, x) \/ AcceptRead(t, x)
                               \/ RefreshFails(t, x)
    PROVE  NoLostEvent'
<1> SUFFICES ASSUME NEW e \in Events, e \notin faulted' PROVE Owed(e)'
  BY DEF NoLostEvent, Owed, PickedUp, WorkedOn
<1> USE DEF Owed, PickedUp, WorkedOn, Goto, rows, Exists
<1>0. /\ Owed(e) \/ e \in faulted
      /\ {"idle", "batch", "drain", "retry", "accept", "resolve", "lock"} \cap Working = {}
      /\ TypeOK /\ TaskShape
  BY DEF NoLostEvent, Working, StepNames, Critical, NonCritical, Shape
<1>1. CASE StartBatch(t)   BY <1>0, <1>1 DEF StartBatch, TypeOK, TaskShape
<1>2. CASE EndBatch(t)     BY <1>0, <1>2 DEF EndBatch, TypeOK
<1>3. CASE RetryWrite(t)
  <2>1. ev[t] \in Events /\ queue[t] = {} /\ pc[t] = "retry" /\ e \notin faulted
    BY <1>0, <1>3 DEF RetryWrite, TaskShape
  <2>2. CASE e = ev[t] /\ Exists(e)
    <3>1. status'[e] = "pending" /\ e \in queue'[t]
      BY <1>0, <1>3, <2>1, <2>2 DEF RetryWrite, TypeOK
    <3> QED BY <3>1
  <2>3. CASE ~(e = ev[t] /\ Exists(e))
    <3>1. status'[e] = status[e] \/ ~Exists(e)
      BY <1>0, <1>3, <2>1, <2>3 DEF RetryWrite, TypeOK
    <3>2. PickedUp(e) => PickedUp(e)'
      BY <1>0, <1>3, <2>1 DEF RetryWrite, TypeOK
    <3>3. WorkedOn(e) => WorkedOn(e)'
      BY <1>0, <1>3, <2>1 DEF RetryWrite, TypeOK
    <3>4. ~Exists(e) => status'[e] = status[e]
      BY <1>0, <1>3, <2>1, <2>3 DEF RetryWrite, TypeOK
    <3> QED BY <1>0, <2>1, <3>1, <3>2, <3>3, <3>4
  <2> QED BY <2>2, <2>3
<1>4. CASE AcceptWrite(t)  BY <1>0, <1>4 DEF AcceptWrite, TypeOK, TaskShape
<1>5. CASE NextJob(t)
  <2>1. PickedUp(e) => PickedUp(e)'
    BY <1>0, <1>5 DEF NextJob, TypeOK
  <2>2. WorkedOn(e) => WorkedOn(e)'
    BY <1>0, <1>5 DEF NextJob, TypeOK
  <2> QED BY <1>0, <1>5, <2>1, <2>2 DEF NextJob
<1>6. CASE ResolveOwner(t) BY <1>0, <1>6 DEF ResolveOwner, TypeOK
<1>7. CASE StartFails(t)   BY <1>0, <1>7 DEF StartFails, TypeOK
<1>8. ASSUME NEW x \in Events, CreateEvent(t, x) PROVE Owed(e)'
  <2>1. queue[t] = {} /\ pc[t] = "idle" /\ x \in queue'[t] /\ e \notin faulted
    BY <1>0, <1>8 DEF CreateEvent, TaskShape, TypeOK
  <2>2. CASE e = x
    BY <1>0, <1>8, <2>1, <2>2 DEF CreateEvent, TypeOK
  <2>3. CASE e # x
    BY <1>0, <1>8, <2>1, <2>3 DEF CreateEvent, TypeOK
  <2> QED BY <2>2, <2>3
<1>9. ASSUME NEW x \in Events, BatchCreateEvent(t, x) PROVE Owed(e)'
  <2>1. x \in queue'[t] /\ queue[t] \subseteq queue'[t] /\ e \notin faulted
    BY <1>0, <1>9 DEF BatchCreateEvent, TypeOK
  <2>2. CASE e = x
    BY <1>0, <1>9, <2>1, <2>2 DEF BatchCreateEvent, TypeOK
  <2>3. CASE e # x
    BY <1>0, <1>9, <2>1, <2>3 DEF BatchCreateEvent, TypeOK
  <2> QED BY <2>2, <2>3
<1>10. ASSUME NEW x \in Events, RetryRead(t, x) PROVE Owed(e)'
  BY <1>0, <1>10 DEF RetryRead, TypeOK, TaskShape
<1>11. ASSUME NEW x \in Events, AcceptRead(t, x) PROVE Owed(e)'
  BY <1>0, <1>11 DEF AcceptRead, TypeOK, TaskShape
<1>12. ASSUME NEW x \in Events, RefreshFails(t, x) PROVE Owed(e)'
  <2>1. e # x /\ e \notin faulted /\ status'[e] = status[e]
    BY <1>0, <1>12 DEF RefreshFails, TypeOK
  <2> QED BY <1>0, <1>12, <2>1 DEF RefreshFails, TypeOK
<1> QED BY <1>1, <1>2, <1>3, <1>4, <1>5, <1>6, <1>7, <1>8, <1>9, <1>10, <1>11, <1>12

\* Taking the lock leaves its event picked up, and a run that releases it
\* has nothing left to settle.
LEMMA LockKeeps ==
    ASSUME Shape, NoLostEvent, NEW t \in Tasks, AcquireLock(t) \/ ReleaseLock(t)
    PROVE  NoLostEvent'
<1> SUFFICES ASSUME NEW e \in Events, e \notin faulted' PROVE Owed(e)'
  BY DEF NoLostEvent, Owed, PickedUp, WorkedOn
<1>1. /\ Owed(e) /\ TypeOK
      /\ {"lock", "release"} \cap Working = {}
  BY DEF NoLostEvent, Owed, Working, StepNames, Critical, NonCritical, Shape,
         AcquireLock, ReleaseLock
<1> USE DEF Owed, PickedUp, WorkedOn, Goto, rows
<1>2. CASE AcquireLock(t)  BY <1>1, <1>2 DEF AcquireLock, TypeOK
<1>3. CASE ReleaseLock(t)  BY <1>1, <1>3 DEF ReleaseLock, TypeOK
<1> QED BY <1>2, <1>3

\* A server stop puts every unsettled event on the fault record; a deletion
\* and a stutter owe nothing new.
LEMMA GlobalKeeps ==
    ASSUME Shape, NoLostEvent,
           ServerStops \/ (\E e \in Events : DeleteEvent(e)) \/ UNCHANGED vars
    PROVE  NoLostEvent'
<1> USE DEF NoLostEvent, PickedUp, WorkedOn, rows
<1>1. CASE ServerStops
  BY <1>1 DEF ServerStops
<1>2. ASSUME NEW x \in Events, DeleteEvent(x) PROVE NoLostEvent'
  BY <1>2 DEF DeleteEvent, Shape, TypeOK
<1>3. CASE UNCHANGED vars
  BY <1>3 DEF vars
<1> QED BY <1>1, <1>2, <1>3

\* No step loses an event.
LEMMA KeepsInductive == Shape /\ NoLostEvent /\ [Next]_vars => NoLostEvent'
<1> SUFFICES ASSUME Shape, NoLostEvent, [Next]_vars PROVE NoLostEvent'
  OBVIOUS
<1>1. ASSUME NEW t \in Tasks, Quiet(t) PROVE NoLostEvent'
  BY <1>1, QuietAdvances, QuietKeeps
<1>2. CASE Request
  BY <1>2, OutsideKeeps, GlobalKeeps DEF Request
<1>3. ASSUME NEW t \in Tasks, Progress(t) PROVE NoLostEvent'
  BY <1>1, <1>3, RowWritesKeep, OutsideKeeps, LockKeeps DEF Progress, Quiet
<1>4. CASE Fault
  BY <1>1, <1>4, OutsideKeeps, GlobalKeeps DEF Fault, Quiet
<1> QED BY <1>2, <1>3, <1>4, LockKeeps, GlobalKeeps DEF Next

\* However creations, retries, acceptances, deletions and runs interleave, an
\* event no fault has hit is never left pending without a run to come, nor
\* processing without a run at work.
THEOREM NothingLost == Spec => []NoLostEvent
<1>1. Init => NoLostEvent
  BY DEF Init, NoLostEvent
<1>2. Shape /\ NoLostEvent /\ [Next]_vars => NoLostEvent'
  BY KeepsInductive
<1> QED BY <1>1, <1>2, ShapeAlways, PTL DEF Spec

----------------------------------------------------------------------------
(* Outcomes are explained *)

Marking == {"mark_read", "mark_write"}
\* A run that may still settle its event without writing reasons.
Fresh == StepNames \cup {"mark", "step13_complete_event"}

\* What a row says of itself, and what a run has to know so that what it
\* writes agrees with it.
Explained ==
    /\ \A t \in Tasks, e \in Events :
         (ev[t] = e \/ e \in queue[t]) => status[e] # "none"
    /\ \A t \in Tasks : (Within(t) /\ key[t] = Anonymous) => ~Exists(ev[t])
    /\ \A t \in Tasks : pc[t] \in Marking => failed[t] # {}
    /\ \A e \in Events : status[e] \in {"none", "pending", "deleted"} => failedSteps[e] = {}
    /\ \A t \in Tasks : (pc[t] \in Fresh /\ Exists(ev[t])) => failedSteps[ev[t]] = {}
    /\ OutcomeExplained

\* Why a quiet step explains: a run that stops has a reason, and a run that
\* starts work found its event pending.
Reasoned(t) ==
    /\ \A s \in Tasks \ {t} : failed'[s] = failed[s]
    /\ pc'[t] \in Marking => failed'[t] # {}
    /\ pc'[t] \in Fresh => pc[t] \in Fresh \/ status[ev[t]] = "pending"

\* Where the places of a run lie with respect to its reasons.
LEMMA FreshFacts ==
    /\ StepNames \subseteq Fresh /\ Fresh \subseteq InLock
    /\ "step13_complete_event" \in Fresh /\ "mark" \in Fresh
    /\ Marking \cap Fresh = {} /\ Marking \subseteq InLock
    /\ {"verify", "release"} \cap (Fresh \cup Marking) = {}
    /\ {"idle", "batch", "drain", "retry", "accept", "resolve", "lock"} \cap InLock = {}
BY DEF Fresh, Marking, InLock, Working, StepNames, Critical, NonCritical

\* The ways a step may end, seen by the reasons they leave.
LEMMA EndsReasoned ==
    ASSUME TypeOK, NEW t \in Tasks
    PROVE  /\ \A next \in StepNames \cup {"step13_complete_event"} :
                 pc[t] \in StepNames /\ Proceed(t, next) => Reasoned(t)
           /\ pc[t] \in StepNames /\ FailAndStop(t) => Reasoned(t)
           /\ Raise(t) => Reasoned(t)
           /\ GiveUp(t) => Reasoned(t)
           /\ \A next \in StepNames \cup {"step13_complete_event"} :
                 pc[t] \in StepNames /\ Goto(t, next) /\ UNCHANGED failed => Reasoned(t)
<1> USE FreshFacts DEF TypeOK, Reasoned, Goto
<1>1. ASSUME NEW next \in StepNames \cup {"step13_complete_event"},
             pc[t] \in StepNames, Proceed(t, next)
      PROVE  Reasoned(t)
  BY <1>1 DEF Proceed, Fail
<1>2. ASSUME pc[t] \in StepNames, FailAndStop(t) PROVE Reasoned(t)
  BY <1>2 DEF FailAndStop, Stop, Fail, Marking, Fresh
<1>3. ASSUME Raise(t) PROVE Reasoned(t)
  BY <1>3 DEF Raise, Stop, Marking, Fresh
<1>4. ASSUME GiveUp(t) PROVE Reasoned(t)
  BY <1>4 DEF GiveUp
<1>5. ASSUME NEW next \in StepNames \cup {"step13_complete_event"},
             pc[t] \in StepNames, Goto(t, next), UNCHANGED failed
      PROVE  Reasoned(t)
  BY <1>5
<1> QED BY <1>1, <1>2, <1>3, <1>4, <1>5

\* Every quiet step explains.
LEMMA QuietReasoned ==
    ASSUME Shape, Explained, NEW t \in Tasks, Quiet(t)
    PROVE  Reasoned(t)
<1> USE EndsReasoned, PlaceFacts, FreshFacts DEF RaiseFrom
<1>0. TypeOK
  BY DEF Shape
<1>1. CASE VerifyPending(t)
  BY <1>0, <1>1 DEF VerifyPending, Reasoned, Goto, TypeOK
<1>2. CASE ClassifyScope(t)          BY <1>0, <1>2 DEF ClassifyScope
<1>3. CASE ExtractEntities(t)        BY <1>0, <1>3 DEF ExtractEntities
<1>4. CASE SemanticEmbedding(t)      BY <1>0, <1>4 DEF SemanticEmbedding
<1>5. CASE GenerateTodos(t)          BY <1>0, <1>5 DEF GenerateTodos
<1>6. CASE AnalysePromises(t)
  BY <1>0, <1>6 DEF AnalysePromises, Fail, Goto, Reasoned, TypeOK
<1>7. CASE CheckResourceOveruse(t)   BY <1>0, <1>7 DEF CheckResourceOveruse
<1>8. CASE ScorePriority(t)          BY <1>0, <1>8 DEF ScorePriority
<1>9. CASE Notify(t)                 BY <1>0, <1>9 DEF Notify
<1>10. CASE StoreMemory(t)           BY <1>0, <1>10 DEF StoreMemory
<1>11. CASE DiscoverAssociations(t)  BY <1>0, <1>11 DEF DiscoverAssociations
<1>12. CASE ScanFrequentContacts(t)  BY <1>0, <1>12 DEF ScanFrequentContacts
<1>13. CASE AssociationTodos(t)      BY <1>0, <1>13 DEF AssociationTodos
<1>14. CASE UpdateBriefs(t)          BY <1>0, <1>14 DEF UpdateBriefs
<1>15. CASE MarkRead(t)
  <2>1. failed[t] # {} /\ failed' = failed /\ pc'[t] \notin Fresh
    BY <1>0, <1>15 DEF MarkRead, Explained, Marking, Goto, TypeOK, Fresh, StepNames,
       Critical, NonCritical
  <2> QED BY <2>1 DEF Reasoned
<1>16. CASE VerifyRaises(t)          BY <1>0, <1>16 DEF VerifyRaises
<1>17. CASE CompleteRaises(t)        BY <1>0, <1>17 DEF CompleteRaises
<1>18. CASE MarkFails(t)             BY <1>0, <1>18 DEF MarkFails
<1> QED BY <1>1, <1>2, <1>3, <1>4, <1>5, <1>6, <1>7, <1>8, <1>9, <1>10, <1>11,
           <1>12, <1>13, <1>14, <1>15, <1>16, <1>17, <1>18 DEF Quiet

\* Quiet steps leave the rows alone, so what is explained stays so.
LEMMA QuietExplains ==
    ASSUME Shape, Explained, NEW t \in Tasks, Quiet(t)
    PROVE  Explained'
<1>1. Advance(t) /\ Reasoned(t)
  BY QuietAdvances, QuietReasoned
<1>2. status' = status /\ failedSteps' = failedSteps
  BY QuietAdvances
     DEF Quiet, Entitled, StepFrame, rows, VerifyPending, ClassifyScope, ExtractEntities,
         SemanticEmbedding, GenerateTodos, AnalysePromises, CheckResourceOveruse,
         ScorePriority, Notify, StoreMemory, DiscoverAssociations, ScanFrequentContacts,
         AssociationTodos, UpdateBriefs, MarkRead, VerifyRaises, CompleteRaises, MarkFails
<1>3. ASSUME NEW s \in Tasks
      PROVE  /\ (Within(s)' /\ key'[s] = Anonymous) => ~Exists(ev[s])'
             /\ pc'[s] \in Marking => failed'[s] # {}
             /\ (pc'[s] \in Fresh /\ Exists(ev[s])') => failedSteps'[ev'[s]] = {}
  <2>1. CASE s = t
    BY <1>1, <1>2, <2>1 DEF Advance, Reasoned, Explained, Within, Exists, Shape, TaskShape
  <2>2. CASE s # t
    BY <1>1, <1>2, <2>2 DEF Advance, Moves, Reasoned, Explained, Within, Exists
  <2> QED BY <2>1, <2>2
<1> QED BY <1>1, <1>2, <1>3 DEF Explained, OutcomeExplained, Advance, Exists

\* No two runs inside the lock have the same existing event.
LEMMA OneRunPerEvent ==
    ASSUME Shape, Explained, NEW s \in Tasks, NEW t \in Tasks,
           pc[s] \in InLock, pc[t] \in InLock, ev[s] = ev[t], Exists(ev[t])
    PROVE  s = t
BY DEF Shape, TaskShape, HoldsLock, Explained, Within, Exists

\* A run that writes its row knows why.
LEMMA RowWritesExplain ==
    ASSUME Shape, Explained, NEW t \in Tasks,
           MarkProcessing(t) \/ CompleteEvent(t) \/ MarkWrite(t)
    PROVE  Explained'
<1>1. Advance(t) /\ failed' = failed
  BY RowWritesAdvance DEF MarkProcessing, CompleteEvent, MarkWrite, GiveUp
<1>2. TypeOK /\ ev[t] \in Events /\ pc[t] \in InLock
  BY <1>1 DEF Advance, Shape, TaskShape, Within
<1>3. CASE ~Exists(ev[t])
  <2>1. status' = status /\ failedSteps' = failedSteps /\ pc'[t] = "release"
    BY <1>2, <1>3 DEF MarkProcessing, CompleteEvent, MarkWrite, GiveUp, Goto, rows, TypeOK
  <2> QED BY <1>1, <1>2, <2>1, FreshFacts
      DEF Explained, OutcomeExplained, Advance, Moves, Exists, Within
<1>4. CASE Exists(ev[t])
  <2> DEFINE e == ev[t]
  <2>1. \A x \in Events \ {e} : status'[x] = status[x] /\ failedSteps'[x] = failedSteps[x]
    BY <1>2 DEF MarkProcessing, CompleteEvent, MarkWrite, rows, TypeOK
  <2>2. /\ status'[e] \notin {"none", "pending", "deleted"}
        /\ status'[e] \in Retryable => failedSteps'[e] # {}
        /\ status'[e] = "completed" => failedSteps'[e] = {}
        /\ pc'[t] \notin Marking
        /\ pc'[t] \in Fresh => failedSteps'[e] = {}
    <3>1. CASE MarkProcessing(t)
      <4>1. status'[e] = "processing" /\ failedSteps' = failedSteps
            /\ pc'[t] = "step01_verify_event"
        BY <1>2, <1>4, <3>1 DEF MarkProcessing, Goto, TypeOK
      <4>2. failedSteps[e] = {}
        BY <1>4, <3>1, FreshFacts DEF MarkProcessing, Explained
      <4> QED BY <4>1, <4>2 DEF Retryable, Marking
    <3>2. CASE CompleteEvent(t)
      <4>1. /\ status'[e] = FinalStatus(failed[t]) /\ pc'[t] = "release"
            /\ failedSteps'[e] = IF failed[t] = {} THEN failedSteps[e] ELSE failed[t]
        BY <1>2, <1>4, <3>2 DEF CompleteEvent, GiveUp, Goto, TypeOK
      <4>2. failedSteps[e] = {}
        BY <1>4, <3>2, FreshFacts DEF CompleteEvent, Explained
      <4>3. FinalStatus(failed[t]) \in Settled
            /\ (FinalStatus(failed[t]) = "completed" <=> failed[t] = {})
            /\ FinalStatus(failed[t]) # "awaiting_retry"
        BY DEF FinalStatus, Settled, Retryable
      <4>4. FinalStatus(failed[t]) = "failed" => failed[t] # {}
        BY DEF FinalStatus
      <4> QED BY <4>1, <4>2, <4>3, <4>4, FreshFacts DEF Retryable, Settled
    <3>3. CASE MarkWrite(t)
      <4>1. status'[e] = verdict[t] /\ pc'[t] = "release" /\ failedSteps'[e] = failed[t]
        BY <1>2, <1>4, <3>3 DEF MarkWrite, GiveUp, Goto, TypeOK
      <4>2. verdict[t] \in Retryable /\ failed[t] # {}
        BY <3>3 DEF MarkWrite, Shape, TaskShape, Explained, Marking
      <4> QED BY <4>1, <4>2, FreshFacts DEF Retryable
    <3> QED BY <3>1, <3>2, <3>3
  <2>3. \A s \in Tasks \ {t} : pc[s] \in InLock => ev[s] # e
    BY <1>2, <1>4, OneRunPerEvent
  <2>4. ASSUME NEW s \in Tasks
        PROVE  /\ (Within(s)' /\ key'[s] = Anonymous) => ~Exists(ev[s])'
               /\ pc'[s] \in Marking => failed'[s] # {}
               /\ (pc'[s] \in Fresh /\ Exists(ev[s])') => failedSteps'[ev'[s]] = {}
    <3>1. CASE s = t
      BY <1>1, <1>2, <1>4, <2>2, <3>1 DEF Advance, Explained, Within, Exists
    <3>2. CASE s # t
      <4>1. pc'[s] = pc[s] /\ ev'[s] = ev[s] /\ key'[s] = key[s]
        BY <1>1, <3>2 DEF Advance, Moves
      <4>2. Within(s) => ev[s] \in Events
        BY DEF Shape, TaskShape
      <4>3. (Within(s) /\ key[s] = Anonymous) => ev[s] # e
        BY <1>4 DEF Explained
      <4>4. Fresh \subseteq InLock
        BY FreshFacts
      <4>5. (Within(s)' /\ key'[s] = Anonymous) => ~Exists(ev[s])'
        BY <2>1, <4>1, <4>2, <4>3 DEF Explained, Within, Exists
      <4>6. pc'[s] \in Marking => failed'[s] # {}
        BY <1>1, <4>1 DEF Explained
      <4>7. (pc'[s] \in Fresh /\ Exists(ev[s])') => failedSteps'[ev'[s]] = {}
        <5>1. pc[s] \in Fresh => ev[s] \in Events \ {e}
          BY <2>3, <3>2, <4>2, <4>4 DEF Within
        <5> QED BY <2>1, <4>1, <5>1 DEF Explained, Exists
      <4> QED BY <4>5, <4>6, <4>7
    <3> QED BY <3>1, <3>2
  <2>5. \A s \in Tasks, x \in Events : (ev'[s] = x \/ x \in queue'[s]) => status'[x] # "none"
    BY <1>1, <2>1, <2>2 DEF Advance, Explained
  <2> QED BY <2>1, <2>2, <2>4, <2>5 DEF Explained, OutcomeExplained
<1> QED BY <1>3, <1>4

\* What a step outside the lock does to rows and runs.
Elsewhere(t) ==
    /\ pc[t] \notin InLock /\ pc'[t] \notin InLock
    /\ \A s \in Tasks \ {t} : pc'[s] = pc[s] /\ ev'[s] = ev[s]
    /\ failed' = failed
    /\ \A e \in Events :
         \/ status'[e] = status[e] /\ failedSteps'[e] = failedSteps[e]
         \/ status'[e] = "pending" /\ failedSteps'[e] = {}
              /\ (status[e] = "none" \/ Exists(e))
         \/ status'[e] = "degraded_completed" /\ failedSteps'[e] = failedSteps[e]
              /\ Exists(e)

\* Requests, and a run before its lock, write no reasons; only a failed owner
\* lookup lets a run of an existing event wait for the lock of nobody.
LEMMA OutsideExplains ==
    ASSUME ResolveMayFail = FALSE, Shape, Explained, NEW t \in Tasks,
           \/ StartBatch(t) \/ EndBatch(t) \/ RetryWrite(t) \/ AcceptWrite(t)
           \/ NextJob(t) \/ ResolveOwner(t) \/ StartFails(t)
           \/ \E x \in Events : \/ CreateEvent(t, x) \/ BatchCreateEvent(t, x)
                               \/ RetryRead(t, x) \/ AcceptRead(t, x)
                               \/ RefreshFails(t, x)
    PROVE  Explained'
<1>0. TypeOK /\ TaskShape
  BY DEF Shape
<1>1. Elsewhere(t)
  <2> USE <1>0, FreshFacts, ConstantsOK DEF TypeOK, Elsewhere, Goto, rows, Exists
  <2>1. CASE StartBatch(t)   BY <2>1 DEF StartBatch
  <2>2. CASE EndBatch(t)     BY <2>2 DEF EndBatch
  <2>3. CASE RetryWrite(t)   BY <2>3 DEF RetryWrite, TaskShape
  <2>4. CASE AcceptWrite(t)  BY <2>4 DEF AcceptWrite, TaskShape
  <2>5. CASE NextJob(t)      BY <2>5 DEF NextJob
  <2>6. CASE ResolveOwner(t) BY <2>6 DEF ResolveOwner
  <2>7. CASE StartFails(t)   BY <2>7 DEF StartFails
  <2>8. ASSUME NEW x \in Events,
               \/ CreateEvent(t, x) \/ BatchCreateEvent(t, x) \/ RetryRead(t, x)
               \/ AcceptRead(t, x) \/ RefreshFails(t, x)
        PROVE  Elsewhere(t)
    <3>1. status[x] = "none" => failedSteps[x] = {}
      BY DEF Explained
    <3> QED BY <2>8, <3>1 DEF CreateEvent, BatchCreateEvent, RetryRead, AcceptRead, RefreshFails
  <2> QED BY <2>1, <2>2, <2>3, <2>4, <2>5, <2>6, <2>7, <2>8
<1>2. \A s \in Tasks, e \in Events : (ev'[s] = e \/ e \in queue'[s]) => status'[e] # "none"
  <2> SUFFICES ASSUME NEW s \in Tasks, NEW e \in Events, ev'[s] = e \/ e \in queue'[s]
               PROVE  status'[e] # "none"
    OBVIOUS
  <2>1. status'[e] = "none" => status[e] = "none"
    BY <1>1 DEF Elsewhere
  <2> USE <1>0, <2>1, ConstantsOK DEF TypeOK, Explained, Goto, rows, Exists
  <2>2. CASE StartBatch(t) \/ EndBatch(t) \/ AcceptWrite(t) \/ ResolveOwner(t)
    BY <2>2 DEF StartBatch, EndBatch, AcceptWrite, ResolveOwner
  <2>3. CASE RetryWrite(t)
    BY <2>3 DEF RetryWrite, TaskShape
  <2>4. CASE NextJob(t) \/ StartFails(t)
    BY <2>4 DEF NextJob, StartFails
  <2>5. ASSUME NEW x \in Events,
               \/ CreateEvent(t, x) \/ BatchCreateEvent(t, x) \/ RetryRead(t, x)
               \/ AcceptRead(t, x) \/ RefreshFails(t, x)
        PROVE  status'[e] # "none"
    BY <2>5 DEF CreateEvent, BatchCreateEvent, RetryRead, AcceptRead, RefreshFails, Retryable
  <2> QED BY <2>2, <2>3, <2>4, <2>5
<1>3. ASSUME NEW s \in Tasks, Within(s)', key'[s] = Anonymous
      PROVE  ~Exists(ev[s])'
  <2>1. CASE ResolveOwner(t) /\ s = t
    BY <1>0, <2>1, <1>3, ConstantsOK DEF ResolveOwner, TypeOK, TaskShape, Exists, Within, rows, Goto
  <2>2. CASE ~(ResolveOwner(t) /\ s = t)
    <3>1. Within(s) /\ key[s] = Anonymous /\ ev'[s] = ev[s]
      <4>1. CASE s = t
        BY <1>0, <1>1, <1>3, <2>2, <4>1
           DEF Within, Elsewhere, Goto, TypeOK, StartBatch, EndBatch, RetryWrite, AcceptWrite,
               NextJob, StartFails, CreateEvent, BatchCreateEvent, RetryRead, AcceptRead,
               RefreshFails
      <4>2. CASE s # t
        <5>1. key'[s] = key[s]
          BY <1>0, <4>2
             DEF TypeOK, StartBatch, EndBatch, RetryWrite, AcceptWrite, NextJob, StartFails,
                 ResolveOwner, CreateEvent, BatchCreateEvent, RetryRead, AcceptRead, RefreshFails
        <5> QED BY <1>1, <1>3, <4>2, <5>1 DEF Within, Elsewhere
      <4> QED BY <4>1, <4>2
    <3>2. ev[s] \in Events /\ status[ev[s]] # "none" /\ ~Exists(ev[s])
      BY <1>0, <3>1 DEF TaskShape, Explained
    <3> QED BY <1>1, <3>1, <3>2 DEF Elsewhere, Exists
  <2> QED BY <2>1, <2>2
<1>4. ASSUME NEW s \in Tasks
      PROVE  /\ pc'[s] \in Marking => failed'[s] # {}
             /\ (pc'[s] \in Fresh /\ Exists(ev[s])') => failedSteps'[ev'[s]] = {}
  <2>1. CASE s = t
    BY <1>1, <2>1, FreshFacts DEF Elsewhere
  <2>2. CASE s # t
    <3>1. pc[s] \in Fresh => ev[s] \in Events /\ status[ev[s]] # "none"
      BY <1>0, FreshFacts DEF TaskShape, Within, Explained
    <3> QED BY <1>1, <2>2, <3>1 DEF Elsewhere, Explained, Exists
  <2> QED BY <2>1, <2>2
<1>5. \A e \in Events : status'[e] \in {"none", "pending", "deleted"} => failedSteps'[e] = {}
  BY <1>1 DEF Elsewhere, Explained
<1>6. OutcomeExplained'
  BY <1>1 DEF Elsewhere, Explained, OutcomeExplained, Retryable
<1> QED BY <1>2, <1>3, <1>4, <1>5, <1>6 DEF Explained

\* Taking and releasing the lock touches no row.
LEMMA LockExplains ==
    ASSUME Shape, Explained, NEW t \in Tasks, AcquireLock(t) \/ ReleaseLock(t)
    PROVE  Explained'
<1> USE FreshFacts, PlaceFacts, ConstantsOK
    DEF Shape, TypeOK, Explained, OutcomeExplained, Within, Exists, Goto, rows
<1>1. CASE AcquireLock(t)  BY <1>1 DEF AcquireLock
<1>2. CASE ReleaseLock(t)  BY <1>2 DEF ReleaseLock
<1> QED BY <1>1, <1>2

\* A server stop leaves rows alone and no run; a deletion clears the reasons.
LEMMA GlobalExplains ==
    ASSUME Shape, Explained,
           ServerStops \/ (\E e \in Events : DeleteEvent(e)) \/ UNCHANGED vars
    PROVE  Explained'
<1> USE FreshFacts, ConstantsOK
    DEF Shape, TypeOK, Explained, OutcomeExplained, Within, Exists, rows
<1>1. CASE ServerStops     BY <1>1 DEF ServerStops
<1>2. ASSUME NEW x \in Events, DeleteEvent(x) PROVE Explained'
  BY <1>2 DEF DeleteEvent, Retryable, TaskShape
<1>3. CASE UNCHANGED vars  BY <1>3 DEF vars
<1> QED BY <1>1, <1>2, <1>3

\* No step leaves an outcome without its explanation.
LEMMA ExplainedInductive ==
    ASSUME ResolveMayFail = FALSE
    PROVE  Shape /\ Explained /\ [Next]_vars => Explained'
<1> SUFFICES ASSUME Shape, Explained, [Next]_vars PROVE Explained'
  OBVIOUS
<1>1. ASSUME NEW t \in Tasks, Quiet(t) PROVE Explained'
  BY <1>1, QuietExplains
<1>2. CASE Request
  BY <1>2, OutsideExplains, GlobalExplains DEF Request
<1>3. ASSUME NEW t \in Tasks, Progress(t) PROVE Explained'
  BY <1>1, <1>3, RowWritesExplain, OutsideExplains, LockExplains DEF Progress, Quiet
<1>4. CASE Fault
  BY <1>1, <1>4, OutsideExplains, GlobalExplains DEF Fault, Quiet
<1> QED BY <1>2, <1>3, <1>4, LockExplains, GlobalExplains DEF Next

\* As long as the owner lookup does not fail, an event to retry names what
\* failed and a completed one names nothing: its run alone writes reasons,
\* and finds none when it begins.  Two runs of one event, the second beside
\* the user's lock, could leave a completed event with the reasons of the
\* other (event_pipeline.py).
THEOREM OutcomesExplained ==
    ASSUME ResolveMayFail = FALSE
    PROVE  Spec => []OutcomeExplained
<1>1. Init => Explained
  BY ConstantsOK, FreshFacts
     DEF Init, Explained, OutcomeExplained, Within, Exists, Retryable
<1>2. Shape /\ Explained /\ [Next]_vars => Explained'
  BY ExplainedInductive
<1>3. Explained => OutcomeExplained
  BY DEF Explained
<1> QED BY <1>1, <1>2, <1>3, ShapeAlways, PTL DEF Spec
=============================================================================
