------------------------ MODULE ScheduledEventsProofs ------------------------
(***************************************************************************)
(* What recording a planned interaction guarantees, for any items,         *)
(* requests, times and interleaving: the row, its event and its run agree, *)
(* and only a stale write records twice or reopens what has ended.         *)
(***************************************************************************)
EXTENDS ScheduledEvents, TLAPS

Places == Ops \cup {"new", "link", "done"}
Rows == [Items -> [status : Status, at : Times, changed : Times,
                   link : Calls \cup {NoCall}]]
StoredEvents == [Calls -> [state : {"none", "stored", "queued"},
                           item : Items \cup {NoItem}]]
Requests == [Calls -> [step : Places, item : Items \cup {NoItem},
                       copy : [status : Status, at : Times]]]
Jobs == [step : {"idle", "mark", "marked", "clean"}, rows : SUBSET Items]

Types ==
    /\ now \in Times
    /\ row \in Rows
    /\ event \in StoredEvents
    /\ call \in Requests
    /\ job \in Jobs
    /\ stale \in SUBSET Items

\* What a request has reached: it has a row it read as open, and an event only
\* after its first commit.
CallHolds(c) ==
    /\ event[c].state = "none" <=> event[c].item = NoItem
    /\ call[c].step \in Ops => call[c].item \in Items /\ call[c].copy.status \in Open
    /\ call[c].step \in Ops \cup {"new"} => event[c].item = NoItem
    /\ call[c].step = "link" =>
          call[c].item \in Items
          /\ event[c] = [state |-> "stored", item |-> call[c].item]

CallsHold == \A c \in Calls : CallHolds(c)

\* A recorded row stays recorded, but for stale writes.
RecordStands ==
    \A c \in Calls : event[c].item \in Items =>
        row[event[c].item].status = "recorded" \/ event[c].item \in stale

\* What the job is about to clean is old, but for stale writes.
CleansOld ==
    job.step = "clean" => \A i \in job.rows : Old(i) \/ i \in stale

Inv ==
    /\ Types /\ CallsHold /\ RecordStands /\ CleansOld
    /\ RecordedHasEvent /\ RecordedTwiceOnlyStale /\ LinkedIsQueued

\* A write of row i may change its status only for a reader who saw that status,
\* or i is stale; nothing leaves the stale items.
LEMMA MissedIsStale ==
    ASSUME NEW i \in Items, NEW c \in Calls, stale' = stale \cup Missed(i, call[c].copy)
    PROVE  /\ stale \subseteq stale'
           /\ i \in stale' \/ row[i].status = call[c].copy.status
BY DEF Missed

LEMMA OpsAre == Ops = {"create", "update", "delete", "record", "cancel"}
                /\ Open \cap Ended = {} /\ "new" \notin Ops /\ "link" \notin Ops
                /\ "done" \notin Ops
BY DEF Ops, Open, Ended

LEMMA InvInit == ASSUME ConstantsOK, Init PROVE Inv
<1>1. 0 \in Times
  BY DEF Times, ConstantsOK
<1>2. Types
  BY <1>1 DEF Init, Types, Rows, StoredEvents, Requests, Jobs, Absent, Unused, Unread,
     Status, Places
<1> QED
  BY <1>2 DEF Init, Inv, CallsHold, CallHolds, RecordStands, CleansOld, ConstantsOK,
     RecordedHasEvent, RecordedTwiceOnlyStale, LinkedIsQueued, Unused, Unread, Absent,
     Ops, Open

----------------------------------------------------------------------------
(* What a step leaves as it is *)

\* A step overwrites what has ended only by a stale write.
Honest ==
    /\ stale \subseteq stale'
    /\ \A i \in Items :
          \/ row'[i] = row[i] \/ i \in stale' \/ row[i].status \notin Ended
          \/ row[i].status = "recorded" /\ row'[i].status = "recorded"

\* The job selects nothing to clean, and time does not run backwards.
SelectsNothing == now' >= now /\ (job' = job \/ job'.step # "clean")

\* A step records nothing and links nothing.
Unrecording ==
    /\ event' = event
    /\ \A i \in Items : /\ row'[i].link \in {row[i].link, NoCall}
                        /\ row'[i].status = "recorded" => row[i].status = "recorded"

LEMMA CleansOldKept ==
    ASSUME ConstantsOK, Inv, Types', Honest, SelectsNothing
    PROVE  CleansOld'
<1> SUFFICES ASSUME job'.step = "clean", NEW i \in job'.rows
             PROVE  Old(i)' \/ i \in stale'
  BY DEF CleansOld
<1>1. job' = job /\ i \in Items /\ (Old(i) \/ i \in stale)
  BY DEF SelectsNothing, Inv, CleansOld, Types, Jobs
<1>2. CASE Old(i) /\ row'[i] = row[i]
  <2>1. row[i].changed \in Int /\ now \in Int /\ now' \in Int /\ Keep \in Int
    BY <1>1 DEF Inv, Types, Rows, Times, ConstantsOK
  <2> QED
    BY <1>2, <2>1 DEF Old, SelectsNothing
<1> QED
  BY <1>1, <1>2 DEF Honest, Old, Ended

LEMMA EventsKept ==
    ASSUME Inv, Types', Honest, Unrecording
    PROVE  RecordStands' /\ RecordedHasEvent' /\ RecordedTwiceOnlyStale' /\ LinkedIsQueued'
<1>1. RecordStands'
  BY DEF Inv, RecordStands, Honest, Unrecording, Ended
<1>2. RecordedHasEvent'
  BY DEF Inv, RecordedHasEvent, Unrecording
<1>3. RecordedTwiceOnlyStale'
  BY DEF Inv, RecordedTwiceOnlyStale, Honest, Unrecording
<1>4. LinkedIsQueued'
  BY DEF Inv, LinkedIsQueued, Unrecording
<1> QED
  BY <1>1, <1>2, <1>3, <1>4

LEMMA ClockTypes == ASSUME ConstantsOK PROVE 0 \in Times /\ Times \subseteq Int
  BY DEF ConstantsOK, Times

OneCall == [step : Places, item : Items \cup {NoItem}, copy : [status : Status, at : Times]]
OneRow == [status : Status, at : Times, changed : Times, link : Calls \cup {NoCall}]

\* A request that ends without having recorded anything in this step.
LEMMA ReturnKeeps ==
    ASSUME ConstantsOK, Inv, NEW c \in Calls, Return(c), event' = event
    PROVE  call' \in Requests /\ CallsHold'
<1>1. Over \in OneCall /\ Over.step = "done"
  BY ClockTypes DEF Over, Unused, Unread, Places, Status, OneCall
<1>2. call \in [Calls -> OneCall]
  BY DEF Inv, Types, Requests, OneCall
<1>3. call' \in [Calls -> OneCall]
  BY <1>1, <1>2 DEF Return
<1>4. ASSUME NEW d \in Calls PROVE CallHolds(d)'
  <2>1. call'[d] = Over \/ call'[d] = call[d]
    BY <1>2 DEF Return
  <2> QED
    BY <1>1, <2>1, OpsAre DEF Inv, CallsHold, CallHolds
<1> QED
  BY <1>3, <1>4 DEF Requests, OneCall, CallsHold

\* What Save writes, and what it leaves alone.
LEMMA SaveTypes ==
    ASSUME ConstantsOK, Inv, NEW i \in Items, NEW r \in OneRow, Save(i, r)
    PROVE  /\ row' \in Rows
           /\ row'[i].status = r.status /\ row'[i].link = r.link
           /\ \A j \in Items \ {i} : row'[j] = row[j]
<1>1. row \in [Items -> OneRow] /\ now \in Times
  BY DEF Inv, Types, Rows, OneRow
<1>2. [r EXCEPT !.changed = now] \in OneRow
  BY <1>1 DEF OneRow
<1> QED
  BY <1>1, <1>2 DEF Save, Rows, OneRow

\* A request that wrote a row it had read as open.
LEMMA MissedIsHonest ==
    ASSUME Inv, NEW c \in Calls, call[c].step \in Ops, NEW i \in Items, i = call[c].item,
           \A j \in Items \ {i} : row'[j] = row[j],
           stale' = stale \cup Missed(i, call[c].copy)
    PROVE  Honest /\ stale' \in SUBSET Items
BY MissedIsStale, OpsAre DEF Honest, Inv, CallsHold, CallHolds, Missed, Types

\* An invariant is as good as its parts.
LEMMA Together ==
    ASSUME ConstantsOK, Inv, Types', CallsHold', Honest, Unrecording, SelectsNothing
    PROVE  Inv'
BY CleansOldKept, EventsKept DEF Inv

\* A step that leaves the rows and the job alone.
LEMMA RowsAlone ==
    ASSUME ConstantsOK, Inv, call' \in Requests, CallsHold',
           UNCHANGED <<now, row, event, job, stale>>
    PROVE  Inv' /\ Honest
<1>1. Types' /\ Honest /\ Unrecording
  BY DEF Inv, Types, Honest, Unrecording
<1>2. SelectsNothing
  BY ClockTypes DEF SelectsNothing, Inv, Types
<1> QED
  BY <1>1, <1>2, Together

\* A request that writes the row it has read, once.
LEMMA WriteStep ==
    ASSUME ConstantsOK, Inv, NEW c \in Calls, call[c].step \in Ops,
           NEW i \in Items, i = call[c].item, Return(c),
           row' \in Rows, \A j \in Items \ {i} : row'[j] = row[j],
           row'[i].link = row[i].link,
           row'[i].status = "recorded" => row[i].status = "recorded",
           stale' = stale \cup Missed(i, call[c].copy),
           UNCHANGED <<now, event, job>>
    PROVE  Inv' /\ Honest
<1>1. Honest /\ stale' \in SUBSET Items
  BY MissedIsHonest
<1>2. call' \in Requests /\ CallsHold'
  BY ReturnKeeps
<1>3. Types'
  BY <1>1, <1>2 DEF Inv, Types
<1>4. Unrecording
  BY DEF Unrecording
<1>5. SelectsNothing
  BY ClockTypes DEF SelectsNothing, Inv, Types
<1> QED
  BY <1>1, <1>2, <1>3, <1>4, <1>5, Together

----------------------------------------------------------------------------
(* Steps *)

LEMMA CreateStep ==
    ASSUME ConstantsOK, Inv, NEW c \in Calls, NEW i \in Items, NEW t \in Times,
           Create(c, i, t)
    PROVE  Inv' /\ Honest
<1> DEFINE r == [Absent EXCEPT !.status = StatusAt(t), !.at = t]
<1>1. r \in OneRow /\ r.status \in Open /\ r.link = NoCall
  BY ClockTypes DEF Absent, OneRow, StatusAt, Status, Open
<1>2. Save(i, r) /\ Return(c) /\ UNCHANGED <<now, event, job, stale>>
      /\ row[i].status = "none"
  BY DEF Create
<1> HIDE DEF r
<1>3. row' \in Rows /\ row'[i].status \in Open /\ row'[i].link = NoCall
      /\ \A j \in Items \ {i} : row'[j] = row[j]
  BY <1>1, <1>2, SaveTypes
<1>4. call' \in Requests /\ CallsHold'
  BY <1>2, ReturnKeeps
<1>5. Types'
  BY <1>2, <1>3, <1>4 DEF Inv, Types
<1>6. Honest
  BY <1>2, <1>3 DEF Honest, Ended
<1>7. Unrecording
  BY <1>2, <1>3 DEF Unrecording, Open
<1>8. SelectsNothing
  BY <1>2, ClockTypes DEF SelectsNothing, Inv, Types
<1> QED
  BY <1>4, <1>5, <1>6, <1>7, <1>8, Together

LEMMA ReadStep ==
    ASSUME ConstantsOK, Inv, NEW c \in Calls, NEW i \in Items, NEW op \in Ops,
           Read(c, i, op)
    PROVE  Inv' /\ Honest
<1> DEFINE q == [step |-> op, item |-> i,
                 copy |-> [status |-> row[i].status, at |-> row[i].at]]
<1>1. Types /\ CallsHold /\ call \in [Calls -> OneCall] /\ row[i].status \in Status
      /\ row[i].at \in Times
  BY DEF Inv, Types, Requests, OneCall, Rows
<1>2. UNCHANGED <<now, row, event, job, stale>> /\ call[c].step = "new"
  BY DEF Read
<1>3. CASE Recordable(row[i].status)
  <2>1. call' = [call EXCEPT ![c] = q] /\ row[i].status \in Open
    BY <1>3 DEF Read, Recordable
  <2>2. q \in OneCall /\ q.step \in Ops /\ q.item \in Items /\ q.copy.status \in Open
    BY <1>1, <2>1 DEF OneCall, Places
  <2> HIDE DEF q
  <2>3. call' \in Requests
    BY <1>1, <2>1, <2>2 DEF Requests, OneCall
  <2>4. ASSUME NEW d \in Calls PROVE CallHolds(d)'
    <3>1. call'[d] = call[d] \/ (d = c /\ call'[d] = q)
      BY <1>1, <2>1
    <3> QED
      BY <1>1, <1>2, <2>2, <3>1, OpsAre DEF CallsHold, CallHolds
  <2> QED
    BY <1>2, <2>3, <2>4, RowsAlone DEF CallsHold
<1>4. CASE ~Recordable(row[i].status)
  <2>1. Return(c)
    BY <1>4 DEF Read, Return
  <2> QED
    BY <1>2, <2>1, ReturnKeeps, RowsAlone
<1> QED
  BY <1>3, <1>4

LEMMA UpdateStep ==
    ASSUME ConstantsOK, Inv, NEW c \in Calls, NEW t \in Times, Update(c, t)
    PROVE  Inv' /\ Honest
<1> DEFINE i == call[c].item
           copy == call[c].copy
           status == IF t # copy.at THEN StatusAt(t) ELSE copy.status
           r == [row[i] EXCEPT !.at = t,
                     !.status = IF status = copy.status THEN @ ELSE status]
<1>1. call[c].step \in Ops /\ i \in Items /\ copy.status \in Open
  BY OpsAre DEF Update, Inv, CallsHold, CallHolds
<1>2. Return(c) /\ UNCHANGED <<now, event, job>>
  BY DEF Update
<1>3. CASE Exists(i)
  <2>1. row[i] \in OneRow
    BY <1>1 DEF Inv, Types, Rows, OneRow
  <2>2. status \in Open
    BY <1>1 DEF StatusAt, Open
  <2>3. /\ r \in OneRow /\ r.link = row[i].link
        /\ r.status = "recorded" => row[i].status = "recorded"
    BY <2>1, <2>2 DEF OneRow, Status, Open
  <2>4. Save(i, r) /\ stale' = stale \cup Missed(i, copy)
    BY <1>3 DEF Update
  <2> HIDE DEF r, status
  <2>5. row' \in Rows /\ row'[i].status = r.status /\ row'[i].link = r.link
        /\ \A j \in Items \ {i} : row'[j] = row[j]
    BY <1>1, <2>3, <2>4, SaveTypes
  <2> QED
    BY <1>1, <1>2, <2>3, <2>4, <2>5, WriteStep
<1>4. CASE ~Exists(i)
  <2>1. UNCHANGED <<row, stale>>
    BY <1>4 DEF Update
  <2> QED
    BY <1>2, <2>1, ReturnKeeps, RowsAlone
<1> QED
  BY <1>3, <1>4

LEMMA DeleteStep ==
    ASSUME ConstantsOK, Inv, NEW c \in Calls, Delete(c)
    PROVE  Inv' /\ Honest
<1> DEFINE i == call[c].item
<1>1. call[c].step \in Ops /\ i \in Items
  BY OpsAre DEF Delete, Inv, CallsHold, CallHolds
<1>2. row \in [Items -> OneRow]
  BY DEF Inv, Types, Rows, OneRow
<1>3. row' = [row EXCEPT ![i].status = "deleted"]
  BY DEF Delete
<1>4. row' \in Rows /\ row'[i].status = "deleted" /\ row'[i].link = row[i].link
      /\ \A j \in Items \ {i} : row'[j] = row[j]
  BY <1>1, <1>2, <1>3 DEF Rows, OneRow, Status
<1> QED
  BY <1>1, <1>4, WriteStep DEF Delete

LEMMA CancelStep ==
    ASSUME ConstantsOK, Inv, NEW c \in Calls, Cancel(c)
    PROVE  Inv' /\ Honest
<1> DEFINE i == call[c].item
           r == [row[i] EXCEPT !.status = "cancelled"]
<1>1. call[c].step \in Ops /\ i \in Items
  BY OpsAre DEF Cancel, Inv, CallsHold, CallHolds
<1>2. Return(c) /\ UNCHANGED <<now, event, job>>
  BY DEF Cancel
<1>3. CASE Exists(i)
  <2>1. r \in OneRow /\ r.link = row[i].link /\ r.status = "cancelled"
    BY <1>1 DEF Inv, Types, Rows, OneRow, Status, Ended
  <2>2. Save(i, r) /\ stale' = stale \cup Missed(i, call[c].copy)
    BY <1>3 DEF Cancel
  <2> HIDE DEF r
  <2>3. row' \in Rows /\ row'[i].status = r.status /\ row'[i].link = r.link
        /\ \A j \in Items \ {i} : row'[j] = row[j]
    BY <1>1, <2>1, <2>2, SaveTypes
  <2> QED
    BY <1>1, <1>2, <2>1, <2>2, <2>3, WriteStep
<1>4. CASE ~Exists(i)
  <2>1. UNCHANGED <<row, stale>>
    BY <1>4 DEF Cancel
  <2> QED
    BY <1>2, <2>1, ReturnKeeps, RowsAlone
<1> QED
  BY <1>3, <1>4

LEMMA FailStep ==
    ASSUME ConstantsOK, Inv, NEW c \in Calls, Fail(c)
    PROVE  Inv' /\ Honest
BY ReturnKeeps, RowsAlone DEF Fail

LEMMA StopStep == ASSUME ConstantsOK, Inv, Stop PROVE Inv' /\ Honest
<1>1. call \in [Calls -> OneCall] /\ Types
  BY DEF Inv, Types, Requests, OneCall
<1>2. Over \in OneCall /\ Over.step = "done"
  BY ClockTypes DEF Over, Unused, Unread, Places, Status, OneCall
<1>3. call' \in [Calls -> OneCall]
      /\ \A d \in Calls : call'[d] = Over \/ call'[d] = call[d]
  BY <1>1, <1>2 DEF Stop
<1>4. CallsHold'
  <2>1. ASSUME NEW d \in Calls PROVE CallHolds(d)'
    BY <1>2, <1>3, OpsAre DEF Stop, Inv, CallsHold, CallHolds
  <2> QED
    BY <2>1 DEF CallsHold
<1>5. job' = [step |-> "idle", rows |-> {}] /\ UNCHANGED <<now, row, event, stale>>
  BY DEF Stop, Work
<1>6. Types' /\ Honest /\ Unrecording
  BY <1>1, <1>3, <1>5 DEF Types, Requests, OneCall, Jobs, Honest, Unrecording
<1>7. SelectsNothing
  BY <1>1, <1>5, ClockTypes DEF SelectsNothing, Types
<1> QED
  BY <1>4, <1>6, <1>7, Together

LEMMA TickStep == ASSUME ConstantsOK, Inv, Tick PROVE Inv' /\ Honest
<1>1. now' \in Times /\ now' >= now
  BY DEF Tick, Inv, Types, Times, ConstantsOK
<1>2. Types' /\ CallsHold' /\ Honest /\ Unrecording /\ SelectsNothing
  BY <1>1 DEF Tick, Inv, Types, CallsHold, CallHolds, Honest, Unrecording, SelectsNothing
<1> QED
  BY <1>2, Together

----------------------------------------------------------------------------
(* Steps that record *)

LEMMA RecordStep ==
    ASSUME ConstantsOK, Inv, NEW c \in Calls, Record(c)
    PROVE  Inv' /\ Honest
<1> DEFINE i == call[c].item
           r == [row[i] EXCEPT !.status = "recorded"]
<1>1. /\ call[c].step = "record" /\ call[c].step \in Ops
      /\ i \in Items /\ call[c].copy.status \in Open
      /\ event[c].item = NoItem /\ event[c].state = "none"
  BY OpsAre DEF Record, Inv, CallsHold, CallHolds
<1>2. CASE ~Exists(i)
  BY <1>2, ReturnKeeps, RowsAlone DEF Record
<1>3. CASE Exists(i)
  <2>1. r \in OneRow /\ r.link = row[i].link /\ r.status = "recorded"
    BY <1>1 DEF Inv, Types, Rows, OneRow, Status, Ended
  <2>2. /\ Save(i, r) /\ stale' = stale \cup Missed(i, call[c].copy)
        /\ event' = [event EXCEPT ![c] = [state |-> "stored", item |-> i]]
        /\ call' = [call EXCEPT ![c].step = "link"]
        /\ UNCHANGED <<now, job>>
    BY <1>3 DEF Record, Goto
  <2> HIDE DEF r
  <2>3. row' \in Rows /\ row'[i].status = "recorded" /\ row'[i].link = row[i].link
        /\ \A j \in Items \ {i} : row'[j] = row[j]
    BY <1>1, <2>1, <2>2, SaveTypes
  <2>4. Honest /\ stale' \in SUBSET Items /\ (i \in stale' \/ row[i].status \in Open)
    BY <1>1, <2>2, <2>3, MissedIsHonest, MissedIsStale
  <2>5. event' \in StoredEvents /\ event'[c] = [state |-> "stored", item |-> i]
        /\ \A d \in Calls \ {c} : event'[d] = event[d]
    BY <1>1, <2>2 DEF Inv, Types, StoredEvents
  <2>6. call' \in Requests /\ call'[c].step = "link" /\ call'[c].item = i
        /\ \A d \in Calls \ {c} : call'[d] = call[d]
    BY <1>1, <2>2 DEF Inv, Types, Requests, Places
  <2>7. Types'
    BY <2>2, <2>3, <2>4, <2>5, <2>6 DEF Inv, Types
  <2>8. CallsHold'
    <3>1. CallHolds(c)'
      BY <1>1, <2>5, <2>6, OpsAre DEF CallHolds, ConstantsOK
    <3>2. ASSUME NEW d \in Calls \ {c} PROVE CallHolds(d)'
      BY <2>5, <2>6 DEF CallHolds, Inv, CallsHold
    <3> QED
      BY <3>1, <3>2 DEF CallsHold
  <2>9. RecordStands'
    BY <1>1, <2>3, <2>4, <2>5 DEF RecordStands, Inv, Honest, Ended
  <2>10. RecordedHasEvent'
    BY <1>1, <2>3, <2>5 DEF RecordedHasEvent, Inv, ConstantsOK
  <2>11. RecordedTwiceOnlyStale'
    BY <1>1, <2>4, <2>5 DEF RecordedTwiceOnlyStale, RecordStands, Inv, Honest, Open,
       ConstantsOK
  <2>12. LinkedIsQueued'
    <3>1. \A j \in Items : row[j].link \in Calls \cup {NoCall}
      BY DEF Inv, Types, Rows
    <3>2. ASSUME NEW j \in Items, row[j].link # NoCall PROVE row[j].link \in Calls \ {c}
      <4>1. event[row[j].link] = [state |-> "queued", item |-> j]
        BY <3>2 DEF Inv, LinkedIsQueued
      <4> QED
        BY <1>1, <3>1, <3>2, <4>1
    <3>3. \A j \in Items : row'[j].link = row[j].link
      BY <1>1, <2>3
    <3> QED
      BY <2>5, <3>2, <3>3 DEF LinkedIsQueued, Inv
  <2>13. CleansOld'
    <3>1. SelectsNothing
      BY <2>2, ClockTypes DEF SelectsNothing, Inv, Types
    <3> QED
      BY <2>4, <2>7, <3>1, CleansOldKept
  <2> QED
    BY <2>4, <2>7, <2>8, <2>9, <2>10, <2>11, <2>12, <2>13 DEF Inv
<1> QED
  BY <1>2, <1>3

LEMMA LinkStep ==
    ASSUME ConstantsOK, Inv, NEW c \in Calls, Link(c)
    PROVE  Inv' /\ Honest
<1> DEFINE i == call[c].item
           r == [row[i] EXCEPT !.link = c]
<1>1. i \in Items /\ event[c] = [state |-> "stored", item |-> i]
  BY DEF Link, Inv, CallsHold, CallHolds
<1>2. Return(c) /\ UNCHANGED <<now, job, stale>>
  BY DEF Link
<1>3. CASE ~Exists(i)
  BY <1>2, <1>3, ReturnKeeps, RowsAlone DEF Link
<1>4. CASE Exists(i)
  <2>1. r \in OneRow /\ r.status = row[i].status /\ r.link = c
    BY <1>1 DEF Inv, Types, Rows, OneRow
  <2>2. Save(i, r) /\ event' = [event EXCEPT ![c].state = "queued"]
    BY <1>4 DEF Link
  <2> HIDE DEF r
  <2>3. row' \in Rows /\ row'[i].status = row[i].status /\ row'[i].link = c
        /\ \A j \in Items \ {i} : row'[j] = row[j]
    BY <1>1, <2>1, <2>2, SaveTypes
  <2>4. event' \in StoredEvents /\ event'[c] = [state |-> "queued", item |-> i]
        /\ \A d \in Calls \ {c} : event'[d] = event[d]
    BY <1>1, <2>2 DEF Inv, Types, StoredEvents
  <2>5. \A d \in Calls : event'[d].item = event[d].item
    BY <1>1, <2>4
  <2>6. call \in [Calls -> OneCall] /\ Over \in OneCall /\ Over.step = "done"
    BY ClockTypes DEF Over, Unused, Unread, Places, Status, OneCall, Inv, Types, Requests
  <2>7. call' \in [Calls -> OneCall] /\ call'[c] = Over
        /\ \A d \in Calls \ {c} : call'[d] = call[d]
    BY <1>2, <2>6 DEF Return
  <2>8. Types'
    BY <1>2, <2>3, <2>4, <2>7 DEF Inv, Types, Requests, OneCall
  <2>9. CallsHold'
    <3>1. CallHolds(c)'
      BY <1>1, <2>4, <2>6, <2>7, OpsAre DEF CallHolds, ConstantsOK
    <3>2. ASSUME NEW d \in Calls \ {c} PROVE CallHolds(d)'
      BY <2>4, <2>7 DEF CallHolds, Inv, CallsHold
    <3> QED
      BY <3>1, <3>2 DEF CallsHold
  <2>10. Honest
    BY <1>1, <1>2, <2>3 DEF Honest, Inv, RecordStands
  <2>11. RecordStands' /\ RecordedHasEvent' /\ RecordedTwiceOnlyStale'
    <3>1. RecordStands'
      BY <1>1, <1>2, <2>3, <2>5 DEF RecordStands, Inv
    <3>2. RecordedHasEvent'
      BY <1>1, <2>3, <2>5 DEF RecordedHasEvent, Inv
    <3>3. RecordedTwiceOnlyStale'
      <4>1. \A d \in Calls : event'[d].state # "none" => event[d].state # "none"
        BY <1>1, <2>4
      <4> QED
        BY <1>2, <2>5, <4>1 DEF RecordedTwiceOnlyStale, Inv
    <3> QED
      BY <3>1, <3>2, <3>3
  <2>12. LinkedIsQueued'
    <3>1. \A j \in Items : row[j].link \in Calls \cup {NoCall}
      BY DEF Inv, Types, Rows
    <3>2. ASSUME NEW j \in Items, row[j].link # NoCall PROVE row[j].link \in Calls \ {c}
      <4>1. event[row[j].link] = [state |-> "queued", item |-> j]
        BY <3>2 DEF Inv, LinkedIsQueued
      <4> QED
        BY <1>1, <3>1, <3>2, <4>1
    <3> QED
      BY <2>3, <2>4, <3>2 DEF LinkedIsQueued, Inv
  <2>13. CleansOld'
    <3>1. SelectsNothing
      BY <1>2, ClockTypes DEF SelectsNothing, Inv, Types
    <3> QED
      BY <2>8, <2>10, <3>1, CleansOldKept
  <2> QED
    BY <2>8, <2>9, <2>10, <2>11, <2>12, <2>13 DEF Inv
<1> QED
  BY <1>3, <1>4

----------------------------------------------------------------------------
(* The job *)

\* The requests are as they were.
LEMMA CallsAlone ==
    ASSUME Inv, UNCHANGED <<call, event>>
    PROVE  call' \in Requests /\ event' \in StoredEvents /\ CallsHold'
BY DEF Inv, Types, CallsHold, CallHolds

LEMMA SelectDueStep == ASSUME ConstantsOK, Inv, SelectDue PROVE Inv' /\ Honest
<1>1. UNCHANGED <<now, row, event, call, stale>> /\ job' \in Jobs
      /\ job'.step # "clean"
  BY DEF SelectDue, Work, Jobs
<1>2. Types' /\ Honest /\ Unrecording
  BY <1>1 DEF Inv, Types, Honest, Unrecording
<1>3. SelectsNothing
  BY <1>1, ClockTypes DEF SelectsNothing, Inv, Types
<1> QED
  BY <1>1, <1>2, <1>3, CallsAlone, Together

LEMMA MarkOverdueStep == ASSUME ConstantsOK, Inv, MarkOverdue PROVE Inv' /\ Honest
<1>1. UNCHANGED <<now, event, call>> /\ job' \in Jobs /\ job'.step # "clean"
  <2>1. job' = [step |-> "marked", rows |-> {}] \/ job' = [step |-> "idle", rows |-> {}]
    BY DEF MarkOverdue, Work
  <2>2. job' \in Jobs /\ job'.step # "clean"
    BY <2>1 DEF Jobs
  <2> QED
    BY <2>2 DEF MarkOverdue
<1>2. /\ row' \in Rows /\ stale' \in SUBSET Items /\ stale \subseteq stale'
      /\ \A i \in Items : /\ row'[i].link = row[i].link
                          /\ row'[i] = row[i] \/ row'[i].status = "overdue"
                          /\ row'[i] = row[i] \/ i \in stale' \/ row[i].status = "pending"
  <2>1. CASE \A i \in job.rows : Exists(i)
    <3>1. stale' = stale \cup {i \in job.rows : row[i].status # "pending"}
          /\ job.rows \subseteq Items
      BY <2>1 DEF MarkOverdue, Inv, Types, Jobs
    <3>2. row' = [i \in Items |-> IF i \in job.rows
                    THEN [row[i] EXCEPT !.status = "overdue", !.changed = now]
                    ELSE row[i]]
      BY <2>1 DEF MarkOverdue
    <3>3. \A i \in Items :
            /\ row'[i] \in OneRow /\ row'[i].link = row[i].link
            /\ i \in job.rows => row'[i].status = "overdue"
            /\ i \notin job.rows => row'[i] = row[i]
      BY <3>2 DEF Inv, Types, Rows, OneRow, Status, Open
    <3>4. row' \in Rows
      BY <3>2, <3>3 DEF Rows, OneRow
    <3> QED
      BY <3>1, <3>3, <3>4 DEF Inv, Types
  <2>2. CASE ~\A i \in job.rows : Exists(i)
    BY <2>2 DEF MarkOverdue, Inv, Types
  <2> QED
    BY <2>1, <2>2
<1>3. Types' /\ Honest /\ Unrecording
  BY <1>1, <1>2 DEF Inv, Types, Honest, Unrecording, Ended
<1>4. SelectsNothing
  BY <1>1, ClockTypes DEF SelectsNothing, Inv, Types
<1> QED
  BY <1>1, <1>3, <1>4, CallsAlone, Together

LEMMA SelectOldStep == ASSUME ConstantsOK, Inv, SelectOld PROVE Inv' /\ Honest
<1>1. UNCHANGED <<now, row, event, call, stale>>
      /\ job' = [step |-> "clean", rows |-> {i \in Items : Old(i)}]
  BY DEF SelectOld, Work
<1>2. Types' /\ Honest /\ Unrecording
  BY <1>1 DEF Inv, Types, Honest, Unrecording, Jobs
<1>3. CleansOld'
  BY <1>1 DEF CleansOld, Old
<1> QED
  BY <1>1, <1>2, <1>3, CallsAlone, EventsKept DEF Inv

\* The one step that takes away what has ended: an old cancelled row.
CleansOnlyOld ==
    \A i \in Items : row'[i] = row[i] \/ i \in stale'
                     \/ (row'[i].status = "deleted" /\ Old(i))

LEMMA CleanStep == ASSUME ConstantsOK, Inv, Clean PROVE Inv' /\ CleansOnlyOld
<1>1. /\ UNCHANGED <<now, event, call>>
      /\ job' = [step |-> "idle", rows |-> {}]
      /\ stale' = stale \cup {i \in job.rows : row[i].status # "cancelled"}
      /\ job.step = "clean" /\ job.rows \subseteq Items
  BY DEF Clean, Work, Inv, Types, Jobs
<1>2. row' = [i \in Items |-> IF i \in job.rows THEN [row[i] EXCEPT !.status = "deleted"]
                              ELSE row[i]]
  BY DEF Clean
<1>3. \A i \in Items :
        /\ row'[i] \in OneRow /\ row'[i].link = row[i].link
        /\ i \in job.rows => row'[i].status = "deleted"
        /\ i \notin job.rows => row'[i] = row[i]
  BY <1>2 DEF Inv, Types, Rows, OneRow, Status
<1>4. row' \in Rows
  BY <1>2, <1>3 DEF Rows, OneRow
<1>5. Types'
  BY <1>1, <1>4, CallsAlone DEF Inv, Types, Jobs
<1>6. CleansOnlyOld
  BY <1>1, <1>3 DEF CleansOnlyOld, CleansOld, Inv
<1>7. Unrecording
  BY <1>1, <1>3 DEF Unrecording
<1>8. RecordStands'
  BY <1>1, <1>3 DEF RecordStands, Inv
<1>9. RecordedHasEvent' /\ RecordedTwiceOnlyStale' /\ LinkedIsQueued'
  BY <1>1, <1>7 DEF RecordedHasEvent, RecordedTwiceOnlyStale, LinkedIsQueued, Inv,
     Unrecording
<1>10. CleansOld'
  BY <1>1 DEF CleansOld
<1> QED
  BY <1>1, <1>5, <1>6, <1>8, <1>9, <1>10, CallsAlone DEF Inv

----------------------------------------------------------------------------
(* Theorems *)

LEMMA EachStep ==
    ASSUME ConstantsOK, Inv, [Next]_vars
    PROVE  Inv' /\ (Honest \/ CleansOnlyOld)
<1>1. CASE UNCHANGED vars
  <2>1. UNCHANGED <<now, row, event, call, job, stale>>
    BY <1>1 DEF vars
  <2> QED
    BY <2>1, CallsAlone, RowsAlone
<1>2. CASE Job
  BY <1>2, SelectDueStep, MarkOverdueStep, SelectOldStep, CleanStep DEF Job
<1>3. CASE Tick \/ Stop
  BY <1>3, TickStep, StopStep
<1>4. ASSUME NEW c \in Calls, NEW i \in Items,
             \/ \E t \in Times : Create(c, i, t)
             \/ \E op \in Ops : Read(c, i, op)
      PROVE  Inv' /\ Honest
  BY <1>4, CreateStep, ReadStep
<1>5. ASSUME NEW c \in Calls,
             (\E t \in Times : Update(c, t)) \/ Delete(c) \/ Cancel(c) \/ Fail(c)
      PROVE  Inv' /\ Honest
  BY <1>5, UpdateStep, DeleteStep, CancelStep, FailStep
<1>6. ASSUME NEW c \in Calls, Record(c) \/ Link(c) PROVE Inv' /\ Honest
  BY <1>6, RecordStep, LinkStep
<1> QED
  BY <1>1, <1>2, <1>3, <1>4, <1>5, <1>6 DEF Next

LEMMA InvHolds == ASSUME ConstantsOK PROVE Spec => []Inv
  BY InvInit, EachStep, PTL DEF Spec

\* Types of rows, events, requests and the job's list.
THEOREM TypeCorrect == ASSUME ConstantsOK PROVE Spec => []TypeOK
<1>1. Inv => TypeOK
  BY DEF Inv, Types, CallsHold, CallHolds, TypeOK, Rows, StoredEvents, Requests, Jobs, Places
<1> QED
  BY <1>1, InvHolds, PTL

\* What is recorded has its event, a linked event has its run queued, and an
\* interaction is recorded twice only by a stale write (record_scheduled_event).
THEOREM RecordingIsSound ==
    ASSUME ConstantsOK PROVE Spec => []RecordsAreSound
<1>1. Inv => RecordsAreSound
  BY DEF Inv, RecordsAreSound
<1> QED
  BY <1>1, InvHolds, PTL

\* What is recorded or cancelled stays so, for the requests and for the job: only
\* a stale write reopens it, and only an old cancelled row disappears.
THEOREM EndedStays == ASSUME ConstantsOK PROVE Spec => EndedIsFinal
<1> DEFINE Final == \A i \in Items :
          row[i].status \in Ended /\ row'[i].status # row[i].status
          => i \in stale' \/ (row'[i].status = "deleted" /\ Old(i))
<1>1. ASSUME Inv, [Next]_vars PROVE [Final]_vars
  BY <1>1, EachStep DEF Honest, CleansOnlyOld
<1> QED
  BY <1>1, InvHolds, PTL DEF Spec, EndedIsFinal
=============================================================================
