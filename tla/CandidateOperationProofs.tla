---------------------- MODULE CandidateOperationProofs ----------------------
(***************************************************************************)
(* CandidateOperation implements FirstDecision and commits a confirmation  *)
(* only with its merge, for every set of operations, entities, requests    *)
(* and item lists, whatever the other writers do.                          *)
(***************************************************************************)
EXTENDS CandidateOperation, TLAPS

\* The types the arguments below rest on; those of tokens and answers do not
\* matter to them.
Types ==
    /\ db \in Rows /\ work \in Rows
    /\ writer \in Tasks \cup {NoTask}
    /\ pc \in [Tasks -> Places]
    /\ items \in [Tasks -> Seq(Items)]
    /\ at \in [Tasks -> Nat \ {0}]
    /\ known \in [Tasks -> [Ops -> OpStatuses]]
    /\ pair \in [Tasks -> (Entities \cup {NoEntity}) \X (Entities \cup {NoEntity})]
    /\ \A t \in Tasks : pc[t] \in {"source", "merge", "confirm"}
                        => pair[t] \in Entities \X Entities

\* What the writer sees is what is committed, plus its own decisions and
\* the merges that go with them.
WriterView ==
    /\ writer = NoTask => work = db
    /\ \A t \in Tasks : writer = t => pc[t] = "execute"
    /\ \A o \in Ops : db.op[o] # "none" => work.op[o] # "none"
    /\ \A o \in Ops : db.op[o] \in Decisions => work.op[o] = db.op[o]

\* What a request remembers of an operation is true: a decision it holds is
\* committed, or it has made the decision itself and is the writer.
Remembers ==
    /\ \A t \in Tasks, o \in Ops : known[t][o] # "none" => db.op[o] # "none"
    /\ \A t \in Tasks, o \in Ops : known[t][o] \in Decisions =>
         db.op[o] = known[t][o] \/ (writer = t /\ work.op[o] = known[t][o])

\* A request answers only for items whose operation it knows decided.
ItemsDecided ==
    /\ \A t \in Tasks : pc[t] = "lock" => at[t] = 1
    /\ \A t \in Tasks : \A i \in DOMAIN items[t] :
         (pc[t] = "release" \/ (pc[t] = "execute" /\ i < at[t]))
             => known[t][items[t][i].op] \in Decisions

Inv == Types /\ WriterView /\ Remembers /\ ItemsDecided

\* The record of a transaction of one write.
LEMMA RowTypes ==
    ASSUME NEW rows \in Rows
    PROVE  /\ rows.status \in [Entities -> EntityStatuses]
           /\ rows.into \in [Entities -> Entities \cup {NoEntity}]
           /\ rows.op \in [Ops -> OpStatuses]
           /\ rows.sel \in [Ops -> Entities \cup {NoEntity}]
           /\ rows.audited \in SUBSET Entities
  BY DEF Rows

\* The current item of a request that has one left is an item.
LEMMA CurrentItem ==
    ASSUME Types, NEW t \in Tasks, at[t] <= Len(items[t])
    PROVE  /\ Item(t) \in Items
           /\ at[t] \in DOMAIN items[t]
           /\ Item(t).op \in Ops
           /\ Item(t).sel \in Entities \cup {NoEntity}
  <1>1. items[t] \in Seq(Items) /\ at[t] \in Nat \ {0}
    BY DEF Types
  <1>2. at[t] \in 1..Len(items[t])
    BY <1>1
  <1>3. Item(t) \in Items
    BY <1>1, <1>2 DEF Item
  <1>. QED
    BY <1>1, <1>2, <1>3 DEF Items

\* The typed effects of a step on the tables.
LEMMA MergedRowsTyped ==
    ASSUME NEW rows \in Rows, NEW y \in Entities \cup {NoEntity}, NEW x \in Entities
    PROVE  /\ MergedRows(rows, y, x) \in Rows
           /\ MergedRows(rows, y, x).op = rows.op
           /\ MergedRows(rows, y, x).sel = rows.sel
           /\ MergedRows(rows, y, x).audited = rows.audited
           /\ MergedRows(rows, y, x).status = [rows.status EXCEPT ![x] = "merged"]
           /\ MergedRows(rows, y, x).into = [rows.into EXCEPT ![x] = y]
  BY DEF MergedRows, Rows, EntityStatuses

\* Types are preserved, by request steps ...
LEMMA TypesInit == Init => Types
  <1>1. SUFFICES ASSUME Init PROVE Types
    OBVIOUS
  <1>2. db \in Rows
    BY <1>1 DEF Init, Rows, EntityStatuses, Active, OpStatuses
  <1>. QED
    BY <1>1, <1>2 DEF Init, Types, Places, OpStatuses

\* Ending a request keeps the types.
LEMMA FinishTyped ==
    ASSUME Types, NEW t \in Tasks, Finish(t)
    PROVE  /\ pc' \in [Tasks -> Places]
           /\ items' \in [Tasks -> Seq(Items)]
           /\ at' \in [Tasks -> Nat \ {0}]
           /\ known' \in [Tasks -> [Ops -> OpStatuses]]
           /\ pair' \in [Tasks -> (Entities \cup {NoEntity}) \X (Entities \cup {NoEntity})]
           /\ \A s \in Tasks : pc'[s] \in {"source", "merge", "confirm"}
                               => pair'[s] \in Entities \X Entities
  BY DEF Types, Finish, Goto, Places, OpStatuses

\* ... and by every step.
LEMMA WriteTyped ==
    ASSUME Types, NEW rows \in Rows, Write(rows)
    PROVE  db' \in Rows /\ work' \in Rows /\ writer' \in Tasks \cup {NoTask}
  BY DEF Types, Write

\* Issuing keeps the types.
LEMMA IssueTypes == ASSUME Types, Issue PROVE Types'
  <1>1. ASSUME NEW o \in Ops, NEW limit \in Limits, DrawCandidates(o, limit)
        PROVE  Types'
    BY <1>1 DEF DrawCandidates, Types, request
  <1>2. ASSUME NEW o \in Ops, IssueOperation(o)
        PROVE  Types'
    <2>. DEFINE rows == [db EXCEPT !.op[o] = "issued", !.audited = @ \cup {ResourceOf[o]}]
    <2>1. rows \in Rows
      <3>1. ResourceOf[o] \in Entities
        BY ConstantsOK
      <3>2. [db.op EXCEPT ![o] = "issued"] \in [Ops -> OpStatuses]
        BY DEF Types, Rows, OpStatuses
      <3>3. db.audited \cup {ResourceOf[o]} \in SUBSET Entities
        BY <3>1 DEF Types, Rows
      <3>. QED
        BY <3>2, <3>3 DEF Types, Rows
    <2>2. Write(rows)
      BY <1>2 DEF IssueOperation
    <2>. QED
      BY <1>2, <2>1, <2>2, WriteTyped DEF IssueOperation, Types, request
  <1>3. ASSUME NEW o \in Ops, TokenExpires(o)
        PROVE  Types'
    BY <1>3 DEF TokenExpires, Types, request
  <1>. QED
    BY <1>1, <1>2, <1>3 DEF Issue

\* So does every step of a correction.
LEMMA CorrectTypes ==
    ASSUME Types, NEW t \in Tasks, Correct(t) \/ AcquireLock(t)
    PROVE  Types'
  <1>1. CASE Preflight(t)
    <2>1. Loaded(t, Item(t).op) \in OpStatuses
      BY <1>1, CurrentItem DEF Preflight, Loaded, Types, Rows
    <2>. QED
      BY <1>1, <2>1, CurrentItem DEF Preflight, Types
  <1>2. CASE Refuse(t)
    BY <1>2, FinishTyped DEF Refuse, Types
  <1>3. CASE AllVerified(t)
    BY <1>3 DEF AllVerified, Types, Goto, Places
  <1>4. CASE Replay(t)
    BY <1>4, CurrentItem DEF Replay, Executing, NextItem, Types
  <1>5. CASE LoseClaim(t)
    <2>1. work.op[Item(t).op] \in OpStatuses
      BY <1>5, CurrentItem DEF LoseClaim, CompareAndSet, Executing, Types, Rows
    <2>. QED
      BY <1>5, <2>1, CurrentItem DEF LoseClaim, CompareAndSet, Executing, NextItem, Types
  <1>6. CASE Reject(t)
    <2>1. work' \in Rows
      BY <1>6, CurrentItem DEF Reject, Claims, CompareAndSet, Executing, Types, Rows,
                              OpStatuses, Decisions
    <2>. QED
      BY <1>6, <2>1, CurrentItem DEF Reject, Claims, CompareAndSet, Executing, NextItem,
                                   Types, OpStatuses, Decisions
  <1>7. CASE Confirm(t)
    <2>. DEFINE o == Item(t).op  y == Item(t).sel
                M == MergedRows(work, y, ResourceOf[o])
    <2>1. o \in Ops /\ y \in Entities /\ ResourceOf[o] \in Entities
      BY <1>7, CurrentItem, ConstantsOK
         DEF Confirm, Claims, CompareAndSet, Executing, MayMerge, IsActive
    <2>2. M \in Rows
      BY <2>1, MergedRowsTyped DEF Types
    <2>3. work' \in Rows
      <3>. HIDE DEF M
      <3>1. work' = [M EXCEPT !.op[o] = "confirmed", !.sel[o] = y]
        BY <1>7 DEF Confirm, M
      <3>. QED
        BY <2>1, <2>2, <3>1 DEF Rows, OpStatuses, Decisions
    <2>. QED
      BY <1>7, <2>1, <2>3 DEF Confirm, Claims, CompareAndSet, Executing, NextItem,
                              Types, OpStatuses, Decisions
  <1>8. CASE ConfirmConflicts(t)
    BY <1>8 DEF ConfirmConflicts, Rollback, Types, Goto, Places, OpStatuses
  <1>9. CASE WriterBusy(t)
    BY <1>9 DEF WriterBusy, Rollback, Types, Goto, Places, OpStatuses
  <1>10. CASE Commit(t)
    BY <1>10 DEF Commit, Types, Goto, Places
  <1>11. CASE CommitFails(t)
    BY <1>11 DEF CommitFails, Rollback, Types, Goto, Places, OpStatuses
  <1>12. CASE Respond(t)
    BY <1>12, FinishTyped DEF Respond, Types
  <1>13. CASE AcquireLock(t)
    BY <1>13 DEF AcquireLock, Types, Goto, Places
  <1>. QED
    BY <1>1, <1>2, <1>3, <1>4, <1>5, <1>6, <1>7, <1>8, <1>9, <1>10, <1>11, <1>12,
       <1>13 DEF Correct

\* So do its beginning and its taking of the lock.
LEMMA BeginTypes ==
    ASSUME Types, NEW t \in Tasks, NEW r \in Requests, BeginCorrect(t, r)
    PROVE  Types'
  BY ConstantsOK DEF BeginCorrect, Types, Goto, Places

\* So do the merge and confirm endpoints.
LEMMA WriterTypes ==
    ASSUME Types, NEW t \in Tasks,
           MergeSource(t) \/ MergeWrite(t) \/ ConfirmWrite(t) \/ GiveUpWriting(t)
    PROVE  Types'
  <1>1. CASE MergeSource(t)
    BY <1>1, FinishTyped DEF MergeSource, Types, Goto, Places
  <1>2. CASE MergeWrite(t)
    <2>. DEFINE y == pair[t][1]  x == pair[t][2]
                M == MergedRows(db, y, x)
                A == IF holder = t THEN db.audited \cup {x} ELSE db.audited
    <2>1. y \in Entities /\ x \in Entities
      BY <1>2 DEF MergeWrite, Types
    <2>2. M \in Rows /\ M.audited = db.audited
      <3>1. db \in Rows /\ y \in Entities \cup {NoEntity}
        BY <2>1 DEF Types
      <3>2. \A v \in Entities \cup {NoEntity}, z \in Entities :
               MergedRows(db, v, z) \in Rows /\ MergedRows(db, v, z).audited = db.audited
        BY <3>1 DEF MergedRows, Rows, EntityStatuses
      <3>. HIDE DEF x, y
      <3>. QED
        BY <2>1, <3>1, <3>2
    <2>3. A \in SUBSET Entities
      BY <2>1 DEF Types, Rows
    <2>4. [M EXCEPT !.audited = A] \in Rows
      <3>. HIDE DEF M, A
      <3>. QED
        BY <2>2, <2>3 DEF Rows
    <2>5. /\ db' \in Rows /\ work' \in Rows
          /\ writer' \in Tasks \cup {NoTask}
      <3>1. CASE "gone" \notin {db.status[y], db.status[x]}
        <4>1. Write([M EXCEPT !.audited = A])
          BY <1>2, <2>2, <3>1 DEF MergeWrite
        <4>. QED
          BY <2>4, <4>1, WriteTyped
      <3>2. CASE "gone" \in {db.status[y], db.status[x]}
        BY <1>2, <3>2 DEF MergeWrite, Types
      <3>. QED
        BY <3>1, <3>2
    <2>. QED
      BY <1>2, <2>5, FinishTyped DEF MergeWrite, Types
  <1>3. CASE ConfirmWrite(t)
    <2>. DEFINE x == pair[t][1]
    <2>1. x \in Entities
      BY <1>3 DEF ConfirmWrite, Types
    <2>2. [db EXCEPT !.status[x] = "confirmed"] \in Rows
      BY <2>1 DEF Types, Rows, EntityStatuses, Active
    <2>3. /\ db' \in Rows /\ work' \in Rows
          /\ writer' \in Tasks \cup {NoTask}
      BY <1>3, <2>2, WriteTyped DEF ConfirmWrite, Types
    <2>. QED
      BY <1>3, <2>3, FinishTyped DEF ConfirmWrite, Types
  <1>4. CASE GiveUpWriting(t)
    BY <1>4, FinishTyped DEF GiveUpWriting, Types
  <1>. QED
    BY <1>1, <1>2, <1>3, <1>4

\* So do the entity requests of one step.
LEMMA EntityTypes == ASSUME Types, EntityRequest PROVE Types'
  <1>1. ASSUME NEW t \in Tasks, NEW x \in Entities, NEW y \in Entities,
               NEW locked \in BOOLEAN, MergeTarget(t, y, x, locked)
        PROVE  Types'
    BY <1>1 DEF MergeTarget, Types, Goto, Places
  <1>2. ASSUME NEW t \in Tasks, NEW x \in Entities, ConfirmRead(t, x)
        PROVE  Types'
    BY <1>2 DEF ConfirmRead, Types, Goto, Places
  <1>3. ASSUME NEW x \in Entities, DeleteEntity(x)
        PROVE  Types'
    <2>1. [db EXCEPT !.status[x] = "gone"] \in Rows
      BY DEF Types, Rows, EntityStatuses
    <2>. QED
      BY <1>3, <2>1, WriteTyped DEF DeleteEntity, Types, request
  <1>4. ASSUME NEW x \in Entities, NEW s \in EntityStatuses \ {"gone"}, PatchStatus(x, s)
        PROVE  Types'
    <2>1. [db EXCEPT !.status[x] = s] \in Rows
      BY DEF Types, Rows
    <2>. QED
      BY <1>4, <2>1, WriteTyped DEF PatchStatus, Types, request
  <1>5. ASSUME NEW x \in Entities, NEW s \in {"confirmed", "deleted"}, CorrectStatus(x, s)
        PROVE  Types'
    <2>1. [db EXCEPT !.status[x] = s, !.audited = @ \cup {x}] \in Rows
      BY DEF Types, Rows, EntityStatuses, Active
    <2>. QED
      BY <1>5, <2>1, WriteTyped DEF CorrectStatus, Types, request
  <1>. QED
    BY <1>1, <1>2, <1>3, <1>4, <1>5 DEF EntityRequest

\* So does a stop of the server.
LEMMA StopTypes == ASSUME Types, ServerStops PROVE Types'
  BY DEF ServerStops, Types, Places, OpStatuses

\* All together: every step keeps the types.
LEMMA TypesStep == ASSUME Types, [Next]_vars PROVE Types'
  <1>1. CASE UNCHANGED vars
    BY <1>1 DEF vars, Types
  <1>2. CASE Next
    BY <1>2, IssueTypes, CorrectTypes, BeginTypes, WriterTypes, EntityTypes, StopTypes
       DEF Next
  <1>. QED
    BY <1>1, <1>2

----------------------------------------------------------------------------
(* The transaction of the writer *)

\* The actions that touch neither the tables nor the writer, and take no
\* request out of its transaction.
Outside ==
    /\ UNCHANGED <<db, work, writer>>
    /\ \A t \in Tasks : writer = t => pc'[t] = pc[t]

\* A transaction of one write never undoes a decision.
OneWrite ==
    /\ writer = NoTask /\ writer' = NoTask
    /\ work' = db'
    /\ \A o \in Ops : db'.op[o] \in {db.op[o], "issued"}
    /\ \A o \in Ops : db.op[o] # "none" => db'.op[o] = db.op[o]

\* Every step is outside transactions, a transaction of one write, a part of
\* a correction's transaction, or the end of one.
LEMMA StepsOfIssue == ASSUME Types, Issue PROVE Outside \/ OneWrite
  <1>1. ASSUME NEW o \in Ops, NEW limit \in Limits, DrawCandidates(o, limit)
        PROVE  Outside
    BY <1>1 DEF DrawCandidates, Outside, request
  <1>2. ASSUME NEW o \in Ops, IssueOperation(o)
        PROVE  OneWrite
    <2>1. /\ db' = [db EXCEPT !.op[o] = "issued", !.audited = @ \cup {ResourceOf[o]}]
          /\ db.op[o] = "none"
      BY <1>2 DEF IssueOperation, Write
    <2>2. db'.op = [db.op EXCEPT ![o] = "issued"]
      BY <2>1 DEF Types, Rows
    <2>. QED
      BY <1>2, <2>1, <2>2 DEF IssueOperation, Write, OneWrite, Types, Rows
  <1>3. ASSUME NEW o \in Ops, TokenExpires(o)
        PROVE  Outside
    BY <1>3 DEF TokenExpires, Outside, request
  <1>. QED
    BY <1>1, <1>2, <1>3 DEF Issue

\* What the steps of merges and confirmations leave behind.
LEMMA StepsOfWriters ==
    ASSUME Types, WriterView, NEW t \in Tasks,
           MergeSource(t) \/ MergeWrite(t) \/ ConfirmWrite(t) \/ GiveUpWriting(t)
    PROVE  Outside \/ OneWrite
  <1>1. CASE MergeSource(t)
    BY <1>1 DEF MergeSource, Finish, Goto, Outside, WriterView, Types
  <1>2. CASE MergeWrite(t)
    <2>. DEFINE y == pair[t][1]  x == pair[t][2]
                M == MergedRows(db, y, x)
                A == IF holder = t THEN db.audited \cup {x} ELSE db.audited
    <2>1. db \in Rows /\ y \in Entities \cup {NoEntity} /\ x \in Entities
      BY <1>2 DEF MergeWrite, Types
    <2>2. M \in Rows /\ M.audited = db.audited /\ M.op = db.op
      <3>1. \A v \in Entities \cup {NoEntity}, z \in Entities :
               /\ MergedRows(db, v, z) \in Rows
               /\ MergedRows(db, v, z).audited = db.audited
               /\ MergedRows(db, v, z).op = db.op
        BY <2>1 DEF MergedRows, Rows, EntityStatuses
      <3>. HIDE DEF x, y
      <3>. QED
        BY <2>1, <3>1
    <2>3. [M EXCEPT !.audited = A].op = db.op
      <3>. HIDE DEF M, A
      <3>. QED
        BY <2>2 DEF Rows
    <2>4. CASE "gone" \notin {db.status[y], db.status[x]}
      <3>1. Write([M EXCEPT !.audited = A])
        BY <1>2, <2>2, <2>4 DEF MergeWrite
      <3>. QED
        BY <2>3, <3>1 DEF Write, OneWrite
    <2>5. CASE "gone" \in {db.status[y], db.status[x]}
      BY <1>2, <2>5 DEF MergeWrite, Finish, Goto, Outside, WriterView, Types
    <2>. QED
      BY <2>4, <2>5
  <1>3. CASE ConfirmWrite(t)
    <2>1. CASE db.status[pair[t][1]] # "gone"
      <3>1. Write([db EXCEPT !.status[pair[t][1]] = "confirmed"])
        BY <1>3, <2>1 DEF ConfirmWrite
      <3>2. [db EXCEPT !.status[pair[t][1]] = "confirmed"].op = db.op
        BY DEF Types, Rows
      <3>. QED
        BY <3>1, <3>2 DEF Write, OneWrite
    <2>2. CASE db.status[pair[t][1]] = "gone"
      BY <1>3, <2>2 DEF ConfirmWrite, Finish, Goto, Outside, WriterView, Types
    <2>. QED
      BY <2>1, <2>2
  <1>4. CASE GiveUpWriting(t)
    BY <1>4 DEF GiveUpWriting, Finish, Goto, Outside, WriterView, Types
  <1>. QED
    BY <1>1, <1>2, <1>3, <1>4

\* What the entity requests of one step leave behind.
LEMMA StepsOfEntities ==
    ASSUME Types, WriterView, EntityRequest
    PROVE  Outside \/ OneWrite
  <1>1. ASSUME NEW t \in Tasks, NEW x \in Entities, NEW y \in Entities,
               NEW locked \in BOOLEAN, MergeTarget(t, y, x, locked)
        PROVE  Outside
    BY <1>1 DEF MergeTarget, Goto, Outside, WriterView, Types
  <1>2. ASSUME NEW t \in Tasks, NEW x \in Entities, ConfirmRead(t, x)
        PROVE  Outside
    BY <1>2 DEF ConfirmRead, Goto, Outside, WriterView, Types
  <1>3. ASSUME NEW x \in Entities, DeleteEntity(x)
        PROVE  OneWrite
    <2>1. [db EXCEPT !.status[x] = "gone"].op = db.op
      BY DEF Types, Rows
    <2>. QED
      BY <1>3, <2>1 DEF DeleteEntity, Write, OneWrite
  <1>4. ASSUME NEW x \in Entities, NEW s \in EntityStatuses \ {"gone"}, PatchStatus(x, s)
        PROVE  OneWrite
    <2>1. [db EXCEPT !.status[x] = s].op = db.op
      BY DEF Types, Rows
    <2>. QED
      BY <1>4, <2>1 DEF PatchStatus, Write, OneWrite
  <1>5. ASSUME NEW x \in Entities, NEW s \in {"confirmed", "deleted"}, CorrectStatus(x, s)
        PROVE  OneWrite
    <2>1. [db EXCEPT !.status[x] = s, !.audited = @ \cup {x}].op = db.op
      BY DEF Types, Rows
    <2>. QED
      BY <1>5, <2>1 DEF CorrectStatus, Write, OneWrite
  <1>. QED
    BY <1>1, <1>2, <1>3, <1>4, <1>5 DEF EntityRequest

\* The claim of an operation and what follows from it.
Decides(t, o, d) ==
    /\ pc[t] = "execute" /\ writer \in {NoTask, t} /\ writer' = t
    /\ UNCHANGED <<db, pc>>
    /\ o \in Ops /\ d \in Decisions
    /\ work.op[o] = "issued"
    /\ work'.op = [work.op EXCEPT ![o] = d]

\* A confirm item is the first decision on its operation.
LEMMA ConfirmDecides ==
    ASSUME Types, NEW t \in Tasks, Confirm(t)
    PROVE  /\ Item(t).op \in Ops /\ Item(t).sel \in Entities
           /\ Decides(t, Item(t).op, "confirmed")
           /\ work'.status = [work.status EXCEPT ![ResourceOf[Item(t).op]] = "merged"]
           /\ work'.into = [work.into EXCEPT ![ResourceOf[Item(t).op]] = Item(t).sel]
           /\ work'.sel = [work.sel EXCEPT ![Item(t).op] = Item(t).sel]
  <1>. DEFINE o == Item(t).op  y == Item(t).sel
              M == MergedRows(work, y, ResourceOf[o])
  <1>1. /\ o \in Ops /\ y \in Entities /\ ResourceOf[o] \in Entities
        /\ work \in Rows
    BY CurrentItem, ConstantsOK
       DEF Confirm, Claims, CompareAndSet, Executing, MayMerge, IsActive, Types
  <1>2. /\ M \in Rows /\ M.op = work.op /\ M.sel = work.sel
        /\ M.status = [work.status EXCEPT ![ResourceOf[o]] = "merged"]
        /\ M.into = [work.into EXCEPT ![ResourceOf[o]] = y]
    <2>. HIDE DEF o, y
    <2>. QED
      BY <1>1, MergedRowsTyped
  <1>3. /\ work'.op = [M.op EXCEPT ![o] = "confirmed"]
        /\ work'.sel = [M.sel EXCEPT ![o] = y]
        /\ work'.status = M.status /\ work'.into = M.into
    <2>1. work' = [M EXCEPT !.op[o] = "confirmed", !.sel[o] = y]
      BY DEF Confirm
    <2>. HIDE DEF M, o, y
    <2>. QED
      BY <1>2, <2>1 DEF Rows
  <1>. QED
    BY <1>1, <1>2, <1>3
       DEF Confirm, Claims, CompareAndSet, Executing, NextItem, Decides, Decisions

\* So is a reject item.
LEMMA RejectDecides ==
    ASSUME Types, NEW t \in Tasks, Reject(t)
    PROVE  /\ Item(t).op \in Ops
           /\ Decides(t, Item(t).op, "rejected")
           /\ UNCHANGED <<work.status, work.into, work.sel>>
  <1>1. Item(t).op \in Ops
    BY CurrentItem DEF Reject, Claims, CompareAndSet, Executing
  <1>2. /\ work'.op = [work.op EXCEPT ![Item(t).op] = "rejected"]
        /\ UNCHANGED <<work.status, work.into, work.sel>>
    BY <1>1 DEF Reject, Types, Rows
  <1>. QED
    BY <1>1, <1>2
       DEF Reject, Claims, CompareAndSet, Executing, NextItem, Decides, Decisions

\* What the writer sees stays the committed rows and its own decisions.
LEMMA WriterViewDecides ==
    ASSUME Types, WriterView, NEW t \in Tasks, NEW o, NEW d, Decides(t, o, d)
    PROVE  WriterView'
  BY ConstantsOK DEF WriterView, Decides, Types, Rows, Decisions

\* Every step keeps the writer's view and the committed rows in step.
LEMMA WriterViewStep == ASSUME Types, WriterView, [Next]_vars PROVE WriterView'
  <1>1. CASE Outside
    BY <1>1 DEF Outside, WriterView
  <1>2. CASE OneWrite
    BY <1>2, ConstantsOK DEF OneWrite, WriterView
  <1>3. ASSUME NEW t \in Tasks, Correct(t) \/ AcquireLock(t)
        PROVE  WriterView'
    <2>1. CASE \/ Preflight(t) \/ Refuse(t) \/ AllVerified(t) \/ Replay(t)
               \/ Respond(t) \/ AcquireLock(t)
      BY <1>1, <2>1 DEF Preflight, Refuse, AllVerified, Replay, NextItem, Respond,
                        AcquireLock, Finish, Goto, Outside, WriterView, Types
    <2>2. CASE LoseClaim(t)
      BY <2>2, ConstantsOK
         DEF LoseClaim, CompareAndSet, Executing, NextItem, WriterView, Types
    <2>3. CASE Reject(t)
      BY <2>3, RejectDecides, WriterViewDecides
    <2>4. CASE Confirm(t)
      BY <2>4, ConfirmDecides, WriterViewDecides
    <2>5. CASE ConfirmConflicts(t) \/ WriterBusy(t) \/ CommitFails(t)
      BY <2>5, ConstantsOK
         DEF ConfirmConflicts, WriterBusy, CommitFails, Rollback, Goto, WriterView, Types
    <2>6. CASE Commit(t)
      BY <2>6, ConstantsOK DEF Commit, Goto, WriterView, Types
    <2>. QED
      BY <1>3, <2>1, <2>2, <2>3, <2>4, <2>5, <2>6 DEF Correct
  <1>4. ASSUME NEW t \in Tasks, NEW r \in Requests, BeginCorrect(t, r)
        PROVE  Outside
    BY <1>4 DEF BeginCorrect, Goto, Outside, WriterView, Types
  <1>5. CASE ServerStops
    BY <1>5, ConstantsOK DEF ServerStops, WriterView
  <1>6. CASE UNCHANGED vars
    BY <1>6 DEF vars, WriterView
  <1>. QED
    BY <1>1, <1>2, <1>3, <1>4, <1>5, <1>6, StepsOfIssue, StepsOfWriters, StepsOfEntities
       DEF Next

----------------------------------------------------------------------------
(* What requests remember *)

\* A request learns nothing, and does not get nearer to its answer.
Unlearned ==
    /\ \A s \in Tasks, o \in Ops : known'[s][o] \in {known[s][o], "none"}
    /\ \A s \in Tasks :
         \/ pc'[s] \notin {"lock", "execute", "release"}
         \/ pc'[s] \in {"lock", "execute", "release"} /\ items'[s] = <<>> /\ pc'[s] = "release"
         \/ UNCHANGED <<pc[s], items[s], at[s], known[s]>>

\* Issuing teaches no request a decision.
LEMMA UnlearnedIssue == ASSUME Types, Issue PROVE Unlearned
  BY DEF Issue, DrawCandidates, IssueOperation, TokenExpires, request, Unlearned, Types

\* Neither do the merge and confirm endpoints.
LEMMA UnlearnedWriters ==
    ASSUME Types, NEW t \in Tasks,
           MergeSource(t) \/ MergeWrite(t) \/ ConfirmWrite(t) \/ GiveUpWriting(t)
    PROVE  Unlearned
  <1>1. Finish(t) => Unlearned
    BY DEF Finish, Goto, Unlearned, Types
  <1>. QED
    BY <1>1 DEF MergeSource, MergeWrite, ConfirmWrite, GiveUpWriting, Goto, Unlearned, Types

\* Nor the entity requests of one step.
LEMMA UnlearnedEntities == ASSUME Types, EntityRequest PROVE Unlearned
  <1>1. ASSUME NEW t \in Tasks, NEW x \in Entities, NEW y \in Entities,
               NEW locked \in BOOLEAN, MergeTarget(t, y, x, locked)
        PROVE  Unlearned
    BY <1>1 DEF MergeTarget, Goto, Unlearned, Types
  <1>2. ASSUME NEW t \in Tasks, NEW x \in Entities, ConfirmRead(t, x)
        PROVE  Unlearned
    BY <1>2 DEF ConfirmRead, Goto, Unlearned, Types
  <1>3. request' = request => Unlearned
    BY DEF request, Unlearned
  <1>. QED
    BY <1>1, <1>2, <1>3 DEF EntityRequest, DeleteEntity, PatchStatus, CorrectStatus

\* What was remembered stays true.
LEMMA RemembersUnlearned ==
    ASSUME Types, WriterView, Remembers, Unlearned, Outside \/ OneWrite
    PROVE  Remembers'
  <1>1. \A o \in Ops : db.op[o] # "none" => db'.op[o] = db.op[o]
    BY DEF Outside, OneWrite
  <1>2. ASSUME NEW s \in Tasks, NEW o \in Ops, known'[s][o] # "none"
        PROVE  db'.op[o] # "none"
    BY <1>1, <1>2 DEF Unlearned, Remembers
  <1>3. ASSUME NEW s \in Tasks, NEW o \in Ops, known'[s][o] \in Decisions
        PROVE  \/ db'.op[o] = known'[s][o]
               \/ writer' = s /\ work'.op[o] = known'[s][o]
    <2>1. known'[s][o] = known[s][o] /\ known[s][o] # "none"
      BY <1>3 DEF Unlearned, Decisions
    <2>2. CASE db.op[o] = known[s][o]
      BY <1>1, <2>1, <2>2
    <2>3. CASE writer = s /\ work.op[o] = known[s][o]
      BY <2>1, <2>3, ConstantsOK DEF Outside, OneWrite
    <2>. QED
      BY <1>3, <2>1, <2>2, <2>3 DEF Remembers
  <1>. QED
    BY <1>2, <1>3 DEF Remembers

\* Who learns nothing remembers no undecided item.
LEMMA DecidedUnlearned ==
    ASSUME Types, ItemsDecided, Unlearned
    PROVE  ItemsDecided'
  BY DEF ItemsDecided, Unlearned

\* The item a request is done with has a status it can answer with.
Learns(t, d) ==
    /\ Executing(t) /\ d \in Decisions
    /\ known' = [known EXCEPT ![t][Item(t).op] = d]
    /\ at' = [at EXCEPT ![t] = @ + 1]
    /\ UNCHANGED <<pc, items>>

\* An item passed with a decision is remembered as decided.
LEMMA DecidedLearns ==
    ASSUME Types, ItemsDecided, NEW t \in Tasks, NEW d, Learns(t, d)
    PROVE  ItemsDecided'
  <1>1. /\ Item(t).op \in Ops /\ at[t] \in DOMAIN items[t]
        /\ Item(t) = items[t][at[t]]
    BY CurrentItem DEF Learns, Executing, Item
  <1>2. ASSUME NEW s \in Tasks PROVE (pc[s] = "lock" => at[s] = 1)'
    BY <1>2 DEF ItemsDecided, Learns, Executing, Types
  <1>3. ASSUME NEW s \in Tasks, NEW i \in DOMAIN items'[s],
               pc'[s] = "release" \/ (pc'[s] = "execute" /\ i < at'[s])
        PROVE  known'[s][items'[s][i].op] \in Decisions
    <2>0. i \in DOMAIN items[s] /\ i \in Nat
      BY <1>3 DEF Learns, Types
    <2>1. CASE s # t
      BY <1>3, <2>0, <2>1 DEF ItemsDecided, Learns, Types
    <2>2. CASE s = t /\ i = at[t]
      BY <1>1, <1>3, <2>2 DEF Learns, Types
    <2>3. CASE s = t /\ i # at[t]
      <3>1. i < at[t] /\ pc[t] = "execute"
        BY <1>3, <2>0, <2>3 DEF Learns, Executing, Types
      <3>2. known[t][items[t][i].op] \in Decisions
        BY <2>0, <2>3, <3>1 DEF ItemsDecided
      <3>3. items[t][i].op \in Ops
        <4>1. items[t] \in Seq(Items) /\ i \in DOMAIN items[t]
          BY <2>0, <2>3 DEF Types
        <4>2. items[t][i] \in Items
          BY <4>1
        <4>. QED
          BY <4>2 DEF Items
      <3>. QED
        BY <1>1, <2>3, <3>2, <3>3 DEF Learns, Types
    <2>. QED
      BY <2>1, <2>2, <2>3
  <1>. QED
    BY <1>2, <1>3 DEF ItemsDecided

\* The last of a request's four ways to learn of a decision.
LEMMA LosesToDecision ==
    ASSUME Types, WriterView, Remembers, NEW t \in Tasks, LoseClaim(t)
    PROVE  /\ Item(t).op \in Ops
           /\ work.op[Item(t).op] \in Decisions
           /\ Learns(t, work.op[Item(t).op])
  <1>1. Item(t).op \in Ops
    BY CurrentItem DEF LoseClaim, CompareAndSet, Executing
  <1>2. db.op[Item(t).op] # "none"
    BY <1>1 DEF LoseClaim, CompareAndSet, Remembers
  <1>3. work.op[Item(t).op] \in OpStatuses /\ work.op[Item(t).op] # "none"
    BY <1>1, <1>2 DEF WriterView, Types, Rows
  <1>4. work.op[Item(t).op] \in Decisions
    BY <1>3 DEF LoseClaim, OpStatuses
  <1>. QED
    BY <1>1, <1>4 DEF LoseClaim, CompareAndSet, NextItem, Learns

\* What a request remembers stays true when it decides an item.
LEMMA RemembersDecides ==
    ASSUME Types, WriterView, Remembers, NEW t \in Tasks, NEW o \in Ops,
           NEW d \in Decisions, Decides(t, o, d),
           known' = [known EXCEPT ![t][o] = d], db.op[o] # "none"
    PROVE  Remembers'
  BY ConstantsOK DEF WriterView, Remembers, Decides, Types, Rows, Decisions

\* Every step keeps what requests remember true.
LEMMA MemoryStep ==
    ASSUME Types, WriterView, Remembers, ItemsDecided, [Next]_vars
    PROVE  Remembers' /\ ItemsDecided'
  <1>1. CASE Issue
    BY <1>1, StepsOfIssue, UnlearnedIssue, RemembersUnlearned, DecidedUnlearned
  <1>2. CASE EntityRequest
    BY <1>2, StepsOfEntities, UnlearnedEntities, RemembersUnlearned, DecidedUnlearned
  <1>3. ASSUME NEW t \in Tasks,
               MergeSource(t) \/ MergeWrite(t) \/ ConfirmWrite(t) \/ GiveUpWriting(t)
        PROVE  Remembers' /\ ItemsDecided'
    BY <1>3, StepsOfWriters, UnlearnedWriters, RemembersUnlearned, DecidedUnlearned
  <1>4. ASSUME NEW t \in Tasks, NEW r \in Requests, BeginCorrect(t, r)
        PROVE  Remembers' /\ ItemsDecided'
    <2>1. Outside /\ Unlearned
      BY <1>4 DEF BeginCorrect, Goto, Outside, Unlearned, WriterView, Types
    <2>. QED
      BY <2>1, RemembersUnlearned, DecidedUnlearned
  <1>5. CASE ServerStops
    BY <1>5, ConstantsOK DEF ServerStops, Remembers, ItemsDecided, WriterView, Types, Decisions
  <1>6. CASE UNCHANGED vars
    BY <1>6 DEF vars, Remembers, ItemsDecided
  <1>7. ASSUME NEW t \in Tasks, Correct(t) \/ AcquireLock(t)
        PROVE  Remembers' /\ ItemsDecided'
    <2>1. CASE Preflight(t)
      <3>1. Item(t).op \in Ops
        BY <2>1, CurrentItem DEF Preflight
      <3>2. Remembers'
        <4>. DEFINE o == Item(t).op
        <4>1. /\ known' = [known EXCEPT ![t][o] = Loaded(t, o)]
              /\ UNCHANGED <<db, work, writer>>
          BY <2>1 DEF Preflight
        <4>2. \/ Loaded(t, o) = known[t][o]
              \/ Loaded(t, o) = db.op[o]
          BY DEF Loaded
        <4>. HIDE DEF o
        <4>. QED
          BY <3>1, <4>1, <4>2 DEF Remembers, Types, o
      <3>3. ItemsDecided'
        BY <2>1 DEF Preflight, ItemsDecided, Types
      <3>. QED
        BY <3>2, <3>3
    <2>2. CASE Refuse(t) \/ Respond(t)
      <3>1. /\ pc[t] # "execute" /\ Finish(t)
            /\ UNCHANGED <<db, work, writer>>
        BY <2>2 DEF Refuse, Respond
      <3>2. Outside
        BY <3>1 DEF Finish, Goto, Outside, WriterView, Types
      <3>3. Unlearned
        BY <3>1 DEF Finish, Goto, Unlearned, Types
      <3>. QED
        BY <3>2, <3>3, RemembersUnlearned, DecidedUnlearned
    <2>3. CASE AllVerified(t) \/ AcquireLock(t)
      <3>1. Remembers'
        BY <2>3 DEF AllVerified, AcquireLock, Remembers
      <3>2. CASE AllVerified(t)
        <4>1. /\ pc' = [pc EXCEPT ![t] = "lock"] /\ at' = [at EXCEPT ![t] = 1]
              /\ UNCHANGED <<items, known>>
          BY <3>2 DEF AllVerified, Goto
        <4>2. \A s \in Tasks : pc'[s] = "lock" => at'[s] = 1
          BY <4>1 DEF ItemsDecided, Types
        <4>3. \A s \in Tasks : pc'[s] \in {"execute", "release"} =>
                pc'[s] = pc[s] /\ at'[s] = at[s]
          BY <4>1 DEF Types
        <4>4. ASSUME NEW s \in Tasks, NEW i \in DOMAIN items'[s],
                     pc'[s] = "release" \/ (pc'[s] = "execute" /\ i < at'[s])
              PROVE  known'[s][items'[s][i].op] \in Decisions
          BY <4>1, <4>3, <4>4 DEF ItemsDecided
        <4>. QED
          BY <3>1, <4>2, <4>4 DEF ItemsDecided
      <3>3. CASE AcquireLock(t)
        <4>1. /\ pc' = [pc EXCEPT ![t] = "execute"] /\ at[t] = 1
              /\ UNCHANGED <<items, at, known>>
          BY <3>3 DEF AcquireLock, Goto, ItemsDecided
        <4>2. \A i \in DOMAIN items[t] : ~(i < at[t])
          <5>1. items[t] \in Seq(Items)
            BY DEF Types
          <5>. QED
            BY <4>1, <5>1
        <4>3. \A s \in Tasks \ {t} : pc'[s] = pc[s]
          BY <4>1 DEF Types
        <4>4. pc'[t] = "execute"
          BY <4>1 DEF Types
        <4>5. ASSUME NEW s \in Tasks PROVE (pc[s] = "lock" => at[s] = 1)'
          BY <4>1, <4>3, <4>4 DEF ItemsDecided
        <4>6. ASSUME NEW s \in Tasks, NEW i \in DOMAIN items'[s],
                     pc'[s] = "release" \/ (pc'[s] = "execute" /\ i < at'[s])
              PROVE  known'[s][items'[s][i].op] \in Decisions
          <5>1. CASE s = t
            BY <4>1, <4>2, <4>4, <4>6, <5>1
          <5>2. CASE s # t
            BY <4>1, <4>3, <4>6, <5>2 DEF ItemsDecided
          <5>. QED
            BY <5>1, <5>2
        <4>. QED
          BY <3>1, <4>5, <4>6 DEF ItemsDecided
      <3>. QED
        BY <2>3, <3>1, <3>2, <3>3
    <2>4. CASE Replay(t)
      <3>1. Learns(t, known[t][Item(t).op])
        BY <2>4 DEF Replay, NextItem, Learns
      <3>2. Remembers'
        BY <2>4, CurrentItem DEF Replay, Executing, NextItem, Remembers, Types
      <3>. QED
        BY <3>1, <3>2, DecidedLearns
    <2>5. CASE LoseClaim(t)
      <3>1. Remembers'
        <4>. DEFINE o == Item(t).op
        <4>1. /\ known' = [known EXCEPT ![t][o] = work.op[o]]
              /\ known[t][o] = "issued"
              /\ UNCHANGED <<db, work>> /\ writer \in {NoTask, t} /\ writer' = t
          BY <2>5 DEF LoseClaim, CompareAndSet, NextItem
        <4>2. o \in Ops
          BY <2>5, LosesToDecision
        <4>. HIDE DEF o
        <4>. QED
          BY <4>1, <4>2, ConstantsOK DEF Remembers, Types
      <3>. QED
        BY <2>5, <3>1, LosesToDecision, DecidedLearns
    <2>6. CASE Reject(t)
      <3>1. /\ Learns(t, "rejected") /\ db.op[Item(t).op] # "none"
            /\ known' = [known EXCEPT ![t][Item(t).op] = "rejected"]
        BY <2>6, RejectDecides
           DEF Reject, Claims, CompareAndSet, NextItem, Learns, Remembers, Decisions
      <3>. QED
        BY <2>6, <3>1, RejectDecides, RemembersDecides, DecidedLearns DEF Decisions
    <2>7. CASE Confirm(t)
      <3>1. /\ Learns(t, "confirmed") /\ db.op[Item(t).op] # "none"
            /\ known' = [known EXCEPT ![t][Item(t).op] = "confirmed"]
        BY <2>7, ConfirmDecides
           DEF Confirm, Claims, CompareAndSet, NextItem, Learns, Remembers, Decisions
      <3>. QED
        BY <2>7, <3>1, ConfirmDecides, RemembersDecides, DecidedLearns DEF Decisions
    <2>8. CASE ConfirmConflicts(t) \/ WriterBusy(t) \/ CommitFails(t)
      <3>1. Rollback(t) /\ pc[t] = "execute"
        BY <2>8 DEF ConfirmConflicts, WriterBusy, CommitFails, Executing
      <3>2. /\ pc' = [pc EXCEPT ![t] = "release"]
            /\ items' = [items EXCEPT ![t] = <<>>]
            /\ known' = [known EXCEPT ![t] = [o \in Ops |-> "none"]]
            /\ UNCHANGED <<db, at>>
            /\ writer # t => UNCHANGED <<work, writer>>
        BY <3>1 DEF Rollback, Goto
      <3>3. Remembers'
        BY <3>2, ConstantsOK DEF Remembers, WriterView, Types, Decisions
      <3>4. ItemsDecided'
        BY <3>2 DEF ItemsDecided, Types
      <3>. QED
        BY <3>3, <3>4
    <2>9. CASE Commit(t)
      <3>1. Remembers'
        BY <2>9, ConstantsOK DEF Commit, Remembers, WriterView, Types
      <3>2. ItemsDecided'
        BY <2>9 DEF Commit, Goto, ItemsDecided, Types
      <3>. QED
        BY <3>1, <3>2
    <2>. QED
      BY <1>7, <2>1, <2>2, <2>3, <2>4, <2>5, <2>6, <2>7, <2>8, <2>9 DEF Correct
  <1>. QED
    BY <1>1, <1>2, <1>3, <1>4, <1>5, <1>6, <1>7 DEF Next

----------------------------------------------------------------------------
(* Results *)

\* The initial state.
LEMMA InvInit == Init => Inv
  <1>1. Init => Remembers /\ ItemsDecided
    BY DEF Init, Remembers, ItemsDecided, Decisions
  <1>2. Init => WriterView
    BY ConstantsOK DEF Init, WriterView
  <1>. QED
    BY <1>1, <1>2, TypesInit DEF Inv

\* Every step keeps the invariant.
THEOREM Invariant == Spec => []Inv
  <1>1. Inv /\ [Next]_vars => Inv'
    BY TypesStep, WriterViewStep, MemoryStep DEF Inv
  <1>. QED
    BY <1>1, InvInit, PTL DEF Spec

\* A committed decision is final, and only a response adds to the answers.
Final == \A o \in Ops : db.op[o] \in Decisions => db'.op[o] = db.op[o]

\* A committed decision is never changed.
LEMMA DecisionsAreFinal ==
    ASSUME Inv, [Next]_vars, \A t \in Tasks : ~Respond(t)
    PROVE  Final /\ UNCHANGED told
  <1>1. CASE Issue
    BY <1>1, StepsOfIssue
       DEF Inv, Outside, OneWrite, Final, Decisions, Issue, DrawCandidates,
           IssueOperation, TokenExpires
  <1>2. CASE EntityRequest
    <2>1. Final
      BY <1>2, StepsOfEntities DEF Inv, Outside, OneWrite, Final, Decisions
    <2>. QED
      BY <1>2, <2>1 DEF EntityRequest, MergeTarget, ConfirmRead, DeleteEntity,
                        PatchStatus, CorrectStatus
  <1>3. ASSUME NEW t \in Tasks,
               MergeSource(t) \/ MergeWrite(t) \/ ConfirmWrite(t) \/ GiveUpWriting(t)
        PROVE  Final /\ UNCHANGED told
    <2>1. Final
      BY <1>3, StepsOfWriters DEF Inv, Outside, OneWrite, Final, Decisions
    <2>. QED
      BY <1>3, <2>1 DEF MergeSource, MergeWrite, ConfirmWrite, GiveUpWriting
  <1>4. ASSUME NEW t \in Tasks, Correct(t) \/ AcquireLock(t)
        PROVE  Final /\ UNCHANGED told
    <2>1. CASE Commit(t)
      BY <2>1 DEF Commit, Inv, WriterView, Final
    <2>2. CASE Confirm(t) \/ Reject(t) \/ LoseClaim(t) \/ Replay(t)
      BY <2>2 DEF Confirm, Reject, LoseClaim, Replay, NextItem, Final
    <2>3. CASE ConfirmConflicts(t) \/ WriterBusy(t) \/ CommitFails(t)
      BY <2>3 DEF ConfirmConflicts, WriterBusy, CommitFails, Rollback, Final
    <2>4. CASE Preflight(t) \/ Refuse(t) \/ AllVerified(t) \/ AcquireLock(t)
      BY <2>4 DEF Preflight, Refuse, AllVerified, AcquireLock, Final
    <2>. QED
      BY <1>4, <2>1, <2>2, <2>3, <2>4 DEF Correct
  <1>5. CASE \/ \E t \in Tasks, r \in Requests : BeginCorrect(t, r)
             \/ ServerStops \/ UNCHANGED vars
    BY <1>5 DEF BeginCorrect, ServerStops, vars, Final
  <1>. QED
    BY <1>1, <1>2, <1>3, <1>4, <1>5 DEF Next

\* Every response repeats committed decisions.
LEMMA ResponsesAreDecisions ==
    ASSUME Inv, NEW t \in Tasks, Respond(t)
    PROVE  /\ UNCHANGED db
           /\ \E A \in SUBSET (Ops \X Decisions) :
                /\ \A a \in A : db.op[a[1]] = a[2]
                /\ told' = told \cup A
  <1>. DEFINE A == {<<items[t][i].op, known[t][items[t][i].op]>> : i \in DOMAIN items[t]}
  <1>1. UNCHANGED db /\ told' = told \cup A /\ pc[t] = "release"
    BY DEF Respond
  <1>2. ASSUME NEW i \in DOMAIN items[t]
        PROVE  /\ items[t][i].op \in Ops
               /\ known[t][items[t][i].op] \in Decisions
               /\ db.op[items[t][i].op] = known[t][items[t][i].op]
    <2>1. items[t] \in Seq(Items)
      BY DEF Inv, Types
    <2>2. items[t][i] \in Items
      BY <2>1
    <2>3. items[t][i].op \in Ops
      BY <2>2 DEF Items
    <2>4. known[t][items[t][i].op] \in Decisions
      BY <1>1 DEF Inv, ItemsDecided
    <2>5. writer # t
      BY <1>1 DEF Inv, WriterView
    <2>. QED
      BY <2>3, <2>4, <2>5 DEF Inv, Remembers
  <1>3. A \in SUBSET (Ops \X Decisions)
    BY <1>2
  <1>4. \A a \in A : db.op[a[1]] = a[2]
    BY <1>2
  <1>. QED
    BY <1>1, <1>3, <1>4

\* CandidateOperation implements FirstDecision: the first committed confirm
\* or reject of an operation decides it, and every answer any client gets
\* about it, by execution, lost claim or replay, is that decision.
THEOREM Implements == Spec => FirstDecisionDecides
  <1>. DEFINE Dec == [o \in Ops |-> IF db.op[o] \in Decisions THEN db.op[o] ELSE "none"]
  <1>1. Init => Promise!Init
    BY DEF Init, Promise!Init, Decisions
  <1>2. Inv /\ [Next]_vars => [Promise!Next]_(Promise!vars)
    <2>. SUFFICES ASSUME Inv, [Next]_vars PROVE Promise!Next
      OBVIOUS
    <2>1. CASE \A t \in Tasks : ~Respond(t)
      <3>1. Final /\ UNCHANGED told
        BY <2>1, DecisionsAreFinal
      <3>2. Dec' \in [Ops -> Decisions \cup {"none"}]
        OBVIOUS
      <3>3. \A o \in Ops : Dec[o] # "none" => Dec'[o] = Dec[o]
        BY <3>1 DEF Final, Decisions
      <3>4. Promise!Decide
        BY <3>1, <3>2, <3>3 DEF Promise!Decide, Promise!Decisions, Decisions
      <3>. QED
        BY <3>4 DEF Promise!Next
    <2>2. ASSUME NEW t \in Tasks, Respond(t)
          PROVE  Promise!Next
      <3>1. PICK A \in SUBSET (Ops \X Decisions) :
              /\ UNCHANGED db
              /\ \A a \in A : db.op[a[1]] = a[2]
              /\ told' = told \cup A
        BY <2>2, ResponsesAreDecisions
      <3>2. \A a \in A : Dec[a[1]] = a[2]
        BY <3>1
      <3>3. Promise!Answer
        BY <3>1, <3>2 DEF Promise!Answer, Promise!Decisions, Decisions
      <3>. QED
        BY <3>3 DEF Promise!Next
    <2>. QED
      BY <2>1, <2>2
  <1>. QED
    BY <1>1, <1>2, Invariant, PTL DEF Spec, FirstDecisionDecides, Promise!Spec

\* Every answer that has been given is a committed decision.
Told == \A a \in told : a \in Ops \X Decisions /\ db.op[a[1]] = a[2]

LEMMA ToldStep == ASSUME Inv, Told, [Next]_vars PROVE Told'
  <1>1. CASE \A t \in Tasks : ~Respond(t)
    BY <1>1, DecisionsAreFinal DEF Final, Told
  <1>2. ASSUME NEW t \in Tasks, Respond(t)
        PROVE  Told'
    BY <1>2, ResponsesAreDecisions DEF Told
  <1>. QED
    BY <1>1, <1>2

\* No two clients are ever told different things about one operation, however
\* often and with whatever decisions it is submitted (the replay and the lost
\* claim of correct_event).
THEOREM AnswersNeverDiffer == Spec => []Promise!AnswersAgree
  <1>1. Init => Told
    BY DEF Init, Told
  <1>2. Inv /\ Told /\ [Next]_vars => Told'
    BY ToldStep
  <1>3. Told => Promise!AnswersAgree
    BY DEF Told, Promise!AnswersAgree
  <1>. QED
    BY <1>1, <1>2, <1>3, Invariant, PTL DEF Spec

----------------------------------------------------------------------------
(* Types *)

\* The types that no other argument needs: of tokens and of the lock.
TokenTypes ==
    /\ digest \in [Ops -> SUBSET Entities]
    /\ token \in [Ops -> {"none", "signed", "expired"}]
    /\ holder \in Tasks \cup {NoTask}

\* A token is bound to entities.
LEMMA CandidatesTyped ==
    ASSUME NEW rows, NEW x \in Entities, NEW limit
    PROVE  Candidates(rows, x, limit) \subseteq Entities
  <1>1. Matches[x] \in Seq(Entities)
    BY ConstantsOK
  <1>2. \A i \in DOMAIN Matches[x] : Matches[x][i] \in Entities
    BY <1>1
  <1>. QED
    BY <1>2 DEF Candidates

LEMMA TokenTypesStep == ASSUME TokenTypes, [Next]_vars PROVE TokenTypes'
  <1>1. ASSUME NEW o \in Ops, NEW limit \in Limits, DrawCandidates(o, limit)
        PROVE  TokenTypes'
    <2>1. Candidates(db, ResourceOf[o], limit) \subseteq Entities
      BY ConstantsOK, CandidatesTyped
    <2>. QED
      BY <1>1, <2>1 DEF DrawCandidates, TokenTypes
  <1>2. ASSUME NEW o \in Ops, IssueOperation(o) \/ TokenExpires(o)
        PROVE  TokenTypes'
    BY <1>2 DEF IssueOperation, TokenExpires, TokenTypes
  <1>3. ASSUME NEW t \in Tasks, Correct(t) \/ AcquireLock(t)
        PROVE  TokenTypes'
    BY <1>3 DEF Correct, AcquireLock, Preflight, Refuse, AllVerified, Replay, LoseClaim,
                Reject, Confirm, ConfirmConflicts, WriterBusy, Commit, CommitFails,
                Respond, NextItem, Rollback, Finish, TokenTypes
  <1>4. ASSUME NEW t \in Tasks,
               MergeSource(t) \/ MergeWrite(t) \/ ConfirmWrite(t) \/ GiveUpWriting(t)
        PROVE  TokenTypes'
    BY <1>4 DEF MergeSource, MergeWrite, ConfirmWrite, GiveUpWriting, Finish, TokenTypes
  <1>5. ASSUME NEW t \in Tasks, NEW x \in Entities, NEW y \in Entities,
               NEW locked \in BOOLEAN, MergeTarget(t, y, x, locked) \/ ConfirmRead(t, x)
        PROVE  TokenTypes'
    BY <1>5 DEF MergeTarget, ConfirmRead, TokenTypes
  <1>6. ASSUME NEW x \in Entities, NEW s \in EntityStatuses,
               DeleteEntity(x) \/ PatchStatus(x, s) \/ CorrectStatus(x, s)
        PROVE  TokenTypes'
    BY <1>6 DEF DeleteEntity, PatchStatus, CorrectStatus, TokenTypes
  <1>7. EntityRequest => TokenTypes'
    <2>1. {"confirmed", "deleted"} \subseteq EntityStatuses
      BY DEF EntityStatuses, Active
    <2>. QED
      BY <1>5, <1>6, <2>1 DEF EntityRequest
  <1>8. ASSUME NEW t \in Tasks, NEW r \in Requests, BeginCorrect(t, r)
        PROVE  TokenTypes'
    BY <1>8 DEF BeginCorrect, TokenTypes
  <1>9. CASE ServerStops \/ UNCHANGED vars
    BY <1>9 DEF ServerStops, vars, TokenTypes
  <1>. QED
    BY <1>1, <1>2, <1>3, <1>4, <1>7, <1>8, <1>9 DEF Next, Issue

\* Rows, tokens, requests, locks and answers keep their types, for any
\* entities, tokens and item lists: what a token is bound to, with whatever
\* limit it was asked for, is always entities (generate_entity_candidates).
THEOREM TypeCorrect == Spec => []TypeOK
  <1>1. Init => TokenTypes /\ Told
    BY DEF Init, TokenTypes, Told
  <1>2. TokenTypes /\ [Next]_vars => TokenTypes'
    BY TokenTypesStep
  <1>3. Inv /\ Told /\ [Next]_vars => Told'
    BY ToldStep
  <1>4. Inv /\ TokenTypes /\ Told => TypeOK
    <2>1. Told => told \subseteq Ops \X OpStatuses
      BY DEF Told, OpStatuses
    <2>2. Types => at \in [Tasks -> Nat]
      BY DEF Types
    <2>. QED
      BY <2>1, <2>2 DEF Inv, Types, TokenTypes, TypeOK
  <1>. QED
    BY <1>1, <1>2, <1>3, <1>4, Invariant, PTL DEF Spec

----------------------------------------------------------------------------
(* Confirmations and their merges *)

\* What the writer has done is to merge entities that are active in the
\* committed rows, and each of its confirmations has its merge.
OwnMerges ==
    /\ \A x \in Entities : work.status[x] # db.status[x] =>
         db.status[x] \in Active /\ work.status[x] = "merged"
    /\ \A o \in Ops : (work.op[o] = "confirmed" /\ db.op[o] # "confirmed") =>
         /\ work.sel[o] \in Entities
         /\ db.status[ResourceOf[o]] \in Active
         /\ db.status[work.sel[o]] \in Active
         /\ work.status[ResourceOf[o]] = "merged"
         /\ work.into[ResourceOf[o]] = work.sel[o]

\* The confirm item itself establishes its merge in the writer's rows.
LEMMA OwnMergesConfirm ==
    ASSUME Types, OwnMerges, NEW t \in Tasks, Confirm(t)
    PROVE  OwnMerges'
  <1>. DEFINE o == Item(t).op  y == Item(t).sel  x == ResourceOf[o]
  <1>1. /\ o \in Ops /\ y \in Entities /\ x \in Entities
        /\ UNCHANGED db
        /\ work'.op = [work.op EXCEPT ![o] = "confirmed"]
        /\ work'.status = [work.status EXCEPT ![x] = "merged"]
        /\ work'.into = [work.into EXCEPT ![x] = y]
        /\ work'.sel = [work.sel EXCEPT ![o] = y]
    BY ConfirmDecides, ConstantsOK DEF Decides
  <1>2. work.status[x] \in Active /\ work.status[y] \in Active
    BY DEF Confirm, MayMerge, IsActive
  <1>3. /\ work.status \in [Entities -> EntityStatuses]
        /\ work.into \in [Entities -> Entities \cup {NoEntity}]
        /\ work.op \in [Ops -> OpStatuses]
        /\ work.sel \in [Ops -> Entities \cup {NoEntity}]
    BY DEF Types, Rows
  <1>. HIDE DEF o, y, x
  <1>4. db.status[x] \in Active /\ db.status[y] \in Active
    BY <1>1, <1>2 DEF OwnMerges, Active
  <1>5. ASSUME NEW z \in Entities, work'.status[z] # db'.status[z]
        PROVE  db'.status[z] \in Active /\ work'.status[z] = "merged"
    BY <1>1, <1>3, <1>4, <1>5 DEF OwnMerges
  <1>6. ASSUME NEW p \in Ops, work'.op[p] = "confirmed", db'.op[p] # "confirmed"
        PROVE  /\ work'.sel[p] \in Entities
               /\ db'.status[ResourceOf[p]] \in Active
               /\ db'.status[work'.sel[p]] \in Active
               /\ work'.status[ResourceOf[p]] = "merged"
               /\ work'.into[ResourceOf[p]] = work'.sel[p]
    <2>1. CASE p = o
      BY <1>1, <1>3, <1>4, <2>1 DEF x
    <2>2. CASE p # o
      <3>1. work.op[p] = "confirmed" /\ db.op[p] # "confirmed" /\ work'.sel[p] = work.sel[p]
        BY <1>1, <1>3, <1>6, <2>2
      <3>2. work.status[ResourceOf[p]] = "merged"
        BY <3>1 DEF OwnMerges
      <3>3. ResourceOf[p] # x /\ ResourceOf[p] \in Entities
        BY <1>2, <3>2, ConstantsOK DEF Active
      <3>. QED
        BY <1>1, <1>3, <3>1, <3>3 DEF OwnMerges
    <2>. QED
      BY <2>1, <2>2
  <1>. QED
    BY <1>5, <1>6 DEF OwnMerges

\* Every step keeps it, and only a commit makes a confirmation.
LEMMA OwnMergesStep ==
    ASSUME Inv, OwnMerges, [Next]_vars
    PROVE  /\ OwnMerges'
           /\ \A o \in Ops : (db.op[o] # "confirmed" /\ db'.op[o] = "confirmed") =>
                db' = work
  <1>1. CASE Outside \/ OneWrite
    BY <1>1, ConstantsOK DEF Outside, OneWrite, OwnMerges
  <1>2. ASSUME NEW t \in Tasks, Correct(t) \/ AcquireLock(t)
        PROVE  /\ OwnMerges'
               /\ db' = db \/ db' = work
    <2>1. CASE Confirm(t)
      BY <2>1, OwnMergesConfirm DEF Confirm, NextItem, Inv
    <2>2. CASE Reject(t)
      <3>1. /\ UNCHANGED <<work.status, work.into, work.sel>> /\ Item(t).op \in Ops
            /\ work'.op = [work.op EXCEPT ![Item(t).op] = "rejected"] /\ UNCHANGED db
        BY <2>2, RejectDecides DEF Inv, Decides
      <3>. QED
        BY <3>1 DEF OwnMerges, Inv, Types, Rows
    <2>3. CASE ConfirmConflicts(t) \/ WriterBusy(t) \/ CommitFails(t)
      BY <2>3, ConstantsOK
         DEF ConfirmConflicts, WriterBusy, CommitFails, Rollback, OwnMerges
    <2>4. CASE Commit(t)
      BY <2>4, ConstantsOK DEF Commit, OwnMerges
    <2>5. CASE \/ LoseClaim(t) \/ Replay(t) \/ Preflight(t) \/ Refuse(t)
               \/ AllVerified(t) \/ AcquireLock(t) \/ Respond(t)
      <3>1. UNCHANGED <<db, work>>
        BY <2>5 DEF LoseClaim, Replay, NextItem, Preflight, Refuse, AllVerified,
                    AcquireLock, Respond
      <3>. QED
        BY <3>1 DEF OwnMerges
    <2>. QED
      BY <1>2, <2>1, <2>2, <2>3, <2>4, <2>5 DEF Correct
  <1>3. CASE \/ \E t \in Tasks, r \in Requests : BeginCorrect(t, r)
             \/ ServerStops \/ UNCHANGED vars
    BY <1>3 DEF BeginCorrect, ServerStops, vars, OwnMerges
  <1>. QED
    BY <1>1, <1>2, <1>3, StepsOfIssue, StepsOfWriters, StepsOfEntities DEF Next, Inv

\* Whatever the endpoints that take no lock do meanwhile, a confirmation is
\* committed together with its merge, out of an active entity onto another.
THEOREM ConfirmationsMerge == Spec => ConfirmationMerges
  <1>. DEFINE Merged ==
         \A o \in Ops :
           (db.op[o] # "confirmed" /\ db'.op[o] = "confirmed") =>
             /\ {db.status[ResourceOf[o]], db.status[db'.sel[o]]} \subseteq Active
             /\ db'.status[ResourceOf[o]] = "merged"
             /\ db'.into[ResourceOf[o]] = db'.sel[o]
  <1>1. Init => OwnMerges
    BY DEF Init, OwnMerges
  <1>2. Inv /\ OwnMerges /\ [Next]_vars => OwnMerges'
    BY OwnMergesStep
  <1>3. Inv /\ OwnMerges /\ [Next]_vars => [Merged]_vars
    BY OwnMergesStep DEF OwnMerges
  <1>. QED
    BY <1>1, <1>2, <1>3, Invariant, PTL DEF Spec, ConfirmationMerges
----------------------------------------------------------------------------
(* One confirmation about an entity *)

\* The writers that can make an entity active again: create_new, the confirm
\* endpoint and PATCH.
NoRevival == Others \cap {"create_new", "confirm", "patch"} = {}

\* A confirmation uses its entity up.
Consumed(rows) ==
    /\ \A o \in Ops : rows.op[o] = "confirmed" => rows.status[ResourceOf[o]] \notin Active
    /\ \A o, p \in Ops :
         (o # p /\ rows.op[o] = "confirmed" /\ rows.op[p] = "confirmed")
             => ResourceOf[o] # ResourceOf[p]

AllConsumed ==
    /\ Consumed(db) /\ Consumed(work)
    /\ \A t \in Tasks : pc[t] # "confirm"

\* No write makes an entity active, and no request is between the read and the
\* write of the confirm endpoint.
RevivesNone ==
    /\ \A x \in Entities : db'.status[x] \in Active => db.status[x] \in Active
    /\ \A t \in Tasks : pc'[t] # "confirm"

\* Without those writers, no step outside a correction revives an entity.
LEMMA NothingRevives ==
    ASSUME NoRevival, Types, AllConsumed,
           \/ Issue \/ EntityRequest
           \/ \E t \in Tasks : \/ MergeSource(t) \/ MergeWrite(t)
                               \/ ConfirmWrite(t) \/ GiveUpWriting(t)
    PROVE  RevivesNone
  <1>1. CASE Issue
    <2>1. db'.status = db.status
      BY <1>1 DEF Issue, DrawCandidates, IssueOperation, TokenExpires, Write, Types, Rows
    <2>2. pc' = pc
      BY <1>1 DEF Issue, DrawCandidates, IssueOperation, TokenExpires, request
    <2>. QED
      BY <2>1, <2>2 DEF AllConsumed, RevivesNone
  <1>2. ASSUME NEW t \in Tasks,
               MergeSource(t) \/ MergeWrite(t) \/ ConfirmWrite(t) \/ GiveUpWriting(t)
        PROVE  RevivesNone
    <2>1. \A s \in Tasks : pc'[s] # "confirm"
      BY <1>2 DEF MergeSource, MergeWrite, ConfirmWrite, GiveUpWriting, Finish, Goto,
                  AllConsumed, Types
    <2>2. ASSUME MergeWrite(t)
          PROVE  \A x \in Entities : db'.status[x] \in Active => db.status[x] \in Active
      <3>. DEFINE y == pair[t][1]  z == pair[t][2]
                  M == MergedRows(db, y, z)
                  A == IF holder = t THEN db.audited \cup {z} ELSE db.audited
      <3>1. db \in Rows /\ y \in Entities \cup {NoEntity} /\ z \in Entities
        BY <2>2 DEF MergeWrite, Types
      <3>2. /\ M \in Rows /\ M.audited = db.audited
            /\ M.status = [db.status EXCEPT ![z] = "merged"]
        <4>. HIDE DEF y, z
        <4>1. MergedRows(db, y, z) \in Rows
          BY <3>1 DEF MergedRows, Rows, EntityStatuses
        <4>2. MergedRows(db, y, z).audited = db.audited
          BY <3>1 DEF MergedRows, Rows, EntityStatuses
        <4>3. MergedRows(db, y, z).status = [db.status EXCEPT ![z] = "merged"]
          BY <3>1 DEF MergedRows, Rows, EntityStatuses
        <4>. QED
          BY <4>1, <4>2, <4>3
      <3>3. db' = db \/ db' = [M EXCEPT !.audited = A]
        BY <2>2, <3>2 DEF MergeWrite, Write
      <3>4. db' = db \/ db'.status = [db.status EXCEPT ![z] = "merged"]
        <4>. HIDE DEF M, A, y, z
        <4>. QED
          BY <3>2, <3>3 DEF Rows
      <3>. HIDE DEF M, A, y, z
      <3>. QED
        BY <3>1, <3>4 DEF Rows, Active
    <2>3. ~ConfirmWrite(t)
      BY DEF ConfirmWrite, AllConsumed
    <2>. QED
      BY <1>2, <2>1, <2>2, <2>3 DEF MergeSource, GiveUpWriting, RevivesNone
  <1>3. CASE EntityRequest
    <2>1. ASSUME NEW t \in Tasks, NEW x \in Entities, NEW y \in Entities,
                 NEW locked \in BOOLEAN, MergeTarget(t, y, x, locked)
          PROVE  RevivesNone
      BY <2>1 DEF MergeTarget, Goto, AllConsumed, Types, RevivesNone
    <2>2. ASSUME NEW x \in Entities, NEW s \in {"gone", "deleted"}, pc' = pc,
                 db'.status = [db.status EXCEPT ![x] = s]
          PROVE  RevivesNone
      BY <2>2 DEF AllConsumed, Types, Rows, Active, RevivesNone
    <2>3. ASSUME NEW x \in Entities, DeleteEntity(x)
          PROVE  RevivesNone
      BY <2>2, <2>3 DEF DeleteEntity, Write, Types, Rows, request
    <2>4. ASSUME NEW x \in Entities, NEW s \in {"confirmed", "deleted"}, CorrectStatus(x, s)
          PROVE  RevivesNone
      <3>1. s = "deleted"
        BY <2>4 DEF CorrectStatus, NoRevival
      <3>. QED
        BY <2>2, <2>4, <3>1 DEF CorrectStatus, Write, Types, Rows, request
    <2>5. \A t \in Tasks, x \in Entities : ~ConfirmRead(t, x)
      BY DEF ConfirmRead, NoRevival
    <2>6. \A x \in Entities, s \in EntityStatuses : ~PatchStatus(x, s)
      BY DEF PatchStatus, NoRevival
    <2>. QED
      BY <1>3, <2>1, <2>3, <2>4, <2>5, <2>6 DEF EntityRequest
  <1>. QED
    BY <1>1, <1>2, <1>3

\* A confirm item finds its entity active, so none was confirmed about it.
LEMMA ConfirmConsumes ==
    ASSUME Types, Consumed(work), NEW t \in Tasks, Confirm(t)
    PROVE  Consumed(work')
  <1>. DEFINE o == Item(t).op  x == ResourceOf[o]
  <1>1. /\ o \in Ops /\ x \in Entities
        /\ work'.op = [work.op EXCEPT ![o] = "confirmed"]
        /\ work'.status = [work.status EXCEPT ![x] = "merged"]
    BY ConfirmDecides, ConstantsOK DEF Decides
  <1>2. work.status[x] \in Active
    BY DEF Confirm, MayMerge, IsActive
  <1>3. work.op \in [Ops -> OpStatuses] /\ work.status \in [Entities -> EntityStatuses]
    BY DEF Types, Rows
  <1>4. \A p \in Ops : ResourceOf[p] \in Entities
    BY ConstantsOK
  <1>. HIDE DEF o
  <1>5. ASSUME NEW p \in Ops, work'.op[p] = "confirmed"
        PROVE  work'.status[ResourceOf[p]] \notin Active
    BY <1>1, <1>3, <1>4, <1>5 DEF Consumed, Active
  <1>6. ASSUME NEW p \in Ops, p # o, work'.op[p] = "confirmed"
        PROVE  ResourceOf[p] # x
    <2>1. work.op[p] = "confirmed"
      BY <1>1, <1>3, <1>6
    <2>. QED
      BY <1>2, <2>1 DEF Consumed
  <1>7. ASSUME NEW p \in Ops, NEW q \in Ops, p # q,
               work'.op[p] = "confirmed", work'.op[q] = "confirmed"
        PROVE  ResourceOf[p] # ResourceOf[q]
    <2>1. CASE p = o \/ q = o
      BY <1>6, <1>7, <2>1
    <2>2. CASE p # o /\ q # o
      BY <1>1, <1>3, <1>7, <2>2 DEF Consumed
    <2>. QED
      BY <2>1, <2>2
  <1>. QED
    BY <1>5, <1>7 DEF Consumed

\* Every step keeps confirmed entities used up.
LEMMA ConsumedStep ==
    ASSUME NoRevival, Inv, AllConsumed, [Next]_vars
    PROVE  AllConsumed'
  <1>0. \A p \in Ops : ResourceOf[p] \in Entities
    BY ConstantsOK
  <1>1. CASE \/ Issue \/ EntityRequest
             \/ \E t \in Tasks : \/ MergeSource(t) \/ MergeWrite(t)
                                 \/ ConfirmWrite(t) \/ GiveUpWriting(t)
    <2>1. Outside \/ OneWrite
      BY <1>1, StepsOfIssue, StepsOfWriters, StepsOfEntities DEF Inv
    <2>2. /\ \A x \in Entities : db'.status[x] \in Active => db.status[x] \in Active
          /\ \A t \in Tasks : pc'[t] # "confirm"
      BY <1>1, NothingRevives DEF Inv, RevivesNone
    <2>3. CASE OneWrite
      <3>1. \A o \in Ops : db'.op[o] = "confirmed" => db.op[o] = "confirmed"
        BY <2>3 DEF OneWrite
      <3>2. Consumed(db')
        BY <1>0, <2>2, <3>1 DEF AllConsumed, Consumed
      <3>. QED
        BY <2>2, <2>3, <3>2 DEF OneWrite, AllConsumed
    <2>4. CASE Outside
      BY <2>2, <2>4 DEF Outside, AllConsumed
    <2>. QED
      BY <2>1, <2>3, <2>4
  <1>2. ASSUME NEW t \in Tasks, Correct(t) \/ AcquireLock(t)
        PROVE  AllConsumed'
    <2>1. \A s \in Tasks : pc'[s] # "confirm"
      BY <1>2 DEF Correct, AcquireLock, Preflight, Refuse, AllVerified, Replay, LoseClaim,
                  Reject, Confirm, NextItem, ConfirmConflicts, WriterBusy, CommitFails,
                  Rollback, Commit, Respond, Finish, Goto, AllConsumed, Inv, Types
    <2>2. CASE Confirm(t)
      BY <2>1, <2>2, ConfirmConsumes DEF Confirm, NextItem, AllConsumed, Inv
    <2>3. CASE Reject(t)
      <3>1. /\ work'.op = [work.op EXCEPT ![Item(t).op] = "rejected"]
            /\ work'.status = work.status /\ db' = db
        BY <2>3, RejectDecides DEF Inv, Decides
      <3>2. work.op \in [Ops -> OpStatuses]
        BY DEF Inv, Types, Rows
      <3>3. Consumed(work')
        BY <3>1, <3>2 DEF AllConsumed, Consumed
      <3>. QED
        BY <2>1, <3>1, <3>3 DEF AllConsumed
    <2>4. CASE ConfirmConflicts(t) \/ WriterBusy(t) \/ CommitFails(t)
      BY <2>1, <2>4 DEF ConfirmConflicts, WriterBusy, CommitFails, Rollback, AllConsumed
    <2>5. CASE Commit(t)
      BY <2>1, <2>5 DEF Commit, AllConsumed
    <2>6. CASE \/ LoseClaim(t) \/ Replay(t) \/ Preflight(t) \/ Refuse(t)
               \/ AllVerified(t) \/ AcquireLock(t) \/ Respond(t)
      <3>1. UNCHANGED <<db, work>>
        BY <2>6 DEF LoseClaim, Replay, NextItem, Preflight, Refuse, AllVerified,
                    AcquireLock, Respond
      <3>. QED
        BY <2>1, <3>1 DEF AllConsumed
    <2>. QED
      BY <1>2, <2>2, <2>3, <2>4, <2>5, <2>6 DEF Correct
  <1>3. CASE \/ \E t \in Tasks, r \in Requests : BeginCorrect(t, r)
             \/ ServerStops \/ UNCHANGED vars
    BY <1>3 DEF BeginCorrect, ServerStops, vars, Goto, AllConsumed, Inv, Types
  <1>. QED
    BY <1>1, <1>2, <1>3 DEF Next

\* Without the writers that make an entity active again, at most one of the
\* operations about an entity is ever confirmed: a second finds the tombstone
\* of the first under the lock, whatever it was verified against.
THEOREM OneConfirmationStands ==
    ASSUME NoRevival
    PROVE  Spec => []OneConfirmationPerEntity
  <1>1. Init => AllConsumed
    BY DEF Init, AllConsumed, Consumed
  <1>2. Inv /\ AllConsumed /\ [Next]_vars => AllConsumed'
    BY ConsumedStep
  <1>3. AllConsumed => OneConfirmationPerEntity
    BY DEF AllConsumed, Consumed, OneConfirmationPerEntity
  <1>. QED
    BY <1>1, <1>2, <1>3, Invariant, PTL DEF Spec
----------------------------------------------------------------------------
(* Merges under the pipeline lock have a survivor *)

\* The writers that merge, or mark an entity merged, without the lock.
AllMergesLocked == Others \cap {"merge", "patch"} = {}

Survives(rows) ==
    \A S \in SUBSET Entities :
        S # {} => \E x \in S : rows.status[x] # "merged" \/ rows.into[x] \notin S

\* Where a request holds the pipeline lock, if it merges under it.
Locked == {"execute", "release", "source", "merge"}

\* Whoever merges holds the lock, and what it has checked stays true until it
\* writes: another request may revive or delete an entity, but not merge it.
LockedPairs ==
    \A t \in Tasks :
        /\ pc[t] \in Locked => holder = t
        /\ pc[t] \in {"source", "merge"} =>
             pair[t][1] # pair[t][2] /\ db.status[pair[t][1]] # "merged"

Surviving == Survives(db) /\ Survives(work) /\ LockedPairs

\* A merge into an entity that is not merged leaves a survivor: the target
\* itself in every group the source has joined.
LEMMA MergeSurvives ==
    ASSUME NEW rows \in Rows, Survives(rows), NEW x \in Entities, NEW y \in Entities, x # y,
           rows.status[y] # "merged",
           NEW after,
           after.status = [rows.status EXCEPT ![x] = "merged"],
           after.into = [rows.into EXCEPT ![x] = y]
    PROVE  Survives(after)
  <1>. SUFFICES ASSUME NEW S \in SUBSET Entities, S # {}
                PROVE  \E z \in S : after.status[z] # "merged" \/ after.into[z] \notin S
    BY DEF Survives
  <1>1. rows.status \in [Entities -> EntityStatuses]
        /\ rows.into \in [Entities -> Entities \cup {NoEntity}]
    BY DEF Rows
  <1>2. CASE x \notin S
    <2>1. PICK z \in S : rows.status[z] # "merged" \/ rows.into[z] \notin S
      BY DEF Survives
    <2>. QED
      BY <1>1, <1>2, <2>1
  <1>3. CASE x \in S /\ y \in S
    BY <1>1, <1>3
  <1>4. CASE x \in S /\ y \notin S
    BY <1>1, <1>4
  <1>. QED
    BY <1>2, <1>3, <1>4

\* So does anything that merges nothing.
LEMMA OthersSurvive ==
    ASSUME NEW rows, Survives(rows), NEW after, after.into = rows.into,
           \A x \in Entities : after.status[x] = "merged" => rows.status[x] = "merged"
    PROVE  Survives(after)
  BY DEF Survives

\* A transaction of one write that merges nothing.
MergesNothing ==
    /\ db'.into = db.into
    /\ \A x \in Entities : db'.status[x] = "merged" => db.status[x] = "merged"

\* What the steps of merges and confirmations do to the entities.
LEMMA WritersSurvive ==
    ASSUME AllMergesLocked, Inv, Surviving, NEW t \in Tasks,
           MergeSource(t) \/ MergeWrite(t) \/ ConfirmWrite(t) \/ GiveUpWriting(t)
    PROVE  Survives(db') /\ (MergesNothing \/ holder = t)
  <1>1. CASE MergeWrite(t)
    <2>. DEFINE y == pair[t][1]  x == pair[t][2]
                M == MergedRows(db, y, x)
                A == IF holder = t THEN db.audited \cup {x} ELSE db.audited
    <2>0. db \in Rows /\ y \in Entities \cup {NoEntity} /\ x \in Entities
      BY <1>1 DEF MergeWrite, Inv, Types
    <2>1. /\ db \in Rows /\ x \in Entities /\ y \in Entities /\ x # y
          /\ db.status[y] # "merged" /\ holder = t
      BY <1>1 DEF MergeWrite, Inv, Types, Surviving, LockedPairs, Locked
    <2>2. CASE db' = db
      BY <2>1, <2>2 DEF Surviving
    <2>3. CASE db' # db
      <3>1. /\ M \in Rows /\ M.audited = db.audited
            /\ M.status = [db.status EXCEPT ![x] = "merged"]
            /\ M.into = [db.into EXCEPT ![x] = y]
        <4>. HIDE DEF y, x
        <4>1. MergedRows(db, y, x) \in Rows
          BY <2>0 DEF MergedRows, Rows, EntityStatuses
        <4>2. MergedRows(db, y, x).audited = db.audited
          BY <2>0 DEF MergedRows, Rows, EntityStatuses
        <4>3. MergedRows(db, y, x).status = [db.status EXCEPT ![x] = "merged"]
          BY <2>0 DEF MergedRows, Rows, EntityStatuses
        <4>4. MergedRows(db, y, x).into = [db.into EXCEPT ![x] = y]
          BY <2>0 DEF MergedRows, Rows, EntityStatuses
        <4>. QED
          BY <4>1, <4>2, <4>3, <4>4
      <3>2. db' = [M EXCEPT !.audited = A]
        BY <1>1, <2>3, <3>1 DEF MergeWrite, Write
      <3>. HIDE DEF M, A, y, x
      <3>3. /\ db'.status = [db.status EXCEPT ![x] = "merged"]
            /\ db'.into = [db.into EXCEPT ![x] = y]
        BY <3>1, <3>2 DEF Rows
      <3>. QED
        BY <2>1, <3>3, MergeSurvives DEF Surviving
    <2>. QED
      BY <2>2, <2>3
  <1>2. CASE ConfirmWrite(t)
    <2>1. MergesNothing
      BY <1>2 DEF ConfirmWrite, Write, MergesNothing, Inv, Types, Rows
    <2>. QED
      BY <2>1, OthersSurvive DEF MergesNothing, Surviving
  <1>3. CASE MergeSource(t) \/ GiveUpWriting(t)
    BY <1>3 DEF MergeSource, GiveUpWriting, MergesNothing, Surviving
  <1>. QED
    BY <1>1, <1>2, <1>3

\* The requests that write at once merge nothing.
LEMMA RequestsSurvive ==
    ASSUME AllMergesLocked, Inv, Surviving, Issue \/ EntityRequest
    PROVE  MergesNothing
  <1>1. CASE Issue
    BY <1>1 DEF Issue, DrawCandidates, IssueOperation, TokenExpires, Write, MergesNothing,
                Inv, Types, Rows
  <1>2. ASSUME NEW x \in Entities, DeleteEntity(x)
        PROVE  MergesNothing
    BY <1>2 DEF DeleteEntity, Write, MergesNothing, Inv, Types, Rows
  <1>3. ASSUME NEW x \in Entities, NEW s \in {"confirmed", "deleted"}, CorrectStatus(x, s)
        PROVE  MergesNothing
    BY <1>3 DEF CorrectStatus, Write, MergesNothing, Inv, Types, Rows
  <1>4. ASSUME NEW t \in Tasks, NEW x \in Entities, NEW y \in Entities, NEW locked \in BOOLEAN,
               MergeTarget(t, y, x, locked) \/ ConfirmRead(t, x)
        PROVE  MergesNothing
    BY <1>4 DEF MergeTarget, ConfirmRead, MergesNothing
  <1>5. \A x \in Entities, s \in EntityStatuses : ~PatchStatus(x, s)
    BY DEF PatchStatus, AllMergesLocked
  <1>. QED
    BY <1>1, <1>2, <1>3, <1>4, <1>5 DEF EntityRequest

\* Lock and checks of the merges, whoever moves.
LEMMA LockedPairsStep ==
    ASSUME AllMergesLocked, Inv, Surviving, [Next]_vars
    PROVE  LockedPairs'
  <1>1. CASE Issue
    <2>1. UNCHANGED <<pc, pair, holder>> /\ MergesNothing
      BY <1>1, RequestsSurvive DEF Issue, DrawCandidates, IssueOperation, TokenExpires, request
    <2>. QED
      BY <2>1 DEF MergesNothing, Surviving, LockedPairs, Locked, Inv, Types
  <1>2. ASSUME NEW t \in Tasks, NEW x \in Entities, NEW y \in Entities, NEW locked \in BOOLEAN,
               MergeTarget(t, y, x, locked)
        PROVE  LockedPairs'
    <2>1. locked
      BY <1>2 DEF MergeTarget, AllMergesLocked
    <2>2. /\ holder = NoTask /\ holder' = t
          /\ pc' = [pc EXCEPT ![t] = "source"]
          /\ pair' = [pair EXCEPT ![t] = <<y, x>>]
          /\ y # x /\ db.status[y] # "merged" /\ db' = db
      BY <1>2, <2>1 DEF MergeTarget, Goto, IsActive, Active
    <2>3. \A s \in Tasks \ {t} :
            pc'[s] = pc[s] /\ pair'[s] = pair[s] /\ pc[s] \notin Locked
      BY <2>2, ConstantsOK DEF Surviving, LockedPairs, Inv, Types, Locked
    <2>4. pair'[t] = <<y, x>> /\ pc'[t] = "source"
      BY <2>2 DEF Inv, Types
    <2>. QED
      BY <2>2, <2>3, <2>4 DEF LockedPairs, Locked
  <1>3. ASSUME NEW t \in Tasks, NEW x \in Entities, ConfirmRead(t, x)
        PROVE  LockedPairs'
    BY <1>3 DEF ConfirmRead, Goto, Surviving, LockedPairs, Locked, Inv, Types
  <1>4. ASSUME NEW x \in Entities,
               DeleteEntity(x) \/ \E s \in {"confirmed", "deleted"} : CorrectStatus(x, s)
        PROVE  LockedPairs'
    <2>1. UNCHANGED <<pc, pair, holder>>
      BY <1>4 DEF DeleteEntity, CorrectStatus, request
    <2>2. MergesNothing
      BY <1>4, RequestsSurvive DEF EntityRequest
    <2>. QED
      BY <2>1, <2>2 DEF MergesNothing, Surviving, LockedPairs, Locked, Inv, Types
  <1>5. \A x \in Entities, s \in EntityStatuses : ~PatchStatus(x, s)
    BY DEF PatchStatus, AllMergesLocked
  <1>6. ASSUME NEW t \in Tasks,
               MergeSource(t) \/ MergeWrite(t) \/ ConfirmWrite(t) \/ GiveUpWriting(t)
        PROVE  LockedPairs'
    <2>1. MergesNothing \/ holder = t
      BY <1>6, WritersSurvive
    <2>2. CASE MergeSource(t)
      BY <2>2 DEF MergeSource, Finish, Goto, Surviving, LockedPairs, Locked, Inv, Types
    <2>3. CASE MergeWrite(t) \/ ConfirmWrite(t) \/ GiveUpWriting(t)
      <3>1. /\ pc' = [pc EXCEPT ![t] = "idle"]
            /\ pair' = [pair EXCEPT ![t] = <<NoEntity, NoEntity>>]
            /\ holder' = IF holder = t THEN NoTask ELSE holder
        BY <2>3 DEF MergeWrite, ConfirmWrite, GiveUpWriting, Finish, Goto
      <3>. QED
        BY <2>1, <3>1 DEF MergesNothing, Surviving, LockedPairs, Locked, Inv, Types
    <2>. QED
      BY <1>6, <2>2, <2>3
  <1>7. ASSUME NEW t \in Tasks, Correct(t) \/ AcquireLock(t)
        PROVE  LockedPairs'
    <2>1. CASE AcquireLock(t)
      BY <2>1, ConstantsOK DEF AcquireLock, Goto, Surviving, LockedPairs, Locked, Inv, Types
    <2>2. CASE Refuse(t) \/ Respond(t)
      <3>1. /\ pc' = [pc EXCEPT ![t] = "idle"]
            /\ pair' = [pair EXCEPT ![t] = <<NoEntity, NoEntity>>]
            /\ holder' = IF holder = t THEN NoTask ELSE holder
            /\ db' = db
        BY <2>2 DEF Refuse, Respond, Finish, Goto
      <3>. QED
        BY <3>1 DEF Surviving, LockedPairs, Locked, Inv, Types
    <2>3. CASE Preflight(t) \/ AllVerified(t)
      BY <2>3 DEF Preflight, AllVerified, Goto, Surviving, LockedPairs, Locked, Inv, Types
    <2>4. CASE Replay(t) \/ LoseClaim(t) \/ Reject(t) \/ Confirm(t)
      BY <2>4 DEF Replay, LoseClaim, Reject, Confirm, NextItem, Surviving, LockedPairs, Locked
    <2>5. CASE ConfirmConflicts(t) \/ WriterBusy(t) \/ CommitFails(t)
      BY <2>5 DEF ConfirmConflicts, WriterBusy, CommitFails, Executing, Rollback, Goto,
                  Surviving, LockedPairs, Locked, Inv, Types
    <2>6. CASE Commit(t)
      <3>1. holder = t /\ pc' = [pc EXCEPT ![t] = "release"] /\ UNCHANGED <<holder, pair>>
        BY <2>6 DEF Commit, Goto, Surviving, LockedPairs, Locked
      <3>. QED
        BY <3>1 DEF Surviving, LockedPairs, Locked, Inv, Types
    <2>. QED
      BY <1>7, <2>1, <2>2, <2>3, <2>4, <2>5, <2>6 DEF Correct
  <1>8. ASSUME NEW t \in Tasks, NEW r \in Requests, BeginCorrect(t, r)
        PROVE  LockedPairs'
    BY <1>8 DEF BeginCorrect, Goto, Surviving, LockedPairs, Locked, Inv, Types
  <1>9. CASE ServerStops \/ UNCHANGED vars
    BY <1>9 DEF ServerStops, vars, Surviving, LockedPairs, Locked
  <1>. QED
    BY <1>1, <1>2, <1>3, <1>4, <1>5, <1>6, <1>7, <1>8, <1>9 DEF Next, EntityRequest

\* Every step leaves a survivor in every group, in the committed rows and in
\* the writer's.
LEMMA SurvivingStep ==
    ASSUME AllMergesLocked, Inv, Surviving, [Next]_vars
    PROVE  Surviving'
  <1>1. CASE \/ Issue \/ EntityRequest
             \/ \E t \in Tasks : \/ MergeSource(t) \/ MergeWrite(t)
                                 \/ ConfirmWrite(t) \/ GiveUpWriting(t)
    <2>1. Outside \/ OneWrite
      BY <1>1, StepsOfIssue, StepsOfWriters, StepsOfEntities DEF Inv
    <2>2. Survives(db')
      BY <1>1, WritersSurvive, RequestsSurvive, OthersSurvive DEF MergesNothing, Surviving
    <2>. QED
      BY <2>1, <2>2, LockedPairsStep DEF Outside, OneWrite, Surviving
  <1>2. ASSUME NEW t \in Tasks, Correct(t) \/ AcquireLock(t)
        PROVE  Survives(db') /\ Survives(work')
    <2>1. CASE Confirm(t)
      <3>. DEFINE y == Item(t).sel  x == ResourceOf[Item(t).op]
      <3>1. /\ y \in Entities /\ x \in Entities /\ UNCHANGED db /\ work \in Rows
            /\ work'.status = [work.status EXCEPT ![x] = "merged"]
            /\ work'.into = [work.into EXCEPT ![x] = y]
        BY <2>1, ConfirmDecides, ConstantsOK DEF Decides, Inv, Types
      <3>2. x # y /\ work.status[y] # "merged"
        BY <2>1 DEF Confirm, MayMerge, IsActive, Active
      <3>. HIDE DEF x, y
      <3>. QED
        BY <3>1, <3>2, MergeSurvives DEF Surviving
    <2>2. CASE Reject(t)
      <3>1. /\ db' = db
            /\ work'.status = work.status /\ work'.into = work.into
        BY <2>2, RejectDecides DEF Decides, Inv
      <3>2. Survives(work')
        BY <3>1, OthersSurvive DEF Surviving
      <3>. QED
        BY <3>1, <3>2 DEF Surviving
    <2>3. CASE ConfirmConflicts(t) \/ WriterBusy(t) \/ CommitFails(t)
      BY <2>3 DEF ConfirmConflicts, WriterBusy, CommitFails, Rollback, Surviving
    <2>4. CASE Commit(t)
      BY <2>4 DEF Commit, Surviving
    <2>5. CASE \/ LoseClaim(t) \/ Replay(t) \/ Preflight(t) \/ Refuse(t)
               \/ AllVerified(t) \/ AcquireLock(t) \/ Respond(t)
      BY <2>5 DEF LoseClaim, Replay, NextItem, Preflight, Refuse, AllVerified,
                  AcquireLock, Respond, Surviving
    <2>. QED
      BY <1>2, <2>1, <2>2, <2>3, <2>4, <2>5 DEF Correct
  <1>3. CASE \/ \E t \in Tasks, r \in Requests : BeginCorrect(t, r)
             \/ ServerStops \/ UNCHANGED vars
    <2>1. Survives(db') /\ Survives(work')
      BY <1>3 DEF BeginCorrect, ServerStops, vars, Surviving
    <2>. QED
      BY <2>1, LockedPairsStep DEF Surviving
  <1>. QED
    BY <1>1, <1>2, <1>3, LockedPairsStep DEF Next, Surviving

\* When everything that merges takes the pipeline lock, profiles are never all
\* merged into one another, for any number of entities and requests
\* (merge_entities, called by corrections).
THEOREM LockedMergesSurvive ==
    ASSUME AllMergesLocked
    PROVE  Spec => []MergesHaveASurvivor
  <1>1. Init => Surviving
    BY DEF Init, Surviving, Survives, LockedPairs, Locked
  <1>2. Inv /\ Surviving /\ [Next]_vars => Surviving'
    BY SurvivingStep
  <1>3. Surviving => MergesHaveASurvivor
    BY DEF Surviving, Survives, MergesHaveASurvivor
  <1>. QED
    BY <1>1, <1>2, <1>3, Invariant, PTL DEF Spec

----------------------------------------------------------------------------
(* Nobody waits in a circle *)

\* The pipeline lock is held by a request past the wait for it, which is where a
\* correction writes and answers; SQLite's write lock only by the same request.
LocksInOrder ==
    /\ holder \in Tasks \cup {NoTask}
    /\ holder # NoTask => pc[holder] \in Locked
    /\ \A t \in Tasks : pc[t] \in {"execute", "release"} => holder = t
    /\ writer \in {NoTask, holder}

\* A request that waits for the pipeline lock has neither lock, and one that has
\* a lock finds the other free or its own.
HoldersProceed ==
    \A t \in Tasks :
        t \in {holder, writer} => pc[t] \notin {"idle", "lock"} /\ writer \in {NoTask, t}

\* A request that goes on and takes or leaves no more than the write lock keeps
\* the order if it stays past the pipeline lock, or before it.
LEMMA GoesOn ==
    ASSUME Inv, LocksInOrder, NEW t \in Tasks, NEW p \in Places,
           pc' = [pc EXCEPT ![t] = p], holder' = holder, writer' \in {NoTask, holder},
           holder = t => p \in Locked, p \in {"execute", "release"} => holder = t
    PROVE  LocksInOrder'
  <1>1. pc'[t] = p /\ \A s \in Tasks \ {t} : pc'[s] = pc[s]
    BY DEF Inv, Types
  <1>2. \A s \in Tasks : pc'[s] \in {"execute", "release"} => holder = s
    BY <1>1 DEF LocksInOrder
  <1>3. holder # NoTask => pc'[holder] \in Locked
    BY <1>1 DEF LocksInOrder
  <1>. QED
    BY <1>2, <1>3 DEF LocksInOrder

\* One that ends leaves the lock it has.
LEMMA EndsFree ==
    ASSUME Inv, LocksInOrder, NEW t \in Tasks, writer # t, writer' = writer,
           pc' = [pc EXCEPT ![t] = "idle"],
           holder' = IF holder = t THEN NoTask ELSE holder
    PROVE  LocksInOrder'
  <1>1. pc'[t] = "idle" /\ \A s \in Tasks \ {t} : pc'[s] = pc[s]
    BY DEF Inv, Types
  <1>2. \A s \in Tasks : pc'[s] \in {"execute", "release"} => holder' = s
    BY <1>1 DEF LocksInOrder
  <1>3. holder' # NoTask => pc'[holder'] \in Locked
    BY <1>1 DEF LocksInOrder
  <1>. QED
    BY <1>2, <1>3 DEF LocksInOrder

LEMMA LocksInOrderStep ==
    ASSUME LocksInOrder, Inv, [Next]_vars
    PROVE  LocksInOrder'
  <1>0. NoTask \notin Tasks /\ \A t \in Tasks : writer = t => pc[t] = "execute"
    BY ConstantsOK DEF Inv, WriterView
  <1>1. CASE Issue
    BY <1>1 DEF Issue, DrawCandidates, IssueOperation, TokenExpires, Write, request,
                LocksInOrder
  <1>2. ASSUME NEW t \in Tasks, NEW x \in Entities, NEW y \in Entities,
               NEW locked \in BOOLEAN, MergeTarget(t, y, x, locked)
        PROVE  LocksInOrder'
    <2>1. pc[t] = "idle" /\ holder # t /\ writer' = writer /\ pc' = [pc EXCEPT ![t] = "source"]
      BY <1>0, <1>2 DEF MergeTarget, Goto, LocksInOrder, Locked
    <2>2. CASE locked
      <3>1. holder = NoTask /\ holder' = t
        BY <1>2, <2>2 DEF MergeTarget
      <3>2. pc'[t] = "source" /\ \A s \in Tasks \ {t} : pc'[s] = pc[s]
        BY <2>1 DEF Inv, Types
      <3>. QED
        BY <1>0, <2>1, <3>1, <3>2 DEF LocksInOrder, Locked
    <2>3. CASE ~locked
      <3>1. holder' = holder
        BY <1>2, <2>3 DEF MergeTarget
      <3>. QED
        BY <2>1, <3>1, GoesOn DEF LocksInOrder, Places, Locked
    <2>. QED
      BY <2>2, <2>3
  <1>3. ASSUME NEW t \in Tasks, NEW x \in Entities, ConfirmRead(t, x)
        PROVE  LocksInOrder'
    <2>1. /\ pc[t] = "idle" /\ holder # t /\ writer' = writer /\ holder' = holder
          /\ pc' = [pc EXCEPT ![t] = "confirm"]
      BY <1>0, <1>3 DEF ConfirmRead, Goto, LocksInOrder, Locked
    <2>. QED
      BY <2>1, GoesOn DEF LocksInOrder, Places
  <1>4. ASSUME NEW x \in Entities, NEW s \in EntityStatuses,
               DeleteEntity(x) \/ PatchStatus(x, s) \/ CorrectStatus(x, s)
        PROVE  LocksInOrder'
    BY <1>4 DEF DeleteEntity, PatchStatus, CorrectStatus, Write, request, LocksInOrder
  <1>5. CASE EntityRequest
    <2>1. {"confirmed", "deleted"} \subseteq EntityStatuses
      BY DEF EntityStatuses, Active
    <2>. QED
      BY <1>2, <1>3, <1>4, <1>5, <2>1 DEF EntityRequest
  <1>6. ASSUME NEW t \in Tasks, MergeSource(t)
        PROVE  LocksInOrder'
    <2>1. pc[t] = "source" /\ writer # t /\ writer' = writer
      BY <1>0, <1>6 DEF MergeSource
    <2>2. CASE pc' = [pc EXCEPT ![t] = "merge"] /\ holder' = holder
      BY <2>1, <2>2, GoesOn DEF LocksInOrder, Places, Locked
    <2>3. CASE Finish(t)
      BY <2>1, <2>3, EndsFree DEF Finish, Goto
    <2>. QED
      BY <1>6, <2>2, <2>3 DEF MergeSource, Goto
  <1>7. ASSUME NEW t \in Tasks,
               \/ MergeWrite(t) \/ ConfirmWrite(t) \/ GiveUpWriting(t)
               \/ Refuse(t) \/ Respond(t)
        PROVE  LocksInOrder'
    <2>1. pc[t] # "execute" /\ writer' = writer /\ Finish(t)
      BY <1>7 DEF MergeWrite, ConfirmWrite, GiveUpWriting, Refuse, Respond, Write
    <2>. QED
      BY <1>0, <2>1, EndsFree DEF Finish, Goto
  <1>8. ASSUME NEW t \in Tasks, AcquireLock(t)
        PROVE  LocksInOrder'
    <2>1. /\ holder = NoTask /\ holder' = t /\ writer' = writer
          /\ pc' = [pc EXCEPT ![t] = "execute"]
      BY <1>8 DEF AcquireLock, Goto
    <2>2. pc'[t] = "execute" /\ \A s \in Tasks \ {t} : pc'[s] = pc[s]
      BY <2>1 DEF Inv, Types
    <2>. QED
      BY <1>0, <2>1, <2>2 DEF LocksInOrder, Locked
  <1>9. ASSUME NEW t \in Tasks, Preflight(t) \/ AllVerified(t)
        PROVE  LocksInOrder'
    <2>1. CASE Preflight(t)
      BY <2>1 DEF Preflight, LocksInOrder
    <2>2. CASE AllVerified(t)
      <3>1. /\ pc[t] = "preflight" /\ writer' = writer /\ holder' = holder
            /\ pc' = [pc EXCEPT ![t] = "lock"]
        BY <2>2 DEF AllVerified, Goto
      <3>2. holder # t
        BY <1>0, <3>1 DEF LocksInOrder, Locked
      <3>. QED
        BY <3>1, <3>2, GoesOn DEF LocksInOrder, Places
    <2>. QED
      BY <1>9, <2>1, <2>2
  <1>10. ASSUME NEW t \in Tasks, Replay(t) \/ LoseClaim(t) \/ Reject(t) \/ Confirm(t)
         PROVE  LocksInOrder'
    <2>1. pc[t] = "execute" /\ UNCHANGED <<pc, holder>> /\ writer' \in {writer, t}
      BY <1>10 DEF Replay, LoseClaim, Reject, Confirm, Claims, CompareAndSet, Executing, NextItem
    <2>. QED
      BY <2>1 DEF LocksInOrder
  <1>11. ASSUME NEW t \in Tasks,
                ConfirmConflicts(t) \/ WriterBusy(t) \/ CommitFails(t) \/ Commit(t)
         PROVE  LocksInOrder'
    <2>1. /\ pc[t] = "execute" /\ pc' = [pc EXCEPT ![t] = "release"] /\ holder' = holder
          /\ writer' = IF writer = t THEN NoTask ELSE writer
      BY <1>11 DEF ConfirmConflicts, WriterBusy, CommitFails, Commit, Executing, Rollback, Goto
    <2>. QED
      BY <2>1, GoesOn DEF LocksInOrder, Places, Locked
  <1>12. ASSUME NEW t \in Tasks, NEW r \in Requests, BeginCorrect(t, r)
         PROVE  LocksInOrder'
    <2>1. /\ pc[t] = "idle" /\ writer' = writer /\ holder' = holder
          /\ pc' = [pc EXCEPT ![t] = "preflight"]
      BY <1>12 DEF BeginCorrect, Goto
    <2>2. holder # t
      BY <1>0, <2>1 DEF LocksInOrder, Locked
    <2>. QED
      BY <2>1, <2>2, GoesOn DEF LocksInOrder, Places
  <1>13. CASE ServerStops \/ UNCHANGED vars
    BY <1>0, <1>13 DEF ServerStops, vars, LocksInOrder
  <1>. QED
    BY <1>1, <1>5, <1>6, <1>7, <1>8, <1>9, <1>10, <1>11, <1>12, <1>13 DEF Next, Correct

\* Nobody holds a lock and waits for another's, and no end of a request, with an
\* answer, a conflict, a rollback or a stop, leaves a lock behind: the pipeline
\* lock and SQLite's write lock are taken in this order by whoever takes both
\* (the two phases of correct_event, its except clauses and its async with).
THEOREM NoCircularWait == Spec => []HoldersProceed
  <1>1. Init => LocksInOrder
    BY ConstantsOK DEF Init, LocksInOrder
  <1>2. Inv /\ LocksInOrder /\ [Next]_vars => LocksInOrder'
    BY LocksInOrderStep
  <1>3. Inv /\ LocksInOrder => HoldersProceed
    BY ConstantsOK DEF Inv, WriterView, LocksInOrder, HoldersProceed, Locked
  <1>. QED
    BY <1>1, <1>2, <1>3, Invariant, PTL DEF Spec
=============================================================================
