------------------------- MODULE CandidateOperation -------------------------
(***************************************************************************)
(* Confirming or rejecting a candidate: the server issues a token for a    *)
(* list of possible duplicates of an extracted entity, the client sends it *)
(* back with a decision, and correct_event verifies every item without     *)
(* writing, then claims, merges and closes them under the user's pipeline  *)
(* lock in one transaction.  The other writers of entities (the merge and  *)
(* confirm endpoints, PATCH, DELETE and the older corrections) run beside  *)
(* it.                                                                     *)
(*                                                                         *)
(* SQLite has one writer: a SELECT outside a transaction sees what is      *)
(* committed, the first UPDATE of a request makes it the writer, and only  *)
(* the writer's own reads see its work before the commit.                  *)
(***************************************************************************)
EXTENDS Naturals, Sequences, FiniteSets

CONSTANTS
    Ops,          \* operations, one per token issued
    Entities,     \* entities of one user
    ResourceOf,   \* the extracted entity an operation is about
    Matches,      \* the entities whose names match, each once, best first
    Limits,       \* the limits a client asks for
    DefaultLimit, \* the limit correct_event recomputes with
    Tasks,        \* concurrent requests, a bound on concurrency only
    Requests,     \* the item lists clients submit
    Others,       \* the other requests the instance explores
    NoEntity, NoTask

Decisions == {"confirmed", "rejected"}
Active == {"provisional", "confirmed"}
\* "gone" is a deleted row; "deleted" is a status.
EntityStatuses == Active \cup {"merged", "deleted", "gone"}
\* "pending" is written and overwritten within one transaction.
OpStatuses == Decisions \cup {"none", "issued"}

Items == [op : Ops, act : {"confirm", "reject"}, sel : Entities \cup {NoEntity}]
Places == {"idle", "preflight", "lock", "execute", "release",
           "source", "merge", "confirm"}

ASSUME ConstantsOK ==
    /\ ResourceOf \in [Ops -> Entities]
    /\ Matches \in [Entities -> Seq(Entities)]
    /\ \A x \in Entities : \A i, j \in DOMAIN Matches[x] :
           Matches[x][i] = Matches[x][j] => i = j
    /\ Limits \subseteq Nat \ {0}
    /\ DefaultLimit \in Nat \ {0}
    /\ Requests \subseteq Seq(Items)
    /\ NoEntity \notin Entities
    /\ NoTask \notin Tasks

VARIABLES
    db,       \* the committed rows
    work,     \* the rows as the writer sees them
    writer,   \* the request whose transaction holds SQLite's write lock
    digest,   \* the candidates an operation's token is bound to
    token,    \* whether an operation's token is signed, and past its TTL
    pc,       \* where each request is
    items,    \* the items a correction carries
    at,       \* the item it has reached
    known,    \* operation_status of the operation objects it has loaded
    pair,     \* the target and source of a merge, or the entity to confirm
    holder,   \* who holds the user's pipeline lock
    told      \* history: the answers clients have received

request == <<pc, items, at, known, pair>>
vars == <<db, work, writer, digest, token, pc, items, at, known, pair,
          holder, told>>

Rows == [status  : [Entities -> EntityStatuses],
         into    : [Entities -> Entities \cup {NoEntity}],
         op      : [Ops -> OpStatuses],
         sel     : [Ops -> Entities \cup {NoEntity}],
         audited : SUBSET Entities]

Init ==
    /\ db = [status  |-> [x \in Entities |-> "provisional"],
             into    |-> [x \in Entities |-> NoEntity],
             op      |-> [o \in Ops |-> "none"],
             sel     |-> [o \in Ops |-> NoEntity],
             audited |-> {}]
    /\ work = db
    /\ writer = NoTask
    /\ digest = [o \in Ops |-> {}]
    /\ token = [o \in Ops |-> "none"]
    /\ pc = [t \in Tasks |-> "idle"]
    /\ items = [t \in Tasks |-> <<>>]
    /\ at = [t \in Tasks |-> 1]
    /\ known = [t \in Tasks |-> [o \in Ops |-> "none"]]
    /\ pair = [t \in Tasks |-> <<NoEntity, NoEntity>>]
    /\ holder = NoTask
    /\ told = {}

Goto(t, place) == pc' = [pc EXCEPT ![t] = place]

\* A transaction of one write: it waits for the writer and commits.
Write(rows) ==
    /\ writer = NoTask
    /\ db' = rows
    /\ work' = rows
    /\ UNCHANGED writer

\* Mutants are variants of the definition that follows them, each with one
\* plausible bug; no action of the specification uses them.

\* Mutant: the tombstone's status is not one the table knows.
MergedRowsUnknown(rows, target, source) ==
    [rows EXCEPT !.status[source] = "merging", !.into[source] = target]

MergedRows(rows, target, source) ==
    [rows EXCEPT !.status[source] = "merged", !.into[source] = target]

\* Mutant: a tombstone passes for an active entity.
IsActiveOrMerged(rows, x) ==
    x \in Entities /\ rows.status[x] \notin {"deleted", "gone"}

\* _get_active_entity
IsActive(rows, x) == x \in Entities /\ rows.status[x] \in Active

----------------------------------------------------------------------------
(* Issuing *)

\* The candidates of an entity: the best matches among the rows not marked
\* deleted, tombstones of merges included.  Their order, which the digest
\* covers too, is that of the matches.
Candidates(rows, x, limit) ==
    LET pool == {i \in DOMAIN Matches[x] :
                    rows.status[Matches[x][i]] \notin {"deleted", "gone"}}
        best == {i \in pool : Cardinality({j \in pool : j < i}) < limit}
    IN  {Matches[x][i] : i \in best}

\* The handler reads the candidates and signs the token ...
DrawCandidates(o, limit) ==
    /\ token[o] = "none"
    /\ db.status[ResourceOf[o]] # "gone"
    /\ token' = [token EXCEPT ![o] = "signed"]
    /\ digest' = [digest EXCEPT ![o] = Candidates(db, ResourceOf[o], limit)]
    /\ UNCHANGED <<db, work, writer, request, holder, told>>

\* ... and inserts the operation, which keeps the entity from deletion.
IssueOperation(o) ==
    /\ token[o] # "none"
    /\ db.op[o] = "none"
    /\ db.status[ResourceOf[o]] # "gone"
    /\ Write([db EXCEPT !.op[o] = "issued", !.audited = @ \cup {ResourceOf[o]}])
    /\ UNCHANGED <<digest, token, request, holder, told>>

TokenExpires(o) ==
    /\ token[o] = "signed"
    /\ token' = [token EXCEPT ![o] = "expired"]
    /\ UNCHANGED <<db, work, writer, digest, request, holder, told>>

----------------------------------------------------------------------------
(* correct_event, first phase: every item is verified and nothing written *)

\* Mutant: the lock is not released.
FinishLeaksLock(t) ==
    /\ Goto(t, "idle")
    /\ items' = [items EXCEPT ![t] = <<>>]
    /\ at' = [at EXCEPT ![t] = 1]
    /\ known' = [known EXCEPT ![t] = [o \in Ops |-> "none"]]
    /\ pair' = [pair EXCEPT ![t] = <<NoEntity, NoEntity>>]
    /\ UNCHANGED holder

\* The request is over; leaving it releases the lock if it has it.
Finish(t) ==
    /\ Goto(t, "idle")
    /\ items' = [items EXCEPT ![t] = <<>>]
    /\ at' = [at EXCEPT ![t] = 1]
    /\ known' = [known EXCEPT ![t] = [o \in Ops |-> "none"]]
    /\ pair' = [pair EXCEPT ![t] = <<NoEntity, NoEntity>>]
    /\ holder' = IF holder = t THEN NoTask ELSE holder

BeginCorrect(t, r) ==
    /\ pc[t] = "idle"
    /\ \A i \in DOMAIN r : db.op[r[i].op] # "none"
    /\ Goto(t, "preflight")
    /\ items' = [items EXCEPT ![t] = r]
    /\ UNCHANGED <<db, work, writer, digest, token, at, known, pair, holder, told>>

Item(t) == items[t][at[t]]

\* A second load of a row returns the object of the first.
Loaded(t, o) == IF known[t][o] = "none" THEN db.op[o] ELSE known[t][o]

\* A decided operation skips the TTL, the candidates and the selection.
Verified(t) ==
    LET o == Item(t).op IN
    \/ Loaded(t, o) \in Decisions
    \/ /\ token[o] = "signed"
       /\ digest[o] = Candidates(db, ResourceOf[o], DefaultLimit)
       /\ Item(t).act = "confirm" => Item(t).sel \in digest[o]

Preflight(t) ==
    /\ pc[t] = "preflight"
    /\ at[t] <= Len(items[t])
    /\ Verified(t)
    /\ known' = [known EXCEPT ![t][Item(t).op] = Loaded(t, Item(t).op)]
    /\ at' = [at EXCEPT ![t] = @ + 1]
    /\ UNCHANGED <<db, work, writer, digest, token, pc, items, pair, holder, told>>

Refuse(t) ==
    /\ pc[t] = "preflight"
    /\ at[t] <= Len(items[t])
    /\ ~Verified(t)
    /\ Finish(t)
    /\ UNCHANGED <<db, work, writer, digest, token, told>>

AllVerified(t) ==
    /\ pc[t] = "preflight"
    /\ at[t] > Len(items[t])
    /\ Goto(t, "lock")
    /\ at' = [at EXCEPT ![t] = 1]
    /\ UNCHANGED <<db, work, writer, digest, token, items, known, pair, holder, told>>

----------------------------------------------------------------------------
(* correct_event, second phase: under the lock, in one transaction *)

AcquireLock(t) ==
    /\ pc[t] = "lock"
    /\ holder = NoTask
    /\ holder' = t
    /\ Goto(t, "execute")
    /\ UNCHANGED <<db, work, writer, digest, token, items, at, known, pair, told>>

Executing(t) == pc[t] = "execute" /\ at[t] <= Len(items[t])

\* The item is done with, and its operation object holds this status.
NextItem(t, opStatus) ==
    /\ known' = [known EXCEPT ![t][Item(t).op] = opStatus]
    /\ at' = [at EXCEPT ![t] = @ + 1]
    /\ UNCHANGED <<db, digest, token, pc, items, pair, holder, told>>

\* An exception leaves the handler: nothing it did remains, nobody is told.
Rollback(t) ==
    /\ work' = IF writer = t THEN db ELSE work
    /\ writer' = IF writer = t THEN NoTask ELSE writer
    /\ items' = [items EXCEPT ![t] = <<>>]
    /\ known' = [known EXCEPT ![t] = [o \in Ops |-> "none"]]
    /\ Goto(t, "release")
    /\ UNCHANGED <<db, digest, token, at, pair, holder, told>>

Replay(t) ==
    /\ Executing(t)
    /\ known[t][Item(t).op] \in Decisions
    /\ NextItem(t, known[t][Item(t).op])
    /\ UNCHANGED <<work, writer>>

\* The compare-and-set UPDATE makes the request the writer.
CompareAndSet(t) ==
    /\ Executing(t)
    /\ known[t][Item(t).op] = "issued"
    /\ writer \in {NoTask, t}
    /\ writer' = t

\* Mutant: the UPDATE of the claim has no "operation_status = issued".
ClaimsUnguarded(t) == CompareAndSet(t)

Claims(t) == CompareAndSet(t) /\ work.op[Item(t).op] = "issued"

\* Another request decided the operation since the preflight.
LoseClaim(t) ==
    /\ CompareAndSet(t)
    /\ work.op[Item(t).op] # "issued"
    /\ NextItem(t, work.op[Item(t).op])
    /\ UNCHANGED work

Reject(t) ==
    /\ Claims(t)
    /\ Item(t).act = "reject"
    /\ work' = [work EXCEPT !.op[Item(t).op] = "rejected"]
    /\ NextItem(t, "rejected")

\* Mutant: the source of a merge may be a tombstone.
MayMergeTwice(rows, target, source) ==
    target # source /\ IsActive(rows, target)

\* merge_entities wants both entities active.
MayMerge(rows, target, source) ==
    /\ target # source
    /\ IsActive(rows, target)
    /\ IsActive(rows, source)

Confirm(t) ==
    LET o == Item(t).op
        y == Item(t).sel IN
    /\ Claims(t)
    /\ Item(t).act = "confirm"
    /\ MayMerge(work, y, ResourceOf[o])
    /\ work' = [MergedRows(work, y, ResourceOf[o]) EXCEPT
                  !.op[o] = "confirmed", !.sel[o] = y]
    /\ NextItem(t, "confirmed")

\* The selection is gone or either entity is no longer active.
ConfirmConflicts(t) ==
    /\ Executing(t)
    /\ Item(t).act = "confirm"
    /\ known[t][Item(t).op] = "issued"
    /\ writer \in {NoTask, t}
    /\ work.op[Item(t).op] = "issued"
    /\ ~MayMerge(work, Item(t).sel, ResourceOf[Item(t).op])
    /\ Rollback(t)

\* The UPDATE waits longer than busy_timeout for a writer, which may be a
\* handler or a pipeline step this module leaves out.
WriterBusy(t) ==
    /\ Executing(t)
    /\ known[t][Item(t).op] = "issued"
    /\ writer # t
    /\ Rollback(t)

Commit(t) ==
    /\ pc[t] = "execute"
    /\ at[t] > Len(items[t])
    /\ db' = IF writer = t THEN work ELSE db
    /\ writer' = IF writer = t THEN NoTask ELSE writer
    /\ Goto(t, "release")
    /\ UNCHANGED <<work, digest, token, items, at, known, pair, holder, told>>

CommitFails(t) ==
    /\ pc[t] = "execute"
    /\ at[t] > Len(items[t])
    /\ Rollback(t)

\* The lock is left and the response sent.
Respond(t) ==
    /\ pc[t] = "release"
    /\ told' = told \cup {<<items[t][i].op, known[t][items[t][i].op]>> :
                            i \in DOMAIN items[t]}
    /\ Finish(t)
    /\ UNCHANGED <<db, work, writer, digest, token>>

----------------------------------------------------------------------------
(* The other writers of entities *)

\* POST /entities/{target}/merge, and select_existing in correct_event,
\* which holds the pipeline lock: two SELECTs, then the writes.
MergeTarget(t, target, source, locked) ==
    /\ (IF locked THEN "select_existing" ELSE "merge") \in Others
    /\ pc[t] = "idle"
    /\ target # source
    /\ IsActive(db, target)
    /\ locked => holder = NoTask
    /\ holder' = IF locked THEN t ELSE holder
    /\ pair' = [pair EXCEPT ![t] = <<target, source>>]
    /\ Goto(t, "source")
    /\ UNCHANGED <<db, work, writer, digest, token, items, at, known, told>>

MergeSource(t) ==
    /\ pc[t] = "source"
    /\ IF IsActive(db, pair[t][2])
         THEN /\ Goto(t, "merge")
              /\ UNCHANGED <<items, at, known, pair, holder>>
         ELSE Finish(t)
    /\ UNCHANGED <<db, work, writer, digest, token, told>>

\* The writes compare nothing; a deleted row fails its UPDATE.
MergeWrite(t) ==
    /\ pc[t] = "merge"
    /\ IF "gone" \notin {db.status[pair[t][1]], db.status[pair[t][2]]}
         THEN Write([MergedRows(db, pair[t][1], pair[t][2]) EXCEPT
                       !.audited = IF holder = t THEN @ \cup {pair[t][2]} ELSE @])
         ELSE UNCHANGED <<db, work, writer>>
    /\ Finish(t)
    /\ UNCHANGED <<digest, token, told>>

\* POST /entities/{id}/confirm.
ConfirmRead(t, x) ==
    /\ "confirm" \in Others
    /\ pc[t] = "idle"
    /\ db.status[x] = "provisional"
    /\ pair' = [pair EXCEPT ![t] = <<x, x>>]
    /\ Goto(t, "confirm")
    /\ UNCHANGED <<db, work, writer, digest, token, items, at, known, holder, told>>

ConfirmWrite(t) ==
    /\ pc[t] = "confirm"
    /\ IF db.status[pair[t][1]] # "gone"
         THEN Write([db EXCEPT !.status[pair[t][1]] = "confirmed"])
         ELSE UNCHANGED <<db, work, writer>>
    /\ Finish(t)
    /\ UNCHANGED <<digest, token, told>>

\* So does a write of theirs.
GiveUpWriting(t) ==
    /\ pc[t] \in {"merge", "confirm"}
    /\ Finish(t)
    /\ UNCHANGED <<db, work, writer, digest, token, told>>

\* PATCH /entities/{id} sets any status the table knows, create_new and
\* ignore in correct_event set theirs, under the pipeline lock.
PatchStatus(x, s) ==
    /\ "patch" \in Others
    /\ db.status[x] # "gone"
    /\ Write([db EXCEPT !.status[x] = s])
    /\ UNCHANGED <<digest, token, request, holder, told>>

CorrectStatus(x, s) ==
    /\ (IF s = "confirmed" THEN "create_new" ELSE "ignore") \in Others
    /\ holder = NoTask
    /\ db.status[x] # "gone"
    /\ Write([db EXCEPT !.status[x] = s, !.audited = @ \cup {x}])
    /\ UNCHANGED <<digest, token, request, holder, told>>

\* DELETE /entities/{id}: a row a correction is about cannot go (entity_id has a
\* foreign key, selected_entity_id has none).
DeleteEntity(x) ==
    /\ "delete" \in Others
    /\ db.status[x] # "gone"
    /\ x \notin db.audited
    /\ Write([db EXCEPT !.status[x] = "gone"])
    /\ UNCHANGED <<digest, token, request, holder, told>>

\* The process stops: SQLite rolls the open transaction back.
ServerStops ==
    /\ \E t \in Tasks : pc[t] # "idle"
    /\ work' = db
    /\ writer' = NoTask
    /\ pc' = [t \in Tasks |-> "idle"]
    /\ items' = [t \in Tasks |-> <<>>]
    /\ at' = [t \in Tasks |-> 1]
    /\ known' = [t \in Tasks |-> [o \in Ops |-> "none"]]
    /\ pair' = [t \in Tasks |-> <<NoEntity, NoEntity>>]
    /\ holder' = NoTask
    /\ UNCHANGED <<db, digest, token, told>>

----------------------------------------------------------------------------

\* What a correction does by itself once it has begun, the lock apart.
Correct(t) ==
    \/ Preflight(t) \/ Refuse(t) \/ AllVerified(t)
    \/ Replay(t) \/ LoseClaim(t) \/ Reject(t) \/ Confirm(t)
    \/ ConfirmConflicts(t) \/ WriterBusy(t)
    \/ Commit(t) \/ CommitFails(t) \/ Respond(t)

Issue ==
    \E o \in Ops : \/ \E limit \in Limits : DrawCandidates(o, limit)
                   \/ IssueOperation(o) \/ TokenExpires(o)

EntityRequest ==
    \/ \E t \in Tasks, x, y \in Entities, locked \in BOOLEAN : MergeTarget(t, y, x, locked)
    \/ \E t \in Tasks, x \in Entities : ConfirmRead(t, x)
    \/ \E x \in Entities : \/ DeleteEntity(x)
                           \/ \E s \in EntityStatuses \ {"gone"} : PatchStatus(x, s)
                           \/ \E s \in {"confirmed", "deleted"} : CorrectStatus(x, s)

Next ==
    \/ Issue
    \/ \E t \in Tasks, r \in Requests : BeginCorrect(t, r)
    \/ \E t \in Tasks : \/ Correct(t) \/ AcquireLock(t)
                        \/ MergeSource(t) \/ MergeWrite(t) \/ ConfirmWrite(t) \/ GiveUpWriting(t)
    \/ EntityRequest
    \/ ServerStops

Spec == Init /\ [][Next]_vars

\* Coroutines run on, and asyncio.Lock and SQLite let their waiters in.
Fairness ==
    \A t \in Tasks :
        /\ WF_vars(Correct(t) \/ MergeSource(t) \/ MergeWrite(t)
                       \/ ConfirmWrite(t) \/ GiveUpWriting(t))
        /\ SF_vars(AcquireLock(t))

LiveSpec == Spec /\ Fairness

----------------------------------------------------------------------------
(* Properties *)

TypeOK ==
    /\ db \in Rows /\ work \in Rows
    /\ writer \in Tasks \cup {NoTask}
    /\ digest \in [Ops -> SUBSET Entities]
    /\ token \in [Ops -> {"none", "signed", "expired"}]
    /\ pc \in [Tasks -> Places]
    /\ items \in [Tasks -> Seq(Items)]
    /\ at \in [Tasks -> Nat]
    /\ known \in [Tasks -> [Ops -> OpStatuses]]
    /\ pair \in [Tasks -> (Entities \cup {NoEntity}) \X (Entities \cup {NoEntity})]
    /\ holder \in Tasks \cup {NoTask}
    /\ told \subseteq Ops \X OpStatuses

\* The committed decisions and the answers implement FirstDecision: whatever
\* races, expires, is resubmitted, rolled back or cut off, an operation is
\* decided once and every answer about it is that decision.
Promise == INSTANCE FirstDecision WITH
    decision <- [o \in Ops |-> IF db.op[o] \in Decisions THEN db.op[o] ELSE "none"]
FirstDecisionDecides == Promise!Spec

\* A confirmation and the merge it stands for are committed together, onto a
\* selection that was active until then, out of an entity that was: also
\* when one request confirms several operations, and beside every other writer.
ConfirmationMerges ==
    [][\A o \in Ops :
         (db.op[o] # "confirmed" /\ db'.op[o] = "confirmed") =>
             /\ {db.status[ResourceOf[o]], db.status[db'.sel[o]]} \subseteq Active
             /\ db'.status[ResourceOf[o]] = "merged"
             /\ db'.into[ResourceOf[o]] = db'.sel[o]]_vars

\* Merges never consume each other: no group of tombstones whose profiles
\* were all merged into one another, with no survivor (merge_entities).
MergesHaveASurvivor ==
    \A S \in SUBSET Entities :
        S # {} => \E x \in S : db.status[x] # "merged" \/ db.into[x] \notin S

\* Two confirmations about one entity cannot both stand: the second finds
\* the tombstone of the first, whichever tokens and requests they came by.
OneConfirmationPerEntity ==
    \A o, p \in Ops :
        (o # p /\ {db.op[o], db.op[p]} = {"confirmed"}) => ResourceOf[o] # ResourceOf[p]

\* Every correction ends: the pipeline lock and SQLite's write lock, taken
\* in that order, block nobody for ever.
EventuallyAnswered ==
    \A t \in Tasks : pc[t] # "idle" ~> pc[t] = "idle"
=============================================================================
