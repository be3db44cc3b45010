-------------------------------- MODULE Briefs --------------------------------
(***************************************************************************)
(* The relationship briefs.  Step 12 of the pipeline rewrites the brief of *)
(* every person whose entity came with its event; the user edits notes and *)
(* modules of a brief, naming the version he saw.                          *)
(*                                                                         *)
(* A writer reads the row, awaits other queries, and writes the whole JSON *)
(* column back by primary key.  The first row a session writes takes the   *)
(* write lock of the database, which it keeps until it commits.            *)
(***************************************************************************)
EXTENDS Integers, Sequences, FiniteSetsExt, SequencesExt

CONSTANTS
    People,     \* the persons of the event
    Todos, Type, Role,  \* the todos of the event
    Overdue,    \* the todos whose day is past
    Links,      \* what the associations of a person suggest, in their order
    Steps,      \* runs of step 12
    Clients,    \* concurrent edits
    Notes,      \* the notes the instance writes
    Aware,      \* whether the database keeps time zones (PostgreSQL does)
    MaxEvents, MaxEdits,  \* bounds
    Nobody

ConstantsOK ==
    /\ IsFiniteSet(Todos) /\ Overdue \subseteq Todos
    /\ Links \in [People -> Seq(STRING)]
    /\ Aware \in BOOLEAN /\ MaxEvents \in Nat \ {0} /\ MaxEdits \in Nat
    /\ Nobody \notin Steps \cup Clients /\ Steps \cap Clients = {}

Learned == {"care", "help", "cooperation_signal", "risk"}  \* types that fill a module
Writers == Steps \cup Clients

VARIABLES
    brief,     \* the rows that are committed
    done,      \* the todos that are done or dismissed
    events,    \* how many events the user has, all of the last thirty days
    pc, left, todos,  \* of a writer: where it is, whom and what it has to write
    whom, read,  \* the person it is at, and the row as it read it
    edit,      \* what a client asks
    lock, held,  \* who holds the write lock, and its rows that are not committed
    won,       \* history: the versions named by the edits that were accepted
    edits      \* bound

vars == <<brief, done, events, pc, left, todos, whom, read, edit, lock, held, won, edits>>

NoBrief == [version |-> 0]
\* What an edit gives is a sequence of one, what it leaves alone is empty.
NoEdit == [person |-> Nobody, notes |-> <<>>, concerns |-> <<>>]

\* _default_brief_data
Blank ==
    [notes |-> "", seen |-> FALSE, count |-> 0, mine |-> {}, theirs |-> {},
     learned |-> [k \in Learned |-> {}], actions |-> <<>>, strength |-> 0]

Init ==
    /\ brief = [p \in People |-> NoBrief]
    /\ done = {}
    /\ events = 1
    /\ pc = [w \in Writers |-> "idle"]
    /\ left = [w \in Writers |-> {}]
    /\ todos = [w \in Writers |-> {}]
    /\ whom = [w \in Writers |-> Nobody]
    /\ read = [w \in Writers |-> NoBrief]
    /\ edit = [c \in Clients |-> NoEdit]
    /\ lock = Nobody
    /\ held = <<>>
    /\ won = [p \in People |-> <<>>]
    /\ edits = 0

----------------------------------------------------------------------------
(* What a brief says *)

\* Times read from SQLite have no zone and do not compare with the clock: the
\* rule is skipped.  The last interaction is of today.
OverdueMine(data) == IF Aware THEN data.mine \cap Overdue ELSE {}
Recency(data) == IF Aware /\ data.seen THEN 20 ELSE 0

Capped(n, most) == IF n < most THEN n ELSE most

\* _calculate_strength_score
Strength(data) ==
    Capped(3 * data.count, 30)
    + Capped(5 * (Cardinality(data.mine) + Cardinality(data.theirs)), 20)
    + Capped(5 * Cardinality(data.learned["care"]), 15)
    + Capped(5 * Cardinality(data.learned["help"]), 15)
    + Recency(data)

\* Mutant: nothing is suggested where nothing is known.
NextActionsOrNone(p, data) == [i \in DOMAIN Links[p] |-> <<Links[p][i], Nobody>>]

\* _generate_next_actions: promises, a concern, links; the first five count.
NextActions(p, data) ==
    LET kept == SetToSeq({<<"keep", d>> : d \in OverdueMine(data)})
        asked == IF data.learned["care"] # {} /\ Len(kept) < 5 THEN <<<<"ask", Nobody>>>> ELSE <<>>
        linked == IF Len(kept) + Len(asked) < 5
                  THEN [i \in DOMAIN Links[p] |-> <<Links[p][i], Nobody>>] ELSE <<>>
        all == kept \o asked \o linked
    IN  IF all = <<>> THEN <<<<"keep in touch", Nobody>>>>
        ELSE SubSeq(all, 1, Capped(Len(all), 5))

Derived(p, data) ==
    [data EXCEPT !.actions = NextActions(p, data), !.strength = Strength(data)]

\* _sync_open_promises: all the open todos of the event, whoever they are about.
Mine(S) == {d \in S \ done : Role[d] # "their_promise"}
Theirs(S) == {d \in S \ done : Role[d] = "their_promise"}
Titles(S, type) == {d \in S : Type[d] = type}

\* Mutant: the brief is made anew from the default for every event.
FromEventAnew(p, data, S) ==
    Derived(p, [Blank EXCEPT !.seen = TRUE, !.count = events + 1,
                             !.mine = Mine(S), !.theirs = Theirs(S)])

\* update_brief_from_event; the event itself is counted twice.  Without todos
\* the modules stay as they are.
FromEvent(p, data, S) ==
    LET counted == [data EXCEPT !.seen = TRUE, !.count = events + 1]
        synced ==
            [counted EXCEPT !.mine = Mine(S), !.theirs = Theirs(S),
                            !.learned = [k \in Learned |-> @[k] \cup Titles(S, k)]]
    IN  Derived(p, IF S = {} THEN counted ELSE synced)

\* update_brief_partial
FromEdit(p, data, e) ==
    LET noted == IF e.notes = <<>> THEN data ELSE [data EXCEPT !.notes = e.notes[1]]
    IN  Derived(p, IF e.concerns = <<>> THEN noted
                   ELSE [noted EXCEPT !.learned["care"] = e.concerns[1]])

----------------------------------------------------------------------------
(* Step 12 *)

May(w) == lock \in {Nobody, w}

Start(r, S) ==
    /\ pc[r] = "idle"
    /\ pc' = [pc EXCEPT ![r] = "next"]
    /\ left' = [left EXCEPT ![r] = People]
    /\ todos' = [todos EXCEPT ![r] = S]
    /\ UNCHANGED <<brief, done, events, whom, read, edit, lock, held, won, edits>>

Select(r, p) ==
    /\ pc[r] = "next" /\ p \in left[r]
    /\ pc' = [pc EXCEPT ![r] = IF brief[p] = NoBrief THEN "insert" ELSE "update"]
    /\ left' = [left EXCEPT ![r] = @ \ {p}]
    /\ whom' = [whom EXCEPT ![r] = p]
    /\ read' = [read EXCEPT ![r] = brief[p]]
    /\ UNCHANGED <<brief, done, events, todos, edit, lock, held, won, edits>>

\* The step ends: what it holds is committed, or lost with a failed statement.
End(r, rows) ==
    /\ brief' = rows
    /\ pc' = [pc EXCEPT ![r] = "over"]
    /\ left' = [left EXCEPT ![r] = {}]
    /\ todos' = [todos EXCEPT ![r] = {}]
    /\ whom' = [whom EXCEPT ![r] = Nobody]
    /\ read' = [read EXCEPT ![r] = NoBrief]
    /\ IF lock = r THEN lock' = Nobody /\ held' = <<>> ELSE UNCHANGED <<lock, held>>

\* A row that came up meanwhile violates the unique index, after which the
\* session takes no statement any more.
Insert(r) ==
    /\ pc[r] = "insert" /\ May(r)
    /\ IF brief[whom[r]] = NoBrief
       THEN /\ lock' = r
            /\ read' = [read EXCEPT ![r] = [version |-> 1, data |-> Blank]]
            /\ pc' = [pc EXCEPT ![r] = "update"]
            /\ UNCHANGED <<brief, left, todos, whom, held>>
       ELSE End(r, brief)
    /\ UNCHANGED <<done, events, edit, won, edits>>

Update(r) ==
    /\ pc[r] = "update" /\ May(r)
    /\ lock' = r
    /\ held' = [q \in DOMAIN held \cup {whom[r]} |->
                   IF q # whom[r] THEN held[q]
                   ELSE [version |-> read[r].version + 1,
                         data |-> FromEvent(q, read[r].data, todos[r]), base |-> read[r]]]
    /\ pc' = [pc EXCEPT ![r] = "next"]
    /\ UNCHANGED <<brief, done, events, left, todos, whom, read, edit, won, edits>>

Commit(r) ==
    /\ pc[r] = "next" /\ left[r] = {}
    /\ End(r, [p \in People |-> IF lock = r /\ p \in DOMAIN held
                                THEN [version |-> held[p].version, data |-> held[p].data]
                                ELSE brief[p]])
    /\ UNCHANGED <<done, events, edit, won, edits>>

----------------------------------------------------------------------------
(* PATCH /relationship-briefs/{id}: an edit that names another version than it
   finds is refused and changes nothing *)

Patch(c, e, expected) ==
    /\ pc[c] = "idle" /\ edits < MaxEdits
    /\ brief[e.person] # NoBrief
    /\ brief[e.person].version = expected
    /\ pc' = [pc EXCEPT ![c] = "update"]
    /\ read' = [read EXCEPT ![c] = brief[e.person]]
    /\ edit' = [edit EXCEPT ![c] = e]
    /\ edits' = edits + 1
    /\ UNCHANGED <<brief, done, events, left, todos, whom, lock, held, won>>

Save(c) ==
    /\ pc[c] = "update" /\ lock = Nobody
    /\ LET p == edit[c].person
       IN  /\ brief' = [brief EXCEPT ![p] = [version |-> read[c].version + 1,
                                             data |-> FromEdit(p, read[c].data, edit[c])]]
           /\ won' = [won EXCEPT ![p] = Append(@, read[c].version)]
    /\ pc' = [pc EXCEPT ![c] = "idle"]
    /\ read' = [read EXCEPT ![c] = NoBrief]
    /\ edit' = [edit EXCEPT ![c] = NoEdit]
    /\ UNCHANGED <<done, events, left, todos, whom, lock, held, edits>>

----------------------------------------------------------------------------
Finish(d) ==
    /\ d \notin done
    /\ done' = done \cup {d}
    /\ UNCHANGED <<brief, events, pc, left, todos, whom, read, edit, lock, held, won, edits>>

NewEvent ==
    /\ events < MaxEvents
    /\ events' = events + 1
    /\ UNCHANGED <<brief, done, pc, left, todos, whom, read, edit, lock, held, won, edits>>

\* The notes and the concerns can be cleared as well.
MayGive(S) == {<<>>} \cup {<<x>> : x \in S}
Edits == [person : People, notes : MayGive({""} \cup Notes),
          concerns : MayGive({{}, {"theirs"}})]

Next ==
    \/ \E r \in Steps :
           \/ \E S \in {{}, Todos} : Start(r, S)
           \/ \E p \in People : Select(r, p)
           \/ Insert(r) \/ Update(r) \/ Commit(r)
    \/ \E c \in Clients :
           \/ \E e \in Edits, v \in 1 .. 2 * (MaxEdits + Cardinality(Steps)) : Patch(c, e, v)
           \/ Save(c)
    \/ \E d \in Todos : Finish(d)
    \/ NewEvent

Spec == Init /\ [][Next]_vars

----------------------------------------------------------------------------
(* Properties *)

Rows(p) == {brief[p]} \cup (IF p \in DOMAIN held THEN {held[p], held[p].base} ELSE {})

\* Types of rows, of what is held and of the lock; a score is at most a hundred
\* and a brief that is out always suggests something, five things at most.
TypeOK ==
    /\ \A p \in People : \A b \in Rows(p) :
           b.version # 0 => /\ b.data.notes \in {""} \cup Notes
                            /\ b.data.strength \in 0 .. 100
                            /\ Len(b.data.actions) <= 5
    /\ \A p \in People : brief[p].version # 0 => brief[p].data.actions # <<>>
    /\ done \subseteq Todos /\ events \in 1 .. MaxEvents
    /\ lock \in Steps \cup {Nobody} /\ (lock = Nobody => held = <<>>)

\* What the user noted is replaced or cleared by an edit of his, or by a writer that
\* had read the row before it came to what it is: a run of the pipeline that
\* comes after an edit keeps it.
NotesAreKept ==
    [][\A p \in People :
          (brief[p].version # 0 /\ brief'[p].data.notes # brief[p].data.notes) =>
              \/ \E c \in Clients :
                     /\ edit[c].person = p /\ edit'[c] = NoEdit
                     /\ edit[c].notes # <<>> \/ read[c] # brief[p]
              \/ p \in DOMAIN held /\ held[p].base # brief[p]]_vars

\* "Uses expected_version for conflict detection.  Returns 409 Conflict if
\* version mismatch": of the edits that name the same version of a brief, one
\* is accepted.
VersionAdmitsOne ==
    \A p \in People : IsInjective(won[p])
=============================================================================
