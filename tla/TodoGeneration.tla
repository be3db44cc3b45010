--------------------------- MODULE TodoGeneration ---------------------------
(***************************************************************************)
(* How a run of the pipeline adds todos beside those the user already has: *)
(* step 4 asks the model for promises, cares and typed todos, drops the    *)
(* ones an open todo already says, inserts the rest and then deduplicates  *)
(* them against the open todos and each other; step 11 adds one suggestion *)
(* per new association.  The user moves todos between any two steps.       *)
(*                                                                         *)
(* A title is compared twice, by different measures: the pre-filter counts *)
(* common words within one todo type and person, the deduplicator common   *)
(* characters over all titles.  Here a title is its own words, and how far *)
(* two titles have their characters in common is a table, Likeness.  As    *)
(* with the ratio it stands for, two titles that are similar (0.6) or      *)
(* near-identical (0.9) to a third need not be so to each other.           *)
(***************************************************************************)
EXTENDS Naturals, Sequences, FiniteSets, Functions

CONSTANTS
    Ids,        \* todo rows, a bound on how many there are at a time
    Titles,
    Likeness,   \* _compute_similarity of two titles, in hundredths
    Answers,    \* what the model may extract from an event
    Fallbacks,  \* what the keywords of a text yield when it extracts nothing
    Links,      \* the titles that the new associations of an event suggest
    MaxRuns,    \* bound on the runs of one behaviour
    NoTodo

Cap == 3
Whole == 100
Priorities == 1 .. 5
Generated == [title : Titles, priority : Priorities]
Open == {"pending", "snoozed"}
Status == Open \cup {"in_progress", "done", "dismissed"}

ConstantsOK ==
    /\ IsFiniteSet(Ids) /\ NoTodo \notin Ids
    /\ NoTodo \notin [title : Titles, priority : Priorities, status : Status, run : Nat]
    /\ Likeness \in [Titles \X Titles -> 0 .. Whole]
    /\ \A s, t \in Titles : Likeness[<<s, t>>] = Likeness[<<t, s>>]
    /\ Answers \cup Fallbacks \subseteq Seq(Generated)
    /\ Links \subseteq Seq(Generated)
    /\ MaxRuns \in Nat

VARIABLES
    todo,     \* the user's rows
    at,       \* where the run is
    answer,   \* what is generated and not yet compared
    kept,     \* what is to be inserted: generated todos, each with its place
    skipped,  \* how many the pre-filter dropped
    verdict,  \* whether step 4 of the last run counted as failed
    runs      \* the number of runs, a bound

vars == <<todo, at, answer, kept, skipped, verdict, runs>>

Rows == {d \in Ids : todo[d] # NoTodo}
Holding(statuses) == {d \in Rows : todo[d].status \in statuses}

Init ==
    /\ todo = [d \in Ids |-> NoTodo]
    /\ at = "idle"
    /\ answer = <<>>
    /\ kept = {}
    /\ skipped = 0
    /\ verdict = "none"
    /\ runs = 0

----------------------------------------------------------------------------
(* Similarity and the deduplicator *)

Similar(s, t) == Likeness[<<s, t>>] > 60
Near(s, t) == Likeness[<<s, t>>] >= 90

\* Python's sort: by priority, the order of insertion among equals.
Before(g, h) ==
    \/ g.priority < h.priority
    \/ g.priority = h.priority /\ g.place < h.place

Capped(S) == {g \in S : Cardinality({h \in S : Before(h, g)}) < Cap}

\* The open rows a new todo is similar to, and of these the most similar; the
\* first of them in the order of the SELECT, which has none.
SimilarRows(g) == {d \in Holding(Open) : Similar(g.title, todo[d].title)}
BestMatches(g) ==
    {d \in SimilarRows(g) :
        \A e \in SimilarRows(g) :
            Likeness[<<g.title, todo[e].title>>] <= Likeness[<<g.title, todo[d].title>>]}

Outranks(g, d) == g.priority < todo[d].priority

\* Mutant: a more important todo always stays, beside its twin (before
\* 2026-08-16).
ReplacesNever(g, d) == FALSE

\* Mutant: the newer of two near-identical todos wins.
ReplacesAlways(g, d) == Near(g.title, todo[d].title)

\* A new todo takes the place of a near-identical row that matters less.
Replaces(g, d) == Near(g.title, todo[d].title) /\ Outranks(g, d)

\* A new todo survives its best match unless that matters at least as much.
Survives(g, d) == Outranks(g, d) \/ Replaces(g, d)

\* Greedy, most important first: a todo stays unless it is similar to one that
\* stays before it.  Exactly one set of todos is that.
WithinBatch(stay, S) ==
    stay = {g \in S : \A h \in stay : Before(h, g) => ~Similar(g.title, h.title)}

----------------------------------------------------------------------------
(* Step 4 *)

\* The prompts are answered in parallel, each answer alone may be missing.
\* Keywords count only when nothing at all was extracted, and what they yield
\* is not compared before it is inserted.
Placed(g, n) == [title |-> g.title, priority |-> g.priority, place |-> n]
Generate ==
    /\ at = "idle"
    /\ runs < MaxRuns
    /\ runs' = runs + 1
    /\ skipped' = 0
    /\ \/ \E a \in Answers :
            /\ a # <<>>
            /\ answer' = a
            /\ kept' = {}
       \/ \E f \in Fallbacks :
            /\ answer' = <<>>
            /\ kept' = {Placed(f[i], i) : i \in DOMAIN f}
    /\ at' = "filter"
    /\ UNCHANGED <<todo, verdict>>

\* _is_duplicate_todo, one SELECT for each generated todo.
SaidAlready(g) == \E d \in Holding({"pending", "in_progress"}) : todo[d].title = g.title

Filter ==
    /\ at = "filter"
    /\ answer # <<>>
    /\ answer' = Tail(answer)
    /\ IF SaidAlready(Head(answer))
       THEN skipped' = skipped + 1 /\ UNCHANGED kept
       ELSE /\ kept' = kept \cup {Placed(Head(answer), skipped + Cardinality(kept))}
            /\ UNCHANGED skipped
    /\ UNCHANGED <<todo, at, verdict, runs>>

Unused == Ids \ Rows

Fits(new) == Injection(new, Unused) # {}

\* The rows after deleting some and inserting todos under unused ids.
Written(gone, new) ==
    LET id == CHOOSE f \in Injection(new, Unused) : TRUE
        row(g) == [title |-> g.title, priority |-> g.priority,
                   status |-> "pending", run |-> runs]
    IN  [d \in Ids |-> IF d \in gone THEN NoTodo
                      ELSE IF \E g \in new : id[g] = d
                      THEN row(CHOOSE g \in new : id[g] = d)
                      ELSE todo[d]]

\* best: the row each todo is compared with.
Matched(best) ==
    \A g \in DOMAIN best :
        IF BestMatches(g) = {} THEN best[g] = NoTodo ELSE best[g] \in BestMatches(g)
Surviving(best) == {g \in DOMAIN best : best[g] = NoTodo \/ Survives(g, best[g])}
Replaced(best) ==
    {best[g] : g \in {h \in DOMAIN best : best[h] # NoTodo /\ Replaces(h, best[h])}}

\* The inserts, the deduplication and the deletes are one transaction: the
\* first flush makes the step SQLite's writer.  Nothing generated is a failure
\* if the event has people.
Persist ==
    /\ at = "filter"
    /\ answer = <<>>
    /\ \E best \in [Capped(kept) -> Ids \cup {NoTodo}] :
           /\ Matched(best)
           /\ \E stay \in SUBSET Surviving(best) :
                 /\ WithinBatch(stay, Surviving(best))
                 /\ Fits(stay)
                 /\ todo' = Written(Replaced(best), stay)
    /\ verdict' \in IF kept = {} /\ skipped = 0 THEN {"failed", "ok"} ELSE {"ok"}
    /\ at' = "links"
    /\ answer' = <<>>
    /\ kept' = {}
    /\ UNCHANGED <<skipped, runs>>

\* A flush that raises leaves the session unusable: no todo of the run is
\* inserted, the step fails, and the run goes on.
PersistFails ==
    /\ at = "filter"
    /\ answer = <<>>
    /\ kept # {}
    /\ kept' = {}
    /\ verdict' = "failed"
    /\ at' = "links"
    /\ UNCHANGED <<todo, answer, skipped, runs>>

----------------------------------------------------------------------------
(* Step 11 *)

\* One suggestion per title, and none that is pending already.
NotPending(s) ==
    {i \in DOMAIN s :
        /\ \A d \in Holding({"pending"}) : todo[d].title # s[i].title
        /\ \A j \in DOMAIN s : s[j].title = s[i].title => i <= j}

ReadLinks ==
    /\ at = "links"
    /\ answer = <<>>
    /\ \E s \in Links :
         /\ answer' = s
         /\ kept' = {Placed(s[i], i) : i \in NotPending(s)}
    /\ at' = "suggest"
    /\ UNCHANGED <<todo, skipped, verdict, runs>>

Suggest ==
    /\ at = "suggest"
    /\ Fits(kept)
    /\ todo' = Written({}, kept)
    /\ at' = "idle"
    /\ answer' = <<>>
    /\ kept' = {}
    /\ UNCHANGED <<skipped, verdict, runs>>

----------------------------------------------------------------------------
(* The user *)

ValidTransitions ==
    {"pending"} \X {"in_progress", "done", "dismissed", "snoozed"}
        \cup {"in_progress"} \X {"done", "dismissed", "pending"}
        \cup {<<"snoozed", "pending">>}

Move(d, to) ==
    /\ d \in Rows
    /\ <<todo[d].status, to>> \in ValidTransitions
    /\ todo' = [todo EXCEPT ![d].status = to]
    /\ UNCHANGED <<at, answer, kept, skipped, verdict, runs>>

Next ==
    \/ Generate
    \/ Filter
    \/ Persist
    \/ PersistFails
    \/ ReadLinks
    \/ Suggest
    \/ \E d \in Ids, to \in Status : Move(d, to)

Spec == Init /\ [][Next]_vars

----------------------------------------------------------------------------
(* Properties *)

TypeOK ==
    /\ todo \in [Ids -> {NoTodo} \cup
                   [title : Titles, priority : Priorities, status : Status,
                    run : 0 .. MaxRuns]]
    /\ at \in {"idle", "filter", "links", "suggest"}
    /\ answer \in Seq(Generated)
    /\ kept \subseteq [title : Titles, priority : Priorities, place : Nat]
    /\ skipped \in Nat
    /\ verdict \in {"none", "ok", "failed"}
    /\ runs \in 0 .. MaxRuns

Inserted(d) == todo[d] = NoTodo /\ todo'[d] # NoTodo

\* A todo that step 4 inserts is near-identical to an open row only if it took
\* the place of another row that it is at least as close to and matters more
\* than: of near-identical todos the run leaves beside each other only those
\* whose nearest relation it replaced (the rule of 2026-08-16 in
\* todo_deduplicator.py, which compares the best match alone).  Two it inserts
\* itself are never near-identical, and step 11 suggests a title once however
\* many associations ask for it (added_titles in step_11_assoc_todos.py).
TwinsAreReplaced ==
    [][\A d, k \in Ids :
          d # k /\ Inserted(d) /\ todo'[k] # NoTodo =>
            /\ /\ at = "filter" /\ todo'[k].status \in Open
               /\ Near(todo'[d].title, todo'[k].title)
               => /\ ~Inserted(k)
                  /\ \E b \in Holding(Open) :
                        /\ todo'[b] = NoTodo
                        /\ todo'[d].priority < todo[b].priority
                        /\ Likeness[<<todo'[d].title, todo[k].title>>]
                               <= Likeness[<<todo'[d].title, todo[b].title>>]
            /\ at = "suggest" /\ Inserted(k) => todo'[d].title # todo'[k].title]_vars

\* A todo the user already had is deleted only for a near-identical one of the
\* run that matters more, and the same commit inserts that one or, where the
\* batch is compared with itself afterwards, one that is similar to that one
\* and ranks no lower: the row always leaves a successor, though one that need
\* not be similar to the row itself.
ReplacedIsOutranked ==
    [][\A d \in Ids : todo[d] # NoTodo /\ todo'[d] = NoTodo =>
          \E g \in kept, k \in Ids :
              /\ Near(g.title, todo[d].title)
              /\ g.priority < todo[d].priority
              /\ Inserted(k)
              /\ todo'[k].priority <= g.priority
              /\ todo'[k].title = g.title \/ Similar(g.title, todo'[k].title)]_vars

=============================================================================
