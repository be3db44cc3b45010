-------------------------- MODULE PersonResolution --------------------------
(***************************************************************************)
(* From the people an event mentions to rows of the entities table: step 2 *)
(* of the pipeline extracts the mentions, EntityResolutionEngine compares  *)
(* each with the people it knows, and EntityExtractor merges it into one   *)
(* of them or stores a new row, one savepoint per mention, one commit per  *)
(* event.  Runs of several events, a later run of the same event, and the  *)
(* requests of the user (merge, confirm, delete) interleave.               *)
(*                                                                         *)
(* A run reads all active people once, into indexes kept for the whole     *)
(* run, and its session keeps the rows it has loaded as it loaded them.    *)
(* SQLite has one writer: the first flush of a run waits for it and holds  *)
(* it until the commit; other runs read the committed rows meanwhile.      *)
(***************************************************************************)
EXTENDS Integers, Sequences, FiniteSets

CONSTANTS
    Events,      \* events of one user
    Kind,        \* the type of an event: card, conversation or other
    Mentions,    \* the people an event's text mentions, in order
    Names, Surname,  \* _extract_surname; NoSurname for a name in Latin script
    Family,      \* find_aliases: the controlled synonyms of a name
    Inside,      \* pairs of a name and a name with a slash that contains it
    Alike,       \* pairs of names with a difflib ratio of 0.80 or more
    Fuzzy,       \* _step_fuzzy in hundredths, at most 90
    AutoMerge, Confirm,  \* the two thresholds, in hundredths
    MaxRows, MaxRuns,    \* bounds: rows ever stored, runs of each event
    Requests,    \* the user's requests the instance explores
    NoSurname, NoFact, NoEvent, NoRun

Facts == {"company", "city", "industry"}
Ids == 1..MaxRows
Active == {"provisional", "confirmed"}
Statuses == Active \cup {"merged", "gone", "unused"}
Places == {"idle", "index", "resolve", "ask", "write", "commit"}

\* The people the events mention.
Mentioned ==
    UNION {{Mentions[e][n] : n \in DOMAIN Mentions[e]} : e \in Events}
\* What the events say of them.
Told == {p.about[f] : p \in Mentioned, f \in Facts} \cup {NoFact}

\* A card is a person, mentions are people with a name, and a blank name marks a
\* row that is not in use.
ASSUME MentionsOK ==
    /\ \A e \in Events : Mentions[e] \in Seq(Mentioned)
                        /\ (Kind[e] = "card" => Mentions[e] # <<>>)
    /\ \A p \in Mentioned : p.name \in Names /\ p.about \in [Facts -> Told]
    /\ "" \notin Names /\ NoEvent \notin Events /\ NoRun \notin Events

\* The settings: what an alias gives at another company merges (80), what a
\* shared context gives (60) does not.
ASSUME ThresholdsOK ==
    /\ Confirm \in Nat \ {0} /\ AutoMerge \in 61..80
    /\ Confirm <= AutoMerge
    /\ Fuzzy \in [Names \X Names -> 0..90]

\* Step 2 gives the engine no dictionary of synonyms.
ASSUME NoDictionary == \A n \in Names : Family[n] = {}

VARIABLES
    live,     \* events that exist
    db,       \* committed rows
    draft,    \* the rows as the writer sees them
    writer,   \* the run that holds SQLite's write lock
    pc,       \* where the run of an event is
    queue,    \* the mentions it has still to resolve
    index,    \* the active people it loaded
    seen,     \* the rows of its session, as it knows them
    choice,   \* what it decided for the mention at hand
    ran,      \* how often an event was started
    together  \* history: pairs of events whose runs overlapped

run == <<pc, queue, index, seen, choice, ran, together>>
vars == <<live, db, draft, writer, run>>

Blank == [name |-> "", aliases |-> {}, about |-> [f \in Facts |-> NoFact],
          status |-> "unused", source |-> NoEvent, events |-> {}]
Undecided == [act |-> "none", id |-> 0]
IsRow(r) ==
    /\ r.name \in Names \cup {""} /\ r.aliases \subseteq Names
    /\ r.status \in Statuses
    /\ r.source \in Events \cup {NoEvent} /\ r.events \subseteq Events

Init ==
    /\ live = Events
    /\ db = [i \in Ids |-> Blank]
    /\ draft = db
    /\ writer = NoRun
    /\ pc = [e \in Events |-> "idle"]
    /\ queue = [e \in Events |-> <<>>]
    /\ index = [e \in Events |-> [i \in Ids |-> Blank]]
    /\ seen = index
    /\ choice = [e \in Events |-> Undecided]
    /\ ran = [e \in Events |-> 0]
    /\ together = {}

\* What the session of a run reads: its own work if it is the writer.
View(e) == IF writer = e THEN draft ELSE db
Goto(e, place) == pc' = [pc EXCEPT ![e] = place]

----------------------------------------------------------------------------
(* The comparison of a mention with a candidate *)

\* _same_value
Same(a, b) == a # NoFact /\ a = b
\* _compare_company: a company missing on either side does not count against.
CompanyMatch(p, c) ==
    NoFact \in {p.about["company"], c.about["company"]}
    \/ p.about["company"] = c.about["company"]

Score(yes, match, miss) == IF yes THEN match ELSE miss

\* Mutant: the same name at another company is another person.
ExactSameCompany(p, c) ==
    IF p.name = c.name /\ CompanyMatch(p, c) THEN 100 ELSE 0
Exact(p, c) ==
    IF p.name # c.name THEN 0 ELSE Score(CompanyMatch(p, c), 100, 85)

Synonym(p, c) == IF p.name \in Family[c.name] THEN 97 ELSE 0

\* In this order: a known spelling, a part of a name like "A/B", the surname.
\* The honorific is not looked at: any two names with one surname match.
Alias(p, c) ==
    LET surname == Surname[p.name] IN
    IF p.name \in c.aliases
    THEN Score(CompanyMatch(p, c), 95, 80)
    ELSE IF <<p.name, c.name>> \in Inside
    THEN Score(CompanyMatch(p, c), 90, 80)
    ELSE IF surname # NoSurname /\ surname = Surname[c.name]
    THEN Score(CompanyMatch(p, c), 92, 82)
    ELSE IF surname # NoSurname /\ \E a \in c.aliases : Surname[a] = surname
    THEN Score(CompanyMatch(p, c), 85, 80)
    ELSE 0

Difflib(p, c) == IF <<p.name, c.name>> \in Alike THEN 82 ELSE 0

Context(p, c) ==
    LET agree(f) == Same(p.about[f], c.about[f])
    IN  Score(agree("company"), 30, 0) + Score(agree("city"), 20, 0)
            + Score(agree("industry"), 10, 0)

Steps == <<"exact", "synonym", "alias", "difflib", "fuzzy", "context">>
\* Mutant: the list of steps that only ask is forgotten.
ConfirmOnlyForgotten == {}
ConfirmOnly == {"synonym", "difflib"}

Confidence(step, p, c) ==
    CASE step = "exact"   -> Exact(p, c)
      [] step = "synonym" -> Synonym(p, c)
      [] step = "alias"   -> Alias(p, c)
      [] step = "difflib" -> Difflib(p, c)
      [] step = "fuzzy"   -> Fuzzy[<<p.name, c.name>>]
      [] step = "context" -> Context(p, c)

\* Mutant: a merge needs more than the threshold.
MergesAbove(step, p, c) ==
    step \notin ConfirmOnly /\ Confidence(step, p, c) > AutoMerge + 5
Merges(step, p, c) ==
    step \notin ConfirmOnly /\ Confidence(step, p, c) >= AutoMerge

\* The first step that finds anyone decides.  Rows come in the order of the
\* database, so among equals any may be taken.  An empty set: no step decides.
Decisions(p, cands) ==
    LET found(s) == {i \in DOMAIN cands :
                        Confidence(s, p, cands[i]) >= Confirm}
        sure(s) == {i \in DOMAIN cands : Merges(s, p, cands[i])}
        best(s) == {i \in found(s) : \A j \in found(s) :
                       Confidence(s, p, cands[i]) >= Confidence(s, p, cands[j])}
        first == {n \in DOMAIN Steps :
                     /\ found(Steps[n]) # {}
                     /\ \A m \in 1..(n - 1) : found(Steps[m]) = {}}
    IN  UNION {IF sure(Steps[n]) # {}
               THEN {[act |-> "merge", id |-> i] : i \in sure(Steps[n])}
               ELSE {[act |-> "confirm", id |-> i] : i \in best(Steps[n])} :
               n \in first}

\* The people the indexes give for a mention: same name, same surname, or a
\* known alias, as they were when the index was loaded.
Hits(e, p) ==
    {i \in Ids : /\ index[e][i].status \in Active
                 /\ \/ index[e][i].name = p.name
                    \/ /\ Surname[p.name] # NoSurname
                       /\ Surname[index[e][i].name] = Surname[p.name]
                    \/ p.name \in index[e][i].aliases}

\* Without a hit the engine asks the database, and there tombstones count.
Fallback(e, p) ==
    {i \in Ids : /\ View(e)[i].status \in Active \cup {"merged"}
                 /\ Surname[p.name] = NoSurname
                        \/ Surname[View(e)[i].name] = Surname[p.name]}

----------------------------------------------------------------------------
(* One run of step 2 *)

\* A card is one person; if its text is not the JSON the client writes, the
\* LLM reads it, or fails and names nobody.
CardPeople(e) == {SubSeq(Mentions[e], 1, 1), <<>>}
\* The LLM reads a conversation, or fails and names nobody.
ConversationPeople(e) == {Mentions[e], <<>>}
\* extract_from_event: a blank text and an unknown type have no people.
Extracted(e) ==
    IF Kind[e] = "card" THEN CardPeople(e)
    ELSE IF Kind[e] = "conversation" THEN ConversationPeople(e) ELSE {<<>>}

\* Step 2 begins with the event's text.
Extract(e) ==
    /\ pc[e] = "idle" /\ ran[e] < MaxRuns[e] /\ e \in live
    /\ \E people \in Extracted(e) :
        /\ queue' = [queue EXCEPT ![e] = people]
        /\ Goto(e, IF people = <<>> THEN "commit" ELSE "index")
    /\ ran' = [ran EXCEPT ![e] = @ + 1]
    /\ together' = together \cup UNION {{<<e, f>>, <<f, e>>} :
                       f \in {g \in Events : pc[g] # "idle"}}
    /\ UNCHANGED <<live, db, draft, writer, index, seen, choice>>

LoadIndex(e) ==
    LET rows == [i \in Ids |-> IF db[i].status \in Active THEN db[i] ELSE Blank]
    IN  /\ pc[e] = "index"
        /\ index' = [index EXCEPT ![e] = rows]
        /\ seen' = [seen EXCEPT ![e] = rows]
        /\ Goto(e, "resolve")
        /\ UNCHANGED <<live, db, draft, writer, queue, choice, ran, together>>

\* Rows the session has not met are loaded, the others stay as it knows them.
Known(e, found) ==
    [i \in Ids |-> IF i \in found /\ seen[e][i] = Blank THEN View(e)[i]
                   ELSE seen[e][i]]

Resolve(e) ==
    LET p == Head(queue[e])
        hits == Hits(e, p)
        found == IF hits # {} THEN hits ELSE Fallback(e, p)
        known == Known(e, found)
        decisions == Decisions(p, [i \in found |-> known[i]])
    IN  /\ pc[e] = "resolve"
        /\ seen' = [seen EXCEPT ![e] = known]
        /\ IF found = {}
           THEN /\ choice' = [choice EXCEPT ![e] = [act |-> "create", id |-> 0]]
                /\ Goto(e, "write")
           ELSE IF decisions # {}
           THEN /\ \E d \in decisions : choice' = [choice EXCEPT ![e] = d]
                /\ Goto(e, "write")
           ELSE /\ choice' = [choice EXCEPT ![e] = Undecided]
                /\ Goto(e, "ask")
        /\ UNCHANGED <<live, db, draft, writer, queue, index, ran, together>>

\* _parse_llm_confidence: a number in the answer, 50 if there is none; a failed
\* call counts as 0.
ModelScores == {0, 50, Confirm, AutoMerge}
Verdict(score) ==
    IF score >= AutoMerge THEN "merge"
    ELSE IF score >= Confirm THEN "confirm" ELSE "create"

\* No step decided: the LLM is asked about one candidate after the other, until
\* a score passes a threshold.
AskModel(e) ==
    LET hits == Hits(e, Head(queue[e]))
        pool == IF hits # {} THEN hits ELSE {i \in Ids : seen[e][i] # Blank}
    IN  /\ pc[e] = "ask"
        /\ \E i \in pool, score \in ModelScores :
              LET act == Verdict(score) IN
              choice' = [choice EXCEPT ![e] =
                  [act |-> act, id |-> IF act = "create" THEN 0 ELSE i]]
        /\ Goto(e, "write")
        /\ UNCHANGED <<live, db, draft, writer, queue, index, seen, ran,
                       together>>

\* Mutant: the mention replaces the history of the row.
MergedRowAnew(e, p, row) ==
    [row EXCEPT !.aliases = {p.name} \ {row.name}, !.events = {e, row.source}]
\* merge_entity, on the row as the session knows it: a new spelling becomes an
\* alias, facts the mention has win, the event is added to the row's events.
MergedRow(e, p, row) ==
    [row EXCEPT
        !.aliases = IF p.name = row.name THEN @ ELSE @ \cup {p.name},
        !.about = [f \in Facts |-> IF p.about[f] # NoFact THEN p.about[f]
                                   ELSE @[f]],
        !.events = @ \cup {e, row.source}]

\* The UPDATE: the properties always, the aliases if they changed, no status.
Updated(row, copy, before) ==
    [row EXCEPT !.about = copy.about, !.events = copy.events,
                !.aliases = IF copy.aliases = before.aliases THEN @
                            ELSE copy.aliases]

NewRow(e, p, status) ==
    [name |-> p.name, aliases |-> {}, about |-> p.about, status |-> status,
     source |-> e, events |-> {e}]

Free(rows) == {i \in Ids : rows[i].status = "unused"}
Done(e) ==
    /\ queue' = [queue EXCEPT ![e] = Tail(@)]
    /\ choice' = [choice EXCEPT ![e] = Undecided]
    /\ Goto(e, IF Len(queue[e]) = 1 THEN "commit" ELSE "resolve")

\* _resolve_and_persist writes in a savepoint.  A row deleted meanwhile, an
\* event deleted meanwhile or any other SQL error costs this mention only.
Persist(e) ==
    LET p == Head(queue[e])
        rows == View(e)
        i == choice[e].id
        asks == choice[e].act = "confirm" \/ p.doubtful
        copy == MergedRow(e, p, seen[e][i])
        free == CHOOSE n \in Free(rows) : TRUE
    IN  /\ pc[e] = "write"
        /\ writer \in {NoRun, e}
        /\ writer' = e
        /\ \/ /\ choice[e].act = "merge"
              /\ rows[i].status # "gone"
              /\ draft' = [rows EXCEPT ![i] = Updated(@, copy, seen[e][i])]
              /\ seen' = [seen EXCEPT ![e][i] = copy]
           \/ /\ choice[e].act \in {"confirm", "create"}
              /\ e \in live /\ Free(rows) # {}
              /\ draft' = [rows EXCEPT ![free] = NewRow(e, p,
                              IF asks THEN "provisional" ELSE "confirmed")]
              /\ seen' = [seen EXCEPT ![e][free] = draft'[free]]
           \/ draft' = rows /\ UNCHANGED seen
        /\ Done(e)
        /\ UNCHANGED <<live, db, index, ran, together>>

\* The commit, or an error that rolls the transaction back.
Finish(e) ==
    /\ pc[e] = "commit"
    /\ db' \in IF writer = e THEN {draft, db} ELSE {db}
    /\ draft' = IF writer = e THEN db' ELSE draft
    /\ writer' = IF writer = e THEN NoRun ELSE writer
    /\ index' = [index EXCEPT ![e] = [i \in Ids |-> Blank]]
    /\ seen' = [seen EXCEPT ![e] = [i \in Ids |-> Blank]]
    /\ Goto(e, "idle")
    /\ UNCHANGED <<live, queue, choice, ran, together>>

----------------------------------------------------------------------------
(* The user's requests, each one transaction *)

Write(rows) ==
    /\ writer = NoRun
    /\ db' = rows
    /\ draft' = rows
    /\ UNCHANGED <<writer, run>>

\* merge_entities: the target keeps its facts, takes missing ones, the events
\* and the name of the source, not the aliases of the source.
MergePeople(t, s) ==
    /\ "merge" \in Requests
    /\ t # s /\ {db[t].status, db[s].status} \subseteq Active
    /\ Write([db EXCEPT
          ![t].about = [f \in Facts |-> IF @[f] = NoFact THEN db[s].about[f]
                                        ELSE @[f]],
          ![t].events = @ \cup db[s].events \cup {db[s].source},
          ![t].aliases = IF db[s].name = db[t].name THEN @
                         ELSE @ \cup {db[s].name},
          ![s].status = "merged"])
    /\ UNCHANGED live

ConfirmPerson(i) ==
    /\ "confirm" \in Requests
    /\ db[i].status = "provisional"
    /\ Write([db EXCEPT ![i].status = "confirmed"])
    /\ UNCHANGED live

\* Mutant: the status of a deleted row is one nothing knows.
Removed(row) == [row EXCEPT !.status = "removed"]
Gone(row) == [row EXCEPT !.status = "gone"]

DeletePerson(i) ==
    /\ "delete" \in Requests
    /\ db[i].status \notin {"unused", "gone"}
    /\ Write([db EXCEPT ![i] = Gone(@)])
    /\ UNCHANGED live

\* delete_event_cascade takes the people the event is the source of with it.
DeleteEvent(e) ==
    /\ "delete_event" \in Requests
    /\ e \in live
    /\ Write([i \in Ids |-> IF db[i].source = e THEN Gone(db[i]) ELSE db[i]])
    /\ live' = live \ {e}

Run(e) ==
    \/ Extract(e) \/ LoadIndex(e) \/ Resolve(e)
    \/ AskModel(e) \/ Persist(e) \/ Finish(e)

Next ==
    \/ \E e \in Events : Run(e) \/ DeleteEvent(e)
    \/ \E i \in Ids : ConfirmPerson(i) \/ DeletePerson(i)
    \/ \E t, s \in Ids : MergePeople(t, s)

Spec == Init /\ [][Next]_vars

----------------------------------------------------------------------------
(* Properties *)

TypeOK ==
    /\ live \subseteq Events
    /\ \A i \in Ids : IsRow(db[i]) /\ IsRow(draft[i])
    /\ \A e \in Events : \A i \in Ids : IsRow(index[e][i]) /\ IsRow(seen[e][i])
    /\ writer \in Events \cup {NoRun}
    /\ pc \in [Events -> Places]
    /\ choice \in [Events -> [act : {"none", "merge", "confirm", "create"},
                              id : Ids \cup {0}]]
    /\ writer # NoRun => pc[writer] \in {"resolve", "ask", "write", "commit"}
    /\ writer = NoRun => draft = db

\* A run that knew an active person of some name when it loaded its index
\* stores no second person of that name, whatever the companies say.
KnownPeopleAreFound ==
    [][\A e \in Events, i \in Ids :
          /\ pc[e] = "write" /\ pc'[e] # "write"
          /\ draft[i].status = "unused" /\ draft'[i].status \in Active
          => \A j \in Ids : index[e][j].name # draft'[i].name]_vars

\* Two active people of one name come from runs that overlapped: the second
\* run decided before it could see what the first one stored.
TwinsOverlapped ==
    \A i, j \in Ids :
        /\ i # j /\ db[i].name = db[j].name
        /\ db[i].status \in Active /\ db[j].status \in Active
        => <<db[i].source, db[j].source>> \in together

\* A run takes nothing from a person that it had read itself: spellings and
\* events survive its UPDATE, which is written from its own copy of the row.
RunKeepsWhatItRead ==
    [][\A e \in Events, i \in Ids :
          /\ pc[e] = "write" /\ pc'[e] # "write" /\ draft'[i] # View(e)[i]
          => /\ seen[e][i].events \subseteq draft'[i].events
             /\ seen[e][i].aliases \cap draft[i].aliases
                    \subseteq draft'[i].aliases]_vars

\* A step that only asks merges nothing by itself: without a name, a spelling,
\* a part of a composite name, a surname or a fuzzy score that is evidence of
\* its own, the mention gets a row of its own.
LookalikesAreAsked ==
    [][\A e \in Events, i \in Ids :
          /\ pc[e] = "resolve" /\ pc'[e] = "write"
          /\ choice'[e] = [act |-> "merge", id |-> i]
          => LET p == Head(queue[e]) c == seen'[e][i]
             IN  \/ p.name = c.name \/ p.name \in c.aliases
                 \/ <<p.name, c.name>> \in Inside
                 \/ /\ Surname[p.name] # NoSurname
                    /\ \E n \in c.aliases \cup {c.name} :
                           Surname[n] = Surname[p.name]
                 \/ Fuzzy[<<p.name, c.name>>] >= AutoMerge]_vars
=============================================================================
