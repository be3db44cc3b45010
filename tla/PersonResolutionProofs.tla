----------------------- MODULE PersonResolutionProofs -----------------------
(***************************************************************************)
(* Why two active people of one name come from runs that overlapped, for   *)
(* any events, names and interleaving with the user's requests.  A mention *)
(* is stored as a new person only if no step of the engine decides to      *)
(* merge it, and with the thresholds of step 2 a person of that name (or   *)
(* surname, or alias) that the run can see is always merged into.  What    *)
(* the run cannot see was stored by a run beside it.                       *)
(***************************************************************************)
EXTENDS PersonResolution, SequenceTheorems, TLAPS

----------------------------------------------------------------------------
(* The comparison *)

Found(s, p, cands) == {i \in DOMAIN cands : Confidence(s, p, cands[i]) >= Confirm}
Sure(s, p, cands) == {i \in DOMAIN cands : Merges(s, p, cands[i])}
First(n, p, cands) ==
    /\ n \in DOMAIN Steps
    /\ Found(Steps[n], p, cands) # {}
    /\ \A m \in 1..(n - 1) : Found(Steps[m], p, cands) = {}
AllMerge(p, cands) ==
    /\ Decisions(p, cands) # {}
    /\ \A d \in Decisions(p, cands) : d.act = "merge"

LEMMA StepsAre ==
    /\ DOMAIN Steps = 1..6
    /\ Steps[1] = "exact" /\ Steps[2] = "synonym" /\ Steps[3] = "alias"
    /\ Steps[4] = "difflib" /\ Steps[5] = "fuzzy" /\ Steps[6] = "context"
BY DEF Steps

\* A decision is of the first step that finds anyone, and merges if that step
\* is sure of anyone.
LEMMA DecisionIs ==
    ASSUME NEW p, NEW cands, NEW d \in Decisions(p, cands)
    PROVE  /\ d.act \in {"merge", "confirm"} /\ d.id \in DOMAIN cands
           /\ \E n \in DOMAIN Steps :
                /\ First(n, p, cands)
                /\ d.act = "merge" => d.id \in Sure(Steps[n], p, cands)
                /\ Sure(Steps[n], p, cands) # {} => d.act = "merge"
<1>1. PICK n \in DOMAIN Steps :
        /\ First(n, p, cands)
        /\ IF Sure(Steps[n], p, cands) # {}
           THEN \E i \in Sure(Steps[n], p, cands) : d = [act |-> "merge", id |-> i]
           ELSE \E i \in Found(Steps[n], p, cands) : d = [act |-> "confirm", id |-> i]
  BY DEF Decisions, First, Found, Sure
<1> QED
  BY <1>1 DEF Sure, Found

\* If the first step that finds anyone is sure of someone, all decisions merge.
LEMMA FirstSure ==
    ASSUME NEW p, NEW cands, NEW n \in DOMAIN Steps, First(n, p, cands),
           Sure(Steps[n], p, cands) # {}
    PROVE  AllMerge(p, cands)
<1>1. PICK i \in Sure(Steps[n], p, cands) : TRUE
  OBVIOUS
<1>2. [act |-> "merge", id |-> i] \in Decisions(p, cands)
  BY <1>1 DEF Decisions, First, Found, Sure
<1>3. \A m \in DOMAIN Steps : First(m, p, cands) => m = n
  BY StepsAre DEF First
<1> QED
  BY <1>2, <1>3, DecisionIs DEF AllMerge

LEMMA ScoreIs == \A yes, m, k : Score(yes, m, k) \in {m, k}
BY DEF Score

\* Who has the same name is found by the first step, and merged into.
LEMMA ExactDecides ==
    ASSUME NEW p, NEW cands, NEW i \in DOMAIN cands, p.name = cands[i].name
    PROVE  AllMerge(p, cands)
<1>1. Exact(p, cands[i]) \in {85, 100}
  BY ScoreIs DEF Exact
<1>2. Merges("exact", p, cands[i]) /\ Confidence("exact", p, cands[i]) >= Confirm
  BY <1>1, ThresholdsOK DEF Merges, ConfirmOnly, Confidence
<1>3. First(1, p, cands) /\ Sure(Steps[1], p, cands) # {}
  BY <1>2, StepsAre DEF First, Found, Sure
<1> QED
  BY <1>3, FirstSure DEF First

\* Evidence for a person: the name, the surname or a known alias.
Evidence(p, c) ==
    \/ p.name = c.name
    \/ Surname[p.name] # NoSurname /\ Surname[c.name] = Surname[p.name]
    \/ p.name \in c.aliases

LEMMA AliasScores ==
    ASSUME NEW p, NEW c,
           \/ Surname[p.name] # NoSurname /\ Surname[c.name] = Surname[p.name]
           \/ p.name \in c.aliases
    PROVE  Alias(p, c) \in 80..95
BY ScoreIs, SMT DEF Alias, Score

LEMMA EvidenceDecides ==
    ASSUME NEW p, NEW cands, \A i \in DOMAIN cands : cands[i].name \in Names,
           NEW i \in DOMAIN cands, Evidence(p, cands[i])
    PROVE  AllMerge(p, cands)
<1>1. CASE \E j \in DOMAIN cands : p.name = cands[j].name
  BY <1>1, ExactDecides
<1>2. CASE \A j \in DOMAIN cands : p.name # cands[j].name
  <2>1. Found("exact", p, cands) = {}
    BY <1>2, ThresholdsOK DEF Found, Confidence, Exact
  <2>2. Found("synonym", p, cands) = {}
    BY NoDictionary, ThresholdsOK DEF Found, Confidence, Synonym
  <2>3. Alias(p, cands[i]) \in 80..95
    BY <1>2, AliasScores DEF Evidence
  <2>4. Merges("alias", p, cands[i]) /\ Confidence("alias", p, cands[i]) >= Confirm
    BY <2>3, ThresholdsOK DEF Merges, ConfirmOnly, Confidence
  <2>5. Sure("alias", p, cands) # {} /\ Found("alias", p, cands) # {}
    BY <2>4 DEF Sure, Found
  <2>6. First(3, p, cands)
    BY <2>1, <2>2, <2>5, StepsAre DEF First
  <2> QED
    BY <2>5, <2>6, FirstSure, StepsAre
<1> QED
  BY <1>1, <1>2

\* What merges without being asked.
LEMMA MergesOnEvidence ==
    ASSUME NEW p, NEW c, NEW s \in {"exact", "synonym", "alias", "difflib", "fuzzy", "context"},
           Merges(s, p, c)
    PROVE  \/ p.name = c.name \/ p.name \in c.aliases
           \/ <<p.name, c.name>> \in Inside
           \/ /\ Surname[p.name] # NoSurname
              /\ \E n \in c.aliases \cup {c.name} : Surname[n] = Surname[p.name]
           \/ Fuzzy[<<p.name, c.name>>] >= AutoMerge
<1>1. CASE s = "exact"
  BY <1>1, ThresholdsOK DEF Merges, Confidence, Exact
<1>2. CASE s = "alias"
  BY <1>2, ThresholdsOK DEF Merges, Confidence, Alias
<1>3. CASE s = "fuzzy"
  BY <1>3 DEF Merges, Confidence
<1>4. CASE s = "context"
  <2>1. Context(p, c) \in 0..60
    BY SMT DEF Context, Score
  <2> QED
    BY <1>4, <2>1, ThresholdsOK DEF Merges, Confidence
<1> QED
  BY <1>1, <1>2, <1>3, <1>4 DEF Merges, ConfirmOnly

----------------------------------------------------------------------------
(* The inductive invariant *)

Person == [name : Names, aliases : SUBSET Names, about : [Facts -> Told],
           status : Statuses \ {"unused"}, source : Events, events : SUBSET Events]
Rows == Person \cup {Blank}
Table == [Ids -> Rows]
Used(r) == r.status # "unused"
Mention(e) == Head(queue[e])

Types ==
    /\ live \subseteq Events
    /\ db \in Table /\ draft \in Table
    /\ writer \in Events \cup {NoRun}
    /\ pc \in [Events -> Places]
    /\ queue \in [Events -> Seq(Mentioned)]
    /\ index \in [Events -> Table] /\ seen \in [Events -> Table]
    /\ choice \in [Events -> [act : {"none", "merge", "confirm", "create"},
                              id : Ids \cup {0}]]
    /\ together \subseteq Events \X Events

\* A run has mentions to resolve until it commits, and holds the lock only once
\* it has loaded its index.
RunsHold ==
    /\ \A e \in Events :
          pc[e] \in {"index", "resolve", "ask", "write"} => queue[e] # <<>>
    /\ writer # NoRun => pc[writer] \in {"resolve", "ask", "write", "commit"}
    /\ writer = NoRun => draft = db

\* What two copies of a row agree on, whatever is written to it.
SamePerson(r, s) == Used(s) /\ s.name = r.name /\ s.source = r.source

\* The writer changes no person's status, and adds people of its own event.
DraftExtends ==
    \A i \in Ids :
        /\ Used(db[i]) => SamePerson(db[i], draft[i]) /\ draft[i].status = db[i].status
        /\ ~Used(db[i]) => ~Used(draft[i]) \/ (writer # NoRun /\ draft[i].source = writer)

\* The index has active people, the session has them and what it met since, and
\* they are still who they were when it met them.
IndexInSession(e, i) ==
    Used(index[e][i]) =>
        /\ index[e][i].status \in Active
        /\ SamePerson(index[e][i], seen[e][i])
        /\ index[e][i].aliases \subseteq seen[e][i].aliases
SessionInView(e, i) == Used(seen[e][i]) => SamePerson(seen[e][i], View(e)[i])
SessionHolds == \A e \in Events, i \in Ids : IndexInSession(e, i) /\ SessionInView(e, i)

\* Only a person the session knows is merged into.
MergesKnown ==
    \A e \in Events :
        pc[e] = "write" /\ choice[e].act = "merge" =>
            choice[e].id \in Ids /\ Used(seen[e][choice[e].id])

\* A run that does not merge the mention at hand
Undecisive(e) ==
    pc[e] = "ask" \/ (pc[e] = "write" /\ choice[e].act \in {"confirm", "create"})

\* has looked for the name among those it knew,
NotKnown ==
    \A e \in Events : Undecisive(e) =>
        \A i \in Ids : index[e][i].name # Mention(e).name
\* and in what was stored by then: only a run beside it can have added it since.
NotStored ==
    \A e \in Events : Undecisive(e) => \A i \in Ids :
        View(e)[i].status \in Active /\ View(e)[i].name = Mention(e).name
            => <<e, View(e)[i].source>> \in together

\* Runs that overlapped are of different events.
Overlaps ==
    /\ \A e \in Events : <<e, e>> \notin together
    /\ \A e, f \in Events : <<e, f>> \in together => <<f, e>> \in together
    /\ \A e, f \in Events :
          e # f /\ pc[e] # "idle" /\ pc[f] # "idle" => <<e, f>> \in together

\* TwinsOverlapped, for the rows as the writer sees them.
TwinsApart ==
    \A i, j \in Ids :
        /\ i # j /\ draft[i].name = draft[j].name
        /\ draft[i].status \in Active /\ draft[j].status \in Active
        => <<draft[i].source, draft[j].source>> \in together

Inv ==
    /\ Types /\ RunsHold /\ DraftExtends /\ SessionHolds /\ MergesKnown
    /\ NotKnown /\ NotStored /\ Overlaps /\ TwinsApart

\* A blank row is not in use, and a person is.
LEMMA RowFacts ==
    ASSUME NEW r \in Rows
    PROVE  /\ Used(r) <=> r \in Person
           /\ ~Used(r) <=> r = Blank
           /\ r.status \in Active => Used(r)
           /\ ~Used(r) => r.name = "" /\ r.source = NoEvent
<1>1. r \in Person => Used(r)
  BY SMT DEF Person, Used
<1>2. r = Blank => ~Used(r) /\ r.name = "" /\ r.source = NoEvent /\ r.status \notin Active
  <2>1. Blank.status = "unused" /\ Blank.name = "" /\ Blank.source = NoEvent
    BY DEF Blank
  <2> QED
    BY <2>1 DEF Used, Active
<1>3. r \in Person \/ r = Blank
  BY DEF Rows
<1>4. r.status \in Active => Used(r)
  BY DEF Used, Active
<1> QED
  BY Zenon, <1>1, <1>2, <1>3, <1>4

LEMMA BlankRow == Blank \in Rows /\ ~Used(Blank) /\ Blank.name = ""
BY DEF Rows, Blank, Used

LEMMA PersonFields ==
    ASSUME NEW r \in Rows, Used(r)
    PROVE  /\ r.name \in Names /\ r.aliases \subseteq Names /\ r.source \in Events
           /\ r.events \subseteq Events /\ r.about \in [Facts -> Told]
           /\ r.status \in Statuses \ {"unused"}
BY RowFacts DEF Person

LEMMA EventFacts == NoRun \notin Events /\ NoEvent \notin Events /\ "" \notin Names
BY MentionsOK

\* The writer and nobody else sees the draft; without a writer there is no
\* difference.
LEMMA ViewIs ==
    ASSUME Inv, NEW e \in Events
    PROVE  /\ View(e) \in Table
           /\ writer = e => View(e) = draft
           /\ writer # e => View(e) = db
           /\ writer \in {NoRun, e} => View(e) = draft
BY DEF Inv, Types, RunsHold, View

LEMMA InvInit == Init => Inv
<1> SUFFICES ASSUME Init PROVE Inv
  OBVIOUS
<1>1. db \in Table /\ draft = db /\ index \in [Events -> Table] /\ seen = index
  BY BlankRow DEF Init, Table
<1>2. Types
  <2>1. queue \in [Events -> Seq(Mentioned)]
    BY DEF Init
  <2>2. Undecided \in [act : {"none", "merge", "confirm", "create"}, id : Ids \cup {0}]
    BY DEF Undecided
  <2> QED
    BY <1>1, <2>1, <2>2 DEF Init, Types, Places
<1>3. \A i \in Ids : ~Used(db[i]) /\ db[i].status \notin Active
  BY DEF Init, Blank, Used, Active
<1>4. RunsHold /\ MergesKnown /\ NotKnown /\ NotStored
  BY DEF Init, RunsHold, MergesKnown, NotKnown, NotStored, Undecisive
<1>5. Overlaps
  BY DEF Init, Overlaps
<1>6. SessionHolds /\ DraftExtends /\ TwinsApart
  BY <1>1, <1>3, BlankRow DEF Init, SessionHolds, IndexInSession, SessionInView,
                              DraftExtends, TwinsApart
<1> QED
  BY <1>2, <1>4, <1>5, <1>6 DEF Inv

----------------------------------------------------------------------------
(* A run *)

LEMMA ExtractStep ==
    ASSUME Inv, NEW e \in Events, Extract(e)
    PROVE  Inv'
<1> DEFINE others == UNION {{<<e, f>>, <<f, e>>} : f \in {g \in Events : pc[g] # "idle"}}
<1>1. /\ pc[e] = "idle" /\ UNCHANGED <<live, db, draft, writer, index, seen, choice>>
      /\ together' = together \cup others
  BY DEF Extract
<1>2. PICK people \in Extracted(e) :
        /\ queue' = [queue EXCEPT ![e] = people]
        /\ pc' = [pc EXCEPT ![e] = IF people = <<>> THEN "commit" ELSE "index"]
  BY DEF Extract, Goto
<1>3. people \in Seq(Mentioned)
  <2>1. Mentions[e] \in Seq(Mentioned) /\ (Kind[e] = "card" => Mentions[e] # <<>>)
    BY MentionsOK
  <2>2. ASSUME Kind[e] = "card" PROVE SubSeq(Mentions[e], 1, 1) \in Seq(Mentioned)
    <3>1. Len(Mentions[e]) \in Nat \ {0}
      BY <2>1, <2>2, EmptySeq, LenProperties
    <3> QED
      BY <2>1, <3>1, SubSeqProperties
  <2> QED
    BY <2>1, <2>2, EmptySeq DEF Extracted, CardPeople, ConversationPeople
<1>4. others \subseteq Events \X Events
  OBVIOUS
<1>5. Types'
  BY <1>1, <1>2, <1>3, <1>4 DEF Inv, Types, Places
<1>6. RunsHold'
  BY <1>1, <1>2 DEF Inv, Types, RunsHold
<1>7. /\ \A f \in Events : View(f)' = View(f)
      /\ \A f \in Events : Undecisive(f)' => f # e /\ Undecisive(f)
      /\ \A f \in Events : f # e => Mention(f)' = Mention(f)
  BY <1>1, <1>2 DEF Inv, Types, View, Undecisive, Mention
<1>8. DraftExtends' /\ SessionHolds'
  BY <1>1, <1>7 DEF Inv, DraftExtends, SessionHolds, IndexInSession, SessionInView
<1>9. MergesKnown'
  BY <1>1, <1>2 DEF Inv, Types, MergesKnown
<1>10. NotKnown' /\ NotStored' /\ TwinsApart'
  BY <1>1, <1>7 DEF Inv, NotKnown, NotStored, TwinsApart
<1>11. Overlaps'
  <2>1. \A f, g \in Events : <<f, g>> \in others <=> (f = e /\ pc[g] # "idle")
                                                  \/ (g = e /\ pc[f] # "idle")
    OBVIOUS
  <2>2. pc' \in [Events -> Places] /\ \A f \in Events \ {e} : pc'[f] = pc[f]
    BY <1>2, <1>5 DEF Inv, Types
  <2>3. /\ \A f, g \in Events : <<f, g>> \in together' => <<g, f>> \in together'
        /\ \A f \in Events : <<f, f>> \notin together'
    BY <1>1, <2>1 DEF Inv, Overlaps
  <2>4. ASSUME NEW f \in Events, NEW g \in Events, f # g, pc'[f] # "idle", pc'[g] # "idle"
        PROVE  <<f, g>> \in together'
    BY <1>1, <2>1, <2>2, <2>4 DEF Inv, Overlaps
  <2> QED
    BY <2>3, <2>4 DEF Overlaps
<1> QED
  BY <1>5, <1>6, <1>8, <1>9, <1>10, <1>11 DEF Inv

\* Before the first flush a run sees the committed rows.
LEMMA LoadIndexStep ==
    ASSUME Inv, NEW e \in Events, LoadIndex(e)
    PROVE  Inv'
<1> DEFINE rows == [i \in Ids |-> IF db[i].status \in Active THEN db[i] ELSE Blank]
<1>1. /\ pc[e] = "index" /\ pc' = [pc EXCEPT ![e] = "resolve"]
      /\ index' = [index EXCEPT ![e] = rows] /\ seen' = [seen EXCEPT ![e] = rows]
      /\ UNCHANGED <<live, db, draft, writer, queue, choice, ran, together>>
  BY DEF LoadIndex, Goto
<1>2. rows \in Table /\ db \in Table
  BY BlankRow DEF Inv, Types, Table
<1>3. Types'
  BY <1>1, <1>2 DEF Inv, Types, Places
<1>4. RunsHold'
  BY <1>1 DEF Inv, Types, RunsHold
<1>5. /\ \A f \in Events : View(f)' = View(f)
      /\ \A f \in Events : Undecisive(f)' => f # e /\ Undecisive(f)
      /\ \A f \in Events : Mention(f)' = Mention(f)
  BY <1>1 DEF Inv, Types, View, Undecisive, Mention
<1>6. View(e)' = db
  BY <1>1, <1>5, EventFacts, ViewIs DEF Inv, Types, RunsHold
<1>7. SessionHolds'
  <2> SUFFICES ASSUME NEW f \in Events, NEW i \in Ids
               PROVE  IndexInSession(f, i)' /\ SessionInView(f, i)'
    BY DEF SessionHolds
  <2>1. CASE f = e
    <3>1. index'[f][i] = rows[i] /\ seen'[f][i] = rows[i] /\ View(f)'[i] = db[i]
      BY <1>1, <1>6, <2>1 DEF Inv, Types
    <3>2. Used(rows[i]) => rows[i] = db[i] /\ rows[i].status \in Active
      BY BlankRow
    <3> QED
      BY <3>1, <3>2 DEF IndexInSession, SessionInView, SamePerson
  <2>2. CASE f # e
    BY <1>1, <1>5, <2>2 DEF Inv, Types, SessionHolds, IndexInSession, SessionInView
  <2> QED
    BY <2>1, <2>2
<1>8. MergesKnown'
  BY <1>1 DEF Inv, Types, MergesKnown
<1>9. NotKnown' /\ NotStored' /\ TwinsApart' /\ Overlaps' /\ DraftExtends'
  <2>1. NotKnown'
    BY <1>1, <1>5 DEF Inv, Types, NotKnown
  <2>2. NotStored' /\ TwinsApart' /\ DraftExtends'
    BY <1>1, <1>5 DEF Inv, NotStored, TwinsApart, DraftExtends
  <2>3. Overlaps'
    BY <1>1 DEF Inv, Types, Overlaps
  <2> QED
    BY <2>1, <2>2, <2>3
<1> QED
  BY <1>3, <1>4, <1>7, <1>8, <1>9 DEF Inv

\* The candidates of a mention, as the session knows them.
Candidates(e) ==
    IF Hits(e, Mention(e)) # {} THEN Hits(e, Mention(e)) ELSE Fallback(e, Mention(e))
Compared(e) == [i \in Candidates(e) |-> Known(e, Candidates(e))[i]]

\* Loading a row changes nothing about those the session has, and what it loads
\* is in the view.
LEMMA KnownIs ==
    ASSUME Inv, NEW e \in Events, NEW found
    PROVE  /\ Known(e, found) \in Table
           /\ \A i \in Ids :
                /\ Used(seen[e][i]) => Known(e, found)[i] = seen[e][i]
                /\ ~Used(seen[e][i]) =>
                      Known(e, found)[i] = IF i \in found THEN View(e)[i] ELSE Blank
                /\ Used(Known(e, found)[i]) => SamePerson(Known(e, found)[i], View(e)[i])
<1>1. seen[e] \in Table /\ View(e) \in Table
  BY ViewIs DEF Inv, Types
<1>2. ASSUME NEW i \in Ids
      PROVE  /\ seen[e][i] \in Rows /\ View(e)[i] \in Rows
             /\ Used(seen[e][i]) => Known(e, found)[i] = seen[e][i]
             /\ ~Used(seen[e][i]) =>
                   Known(e, found)[i] = IF i \in found THEN View(e)[i] ELSE Blank
  <2>1. seen[e][i] \in Rows /\ View(e)[i] \in Rows
    BY <1>1 DEF Table
  <2>2. Used(seen[e][i]) <=> seen[e][i] # Blank
    BY <2>1, RowFacts
  <2> QED
    BY <2>1, <2>2 DEF Known
<1>3. ASSUME NEW i \in Ids, Used(Known(e, found)[i])
      PROVE  SamePerson(Known(e, found)[i], View(e)[i])
  <2>1. CASE Used(seen[e][i])
    BY <1>2, <2>1 DEF Inv, SessionHolds, SessionInView
  <2>2. CASE ~Used(seen[e][i])
    BY <1>2, <1>3, <2>2, BlankRow DEF SamePerson
  <2> QED
    BY <2>1, <2>2
<1>4. Known(e, found) = [i \in Ids |-> Known(e, found)[i]]
  BY DEF Known
<1>5. \A i \in Ids : Known(e, found)[i] \in Rows
  BY <1>2, BlankRow
<1> QED
  BY <1>2, <1>3, <1>4, <1>5 DEF Table

LEMMA CandidatesAre ==
    ASSUME Inv, NEW e \in Events, pc[e] = "resolve"
    PROVE  /\ Mention(e) \in Mentioned /\ Mention(e).name \in Names
           /\ Candidates(e) \subseteq Ids
           /\ \A i \in Candidates(e) :
                Used(Known(e, Candidates(e))[i]) /\ Compared(e)[i].name \in Names
           /\ DOMAIN Compared(e) = Candidates(e)
<1> DEFINE C == Candidates(e)
<1>1. Mention(e) \in Mentioned /\ Mention(e).name \in Names
  <2>1. queue[e] \in Seq(Mentioned) /\ queue[e] # <<>>
    BY DEF Inv, Types, RunsHold
  <2> QED
    BY <2>1, MentionsOK, HeadTailProperties DEF Mention
<1>2. C \subseteq Ids /\ DOMAIN Compared(e) = C
  BY DEF Candidates, Hits, Fallback, Compared
<1>3. ASSUME NEW i \in C
      PROVE  Used(seen[e][i]) \/ Used(View(e)[i])
  <2>1. CASE i \in Hits(e, Mention(e))
    <3>1. Used(index[e][i])
      BY <2>1 DEF Hits, Used, Active
    <3> QED
      BY <3>1, <1>2 DEF Inv, SessionHolds, IndexInSession, SamePerson
  <2>2. CASE i \in Fallback(e, Mention(e))
    BY <2>2 DEF Fallback, Used, Active
  <2> QED
    BY <2>1, <2>2 DEF Candidates
<1>4. ASSUME NEW i \in C PROVE Used(Known(e, C)[i])
  BY <1>2, <1>3, KnownIs
<1>5. ASSUME NEW i \in C PROVE Compared(e)[i].name \in Names
  <2>1. Compared(e)[i] = Known(e, C)[i] /\ Known(e, C)[i] \in Rows
    BY <1>2, KnownIs DEF Compared, Table
  <2> QED
    BY <2>1, <1>4, PersonFields
<1> QED
  BY <1>1, <1>2, <1>4, <1>5

\* If the indexes give anyone, a step merges.
LEMMA HitsDecide ==
    ASSUME Inv, NEW e \in Events, pc[e] = "resolve", Hits(e, Mention(e)) # {}
    PROVE  AllMerge(Mention(e), Compared(e))
<1>1. PICK i \in Hits(e, Mention(e)) : TRUE
  OBVIOUS
<1>2. i \in Candidates(e) /\ i \in Ids
  BY <1>1 DEF Candidates, Hits
<1>3. Used(index[e][i]) /\ Evidence(Mention(e), index[e][i])
  BY <1>1 DEF Hits, Used, Active, Evidence
<1>4. /\ Compared(e)[i] = seen[e][i] /\ seen[e][i].name = index[e][i].name
      /\ index[e][i].aliases \subseteq seen[e][i].aliases
  BY <1>2, <1>3, KnownIs DEF Inv, SessionHolds, IndexInSession, SamePerson, Compared
<1>5. Evidence(Mention(e), Compared(e)[i])
  BY <1>3, <1>4 DEF Evidence
<1> QED
  BY <1>2, <1>5, CandidatesAre, EvidenceDecides

\* If nothing decides, nobody of the name is active in what the run can see.
LEMMA UndecidedIsNew ==
    ASSUME Inv, NEW e \in Events, pc[e] = "resolve",
           ~AllMerge(Mention(e), Compared(e))
    PROVE  /\ \A i \in Ids : index[e][i].name # Mention(e).name
           /\ \A i \in Ids : View(e)[i].status \in Active =>
                                View(e)[i].name # Mention(e).name
<1>1. Hits(e, Mention(e)) = {}
  BY HitsDecide
<1>2. ASSUME NEW i \in Ids, index[e][i].name = Mention(e).name PROVE FALSE
  <2>1. index[e][i] \in Rows
    BY DEF Inv, Types, Table
  <2>2. Used(index[e][i])
    BY <1>2, <2>1, RowFacts, CandidatesAre, EventFacts
  <2>3. i \in Hits(e, Mention(e))
    BY <1>2, <2>2 DEF Hits, Inv, SessionHolds, IndexInSession
  <2> QED
    BY <1>1, <2>3
<1>3. ASSUME NEW i \in Ids, View(e)[i].status \in Active, View(e)[i].name = Mention(e).name
      PROVE  FALSE
  <2>1. i \in Candidates(e)
    BY <1>1, <1>3 DEF Candidates, Fallback
  <2>2. Used(Known(e, Candidates(e))[i])
    BY <2>1, CandidatesAre
  <2>3. Compared(e)[i].name = View(e)[i].name
    BY <2>1, <2>2, KnownIs DEF Compared, SamePerson
  <2> QED
    BY <1>3, <2>1, <2>3, CandidatesAre, ExactDecides
<1> QED
  BY <1>2, <1>3

\* What Resolve decides, in the words of the lemmas above.
LEMMA ResolveIs ==
    ASSUME Inv, NEW e \in Events, Resolve(e)
    PROVE  /\ pc[e] = "resolve"
           /\ seen' = [seen EXCEPT ![e] = Known(e, Candidates(e))]
           /\ UNCHANGED <<live, db, draft, writer, queue, index, ran, together>>
           /\ \E d \in [act : {"none", "merge", "confirm", "create"}, id : Ids \cup {0}],
                 place \in {"ask", "write"} :
                /\ choice' = [choice EXCEPT ![e] = d]
                /\ pc' = [pc EXCEPT ![e] = place]
                /\ d.act = "merge" =>
                      place = "write" /\ d \in Decisions(Mention(e), Compared(e))
                /\ d.act # "merge" => ~AllMerge(Mention(e), Compared(e))
<1> DEFINE decisions == Decisions(Mention(e), Compared(e))
           Choices == [act : {"none", "merge", "confirm", "create"}, id : Ids \cup {0}]
<1>1. /\ pc[e] = "resolve"
      /\ seen' = [seen EXCEPT ![e] = Known(e, Candidates(e))]
      /\ UNCHANGED <<live, db, draft, writer, queue, index, ran, together>>
      /\ \/ /\ Candidates(e) = {}
            /\ choice' = [choice EXCEPT ![e] = [act |-> "create", id |-> 0]]
            /\ pc' = [pc EXCEPT ![e] = "write"]
         \/ /\ \E d \in decisions : choice' = [choice EXCEPT ![e] = d]
            /\ pc' = [pc EXCEPT ![e] = "write"]
         \/ /\ decisions = {}
            /\ choice' = [choice EXCEPT ![e] = Undecided]
            /\ pc' = [pc EXCEPT ![e] = "ask"]
  BY DEF Resolve, Goto, Candidates, Compared, Mention
<1>2. CASE /\ Candidates(e) = {}
           /\ choice' = [choice EXCEPT ![e] = [act |-> "create", id |-> 0]]
           /\ pc' = [pc EXCEPT ![e] = "write"]
  <2>1. decisions = {}
    BY <1>1, <1>2, CandidatesAre, DecisionIs
  <2>2. [act |-> "create", id |-> 0] \in Choices
    OBVIOUS
  <2> QED
    BY <1>1, <1>2, <2>1, <2>2 DEF AllMerge
<1>3. ASSUME NEW d \in decisions, choice' = [choice EXCEPT ![e] = d],
             pc' = [pc EXCEPT ![e] = "write"]
      PROVE  /\ d \in Choices
             /\ d.act # "merge" => ~AllMerge(Mention(e), Compared(e))
  <2>1. d.act \in {"merge", "confirm"} /\ d.id \in Ids
    BY <1>1, CandidatesAre, DecisionIs
  <2>2. d \in [act : {"merge", "confirm"}, id : Ids]
    <3>1. d = [act |-> d.act, id |-> d.id]
      BY DEF Decisions
    <3> QED
      BY <2>1, <3>1
  <2> QED
    BY <2>1, <2>2 DEF AllMerge
<1>4. CASE /\ decisions = {}
           /\ choice' = [choice EXCEPT ![e] = Undecided]
           /\ pc' = [pc EXCEPT ![e] = "ask"]
  <2>1. Undecided \in Choices /\ Undecided.act # "merge"
    BY DEF Undecided
  <2> QED
    BY <1>1, <1>4, <2>1 DEF AllMerge
<1> QED
  BY <1>1, <1>2, <1>3, <1>4

LEMMA ResolveStep ==
    ASSUME Inv, NEW e \in Events, Resolve(e)
    PROVE  Inv'
<1> DEFINE known == Known(e, Candidates(e))
<1>1. /\ pc[e] = "resolve" /\ seen' = [seen EXCEPT ![e] = known]
      /\ UNCHANGED <<live, db, draft, writer, queue, index, ran, together>>
  BY ResolveIs
<1>2. PICK d \in [act : {"none", "merge", "confirm", "create"}, id : Ids \cup {0}],
           place \in {"ask", "write"} :
        /\ choice' = [choice EXCEPT ![e] = d]
        /\ pc' = [pc EXCEPT ![e] = place]
        /\ d.act = "merge" => place = "write" /\ d \in Decisions(Mention(e), Compared(e))
        /\ d.act # "merge" => ~AllMerge(Mention(e), Compared(e))
  BY ResolveIs
<1>3. known \in Table
  BY KnownIs
<1>4. Types'
  BY <1>1, <1>2, <1>3 DEF Inv, Types, Places
<1>5. RunsHold'
  BY <1>1, <1>2 DEF Inv, Types, RunsHold
<1>6. /\ \A f \in Events : View(f)' = View(f) /\ Mention(f)' = Mention(f)
      /\ \A f \in Events : f # e => (Undecisive(f)' <=> Undecisive(f))
      /\ Undecisive(e)' => d.act # "merge"
  BY <1>1, <1>2 DEF Inv, Types, View, Undecisive, Mention
<1>7. SessionHolds'
  <2> SUFFICES ASSUME NEW f \in Events, NEW i \in Ids
               PROVE  IndexInSession(f, i)' /\ SessionInView(f, i)'
    BY DEF SessionHolds
  <2>1. IndexInSession(f, i) /\ SessionInView(f, i)
    BY DEF Inv, SessionHolds
  <2>2. CASE f = e
    <3>1. seen'[f][i] = known[i] /\ index'[f][i] = index[f][i] /\ View(f)'[i] = View(f)[i]
      BY <1>1, <1>6, <2>2 DEF Inv, Types
    <3>2. /\ Used(seen[e][i]) => known[i] = seen[e][i]
          /\ Used(known[i]) => SamePerson(known[i], View(e)[i])
      BY KnownIs
    <3> QED
      BY <2>1, <2>2, <3>1, <3>2 DEF IndexInSession, SessionInView, SamePerson
  <2>3. CASE f # e
    BY <1>1, <1>6, <2>1, <2>3 DEF Inv, Types, IndexInSession, SessionInView
  <2> QED
    BY <2>2, <2>3
<1>8. MergesKnown'
  <2> SUFFICES ASSUME NEW f \in Events, (pc[f] = "write")', (choice[f].act = "merge")'
               PROVE  (choice[f].id \in Ids /\ Used(seen[f][choice[f].id]))'
    BY DEF MergesKnown
  <2>1. CASE f = e
    <3>1. choice'[e] = d /\ seen'[e] = known
      BY <1>1, <1>2 DEF Inv, Types
    <3>2. d.id \in Candidates(e)
      BY <1>1, <1>2, <2>1, <3>1, CandidatesAre, DecisionIs
    <3> QED
      BY <1>1, <2>1, <3>1, <3>2, CandidatesAre
  <2>2. CASE f # e
    BY <1>1, <1>2, <2>2 DEF Inv, Types, MergesKnown
  <2> QED
    BY <2>1, <2>2
<1>9. NotKnown' /\ NotStored'
  <2>1. ASSUME NEW f \in Events, Undecisive(f)'
        PROVE  /\ \A i \in Ids : index[f][i].name # Mention(f).name
               /\ \A i \in Ids : View(f)[i].status \in Active
                                 /\ View(f)[i].name = Mention(f).name
                                    => <<f, View(f)[i].source>> \in together
    <3>1. CASE f = e
      BY <1>1, <1>2, <1>6, <2>1, <3>1, UndecidedIsNew
    <3>2. CASE f # e
      BY <1>6, <2>1, <3>2 DEF Inv, NotKnown, NotStored
    <3> QED
      BY <3>1, <3>2
  <2> QED
    BY <1>1, <1>6, <2>1 DEF NotKnown, NotStored
<1>10. Overlaps' /\ TwinsApart' /\ DraftExtends'
  <2>1. TwinsApart' /\ DraftExtends'
    BY <1>1 DEF Inv, TwinsApart, DraftExtends
  <2>2. \A f \in Events : pc'[f] # "idle" => pc[f] # "idle"
    BY <1>1, <1>2 DEF Inv, Types
  <2> QED
    BY <1>1, <2>1, <2>2 DEF Inv, Overlaps
<1> QED
  BY <1>4, <1>5, <1>7, <1>8, <1>9, <1>10 DEF Inv

\* The model decides what no step decided.
LEMMA AskModelStep ==
    ASSUME Inv, NEW e \in Events, AskModel(e)
    PROVE  Inv'
<1>1. PICK i \in Ids, act \in {"merge", "confirm", "create"} :
        /\ choice' = [choice EXCEPT ![e] = [act |-> act, id |-> IF act = "create" THEN 0 ELSE i]]
        /\ i \in Hits(e, Mention(e)) \/ seen[e][i] # Blank
  <2>1. PICK i \in IF Hits(e, Mention(e)) # {} THEN Hits(e, Mention(e))
                   ELSE {j \in Ids : seen[e][j] # Blank}, score \in ModelScores :
          choice' = [choice EXCEPT ![e] =
              [act |-> Verdict(score), id |-> IF Verdict(score) = "create" THEN 0 ELSE i]]
    BY DEF AskModel, Mention
  <2>2. i \in Ids /\ (i \in Hits(e, Mention(e)) \/ seen[e][i] # Blank)
    BY <2>1 DEF Hits
  <2>3. Verdict(score) \in {"merge", "confirm", "create"}
    BY DEF Verdict
  <2> QED
    BY <2>1, <2>2, <2>3
<1>2. /\ pc[e] = "ask" /\ pc' = [pc EXCEPT ![e] = "write"]
      /\ UNCHANGED <<live, db, draft, writer, queue, index, seen, ran, together>>
  BY DEF AskModel, Goto
<1>3. Used(seen[e][i])
  <2>1. seen[e][i] \in Rows
    BY DEF Inv, Types, Table
  <2>2. i \in Hits(e, Mention(e)) => Used(index[e][i])
    BY DEF Hits, Used, Active
  <2> QED
    BY <1>1, <2>1, <2>2, RowFacts DEF Inv, SessionHolds, IndexInSession, SamePerson
<1>4. [act |-> act, id |-> IF act = "create" THEN 0 ELSE i] \in
          [act : {"none", "merge", "confirm", "create"}, id : Ids \cup {0}]
  OBVIOUS
<1>5. Types'
  BY <1>1, <1>2, <1>4 DEF Inv, Types, Places
<1>6. RunsHold'
  BY <1>2 DEF Inv, Types, RunsHold
<1>7. MergesKnown'
  BY <1>1, <1>2, <1>3 DEF Inv, Types, MergesKnown
<1>8. /\ \A f \in Events : View(f)' = View(f) /\ Mention(f)' = Mention(f)
      /\ \A f \in Events : Undecisive(f)' => Undecisive(f)
      /\ \A f \in Events : pc'[f] # "idle" => pc[f] # "idle"
  BY <1>1, <1>2 DEF Inv, Types, View, Undecisive, Mention
<1>9. NotKnown' /\ NotStored' /\ SessionHolds'
  BY <1>2, <1>8 DEF Inv, NotKnown, NotStored, SessionHolds, IndexInSession, SessionInView
<1>10. Overlaps' /\ TwinsApart' /\ DraftExtends'
  BY <1>2, <1>8 DEF Inv, Overlaps, TwinsApart, DraftExtends
<1> QED
  BY <1>5, <1>6, <1>7, <1>9, <1>10 DEF Inv

\* What Persist leaves behind in every case.
LEMMA PersistIs ==
    ASSUME Inv, NEW e \in Events, Persist(e)
    PROVE  /\ pc[e] = "write" /\ writer \in {NoRun, e} /\ writer' = e
           /\ View(e) = draft
           /\ queue' = [queue EXCEPT ![e] = Tail(@)]
           /\ choice' = [choice EXCEPT ![e] = Undecided]
           /\ pc' = [pc EXCEPT ![e] = IF Len(queue[e]) = 1 THEN "commit" ELSE "resolve"]
           /\ UNCHANGED <<live, db, index, ran, together>>
           /\ Mention(e) \in Mentioned
BY HeadTailProperties, ViewIs DEF Persist, Done, Goto, Mention, Inv, Types, RunsHold

\* Whatever it writes: if the draft and the session stay sound and get no twin,
\* the invariant holds again.
LEMMA PersistKeeps ==
    ASSUME Inv, NEW e \in Events, Persist(e),
           draft' \in Table, seen'[e] \in Table,
           \A f \in Events : f # e => seen'[f] = seen[f],
           seen' \in [Events -> Table],
           \A i \in Ids :
              /\ Used(draft[i]) =>
                    SamePerson(draft[i], draft'[i]) /\ draft'[i].status = draft[i].status
              /\ ~Used(draft[i]) => ~Used(draft'[i]) \/ draft'[i].source = e
              /\ Used(index[e][i]) => /\ SamePerson(seen[e][i], seen'[e][i])
                                      /\ seen[e][i].aliases \subseteq seen'[e][i].aliases
              /\ Used(seen'[e][i]) => SamePerson(seen'[e][i], draft'[i]),
           TwinsApart'
    PROVE  Inv'
<1>1. /\ pc[e] = "write" /\ writer \in {NoRun, e} /\ writer' = e
      /\ View(e) = draft
      /\ queue' = [queue EXCEPT ![e] = Tail(@)]
      /\ choice' = [choice EXCEPT ![e] = Undecided]
      /\ pc' = [pc EXCEPT ![e] = IF Len(queue[e]) = 1 THEN "commit" ELSE "resolve"]
      /\ UNCHANGED <<live, db, index, ran, together>>
  BY PersistIs
<1>2. queue[e] \in Seq(Mentioned) /\ queue[e] # <<>>
  BY <1>1 DEF Inv, Types, RunsHold
<1>3. Tail(queue[e]) \in Seq(Mentioned) /\ (Len(queue[e]) # 1 => Tail(queue[e]) # <<>>)
  <2>1. Len(queue[e]) \in Nat \ {0}
    BY <1>2, EmptySeq, LenProperties
  <2>2. Tail(queue[e]) \in Seq(Mentioned) /\ Len(Tail(queue[e])) = Len(queue[e]) - 1
    BY <1>2, HeadTailProperties
  <2>3. Tail(queue[e]) = <<>> => Len(Tail(queue[e])) = 0
    BY EmptySeq
  <2> QED
    BY <2>1, <2>2, <2>3
<1>4. Types'
  <2>1. Undecided \in [act : {"none", "merge", "confirm", "create"}, id : Ids \cup {0}]
    BY DEF Undecided
  <2>2. choice' \in [Events -> [act : {"none", "merge", "confirm", "create"}, id : Ids \cup {0}]]
    BY <1>1, <2>1 DEF Inv, Types
  <2>3. queue' \in [Events -> Seq(Mentioned)]
    BY <1>1, <1>3 DEF Inv, Types
  <2>4. pc' \in [Events -> Places]
    BY <1>1 DEF Inv, Types, Places
  <2> QED
    BY <1>1, <2>2, <2>3, <2>4 DEF Inv, Types
<1>5. RunsHold'
  BY <1>1, <1>3, EventFacts DEF Inv, Types, RunsHold
<1>6. /\ \A f \in Events : f # e => View(f)' = View(f) /\ Mention(f)' = Mention(f)
                                    /\ pc'[f] = pc[f] /\ choice'[f] = choice[f]
      /\ View(e)' = draft'
      /\ \A f \in Events : Undecisive(f)' => f # e /\ Undecisive(f)
  <2>1. \A f \in Events : f # e => pc'[f] = pc[f] /\ choice'[f] = choice[f] /\ queue'[f] = queue[f]
    BY <1>1 DEF Inv, Types
  <2>2. \A f \in Events : f # e => View(f) = db /\ View(f)' = db
    BY <1>1, EventFacts DEF View
  <2>3. pc'[e] \in {"commit", "resolve"}
    BY <1>1 DEF Inv, Types
  <2> QED
    BY <1>1, <2>1, <2>2, <2>3 DEF View, Undecisive, Mention
<1>7. DraftExtends'
  <2> SUFFICES ASSUME NEW i \in Ids
               PROVE  /\ Used(db[i]) =>
                            SamePerson(db[i], draft'[i]) /\ draft'[i].status = db[i].status
                      /\ ~Used(db[i]) => ~Used(draft'[i]) \/ draft'[i].source = e
    BY <1>1, EventFacts DEF DraftExtends
  <2>1. /\ Used(db[i]) => SamePerson(db[i], draft[i]) /\ draft[i].status = db[i].status
        /\ ~Used(db[i]) => ~Used(draft[i]) \/ draft[i].source = e
    BY <1>1 DEF Inv, DraftExtends
  <2> QED
    BY <2>1 DEF SamePerson
<1>8. SessionHolds'
  <2> SUFFICES ASSUME NEW f \in Events, NEW i \in Ids
               PROVE  IndexInSession(f, i)' /\ SessionInView(f, i)'
    BY DEF SessionHolds
  <2>1. IndexInSession(f, i) /\ SessionInView(f, i)
    BY DEF Inv, SessionHolds
  <2>2. CASE f = e
    BY <1>1, <1>6, <2>1, <2>2 DEF IndexInSession, SessionInView, SamePerson
  <2>3. CASE f # e
    BY <1>1, <1>6, <2>1, <2>3 DEF IndexInSession, SessionInView
  <2> QED
    BY <2>2, <2>3
<1>9. MergesKnown'
  <2>1. pc'[e] # "write"
    BY <1>1 DEF Inv, Types
  <2> QED
    BY <1>6, <2>1 DEF Inv, MergesKnown
<1>10. NotKnown' /\ NotStored'
  BY <1>1, <1>6 DEF Inv, NotKnown, NotStored
<1>11. Overlaps'
  <2>1. \A f \in Events : pc'[f] # "idle" => pc[f] # "idle"
    BY <1>1, <1>6
  <2> QED
    BY <1>1, <2>1 DEF Inv, Overlaps
<1> QED
  BY <1>4, <1>5, <1>7, <1>8, <1>9, <1>10, <1>11 DEF Inv

\* A copy after a merge, and the row after its UPDATE, are of the same person.
LEMMA MergedRowIs ==
    ASSUME NEW e \in Events, NEW p \in Mentioned, NEW r \in Rows, Used(r)
    PROVE  /\ MergedRow(e, p, r) \in Person
           /\ SamePerson(r, MergedRow(e, p, r))
           /\ r.aliases \subseteq MergedRow(e, p, r).aliases
           /\ r.events \subseteq MergedRow(e, p, r).events
<1>1. r \in Person /\ r.source \in Events
  BY RowFacts, PersonFields
<1>2. p.name \in Names /\ p.about \in [Facts -> Told]
  BY MentionsOK
<1> DEFINE about == [f \in Facts |-> IF p.about[f] # NoFact THEN p.about[f] ELSE r.about[f]]
           aliases == IF p.name = r.name THEN r.aliases ELSE r.aliases \cup {p.name}
           events == r.events \cup {e, r.source}
<1>3. /\ about \in [Facts -> Told] /\ aliases \in SUBSET Names /\ events \in SUBSET Events
      /\ r.aliases \subseteq aliases /\ r.events \subseteq events
  BY <1>1, <1>2, PersonFields
<1>4. MergedRow(e, p, r) =
        [r EXCEPT !.aliases = aliases, !.about = about, !.events = events]
  BY DEF MergedRow
<1> HIDE DEF about, aliases, events
<1>5. MergedRow(e, p, r) \in Person
  BY <1>1, <1>3, <1>4 DEF Person
<1>6. /\ MergedRow(e, p, r).name = r.name /\ MergedRow(e, p, r).source = r.source
      /\ MergedRow(e, p, r).aliases = aliases /\ MergedRow(e, p, r).events = events
  BY <1>1, <1>4 DEF Person
<1> QED
  BY <1>3, <1>5, <1>6, RowFacts DEF SamePerson, Rows

LEMMA UpdatedIs ==
    ASSUME NEW row \in Rows, Used(row), NEW copy \in Person, NEW before
    PROVE  /\ Updated(row, copy, before) \in Person
           /\ SamePerson(row, Updated(row, copy, before))
           /\ Updated(row, copy, before).status = row.status
           /\ Updated(row, copy, before).events = copy.events
           /\ Updated(row, copy, before).aliases =
                 IF copy.aliases = before.aliases THEN row.aliases ELSE copy.aliases
<1>1. row \in Person
  BY RowFacts
<1> DEFINE aliases == IF copy.aliases = before.aliases THEN row.aliases ELSE copy.aliases
<1>2. aliases \in SUBSET Names /\ copy.about \in [Facts -> Told] /\ copy.events \in SUBSET Events
  BY <1>1 DEF Person
<1>3. Updated(row, copy, before) =
        [row EXCEPT !.about = copy.about, !.events = copy.events, !.aliases = aliases]
  BY DEF Updated
<1>4. Updated(row, copy, before) \in Person
  BY <1>1, <1>2, <1>3 DEF Person
<1> QED
  BY <1>1, <1>3, <1>4, RowFacts DEF Person, SamePerson, Rows

LEMMA NewRowIs ==
    ASSUME NEW e \in Events, NEW p \in Mentioned, NEW status \in {"provisional", "confirmed"}
    PROVE  /\ NewRow(e, p, status) \in Person
           /\ NewRow(e, p, status).name = p.name /\ NewRow(e, p, status).source = e
           /\ NewRow(e, p, status).status = status
BY MentionsOK DEF NewRow, Person, Statuses, Active

\* The three outcomes of a mention.
PersistMerge(e) ==
    LET i == choice[e].id
        copy == MergedRow(e, Mention(e), seen[e][i])
    IN  /\ choice[e].act = "merge"
        /\ draft' = [draft EXCEPT ![i] = Updated(draft[i], copy, seen[e][i])]
        /\ seen' = [seen EXCEPT ![e] = [seen[e] EXCEPT ![i] = copy]]
PersistNew(e) ==
    /\ choice[e].act \in {"confirm", "create"}
    /\ \E i \in Ids, status \in {"provisional", "confirmed"} :
          /\ ~Used(draft[i])
          /\ draft' = [draft EXCEPT ![i] = NewRow(e, Mention(e), status)]
          /\ seen' = [seen EXCEPT ![e] = [seen[e] EXCEPT ![i] = NewRow(e, Mention(e), status)]]
PersistNothing == draft' = draft /\ seen' = seen

LEMMA PersistCases ==
    ASSUME Inv, NEW e \in Events, Persist(e)
    PROVE  PersistMerge(e) \/ PersistNew(e) \/ PersistNothing
<1> DEFINE i == choice[e].id
           copy == MergedRow(e, Mention(e), seen[e][i])
           free == CHOOSE n \in Free(draft) : TRUE
           status == IF choice[e].act = "confirm" \/ Mention(e).doubtful
                     THEN "provisional" ELSE "confirmed"
<1>1. View(e) = draft
  BY PersistIs
<1>2. \/ /\ choice[e].act = "merge"
         /\ draft' = [draft EXCEPT ![i] = Updated(draft[i], copy, seen[e][i])]
         /\ seen' = [seen EXCEPT ![e][i] = copy]
      \/ /\ choice[e].act \in {"confirm", "create"} /\ Free(draft) # {}
         /\ draft' = [draft EXCEPT ![free] = NewRow(e, Mention(e), status)]
         /\ seen' = [seen EXCEPT ![e][free] = draft'[free]]
      \/ PersistNothing
  BY <1>1 DEF Persist, Mention, PersistNothing
<1>3. CASE /\ choice[e].act = "merge"
           /\ draft' = [draft EXCEPT ![i] = Updated(draft[i], copy, seen[e][i])]
           /\ seen' = [seen EXCEPT ![e][i] = copy]
  BY <1>3 DEF PersistMerge
<1>4. CASE /\ choice[e].act \in {"confirm", "create"} /\ Free(draft) # {}
           /\ draft' = [draft EXCEPT ![free] = NewRow(e, Mention(e), status)]
           /\ seen' = [seen EXCEPT ![e][free] = draft'[free]]
  <2>1. free \in Ids /\ ~Used(draft[free])
    <3>1. free \in Free(draft)
      BY <1>4
    <3> QED
      BY <3>1 DEF Free, Used
  <2>2. draft'[free] = NewRow(e, Mention(e), status)
    BY <1>4, <2>1 DEF Inv, Types, Table
  <2>3. status \in {"provisional", "confirmed"}
    OBVIOUS
  <2>4. seen' = [seen EXCEPT ![e] = [seen[e] EXCEPT ![free] = NewRow(e, Mention(e), status)]]
    BY <1>4, <2>2
  <2> HIDE DEF free, status
  <2> QED
    BY <1>4, <2>1, <2>3, <2>4 DEF PersistNew
<1> QED
  BY <1>2, <1>3, <1>4

\* A merge writes to a person the session knows, whoever changed it meanwhile.
LEMMA PersistMergeStep ==
    ASSUME Inv, NEW e \in Events, Persist(e), PersistMerge(e)
    PROVE  Inv'
<1> DEFINE i == choice[e].id
           copy == MergedRow(e, Mention(e), seen[e][i])
           row == Updated(draft[i], copy, seen[e][i])
<1>1. /\ i \in Ids /\ Used(seen[e][i]) /\ seen[e][i] \in Rows /\ draft[i] \in Rows
      /\ SamePerson(seen[e][i], draft[i]) /\ Mention(e) \in Mentioned
  <2>1. i \in Ids /\ Used(seen[e][i])
    BY PersistIs DEF PersistMerge, Inv, MergesKnown
  <2>2. seen[e][i] \in Rows /\ draft[i] \in Rows
    BY <2>1 DEF Inv, Types, Table
  <2>3. SamePerson(seen[e][i], draft[i])
    BY <2>1, PersistIs DEF Inv, SessionHolds, SessionInView
  <2> QED
    BY <2>1, <2>2, <2>3, PersistIs
<1>2. /\ copy \in Person /\ SamePerson(seen[e][i], copy)
      /\ seen[e][i].aliases \subseteq copy.aliases
  BY <1>1, MergedRowIs
<1>3. row \in Person /\ SamePerson(draft[i], row) /\ row.status = draft[i].status
  BY <1>1, <1>2, UpdatedIs DEF SamePerson
<1>4. /\ draft' = [draft EXCEPT ![i] = row]
      /\ seen' = [seen EXCEPT ![e] = [seen[e] EXCEPT ![i] = copy]]
  BY DEF PersistMerge
<1> HIDE DEF i, copy, row
<1>5. /\ draft \in Table /\ seen[e] \in Table /\ seen \in [Events -> Table]
      /\ draft'[i] = row /\ \A j \in Ids : j # i => draft'[j] = draft[j]
      /\ seen'[e] = [seen[e] EXCEPT ![i] = copy]
      /\ seen'[e][i] = copy /\ \A j \in Ids : j # i => seen'[e][j] = seen[e][j]
  BY <1>1, <1>4 DEF Inv, Types, Table
<1>6. draft' \in Table /\ seen'[e] \in Table
  BY <1>2, <1>3, <1>4, <1>5 DEF Table, Rows
<1>7. seen' \in [Events -> Table] /\ \A f \in Events : f # e => seen'[f] = seen[f]
  BY <1>4, <1>5, <1>6
<1>8. ASSUME NEW j \in Ids
      PROVE  /\ Used(draft[j]) =>
                    SamePerson(draft[j], draft'[j]) /\ draft'[j].status = draft[j].status
             /\ ~Used(draft[j]) => ~Used(draft'[j])
             /\ Used(index[e][j]) => /\ SamePerson(seen[e][j], seen'[e][j])
                                     /\ seen[e][j].aliases \subseteq seen'[e][j].aliases
             /\ Used(seen'[e][j]) => SamePerson(seen'[e][j], draft'[j])
  <2>1. CASE j = i
    BY <1>1, <1>2, <1>3, <1>5, <2>1 DEF SamePerson
  <2>2. CASE j # i
    BY <1>5, <2>2, PersistIs DEF Inv, SessionHolds, SessionInView, IndexInSession, SamePerson
  <2> QED
    BY <2>1, <2>2
<1>9. TwinsApart'
  <2>1. \A j \in Ids : draft'[j].status \in Active =>
            /\ draft[j].status \in Active /\ draft'[j].name = draft[j].name
            /\ draft'[j].source = draft[j].source
    BY <1>1, <1>3, <1>5 DEF SamePerson
  <2> QED
    BY <2>1, PersistIs DEF Inv, TwinsApart
<1> QED
  BY <1>6, <1>7, <1>8, <1>9, PersistKeeps

\* A new person has twins only among what runs beside this one have stored.
LEMMA PersistNewStep ==
    ASSUME Inv, NEW e \in Events, Persist(e), PersistNew(e)
    PROVE  Inv'
<1>1. PICK i \in Ids, status \in {"provisional", "confirmed"} :
        /\ ~Used(draft[i])
        /\ draft' = [draft EXCEPT ![i] = NewRow(e, Mention(e), status)]
        /\ seen' = [seen EXCEPT ![e] = [seen[e] EXCEPT ![i] = NewRow(e, Mention(e), status)]]
  BY DEF PersistNew
<1> DEFINE row == NewRow(e, Mention(e), status)
<1>2. /\ row \in Person /\ row.name = Mention(e).name /\ row.source = e
      /\ row.status = status
  BY PersistIs, NewRowIs
<1> HIDE DEF row
<1>3. /\ draft \in Table /\ seen[e] \in Table /\ seen \in [Events -> Table]
      /\ draft' = [draft EXCEPT ![i] = row]
      /\ seen' = [seen EXCEPT ![e] = [seen[e] EXCEPT ![i] = row]]
      /\ draft'[i] = row /\ \A j \in Ids : j # i => draft'[j] = draft[j]
      /\ seen'[e] = [seen[e] EXCEPT ![i] = row]
      /\ seen'[e][i] = row /\ \A j \in Ids : j # i => seen'[e][j] = seen[e][j]
  BY <1>1 DEF row, Inv, Types, Table
<1>4. draft' \in Table /\ seen'[e] \in Table
  BY <1>2, <1>3 DEF Table, Rows
<1>5. seen' \in [Events -> Table] /\ \A f \in Events : f # e => seen'[f] = seen[f]
  BY <1>3, <1>4
<1>6. ~Used(index[e][i]) /\ Used(row)
  <2>1. Used(index[e][i]) => Used(draft[i])
    BY PersistIs DEF Inv, SessionHolds, SessionInView, IndexInSession, SamePerson
  <2> QED
    BY <1>1, <1>2, <2>1, RowFacts DEF Rows
<1>7. ASSUME NEW j \in Ids
      PROVE  /\ Used(draft[j]) =>
                    SamePerson(draft[j], draft'[j]) /\ draft'[j].status = draft[j].status
             /\ ~Used(draft[j]) => ~Used(draft'[j]) \/ draft'[j].source = e
             /\ Used(index[e][j]) => /\ SamePerson(seen[e][j], seen'[e][j])
                                     /\ seen[e][j].aliases \subseteq seen'[e][j].aliases
             /\ Used(seen'[e][j]) => SamePerson(seen'[e][j], draft'[j])
  <2>1. CASE j = i
    BY <1>1, <1>2, <1>3, <1>6, <2>1 DEF SamePerson
  <2>2. CASE j # i
    BY <1>3, <2>2, PersistIs DEF Inv, SessionHolds, SessionInView, IndexInSession, SamePerson
  <2> QED
    BY <2>1, <2>2
<1>8. TwinsApart'
  <2>1. Undecisive(e) /\ View(e) = draft /\ together' = together
    BY PersistIs DEF PersistNew, Undecisive
  <2>2. ASSUME NEW j \in Ids, j # i, draft'[j].name = row.name, draft'[j].status \in Active
        PROVE  <<e, draft'[j].source>> \in together /\ <<draft'[j].source, e>> \in together
    <3>1. draft[j].source \in Events
      BY <1>3, <2>2, RowFacts, PersonFields DEF Table
    <3>2. <<e, draft[j].source>> \in together
      BY <1>2, <1>3, <2>1, <2>2 DEF Inv, NotStored
    <3>3. <<draft[j].source, e>> \in together
      BY <3>1, <3>2 DEF Inv, Overlaps
    <3> QED
      BY <1>3, <2>1, <2>2, <3>2, <3>3
  <2>3. ASSUME NEW j \in Ids, NEW k \in Ids, j # k, draft'[j].name = draft'[k].name,
               draft'[j].status \in Active, draft'[k].status \in Active
        PROVE  <<draft'[j].source, draft'[k].source>> \in together
    <3>1. CASE j = i
      BY <1>2, <1>3, <2>2, <2>3, <3>1
    <3>2. CASE k = i
      <4>1. draft'[k] = row /\ row.source = e /\ j # i
        BY <1>2, <1>3, <2>3, <3>2
      <4>2. <<draft'[j].source, e>> \in together
        BY <2>2, <2>3, <4>1
      <4> QED
        BY <4>1, <4>2
    <3>3. CASE j # i /\ k # i
      <4>1. draft'[j] = draft[j] /\ draft'[k] = draft[k]
        BY <1>3, <3>3
      <4> QED
        BY <2>3, <4>1 DEF Inv, TwinsApart
    <3> QED
      BY <3>1, <3>2, <3>3
  <2> QED
    BY <2>1, <2>3 DEF TwinsApart
<1> QED
  BY <1>4, <1>5, <1>7, <1>8, PersistKeeps

LEMMA PersistStep ==
    ASSUME Inv, NEW e \in Events, Persist(e)
    PROVE  Inv'
<1>1. CASE PersistNothing
  <2>1. TwinsApart'
    BY <1>1, PersistIs DEF PersistNothing, Inv, TwinsApart
  <2>2. /\ draft' \in Table /\ seen'[e] \in Table /\ seen' \in [Events -> Table]
        /\ \A f \in Events : f # e => seen'[f] = seen[f]
    BY <1>1 DEF PersistNothing, Inv, Types
  <2>3. ASSUME NEW i \in Ids
        PROVE  /\ Used(draft[i]) =>
                    SamePerson(draft[i], draft'[i]) /\ draft'[i].status = draft[i].status
               /\ ~Used(draft[i]) => ~Used(draft'[i])
               /\ Used(index[e][i]) => /\ SamePerson(seen[e][i], seen'[e][i])
                                       /\ seen[e][i].aliases \subseteq seen'[e][i].aliases
               /\ Used(seen'[e][i]) => SamePerson(seen'[e][i], draft'[i])
    BY <1>1, PersistIs DEF PersistNothing, Inv, SessionHolds, SessionInView, IndexInSession,
                           SamePerson
  <2> QED
    BY <2>1, <2>2, <2>3, PersistKeeps
<1> QED
  BY <1>1, PersistCases, PersistMergeStep, PersistNewStep

\* A commit shows everyone what only the writer saw; a rollback forgets it.
LEMMA FinishStep ==
    ASSUME Inv, NEW e \in Events, Finish(e)
    PROVE  Inv'
<1> DEFINE blank == [i \in Ids |-> Blank]
<1>1. /\ pc[e] = "commit" /\ pc' = [pc EXCEPT ![e] = "idle"]
      /\ index' = [index EXCEPT ![e] = blank] /\ seen' = [seen EXCEPT ![e] = blank]
      /\ UNCHANGED <<live, queue, choice, ran, together>>
      /\ \/ /\ writer = e /\ writer' = NoRun /\ db' \in {draft, db} /\ draft' = db'
         \/ writer # e /\ UNCHANGED <<db, draft, writer>>
  BY DEF Finish, Goto
<1>2. blank \in Table /\ \A i \in Ids : ~Used(blank[i])
  BY BlankRow DEF Table
<1>3. Types'
  BY <1>1, <1>2 DEF Inv, Types, Places
<1>4. RunsHold'
  <2>1. writer' # NoRun => writer' # e /\ writer' = writer
    BY <1>1
  <2>2. \A f \in Events : f # e => pc'[f] = pc[f]
    BY <1>1 DEF Inv, Types
  <2>3. pc'[e] = "idle"
    BY <1>1 DEF Inv, Types
  <2>4. writer' = NoRun => draft' = db'
    BY <1>1, EventFacts DEF Inv, RunsHold
  <2> QED
    BY <1>1, <2>1, <2>2, <2>3, <2>4 DEF Inv, Types, RunsHold
<1>5. ASSUME NEW i \in Ids
      PROVE  /\ Used(db[i]) => SamePerson(db[i], db'[i]) /\ db'[i].status = db[i].status
             /\ ~Used(db[i]) => ~Used(db'[i]) \/ db'[i].source = e
             /\ Used(draft'[i]) => draft'[i].name = draft[i].name
                                   /\ draft'[i].source = draft[i].source
                                   /\ draft'[i].status = draft[i].status
  BY <1>1 DEF Inv, DraftExtends, SamePerson
<1>6. DraftExtends'
  <2>1. CASE writer = e
    BY <1>1, <2>1 DEF DraftExtends, SamePerson
  <2>2. CASE writer # e
    BY <1>1, <2>2 DEF Inv, DraftExtends
  <2> QED
    BY <2>1, <2>2
<1>7. ASSUME NEW f \in Events, f # e
      PROVE  /\ View(f) = db \/ View(f)' = View(f)
             /\ View(f)' = db' \/ View(f)' = View(f)
             /\ pc'[f] = pc[f] /\ choice'[f] = choice[f] /\ Mention(f)' = Mention(f)
             /\ index'[f] = index[f] /\ seen'[f] = seen[f]
             /\ Undecisive(f)' <=> Undecisive(f)
  <2>1. /\ pc'[f] = pc[f] /\ choice'[f] = choice[f] /\ queue'[f] = queue[f]
        /\ index'[f] = index[f] /\ seen'[f] = seen[f]
    BY <1>1, <1>7 DEF Inv, Types
  <2>2. CASE writer = e
    BY <1>1, <1>7, <2>1, <2>2, EventFacts DEF View, Mention, Undecisive
  <2>3. CASE writer # e
    BY <1>1, <2>1, <2>3 DEF View, Mention, Undecisive
  <2> QED
    BY <2>2, <2>3
<1>8. ASSUME NEW f \in Events, f # e, NEW i \in Ids
      PROVE  /\ Used(View(f)[i]) => SamePerson(View(f)[i], View(f)'[i])
                                    /\ View(f)'[i].status = View(f)[i].status
             /\ ~Used(View(f)[i]) => ~Used(View(f)'[i]) \/ View(f)'[i].source = e
  <2>1. CASE View(f)' = View(f)
    BY <2>1 DEF SamePerson
  <2>2. CASE View(f) = db /\ View(f)' = db'
    BY <1>5, <2>2
  <2> QED
    BY <1>7, <1>8, <2>1, <2>2
<1>9. SessionHolds'
  <2> SUFFICES ASSUME NEW f \in Events, NEW i \in Ids
               PROVE  IndexInSession(f, i)' /\ SessionInView(f, i)'
    BY DEF SessionHolds
  <2>1. IndexInSession(f, i) /\ SessionInView(f, i)
    BY DEF Inv, SessionHolds
  <2>2. CASE f = e
    <3>1. index'[e] = blank /\ seen'[e] = blank
      BY <1>1 DEF Inv, Types
    <3> QED
      BY <1>2, <2>2, <3>1 DEF IndexInSession, SessionInView
  <2>3. CASE f # e
    BY <1>7, <1>8, <2>1, <2>3 DEF IndexInSession, SessionInView, SamePerson
  <2> QED
    BY <2>2, <2>3
<1>10. pc'[e] = "idle" /\ ~Undecisive(e)'
  BY <1>1 DEF Inv, Types, Undecisive
<1>11. MergesKnown' /\ NotKnown'
  BY <1>7, <1>10 DEF Inv, MergesKnown, NotKnown
<1>12. NotStored'
  <2> SUFFICES ASSUME NEW f \in Events, f # e, Undecisive(f), NEW i \in Ids,
                      View(f)'[i].status \in Active,
                      View(f)'[i].name = Mention(f).name
               PROVE  <<f, View(f)'[i].source>> \in together
    BY <1>1, <1>7, <1>10 DEF NotStored
  <2>1. CASE Used(View(f)[i])
    BY <1>8, <2>1 DEF Inv, NotStored, SamePerson
  <2>2. CASE ~Used(View(f)[i])
    <3>1. View(f)'[i].source = e
      BY <1>8, <2>2 DEF Used, Active
    <3>2. <<f, e>> \in together
      BY <1>1 DEF Inv, Overlaps, Undecisive
    <3> QED
      BY <3>1, <3>2
  <2> QED
    BY <2>1, <2>2
<1>13. Overlaps'
  <2>1. \A f \in Events : pc'[f] # "idle" => pc[f] # "idle"
    BY <1>7, <1>10
  <2> QED
    BY <1>1, <2>1 DEF Inv, Overlaps
<1>14. TwinsApart'
  <2>1. \A i \in Ids : draft'[i].status \in Active => Used(draft'[i])
    BY DEF Used, Active
  <2> QED
    BY <1>1, <1>5, <2>1 DEF Inv, TwinsApart
<1> QED
  BY <1>3, <1>4, <1>6, <1>9, <1>11, <1>12, <1>13, <1>14 DEF Inv

----------------------------------------------------------------------------
(* The user's requests *)

\* A request finds nobody writing, keeps names and sources, and makes nobody
\* active who was not.
LEMMA RequestKeeps ==
    ASSUME Inv, NEW rows \in Table, Write(rows), live' \subseteq Events,
           \A i \in Ids :
              /\ Used(db[i]) => SamePerson(db[i], rows[i])
              /\ ~Used(db[i]) => ~Used(rows[i])
              /\ rows[i].status \in Active => db[i].status \in Active
    PROVE  Inv'
<1>1. /\ writer = NoRun /\ db' = rows /\ draft' = rows /\ draft = db
      /\ UNCHANGED <<writer, pc, queue, index, seen, choice, ran, together>>
  BY DEF Write, run, Inv, RunsHold
<1>2. Types' /\ RunsHold' /\ MergesKnown' /\ Overlaps'
  BY <1>1 DEF Inv, Types, RunsHold, MergesKnown, Overlaps
<1>3. \A f \in Events : View(f) = db /\ View(f)' = rows
  BY <1>1, EventFacts DEF View
<1>4. \A f \in Events : Mention(f)' = Mention(f) /\ (Undecisive(f)' <=> Undecisive(f))
  BY <1>1 DEF Mention, Undecisive
<1>5. \A i \in Ids : rows[i].status \in Active =>
         /\ db[i].status \in Active /\ rows[i].name = db[i].name
         /\ rows[i].source = db[i].source
  BY DEF SamePerson, Used, Active
<1>6. DraftExtends'
  BY <1>1 DEF DraftExtends, SamePerson
<1>7. SessionHolds'
  <2> SUFFICES ASSUME NEW f \in Events, NEW i \in Ids
               PROVE  IndexInSession(f, i)' /\ SessionInView(f, i)'
    BY DEF SessionHolds
  <2>1. IndexInSession(f, i) /\ SessionInView(f, i)
    BY DEF Inv, SessionHolds
  <2> QED
    BY <1>1, <1>3, <2>1 DEF IndexInSession, SessionInView, SamePerson
<1>8. NotKnown'
  BY <1>1, <1>4 DEF Inv, NotKnown
<1>9. NotStored'
  BY <1>1, <1>3, <1>4, <1>5 DEF Inv, NotStored
<1>10. TwinsApart'
  BY <1>1, <1>5 DEF Inv, TwinsApart
<1> QED
  BY <1>2, <1>6, <1>7, <1>8, <1>9, <1>10 DEF Inv

LEMMA ActiveIsUsed == \A r : r.status \in Active => Used(r)
BY DEF Active, Used

LEMMA MergePeopleStep ==
    ASSUME Inv, NEW t \in Ids, NEW s \in Ids, MergePeople(t, s)
    PROVE  Inv'
<1> DEFINE about == [f \in Facts |-> IF db[t].about[f] = NoFact THEN db[s].about[f]
                                     ELSE db[t].about[f]]
           events == db[t].events \cup db[s].events \cup {db[s].source}
           aliases == IF db[s].name = db[t].name THEN db[t].aliases
                      ELSE db[t].aliases \cup {db[s].name}
           target == [db[t] EXCEPT !.about = about, !.events = events, !.aliases = aliases]
           source == [db[s] EXCEPT !.status = "merged"]
           rows == [db EXCEPT ![t] = target, ![s] = source]
<1>1. /\ db \in Table /\ db[t] \in Rows /\ db[s] \in Rows /\ live \subseteq Events
  BY DEF Inv, Types, Table
<1>2. t # s /\ db[t].status \in Active /\ db[s].status \in Active /\ live' = live
  BY DEF MergePeople
<1>3. Write(rows)
  BY <1>1, <1>2 DEF MergePeople, Table
<1>4. db[t] \in Person /\ db[s] \in Person /\ Used(db[t]) /\ Used(db[s])
  BY <1>1, <1>2, ActiveIsUsed, RowFacts
<1>5. /\ about \in [Facts -> Told] /\ events \in SUBSET Events /\ aliases \in SUBSET Names
  <2>1. /\ db[t].about \in [Facts -> Told] /\ db[s].about \in [Facts -> Told]
        /\ db[t].events \subseteq Events /\ db[s].events \subseteq Events
        /\ db[s].source \in Events /\ db[s].name \in Names
        /\ db[t].aliases \subseteq Names
    BY <1>4 DEF Person
  <2> QED
    BY <2>1
<1> HIDE DEF about, events, aliases
<1>6. /\ target \in Person /\ target.name = db[t].name /\ target.source = db[t].source
      /\ target.status = db[t].status
  BY <1>4, <1>5 DEF Person
<1>7. /\ source \in Person /\ source.name = db[s].name /\ source.source = db[s].source
      /\ source.status = "merged"
  BY <1>4 DEF Person, Statuses
<1> HIDE DEF target, source
<1>8. /\ rows \in Table /\ rows[t] = target /\ rows[s] = source
      /\ \A i \in Ids : i # t /\ i # s => rows[i] = db[i]
  BY <1>1, <1>2, <1>6, <1>7 DEF Table, Rows
<1> HIDE DEF rows
<1>9. ASSUME NEW i \in Ids
      PROVE  /\ Used(db[i]) => SamePerson(db[i], rows[i])
             /\ ~Used(db[i]) => ~Used(rows[i])
             /\ rows[i].status \in Active => db[i].status \in Active
  <2>1. CASE i = t
    BY <1>2, <1>4, <1>6, <1>8, <2>1 DEF SamePerson, Used
  <2>2. CASE i = s
    BY <1>2, <1>4, <1>7, <1>8, <2>2 DEF SamePerson, Used
  <2>3. CASE i # t /\ i # s
    BY <1>8, <2>3 DEF SamePerson
  <2> QED
    BY <2>1, <2>2, <2>3
<1> QED
  BY <1>1, <1>2, <1>3, <1>8, <1>9, RequestKeeps

LEMMA ConfirmPersonStep ==
    ASSUME Inv, NEW i \in Ids, ConfirmPerson(i)
    PROVE  Inv'
<1> DEFINE row == [db[i] EXCEPT !.status = "confirmed"]
           rows == [db EXCEPT ![i] = row]
<1>1. db \in Table /\ db[i] \in Rows /\ live \subseteq Events
  BY DEF Inv, Types, Table
<1>2. db[i].status = "provisional" /\ live' = live /\ Write(rows)
  BY DEF ConfirmPerson
<1>3. db[i] \in Person /\ Used(db[i]) /\ db[i].status \in Active
  BY <1>1, <1>2, RowFacts DEF Used, Active
<1>4. /\ row \in Person /\ row.name = db[i].name /\ row.source = db[i].source
      /\ row.status = "confirmed"
  BY <1>3 DEF Person, Statuses, Active
<1> HIDE DEF row
<1>5. rows \in Table /\ rows[i] = row /\ \A j \in Ids : j # i => rows[j] = db[j]
  BY <1>1, <1>4 DEF Table, Rows
<1> HIDE DEF rows
<1>6. ASSUME NEW j \in Ids
      PROVE  /\ Used(db[j]) => SamePerson(db[j], rows[j])
             /\ ~Used(db[j]) => ~Used(rows[j])
             /\ rows[j].status \in Active => db[j].status \in Active
  BY <1>3, <1>4, <1>5 DEF SamePerson, Used
<1> QED
  BY <1>1, <1>2, <1>5, <1>6, RequestKeeps

\* A deleted row is the same person and not active.
LEMMA GoneIs ==
    ASSUME NEW r \in Rows, Used(r)
    PROVE  Gone(r) \in Person /\ SamePerson(r, Gone(r)) /\ Gone(r).status \notin Active
<1>1. r \in Person
  BY RowFacts
<1>2. /\ Gone(r) \in Person /\ Gone(r).name = r.name /\ Gone(r).source = r.source
      /\ Gone(r).status = "gone"
  BY <1>1 DEF Gone, Person, Statuses
<1> QED
  BY <1>2 DEF SamePerson, Used, Active

LEMMA DeletePersonStep ==
    ASSUME Inv, NEW i \in Ids, DeletePerson(i)
    PROVE  Inv'
<1> DEFINE rows == [db EXCEPT ![i] = Gone(db[i])]
<1>1. db \in Table /\ db[i] \in Rows /\ live \subseteq Events
  BY DEF Inv, Types, Table
<1>2. Used(db[i]) /\ live' = live /\ Write(rows)
  BY DEF DeletePerson, Used
<1>3. Gone(db[i]) \in Person /\ SamePerson(db[i], Gone(db[i])) /\ Gone(db[i]).status \notin Active
  BY <1>1, <1>2, GoneIs
<1>4. rows \in Table /\ rows[i] = Gone(db[i]) /\ \A j \in Ids : j # i => rows[j] = db[j]
  BY <1>1, <1>3 DEF Table, Rows
<1> HIDE DEF rows
<1>5. ASSUME NEW j \in Ids
      PROVE  /\ Used(db[j]) => SamePerson(db[j], rows[j])
             /\ ~Used(db[j]) => ~Used(rows[j])
             /\ rows[j].status \in Active => db[j].status \in Active
  BY <1>2, <1>3, <1>4 DEF SamePerson
<1> QED
  BY <1>1, <1>2, <1>4, <1>5, RequestKeeps

\* A row that is not in use has no event as its source.
LEMMA DeleteEventStep ==
    ASSUME Inv, NEW e \in Events, DeleteEvent(e)
    PROVE  Inv'
<1> DEFINE rows == [i \in Ids |-> IF db[i].source = e THEN Gone(db[i]) ELSE db[i]]
<1>1. db \in Table /\ (\A i \in Ids : db[i] \in Rows) /\ live \subseteq Events
  BY DEF Inv, Types, Table
<1>2. live' = live \ {e} /\ Write(rows)
  BY DEF DeleteEvent
<1>3. ASSUME NEW i \in Ids
      PROVE  /\ rows[i] \in Rows
             /\ Used(db[i]) => SamePerson(db[i], rows[i])
             /\ ~Used(db[i]) => ~Used(rows[i])
             /\ rows[i].status \in Active => db[i].status \in Active
  <2>1. CASE db[i].source = e
    <3>1. Used(db[i])
      BY <1>1, <2>1, RowFacts, EventFacts
    <3> QED
      BY <1>1, <2>1, <3>1, GoneIs DEF Rows
  <2>2. CASE db[i].source # e
    BY <1>1, <2>2 DEF SamePerson
  <2> QED
    BY <2>1, <2>2
<1>4. rows \in Table
  BY <1>3 DEF Table
<1> QED
  BY <1>1, <1>2, <1>3, <1>4, RequestKeeps

----------------------------------------------------------------------------
(* The theorems *)

LEMMA InvNext == Inv /\ [Next]_vars => Inv'
<1> SUFFICES ASSUME Inv, [Next]_vars PROVE Inv'
  OBVIOUS
<1>1. CASE UNCHANGED vars
  <2>1. UNCHANGED <<live, db, draft, writer, pc, queue, index, seen, choice, together>>
    BY <1>1 DEF vars, run
  <2>2. \A e \in Events : View(e)' = View(e) /\ Mention(e)' = Mention(e)
                          /\ (Undecisive(e)' <=> Undecisive(e))
    BY <2>1 DEF View, Mention, Undecisive
  <2>3. Types' /\ RunsHold' /\ DraftExtends' /\ MergesKnown' /\ Overlaps' /\ TwinsApart'
    BY <2>1 DEF Inv, Types, RunsHold, DraftExtends, MergesKnown, Overlaps, TwinsApart
  <2>4. SessionHolds' /\ NotKnown' /\ NotStored'
    BY <2>1, <2>2 DEF Inv, SessionHolds, IndexInSession, SessionInView, NotKnown, NotStored
  <2> QED
    BY <2>3, <2>4 DEF Inv
<1>2. ASSUME NEW e \in Events, Run(e) \/ DeleteEvent(e) PROVE Inv'
  BY <1>2, ExtractStep, LoadIndexStep, ResolveStep, AskModelStep, PersistStep, FinishStep,
     DeleteEventStep DEF Run
<1>3. ASSUME NEW i \in Ids, ConfirmPerson(i) \/ DeletePerson(i) PROVE Inv'
  BY <1>3, ConfirmPersonStep, DeletePersonStep
<1>4. ASSUME NEW t \in Ids, NEW s \in Ids, MergePeople(t, s) PROVE Inv'
  BY <1>4, MergePeopleStep
<1> QED
  BY <1>1, <1>2, <1>3, <1>4 DEF Next

LEMMA InvAlways == Spec => []Inv
BY InvInit, InvNext, PTL DEF Spec

\* The types, as the runs check them.
LEMMA RowTypes == ASSUME NEW r \in Rows PROVE IsRow(r)
<1>1. CASE r = Blank
  BY <1>1 DEF IsRow, Blank, Statuses
<1>2. CASE r \in Person
  BY <1>2 DEF IsRow, Person
<1> QED
  BY <1>1, <1>2 DEF Rows

LEMMA InvTypes == Inv => TypeOK
<1> SUFFICES ASSUME Inv PROVE TypeOK
  OBVIOUS
<1>1. /\ \A i \in Ids : db[i] \in Rows /\ draft[i] \in Rows
      /\ \A e \in Events : \A i \in Ids : index[e][i] \in Rows /\ seen[e][i] \in Rows
  BY DEF Inv, Types, Table
<1> QED
  BY <1>1, RowTypes DEF Inv, Types, RunsHold, TypeOK

\* Every row, of the database, of the writer and of every session, has the
\* fields and the statuses of the entities table, and only a run past its index
\* holds the lock.
THEOREM TypeCorrect == Spec => []TypeOK
BY InvAlways, InvTypes, PTL

\* Committed twins are the draft's: the writer removes nobody and renames nobody.
LEMMA InvTwins == Inv => TwinsOverlapped
<1> SUFFICES ASSUME Inv, NEW i \in Ids, NEW j \in Ids, i # j, db[i].name = db[j].name,
                    db[i].status \in Active, db[j].status \in Active
             PROVE  <<db[i].source, db[j].source>> \in together
  BY DEF TwinsOverlapped
<1>1. \A k \in {i, j} : SamePerson(db[k], draft[k]) /\ draft[k].status = db[k].status
  BY ActiveIsUsed DEF Inv, DraftExtends
<1> QED
  BY <1>1 DEF Inv, TwinsApart, SamePerson

\* Two active people of one name come from two runs that overlapped: a run that
\* begins after another has ended stores nobody anew whom that one stored.
THEOREM TwinsOverlap == Spec => []TwinsOverlapped
BY InvAlways, InvTwins, PTL

\* So no event has twins of its own, whatever it names twice and however often
\* it is processed again.
OneOfEachName ==
    \A i, j \in Ids :
        /\ i # j /\ db[i].name = db[j].name
        /\ db[i].status \in Active /\ db[j].status \in Active
        => db[i].source # db[j].source

THEOREM NoTwinsOfOneEvent == Spec => []OneOfEachName
<1>1. Inv => OneOfEachName
  <2> SUFFICES ASSUME Inv, NEW i \in Ids, NEW j \in Ids, i # j, db[i].name = db[j].name,
                      db[i].status \in Active, db[j].status \in Active,
                      db[i].source = db[j].source
               PROVE  FALSE
    BY DEF OneOfEachName
  <2>1. <<db[i].source, db[j].source>> \in together
    BY InvTwins DEF TwinsOverlapped
  <2>2. db[i].source \in Events
    BY ActiveIsUsed, PersonFields DEF Inv, Types, Table
  <2> QED
    BY <2>1, <2>2 DEF Inv, Overlaps
<1> QED
  BY <1>1, InvAlways, PTL

\* Only Persist leaves "write", and only Resolve goes there from "resolve".
LEMMA WhoMoves ==
    ASSUME Inv, [Next]_vars, NEW e \in Events, pc'[e] # pc[e]
    PROVE  /\ pc[e] = "write" => Persist(e)
           /\ pc[e] = "resolve" => Resolve(e)
<1>1. \A f \in Events : Run(f) => f = e \/ pc'[e] = pc[e]
  BY DEF Run, Extract, LoadIndex, Resolve, AskModel, Persist, Finish, Done, Goto, Inv, Types
<1>2. Run(e)
  <2>1. Next /\ pc' # pc
    BY DEF vars, run
  <2>2. \A rows : Write(rows) => pc' = pc
    BY DEF Write, run
  <2>3. PICK f \in Events : Run(f)
    BY <2>1, <2>2 DEF Next, DeleteEvent, ConfirmPerson, DeletePerson, MergePeople
  <2> QED
    BY <1>1, <2>3
<1> QED
  BY <1>2 DEF Run, Extract, LoadIndex, Resolve, AskModel, Persist, Finish

\* A mention is stored as a new person only under a name the run did not know
\* when it loaded its index.
THEOREM KnownFound == Spec => KnownPeopleAreFound
<1> DEFINE A == \A e \in Events, i \in Ids :
                   /\ pc[e] = "write" /\ pc'[e] # "write"
                   /\ draft[i].status = "unused" /\ draft'[i].status \in Active
                   => \A j \in Ids : index[e][j].name # draft'[i].name
<1>1. Inv /\ [Next]_vars => A
  <2> SUFFICES ASSUME Inv, [Next]_vars, NEW e \in Events, NEW i \in Ids,
                      pc[e] = "write", pc'[e] # "write",
                      draft[i].status = "unused", draft'[i].status \in Active
               PROVE  \A j \in Ids : index[e][j].name # draft'[i].name
    OBVIOUS
  <2>1. Persist(e)
    BY WhoMoves
  <2>2. draft \in Table
    BY DEF Inv, Types
  <2>3. CASE PersistMerge(e)
    <3> DEFINE k == choice[e].id
    <3>1. k \in Ids /\ Used(seen[e][k]) /\ SamePerson(seen[e][k], draft[k])
      BY <2>1, <2>3, PersistIs DEF PersistMerge, Inv, MergesKnown, SessionHolds,
                                   SessionInView
    <3>2. i # k
      BY <3>1 DEF SamePerson, Used
    <3>3. draft'[i] = draft[i]
      BY <2>2, <2>3, <3>2 DEF PersistMerge, Table
    <3> QED
      BY <3>3 DEF Active
  <2>4. CASE PersistNew(e)
    <3>1. PICK k \in Ids, status \in {"provisional", "confirmed"} :
            draft' = [draft EXCEPT ![k] = NewRow(e, Mention(e), status)]
      BY <2>4 DEF PersistNew
    <3>2. i = k
      BY <2>2, <3>1 DEF Table, Active
    <3>3. draft'[i].name = Mention(e).name
      BY <2>1, <2>2, <3>1, <3>2, PersistIs, NewRowIs DEF Table
    <3> QED
      BY <2>4, <3>3 DEF PersistNew, Undecisive, Inv, NotKnown
  <2>5. CASE PersistNothing
    BY <2>5 DEF PersistNothing, Active
  <2> QED
    BY <2>1, <2>3, <2>4, <2>5, PersistCases
<1> HIDE DEF A
<1>2. ASSUME Inv, [Next]_vars PROVE [A]_vars
  BY <1>1, <1>2
<1> USE DEF A
<1> QED
  BY <1>2, InvAlways, PTL DEF Spec, KnownPeopleAreFound

\* The UPDATE of a merge keeps the spellings and events the run had read of the
\* row.
THEOREM KeepsWhatItRead == Spec => RunKeepsWhatItRead
<1> DEFINE A == \A e \in Events, i \in Ids :
                   /\ pc[e] = "write" /\ pc'[e] # "write" /\ draft'[i] # View(e)[i]
                   => /\ seen[e][i].events \subseteq draft'[i].events
                      /\ seen[e][i].aliases \cap draft[i].aliases
                             \subseteq draft'[i].aliases
<1>1. Inv /\ [Next]_vars => A
  <2> SUFFICES ASSUME Inv, [Next]_vars, NEW e \in Events, NEW i \in Ids,
                      pc[e] = "write", pc'[e] # "write", draft'[i] # View(e)[i]
               PROVE  /\ seen[e][i].events \subseteq draft'[i].events
                      /\ seen[e][i].aliases \cap draft[i].aliases
                             \subseteq draft'[i].aliases
    OBVIOUS
  <2>1. Persist(e) /\ draft'[i] # draft[i] /\ View(e) = draft
    BY WhoMoves, PersistIs
  <2>2. draft \in Table /\ draft[i] \in Rows /\ seen[e][i] \in Rows
    BY DEF Inv, Types, Table
  <2>3. CASE PersistMerge(e)
    <3> DEFINE copy == MergedRow(e, Mention(e), seen[e][i])
    <3>1. i = choice[e].id /\ draft'[i] = Updated(draft[i], copy, seen[e][i])
      BY <2>1, <2>2, <2>3 DEF PersistMerge, Table
    <3>2. Used(seen[e][i]) /\ Used(draft[i])
      BY <2>1, <2>3, <3>1, PersistIs DEF PersistMerge, Inv, MergesKnown, SessionHolds,
                                         SessionInView, SamePerson
    <3>3. /\ copy \in Person /\ seen[e][i].aliases \subseteq copy.aliases
          /\ seen[e][i].events \subseteq copy.events
      BY <2>1, <2>2, <3>2, PersistIs, MergedRowIs
    <3>4. /\ draft'[i].events = copy.events
          /\ draft'[i].aliases = IF copy.aliases = seen[e][i].aliases THEN draft[i].aliases
                                 ELSE copy.aliases
      BY <2>2, <3>1, <3>2, <3>3, UpdatedIs
    <3> QED
      BY <3>3, <3>4
  <2>4. CASE PersistNew(e)
    <3>1. ~Used(draft[i])
      BY <2>1, <2>2, <2>4 DEF PersistNew, Table
    <3>2. seen[e][i] = Blank
      BY <2>1, <2>2, <3>1, RowFacts DEF Inv, SessionHolds, SessionInView, SamePerson
    <3>3. Blank.events = {} /\ Blank.aliases = {}
      BY DEF Blank
    <3> QED
      BY <3>2, <3>3
  <2>5. CASE PersistNothing
    BY <2>1, <2>5 DEF PersistNothing
  <2> QED
    BY <2>1, <2>3, <2>4, <2>5, PersistCases
<1> HIDE DEF A
<1>2. ASSUME Inv, [Next]_vars PROVE [A]_vars
  BY <1>1, <1>2
<1> USE DEF A
<1> QED
  BY <1>2, InvAlways, PTL DEF Spec, RunKeepsWhatItRead

\* Without the model, a mention is merged only into someone of its name, its
\* surname or its spelling, whose composite name contains its own, or whom the fuzzy comparison is sure of.
THEOREM LookalikesAsked == Spec => LookalikesAreAsked
<1> DEFINE A == \A e \in Events, i \in Ids :
                  /\ pc[e] = "resolve" /\ pc'[e] = "write"
                  /\ choice'[e] = [act |-> "merge", id |-> i]
                  => LET p == Head(queue[e]) c == seen'[e][i]
                     IN  \/ p.name = c.name \/ p.name \in c.aliases
                         \/ <<p.name, c.name>> \in Inside
                         \/ /\ Surname[p.name] # NoSurname
                            /\ \E n \in c.aliases \cup {c.name} :
                                   Surname[n] = Surname[p.name]
                         \/ Fuzzy[<<p.name, c.name>>] >= AutoMerge
<1>1. Inv /\ [Next]_vars => A
  <2> SUFFICES ASSUME Inv, [Next]_vars, NEW e \in Events, NEW i \in Ids,
                      pc[e] = "resolve", pc'[e] = "write",
                      choice'[e] = [act |-> "merge", id |-> i]
               PROVE  LET p == Mention(e) c == seen'[e][i]
                      IN  \/ p.name = c.name \/ p.name \in c.aliases
                          \/ <<p.name, c.name>> \in Inside
                          \/ /\ Surname[p.name] # NoSurname
                             /\ \E n \in c.aliases \cup {c.name} :
                                    Surname[n] = Surname[p.name]
                          \/ Fuzzy[<<p.name, c.name>>] >= AutoMerge
    BY DEF Mention
  <2>1. Resolve(e)
    BY WhoMoves
  <2>2. [act |-> "merge", id |-> i] \in Decisions(Mention(e), Compared(e))
    BY <2>1, ResolveIs DEF Inv, Types
  <2>3. PICK s \in {"exact", "synonym", "alias", "difflib", "fuzzy", "context"} :
          i \in Candidates(e) /\ Merges(s, Mention(e), Compared(e)[i])
    BY <2>2, DecisionIs, StepsAre, CandidatesAre DEF Sure
  <2>4. seen'[e][i] = Compared(e)[i]
    BY <2>1, <2>3, ResolveIs DEF Compared, Inv, Types
  <2> QED
    BY <2>3, <2>4, MergesOnEvidence
<1> HIDE DEF A
<1>2. ASSUME Inv, [Next]_vars PROVE [A]_vars
  BY <1>1, <1>2
<1> USE DEF A
<1> QED
  BY <1>2, InvAlways, PTL DEF Spec, LookalikesAreAsked
=============================================================================
