------------------------------ MODULE RunProofs ------------------------------
(***************************************************************************)
(* What holds of the rows that runs of the pipeline write beside the       *)
(* user's.  Todos: step 4 adds none that says what an open one says,       *)
(* replaces a row only by one that outranks it, and the comparison of its  *)
(* batch with itself has one outcome.  Associations: two people have one   *)
(* row of a type, the events it counts were attended by both, and what was *)
(* counted stays.  All for any number of rows, people, answers and runs.   *)
(***************************************************************************)
EXTENDS Knowledge, Sequences, FiniteSetTheorems, TLAPS

----------------------------------------------------------------------------
(* Todos *)

GenRow ==
    [title : OfTodos.Titles, priority : Generation!Priorities,
     status : Generation!Status, run : 0 .. OfTodos.MaxRuns]
GenPlaced == [title : OfTodos.Titles, priority : Generation!Priorities, place : Nat]

GenShape ==
    /\ gen_todo \in [OfTodos.Ids -> {OfTodos.NoTodo} \cup GenRow]
    /\ gen_at \in {"idle", "filter", "links", "suggest"}
    /\ gen_answer \in Seq(Generation!Generated)
    /\ gen_kept \subseteq GenPlaced /\ IsFiniteSet(gen_kept)
    /\ gen_skipped \in Nat /\ gen_runs \in 0 .. OfTodos.MaxRuns
    /\ gen_verdict \in {"none", "ok", "failed"}

\* No two of the todos to insert have one place, and all those of an answer
\* that is not compared to its end have a place before the next.
GenPlaces ==
    /\ \A g, h \in gen_kept : g.place = h.place => g = h
    /\ gen_at = "filter" /\ gen_answer # <<>> =>
          \A g \in gen_kept : g.place < gen_skipped + Cardinality(gen_kept)

\* The suggestions of step 11 have different titles.
GenTitles == gen_at = "suggest" => \A g, h \in gen_kept : g.title = h.title => g = h

GenInv == GenShape /\ GenPlaces /\ GenTitles

LEMMA GenInit == ASSUME Generation!ConstantsOK, Generation!Init PROVE GenInv
<1>1. IsFiniteSet({})
  BY FS_EmptySet
<1> QED
  BY <1>1 DEF Generation!Init, Generation!ConstantsOK, GenInv, GenShape, GenPlaces, GenTitles

\* A todo of a sequence is placed where it stands.
LEMMA GenPlace ==
    ASSUME NEW s \in Seq(Generation!Generated), NEW S \in SUBSET DOMAIN s
    PROVE  LET placed == {Generation!Placed(s[i], i) : i \in S}
           IN  /\ placed \subseteq GenPlaced /\ IsFiniteSet(placed)
               /\ \A g, h \in placed : g.place = h.place => g = h
<1> DEFINE placed == {Generation!Placed(s[i], i) : i \in S}
<1>1. DOMAIN s = 1 .. Len(s) /\ Len(s) \in Nat
  OBVIOUS
<1>2. \A i \in DOMAIN s : /\ s[i] \in Generation!Generated
                          /\ i \in Nat
  BY <1>1
<1>3. placed \subseteq GenPlaced
  BY <1>2 DEF Generation!Placed, Generation!Generated, GenPlaced
<1>4. IsFiniteSet(S)
  <2>1. IsFiniteSet(1 .. Len(s))
    BY <1>1, FS_Interval
  <2> QED
    BY <1>1, <2>1, FS_Subset
<1>5. IsFiniteSet(placed)
  <2> DEFINE f == [i \in S |-> Generation!Placed(s[i], i)]
  <2>1. f \in Surjection(S, placed)
    BY DEF Surjection
  <2> HIDE DEF f, placed
  <2> QED
    BY <1>4, <2>1, FS_Surjection
<1>6. \A g, h \in placed : g.place = h.place => g = h
  BY DEF Generation!Placed
<1> QED
  BY <1>3, <1>5, <1>6

\* The row of a new todo.
GenRowOf(g) ==
    [title |-> g.title, priority |-> g.priority, status |-> "pending", run |-> gen_runs]

\* In rows some are gone, each new todo has a row of its own, and the others are
\* what they were.
GenWrites(id, rows, gone, new) ==
    /\ \A g, h \in new : id[g] = id[h] => g = h
    /\ \A g \in new : rows[id[g]] = GenRowOf(g)
    /\ \A d \in gone : rows[d] = OfTodos.NoTodo
    /\ \A d \in Generation!Rows \ gone : rows[d] = gen_todo[d]
    /\ \A d \in Generation!Unused : (\E g \in new : d = id[g]) \/ rows[d] = gen_todo[d]

\* What is written: some rows go, each new todo gets a row of its own under an
\* id that is not used, and the others stay.
LEMMA GenWritten ==
    ASSUME GenShape, NEW gone \in SUBSET Generation!Rows, NEW new \in SUBSET GenPlaced,
           Generation!Fits(new)
    PROVE  /\ \E id \in [new -> Generation!Unused] :
                 GenWrites(id, Generation!Written(gone, new), gone, new)
           /\ Generation!Written(gone, new) \in [OfTodos.Ids -> {OfTodos.NoTodo} \cup GenRow]
<1> DEFINE id == CHOOSE f \in Generation!Injection(new, Generation!Unused) : TRUE
           W == Generation!Written(gone, new)
<1>1. /\ id \in [new -> Generation!Unused]
      /\ \A g, h \in new : id[g] = id[h] => g = h
  <2>1. id \in Generation!Injection(new, Generation!Unused)
    BY Zenon DEF Generation!Fits
  <2> HIDE DEF id
  <2> QED
    BY <2>1 DEF Generation!Injection, Generation!IsInjective
<1>2. W = [d \in OfTodos.Ids |->
             IF d \in gone THEN OfTodos.NoTodo
             ELSE IF \E g \in new : id[g] = d
             THEN GenRowOf(CHOOSE g \in new : id[g] = d) ELSE gen_todo[d]]
  BY Zenon DEF Generation!Written, GenRowOf
<1>3. /\ Generation!Unused \subseteq OfTodos.Ids /\ Generation!Rows \subseteq OfTodos.Ids
      /\ Generation!Unused \cap Generation!Rows = {}
  BY DEF Generation!Unused, Generation!Rows
<1>4. \A g \in new : GenRowOf(g) \in GenRow
  BY DEF GenShape, GenRowOf, GenRow, GenPlaced, Generation!Status, Generation!Open
<1> HIDE DEF id, W
<1>5. \A g \in new : (CHOOSE h \in new : id[h] = id[g]) = g
  BY <1>1
<1>6. \A g \in new : W[id[g]] = GenRowOf(g)
  BY <1>1, <1>2, <1>3, <1>5
<1>7. /\ \A d \in gone : W[d] = OfTodos.NoTodo
      /\ \A d \in Generation!Rows \ gone : W[d] = gen_todo[d]
      /\ \A d \in Generation!Unused : (\E g \in new : d = id[g]) \/ W[d] = gen_todo[d]
  <2>1. \A d \in gone : W[d] = OfTodos.NoTodo
    BY <1>2, <1>3
  <2>2. ASSUME NEW d \in Generation!Rows \ gone PROVE W[d] = gen_todo[d]
    <3>1. \A g \in new : id[g] # d
      BY <1>1, <1>3
    <3> QED
      BY <1>2, <1>3, <3>1
  <2>3. ASSUME NEW d \in Generation!Unused, \A g \in new : d # id[g]
        PROVE  W[d] = gen_todo[d]
    BY <1>2, <1>3, <2>3
  <2> QED
    BY <2>1, <2>2, <2>3
<1>8. W \in [OfTodos.Ids -> {OfTodos.NoTodo} \cup GenRow]
  <2>1. ASSUME NEW d \in OfTodos.Ids PROVE W[d] \in {OfTodos.NoTodo} \cup GenRow
    <3>1. CASE \E g \in new : id[g] = d
      BY <1>2, <1>4, <3>1
    <3>2. CASE ~\E g \in new : id[g] = d
      BY <1>2, <3>2 DEF GenShape
    <3> QED
      BY <3>1, <3>2
  <2> QED
    BY <1>2, <2>1
<1> QED
  <2>1. GenWrites(id, W, gone, new)
    BY <1>1, <1>6, <1>7, Zenon DEF GenWrites
  <2> QED
    BY <1>1, <1>8, <2>1, Zenon DEF W

LEMMA GenFilters ==
    ASSUME GenInv, Generation!Filter
    PROVE  GenInv'
<1>1. /\ gen_answer \in Seq(Generation!Generated) /\ gen_answer # <<>>
      /\ Head(gen_answer) \in Generation!Generated
      /\ gen_answer' = Tail(gen_answer) /\ gen_answer' \in Seq(Generation!Generated)
  BY DEF Generation!Filter, GenInv, GenShape
<1>2. /\ gen_at = "filter" /\ gen_at' = "filter" /\ gen_runs' = gen_runs
      /\ gen_todo' = gen_todo /\ gen_verdict' = gen_verdict
  BY DEF Generation!Filter
<1>3. Cardinality(gen_kept) \in Nat
  BY FS_CardinalityType DEF GenInv, GenShape
<1>4. \A g \in gen_kept : g.place < gen_skipped + Cardinality(gen_kept)
  BY <1>1, <1>2 DEF GenInv, GenPlaces
<1>5. CASE gen_skipped' = gen_skipped + 1 /\ gen_kept' = gen_kept
  <2>1. gen_skipped' \in Nat
    BY <1>5 DEF GenInv, GenShape
  <2>2. \A g \in gen_kept : g.place < gen_skipped' + Cardinality(gen_kept)
    <3>1. ASSUME NEW g \in gen_kept PROVE g.place < gen_skipped' + Cardinality(gen_kept)
      <4>1. g.place \in Nat /\ gen_skipped \in Nat
        BY DEF GenInv, GenShape, GenPlaced
      <4> QED
        BY <1>3, <1>4, <1>5, <4>1
    <3> QED
      BY <3>1
  <2> QED
    BY <1>1, <1>2, <1>5, <2>1, <2>2 DEF GenInv, GenShape, GenPlaces, GenTitles
<1>6. CASE /\ gen_skipped' = gen_skipped
           /\ gen_kept' = gen_kept \cup
                {Generation!Placed(Head(gen_answer), gen_skipped + Cardinality(gen_kept))}
  <2> DEFINE n == gen_skipped + Cardinality(gen_kept)
             new == Generation!Placed(Head(gen_answer), n)
  <2>1. n \in Nat /\ new \in GenPlaced /\ new.place = n
    <3>1. n \in Nat
      BY <1>3 DEF GenInv, GenShape
    <3> HIDE DEF n
    <3> QED
      BY <1>1, <3>1 DEF GenPlaced, Generation!Placed, Generation!Generated
  <2>2. gen_kept' = gen_kept \cup {new} /\ new \notin gen_kept
    <3>1. gen_kept' = gen_kept \cup {new}
      BY <1>6, Zenon DEF Generation!Cardinality, Cardinality
    <3>2. \A g \in gen_kept : g.place < n
      BY <1>4
    <3> HIDE DEF new, n
    <3> QED
      BY <2>1, <3>1, <3>2
  <2>3. \A g, h \in gen_kept' : g.place = h.place => g = h
    <3>1. \A g \in gen_kept : g.place < n
      BY <1>4
    <3>2. \A g, h \in gen_kept : g.place = h.place => g = h
      BY DEF GenInv, GenPlaces
    <3> HIDE DEF new, n
    <3> QED
      BY <2>1, <2>2, <3>1, <3>2
  <2>4. IsFiniteSet(gen_kept') /\ Cardinality(gen_kept') = Cardinality(gen_kept) + 1
    <3>1. IsFiniteSet(gen_kept)
      BY DEF GenInv, GenShape
    <3> HIDE DEF new
    <3> QED
      BY <2>2, <3>1, FS_AddElement
  <2>5. \A g \in gen_kept' : g.place < gen_skipped' + Cardinality(gen_kept')
    <3>1. ASSUME NEW g \in gen_kept' PROVE g.place < gen_skipped' + Cardinality(gen_kept')
      <4>1. gen_skipped' + Cardinality(gen_kept') = n + 1
        BY <1>3, <1>6, <2>4 DEF GenInv, GenShape
      <4>2. g.place \in Nat
        <5> HIDE DEF new, n
        <5> QED
          BY <2>1, <2>2 DEF GenInv, GenShape, GenPlaced
      <4>3. g.place < n \/ g.place = n
        BY <1>4, <2>1, <2>2
      <4> HIDE DEF n
      <4> QED
        BY <2>1, <4>1, <4>2, <4>3
    <3> QED
      BY <3>1
  <2>6. GenShape'
    <3> HIDE DEF new, n
    <3> QED
      BY <1>1, <1>2, <1>6, <2>1, <2>2, <2>4 DEF GenInv, GenShape
  <2>7. GenPlaces' /\ GenTitles'
    BY <1>2, <2>3, <2>5 DEF GenPlaces, GenTitles
  <2> QED
    BY <2>6, <2>7 DEF GenInv
<1> QED
  BY <1>5, <1>6, Zenon DEF Generation!Filter, Generation!Cardinality, Cardinality

\* The suggestions: one for each title.
LEMMA GenSuggests ==
    ASSUME Generation!ConstantsOK, GenInv, Generation!ReadLinks PROVE GenInv'
<1>1. PICK s \in OfTodos.Links :
         /\ gen_answer' = s
         /\ gen_kept' = {Generation!Placed(s[i], i) : i \in Generation!NotPending(s)}
  BY Zenon DEF Generation!ReadLinks
<1>2. s \in Seq(Generation!Generated)
  BY DEF Generation!ConstantsOK
<1>3. Generation!NotPending(s) \subseteq DOMAIN s
  BY DEF Generation!NotPending
<1>4. /\ gen_kept' \subseteq GenPlaced /\ IsFiniteSet(gen_kept')
      /\ \A g, h \in gen_kept' : g.place = h.place => g = h
  BY <1>1, <1>2, <1>3, GenPlace, Zenon
<1>5. \A i, j \in Generation!NotPending(s) : s[i].title = s[j].title => i = j
  <2>1. ASSUME NEW i \in Generation!NotPending(s), NEW j \in Generation!NotPending(s),
               s[i].title = s[j].title
        PROVE  i = j
    <3>1. i <= j /\ j <= i
      BY <2>1 DEF Generation!NotPending
    <3>2. i \in Nat /\ j \in Nat
      BY <1>2, <1>3
    <3> QED
      BY <3>1, <3>2
  <2> QED
    BY <2>1
<1>6. \A g, h \in gen_kept' : g.title = h.title => g = h
  BY <1>1, <1>5 DEF Generation!Placed
<1> QED
  BY <1>1, <1>2, <1>4, <1>6 DEF Generation!ReadLinks, GenInv, GenShape, GenPlaces, GenTitles

\* Step 4 deletes rows that exist, and keeps some of what is generated.
LEMMA GenPersists ==
    ASSUME GenInv, Generation!Persist
    PROVE  \E best \in [Generation!Capped(gen_kept) -> OfTodos.Ids \cup {OfTodos.NoTodo}] :
           \E stay \in SUBSET Generation!Surviving(best) :
             /\ Generation!Matched(best)
             /\ Generation!WithinBatch(stay, Generation!Surviving(best))
             /\ Generation!Fits(stay)
             /\ gen_todo' = Generation!Written(Generation!Replaced(best), stay)
             /\ Generation!Capped(gen_kept) \subseteq gen_kept
             /\ DOMAIN best = Generation!Capped(gen_kept)
             /\ stay \subseteq GenPlaced
             /\ Generation!Replaced(best) \subseteq Generation!Rows
<1>1. PICK best \in [Generation!Capped(gen_kept) -> OfTodos.Ids \cup {OfTodos.NoTodo}] :
        /\ Generation!Matched(best)
        /\ \E stay \in SUBSET Generation!Surviving(best) :
              /\ Generation!WithinBatch(stay, Generation!Surviving(best))
              /\ Generation!Fits(stay)
              /\ gen_todo' = Generation!Written(Generation!Replaced(best), stay)
  BY Zenon DEF Generation!Persist
<1>2. PICK stay \in SUBSET Generation!Surviving(best) :
        /\ Generation!WithinBatch(stay, Generation!Surviving(best))
        /\ Generation!Fits(stay)
        /\ gen_todo' = Generation!Written(Generation!Replaced(best), stay)
  BY <1>1
<1>3. Generation!Capped(gen_kept) \subseteq gen_kept
      /\ DOMAIN best = Generation!Capped(gen_kept)
  BY DEF Generation!Capped
<1>4. stay \subseteq GenPlaced
  BY <1>3 DEF Generation!Surviving, GenInv, GenShape
<1>5. Generation!Replaced(best) \subseteq Generation!Rows
  <2>1. ASSUME NEW g \in DOMAIN best, best[g] # OfTodos.NoTodo
        PROVE  best[g] \in Generation!BestMatches(g)
    BY <1>1, <2>1, Zenon DEF Generation!Matched
  <2>2. \A g : Generation!BestMatches(g) \subseteq Generation!Rows
    BY DEF Generation!BestMatches, Generation!SimilarRows, Generation!Holding
  <2> QED
    BY <2>1, <2>2 DEF Generation!Replaced
<1> QED
  BY <1>1, <1>2, <1>3, <1>4, <1>5

\* What is over leaves nothing to insert.
LEMMA GenEmpty ==
    ASSUME GenShape, gen_kept' = {}, gen_at' \in {"idle", "filter", "links"},
           gen_answer' \in Seq(Generation!Generated),
           gen_skipped' \in Nat, gen_runs' \in 0 .. OfTodos.MaxRuns,
           gen_verdict' \in {"none", "ok", "failed"},
           gen_todo' \in [OfTodos.Ids -> {OfTodos.NoTodo} \cup GenRow]
    PROVE  GenInv'
<1>1. IsFiniteSet({})
  BY FS_EmptySet
<1> QED
  BY <1>1 DEF GenInv, GenShape, GenPlaces, GenTitles

LEMMA GenNext ==
    ASSUME Generation!ConstantsOK, GenInv, [Generation!Next]_(Generation!vars)
    PROVE  GenInv'
<1>1. CASE Generation!Generate
  <2>1. /\ gen_at' = "filter" /\ gen_skipped' = 0 /\ gen_todo' = gen_todo
        /\ gen_runs' \in 0 .. OfTodos.MaxRuns /\ gen_verdict' = gen_verdict
    BY <1>1 DEF Generation!ConstantsOK, Generation!Generate, GenInv, GenShape
  <2>2. CASE \E a \in OfTodos.Answers : gen_answer' = a /\ gen_kept' = {}
    <3>1. gen_answer' \in Seq(Generation!Generated)
      BY <2>2 DEF Generation!ConstantsOK
    <3> QED
      BY <2>1, <2>2, <3>1, GenEmpty DEF GenInv, GenShape
  <2>3. CASE \E f \in OfTodos.Fallbacks :
               /\ gen_answer' = <<>>
               /\ gen_kept' = {Generation!Placed(f[i], i) : i \in DOMAIN f}
    <3>1. PICK f \in OfTodos.Fallbacks :
            /\ gen_answer' = <<>>
            /\ gen_kept' = {Generation!Placed(f[i], i) : i \in DOMAIN f}
      BY <2>3
    <3>2. f \in Seq(Generation!Generated)
      BY DEF Generation!ConstantsOK
    <3>3. /\ gen_kept' \subseteq GenPlaced /\ IsFiniteSet(gen_kept')
          /\ \A g, h \in gen_kept' : g.place = h.place => g = h
      BY <3>1, <3>2, GenPlace, Zenon
    <3> QED
      BY <2>1, <3>1, <3>3 DEF GenInv, GenShape, GenPlaces, GenTitles
  <2> QED
    BY <1>1, <2>2, <2>3, Zenon DEF Generation!Generate
<1>2. CASE Generation!Filter
  BY <1>2, GenFilters
<1>3. CASE Generation!Persist
  <2>0. PICK best \in [Generation!Capped(gen_kept) -> OfTodos.Ids \cup {OfTodos.NoTodo}] :
          \E stay \in SUBSET Generation!Surviving(best) :
          /\ Generation!Fits(stay) /\ stay \subseteq GenPlaced
          /\ gen_todo' = Generation!Written(Generation!Replaced(best), stay)
          /\ Generation!Replaced(best) \subseteq Generation!Rows
    BY <1>3, GenPersists
  <2>1. PICK stay \in SUBSET Generation!Surviving(best) :
          /\ Generation!Fits(stay) /\ stay \subseteq GenPlaced
          /\ gen_todo' = Generation!Written(Generation!Replaced(best), stay)
          /\ Generation!Replaced(best) \subseteq Generation!Rows
    BY <2>0
  <2>2. gen_todo' \in [OfTodos.Ids -> {OfTodos.NoTodo} \cup GenRow]
    BY <2>1, GenWritten DEF GenInv
  <2> QED
    BY <1>3, <2>2, GenEmpty DEF Generation!Persist, GenInv, GenShape
<1>4. CASE Generation!PersistFails
  BY <1>4, GenEmpty DEF Generation!PersistFails, GenInv, GenShape
<1>5. CASE Generation!ReadLinks
  BY <1>5, GenSuggests
<1>6. CASE Generation!Suggest
  <2>1. gen_todo' \in [OfTodos.Ids -> {OfTodos.NoTodo} \cup GenRow]
    <3>1. {} \in SUBSET Generation!Rows /\ gen_kept \in SUBSET GenPlaced
      BY DEF GenInv, GenShape
    <3>2. Generation!Fits(gen_kept) /\ gen_todo' = Generation!Written({}, gen_kept)
      BY <1>6 DEF Generation!Suggest
    <3> QED
      BY <3>1, <3>2, GenWritten DEF GenInv
  <2> QED
    BY <1>6, <2>1, GenEmpty DEF Generation!Suggest, GenInv, GenShape
<1>7. ASSUME NEW d \in OfTodos.Ids, NEW to \in Generation!Status, Generation!Move(d, to)
      PROVE  GenInv'
  <2>1. gen_todo' \in [OfTodos.Ids -> {OfTodos.NoTodo} \cup GenRow]
    <3>1. gen_todo[d] \in GenRow
      BY <1>7 DEF Generation!Move, Generation!Rows, GenInv, GenShape
    <3>2. [gen_todo[d] EXCEPT !.status = to] \in GenRow
      BY <3>1 DEF GenRow
    <3> QED
      BY <1>7, <3>2 DEF Generation!Move, GenInv, GenShape
  <2> QED
    BY <1>7, <2>1 DEF Generation!Move, GenInv, GenShape, GenPlaces, GenTitles
<1>8. CASE UNCHANGED Generation!vars
  BY <1>8 DEF Generation!vars, GenInv, GenShape, GenPlaces, GenTitles
<1> QED
  BY <1>1, <1>2, <1>3, <1>4, <1>5, <1>6, <1>7, <1>8, Zenon DEF Generation!Next

\* Only steps 4 and 11 insert, and only step 4 deletes.
LEMMA GenWho ==
    ASSUME GenInv, [Generation!Next]_(Generation!vars), NEW d \in OfTodos.Ids,
           (gen_todo[d] = OfTodos.NoTodo) # (gen_todo'[d] = OfTodos.NoTodo),
           Generation!ConstantsOK
    PROVE  \/ gen_at = "filter" /\ Generation!Persist
           \/ /\ gen_at = "suggest" /\ Generation!Suggest
              /\ gen_todo[d] = OfTodos.NoTodo
<1>1. \/ UNCHANGED Generation!vars \/ Generation!Generate \/ Generation!Filter
      \/ Generation!PersistFails \/ Generation!ReadLinks
      => gen_todo' = gen_todo
  BY DEF Generation!vars, Generation!Generate, Generation!Filter,
     Generation!PersistFails, Generation!ReadLinks
<1>2. ASSUME NEW e \in OfTodos.Ids, NEW to \in Generation!Status, Generation!Move(e, to)
      PROVE  FALSE
  <2>1. gen_todo[e] \in GenRow
    BY <1>2 DEF Generation!Move, Generation!Rows, GenInv, GenShape
  <2>2. [gen_todo[e] EXCEPT !.status = to] \in GenRow
    BY <2>1 DEF GenRow
  <2>3. OfTodos.NoTodo \notin GenRow
    BY DEF Generation!ConstantsOK, GenRow
  <2>4. gen_todo' = [gen_todo EXCEPT ![e] = [gen_todo[e] EXCEPT !.status = to]]
    BY <1>2 DEF Generation!Move
  <2>5. (gen_todo[d] = OfTodos.NoTodo) <=> (gen_todo'[d] = OfTodos.NoTodo)
    BY <2>1, <2>2, <2>3, <2>4 DEF GenInv, GenShape
  <2> QED
    BY <2>5
<1>3. Generation!Persist => gen_at = "filter"
  BY DEF Generation!Persist
<1>4. ASSUME Generation!Suggest
      PROVE  gen_at = "suggest" /\ gen_todo[d] = OfTodos.NoTodo
  <2>1. {} \in SUBSET Generation!Rows /\ gen_kept \in SUBSET GenPlaced
    BY DEF GenInv, GenShape
  <2>2. /\ gen_at = "suggest" /\ Generation!Fits(gen_kept)
        /\ gen_todo' = Generation!Written({}, gen_kept)
    BY <1>4 DEF Generation!Suggest
  <2>3. \A e \in Generation!Rows : gen_todo'[e] = gen_todo[e]
    <3> DEFINE gone == {}
               W == Generation!Written(gone, gen_kept)
    <3>1. gone \in SUBSET Generation!Rows /\ gen_todo' = W
      BY <2>1, <2>2
    <3>2. \A e : e \notin gone
      OBVIOUS
    <3> HIDE DEF gone
    <3>3. \A e \in Generation!Rows \ gone : W[e] = gen_todo[e]
      BY <2>1, <2>2, <3>1, GenWritten DEF GenInv, GenWrites
    <3> QED
      BY <3>1, <3>2, <3>3
  <2> QED
    BY <2>2, <2>3 DEF Generation!Rows
<1> QED
  BY <1>1, <1>2, <1>3, <1>4, Zenon DEF Generation!Next

\* Of todos with places of their own one comes before the other.
LEMMA GenOrder ==
    ASSUME NEW g \in GenPlaced, NEW h \in GenPlaced, g.place # h.place
    PROVE  Generation!Before(g, h) \/ Generation!Before(h, g)
<1>1. /\ g.place \in Nat /\ h.place \in Nat
      /\ g.priority \in Nat /\ h.priority \in Nat
  BY DEF GenPlaced, Generation!Priorities
<1> QED
  BY <1>1 DEF Generation!Before

\* A set of natural numbers that is not empty has a least one.
LEMMA NatBelow ==
    ASSUME NEW x \in Nat, NEW y \in Nat, y < x
    PROVE  <<y, x>> \in OpToRel(<, Nat)
<1> DEFINE p == <<y, x>>
<1>1. p \in Nat \X Nat /\ p[1] = y /\ p[2] = x
  OBVIOUS
<1>2. p[1] < p[2]
  BY <1>1
<1> HIDE DEF p
<1>3. p \in {ss \in Nat \X Nat : ss[1] < ss[2]}
  BY <1>1, <1>2
<1>4. p \in OpToRel(<, Nat)
  BY <1>3, Zenon DEF OpToRel
<1> QED
  BY <1>4 DEF p

LEMMA LeastOf ==
    ASSUME NEW T, T \subseteq Nat, T # {}
    PROVE  \E x \in T : \A y \in T : x <= y
<1>1. PICK x \in T : \A y \in T : ~ (<<y, x>> \in OpToRel(<, Nat))
  BY NatLessThanWellFounded, WFMin, Zenon
<1>2. \A y \in T : ~ (y < x)
  <2> SUFFICES ASSUME NEW y \in T, y < x PROVE FALSE
    BY Zenon
  <2>1. y \in Nat /\ x \in Nat
    OBVIOUS
  <2>2. <<y, x>> \in OpToRel(<, Nat)
    BY <2>1, NatBelow, Zenon
  <2> QED
    BY <2>2, <1>1, Zenon
<1> HIDE <1>1
<1> QED
  BY <1>2

\* A todo that is similar to an open row has a best match.
LEMMA GenMatches ==
    ASSUME Generation!ConstantsOK, GenInv, NEW g \in gen_kept,
           Generation!SimilarRows(g) # {}
    PROVE  Generation!BestMatches(g) # {}
<1> DEFINE far(d) == Generation!Whole - OfTodos.Likeness[<<g.title, gen_todo[d].title>>]
           T == {far(d) : d \in Generation!SimilarRows(g)}
<1>1. ASSUME NEW d \in Generation!SimilarRows(g)
      PROVE  /\ far(d) \in Nat /\ Generation!Whole \in Nat
             /\ OfTodos.Likeness[<<g.title, gen_todo[d].title>>] \in Nat
  <2>1. <<g.title, gen_todo[d].title>> \in OfTodos.Titles \X OfTodos.Titles
    BY DEF Generation!SimilarRows, Generation!Holding, Generation!Rows,
       GenInv, GenShape, GenPlaced, GenRow
  <2>2. OfTodos.Likeness[<<g.title, gen_todo[d].title>>] \in 0 .. Generation!Whole
    BY <2>1 DEF Generation!ConstantsOK
  <2>3. Generation!Whole \in Nat
    BY DEF Generation!Whole
  <2> QED
    BY <2>2, <2>3
<1>2. T \subseteq Nat /\ T # {}
  BY <1>1
<1>3. PICK x \in T : \A y \in T : x <= y
  <2> HIDE DEF T
  <2> QED
    BY <1>2, LeastOf
<1>4. PICK d \in Generation!SimilarRows(g) : x = far(d)
  BY <1>3
<1>5. ASSUME NEW e \in Generation!SimilarRows(g)
      PROVE  OfTodos.Likeness[<<g.title, gen_todo[e].title>>]
                 <= OfTodos.Likeness[<<g.title, gen_todo[d].title>>]
  <2> DEFINE p == OfTodos.Likeness[<<g.title, gen_todo[d].title>>]
             q == OfTodos.Likeness[<<g.title, gen_todo[e].title>>]
             w == Generation!Whole
  <2>1. w - p <= w - q
    BY <1>3, <1>4
  <2>2. p \in Nat /\ q \in Nat /\ w \in Nat
    BY <1>1
  <2> HIDE DEF p, q, w
  <2>3. q <= p
    BY <2>1, <2>2
  <2> QED
    BY <2>3 DEF p, q
<1> QED
  BY <1>4, <1>5 DEF Generation!BestMatches

\* A new todo that survives beside a row it is near to has replaced another
\* that it is no further from.
LEMMA GenSurvivor ==
    ASSUME Generation!ConstantsOK, GenInv,
           NEW best, DOMAIN best \subseteq gen_kept, Generation!Matched(best),
           NEW g \in Generation!Surviving(best),
           NEW k \in Generation!Holding(Generation!Open),
           Generation!Near(g.title, gen_todo[k].title)
    PROVE  \E b \in Generation!Holding(Generation!Open) :
              /\ b \in Generation!Replaced(best)
              /\ g.priority < gen_todo[b].priority
              /\ OfTodos.Likeness[<<g.title, gen_todo[k].title>>]
                     <= OfTodos.Likeness[<<g.title, gen_todo[b].title>>]
<1> DEFINE like(d) == OfTodos.Likeness[<<g.title, gen_todo[d].title>>]
<1>1. /\ g \in DOMAIN best /\ g \in gen_kept
      /\ best[g] = OfTodos.NoTodo \/ Generation!Survives(g, best[g])
  BY DEF Generation!Surviving
<1>2. ASSUME NEW d \in Generation!Holding(Generation!Open) PROVE like(d) \in Nat
  <2>1. <<g.title, gen_todo[d].title>> \in OfTodos.Titles \X OfTodos.Titles
    BY <1>1 DEF Generation!Holding, Generation!Rows, GenInv, GenShape, GenPlaced, GenRow
  <2>2. like(d) \in 0 .. Generation!Whole
    BY <2>1 DEF Generation!ConstantsOK
  <2>3. Generation!Whole \in Nat
    BY DEF Generation!Whole
  <2> QED
    BY <2>2, <2>3
<1>3. k \in Generation!SimilarRows(g)
  <2>1. like(k) \in Nat /\ like(k) >= 90
    BY <1>2 DEF Generation!Near
  <2>2. like(k) > 60
    BY <2>1
  <2> QED
    BY <2>2 DEF Generation!SimilarRows, Generation!Similar
<1>4. best[g] \in Generation!BestMatches(g)
  BY <1>1, <1>3, GenMatches DEF Generation!Matched
<1> DEFINE b == best[g]
<1>5. b \in Generation!Holding(Generation!Open) /\ like(k) <= like(b)
  BY <1>3, <1>4 DEF Generation!BestMatches, Generation!SimilarRows
<1>6. b # OfTodos.NoTodo
  BY <1>5 DEF Generation!ConstantsOK, Generation!Holding, Generation!Rows
<1>7. g.priority < gen_todo[b].priority
  BY <1>1, <1>6 DEF Generation!Survives, Generation!Replaces, Generation!Outranks
<1>8. like(b) >= 90
  <2>1. like(k) >= 90
    BY DEF Generation!Near
  <2> QED
    BY <1>2, <1>5, <2>1
<1>9. b \in Generation!Replaced(best)
  BY <1>1, <1>6, <1>7, <1>8
  DEF Generation!Replaced, Generation!Replaces, Generation!Near, Generation!Outranks
<1> QED
  BY <1>5, <1>7, <1>9

\* Todos to compare with each other: finitely many, each with its place.
GenLine(S) ==
    S \subseteq GenPlaced /\ IsFiniteSet(S) /\ \A g, h \in S : g.place = h.place => g = h
\* How many of them come before one.
GenRank(g, S) == Cardinality({h \in S : Generation!Before(h, g)})

LEMMA GenStrict ==
    ASSUME NEW g \in GenPlaced, NEW h \in GenPlaced, NEW k \in GenPlaced
    PROVE  /\ ~ Generation!Before(g, g)
           /\ Generation!Before(g, h) /\ Generation!Before(h, k) => Generation!Before(g, k)
           /\ Generation!Before(g, h) => ~ Generation!Before(h, g)
<1>1. \A x \in {g, h, k} : x.place \in Nat /\ x.priority \in Nat
  BY DEF GenPlaced, Generation!Priorities
<1> QED
  BY <1>1 DEF Generation!Before

LEMMA GenRanks ==
    ASSUME NEW S, GenLine(S), NEW g \in S
    PROVE  /\ GenRank(g, S) \in Nat /\ GenRank(g, S) < Cardinality(S)
           /\ \A h \in S : Generation!Before(h, g) <=> GenRank(h, S) < GenRank(g, S)
           /\ \A h \in S : GenRank(h, S) = GenRank(g, S) => h = g
<1> DEFINE below(x) == {h \in S : Generation!Before(h, x)}
<1>1. \A x \in S : IsFiniteSet(below(x)) /\ Cardinality(below(x)) \in Nat
  BY FS_Subset, FS_CardinalityType DEF GenLine
<1>2. ASSUME NEW x \in S, NEW y \in S, Generation!Before(x, y)
      PROVE  GenRank(x, S) < GenRank(y, S)
  <2>1. below(x) \subseteq below(y)
    BY <1>2, GenStrict DEF GenLine
  <2>2. x \in below(y) /\ x \notin below(x)
    BY <1>2, GenStrict DEF GenLine
  <2> DEFINE X == below(x)
             Y == below(y)
  <2>3. /\ IsFiniteSet(Y) /\ X \in SUBSET Y /\ X # Y
        /\ Cardinality(X) \in Nat /\ Cardinality(Y) \in Nat
    BY <1>1, <2>1, <2>2
  <2> HIDE DEF X, Y
  <2>4. Cardinality(X) < Cardinality(Y)
    BY <2>3, FS_Subset
  <2> QED
    BY <2>4 DEF X, Y, GenRank
<1>3. \A x, y \in S : x = y \/ Generation!Before(x, y) \/ Generation!Before(y, x)
  BY GenOrder DEF GenLine
<1>4. \A x \in S : GenRank(x, S) \in Nat
  BY <1>1 DEF GenRank
<1>5. GenRank(g, S) < Cardinality(S)
  <2> DEFINE X == below(g)
  <2>1. IsFiniteSet(S) /\ X \in SUBSET S /\ X # S
    BY GenStrict DEF GenLine
  <2>2. Cardinality(X) \in Nat /\ Cardinality(S) \in Nat
    BY <1>1, FS_CardinalityType DEF GenLine
  <2> HIDE DEF X
  <2>3. Cardinality(X) < Cardinality(S)
    BY <2>1, <2>2, FS_Subset
  <2> QED
    BY <2>3 DEF X, GenRank
<1>6. \A h \in S : Generation!Before(h, g) <=> GenRank(h, S) < GenRank(g, S)
  BY <1>2, <1>3, <1>4
<1>7. \A h \in S : GenRank(h, S) = GenRank(g, S) => h = g
  BY <1>2, <1>3, <1>4
<1> QED
  BY <1>4, <1>5, <1>6, <1>7

\* The comparison settles each todo by those before it, so it has one outcome.
LEMMA GenOutcome ==
    ASSUME NEW S, GenLine(S), NEW A \in SUBSET S, NEW B \in SUBSET S,
           Generation!WithinBatch(A, S), Generation!WithinBatch(B, S)
    PROVE  A = B
<1> SUFFICES ASSUME A # B PROVE FALSE
  OBVIOUS
<1> DEFINE odd == {g \in S : ~(g \in A <=> g \in B)}
           T == {GenRank(g, S) : g \in odd}
<1>1. T # {} /\ T \subseteq Nat
  BY GenRanks
<1>2. PICK n \in T : \A m \in T : n <= m
  <2> HIDE DEF T
  <2> QED
    BY <1>1, LeastOf
<1>3. PICK g \in odd : n = GenRank(g, S)
  BY <1>2
<1>4. ASSUME NEW h \in S, Generation!Before(h, g) PROVE h \in A <=> h \in B
  <2>1. GenRank(h, S) < n /\ n \in Nat /\ GenRank(h, S) \in Nat
    BY <1>3, <1>4, GenRanks
  <2>2. ~ (n <= GenRank(h, S))
    BY <2>1
  <2>3. h \notin odd
    BY <1>2, <2>2
  <2> QED
    BY <2>3
<1>5. \A C \in {A, B} : g \in C <=>
          \A h \in C : Generation!Before(h, g) => ~ Generation!Similar(g.title, h.title)
  BY <1>3 DEF Generation!WithinBatch
<1>6. g \in A <=> g \in B
  BY <1>4, <1>5
<1> QED
  BY <1>3, <1>6

\* And it has an outcome: the todos are settled in their order.
LEMMA GenSettles ==
    ASSUME NEW S, GenLine(S)
    PROVE  \E stay \in SUBSET S : Generation!WithinBatch(stay, S)
<1> DEFINE first(n) == {g \in S : GenRank(g, S) < n}
           settled(n) == \E stay \in SUBSET first(n) : Generation!WithinBatch(stay, first(n))
           T == {n \in Nat : ~ settled(n)}
<1>1. settled(0)
  <2>1. first(0) = {}
    BY GenRanks
  <2>2. Generation!WithinBatch({}, {})
    BY DEF Generation!WithinBatch
  <2> QED
    BY <2>1, <2>2
<1>2. ASSUME NEW n \in Nat, settled(n) PROVE settled(n + 1)
  <2> DEFINE P == first(n)
             Q == first(n + 1)
  <2>0. PICK stay \in SUBSET P : Generation!WithinBatch(stay, P)
    BY <1>2
  <2>1. \A x, y \in S : /\ GenRank(x, S) \in Nat
                        /\ Generation!Before(x, y) <=> GenRank(x, S) < GenRank(y, S)
                        /\ GenRank(x, S) = GenRank(y, S) => x = y
    BY GenRanks
  <2>2. CASE \A x \in S : GenRank(x, S) # n
    <3>1. P = Q
      BY <2>1, <2>2
    <3> QED
      BY <2>0, <3>1
  <2>3. ASSUME NEW g \in S, GenRank(g, S) = n PROVE settled(n + 1)
    <3>1. Q = P \cup {g} /\ g \notin P
      BY <2>1, <2>3
    <3>2. /\ \A x \in P : Generation!Before(x, g) /\ ~ Generation!Before(g, x)
          /\ ~ Generation!Before(g, g)
      BY <2>1, <2>3
    <3> HIDE DEF P, Q
    <3> DEFINE alone == \A h \in stay : ~ Generation!Similar(g.title, h.title)
               next == stay \cup (IF alone THEN {g} ELSE {})
    <3>3. \A x \in P : x \in stay <=>
              \A h \in stay : Generation!Before(h, x) => ~ Generation!Similar(x.title, h.title)
      BY <2>0 DEF Generation!WithinBatch
    <3>4. next \in SUBSET Q
      BY <2>0, <3>1
    <3>5. ASSUME NEW x \in Q
          PROVE  x \in next <=> \A h \in next : Generation!Before(h, x)
                                     => ~ Generation!Similar(x.title, h.title)
      <4>1. CASE x \in P
        <5>1. x \in next <=> x \in stay
          BY <3>1, <4>1
        <5> QED
          BY <3>2, <3>3, <4>1, <5>1
      <4>2. CASE x = g
        <5>1. x \in next <=> alone
          BY <2>0, <3>1, <4>2
        <5> QED
          BY <2>0, <3>2, <4>2, <5>1
      <4> QED
        BY <3>1, <4>1, <4>2
    <3>6. Generation!WithinBatch(next, Q)
      <4> HIDE DEF next
      <4> QED
        BY <3>4, <3>5 DEF Generation!WithinBatch
    <3> QED
      BY <3>4, <3>6 DEF Q
  <2> QED
    BY <2>2, <2>3
<1>3. T = {}
  <2> SUFFICES ASSUME T # {} PROVE FALSE
    OBVIOUS
  <2>1. PICK n \in T : \A m \in T : n <= m
    <3>1. T \subseteq Nat
      OBVIOUS
    <3> HIDE DEF T
    <3> QED
      BY <3>1, LeastOf
  <2>2. n \in Nat /\ ~ settled(n)
    BY <2>1
  <2> HIDE DEF settled
  <2>3. n # 0
    BY <1>1, <2>2
  <2>4. n - 1 \in Nat /\ n = (n - 1) + 1 /\ ~ (n <= n - 1)
    BY <2>2, <2>3
  <2>5. settled(n - 1)
    BY <2>1, <2>4
  <2> QED
    BY <1>2, <2>2, <2>4, <2>5
<1>4. settled(Cardinality(S)) /\ first(Cardinality(S)) = S
  <2>1. Cardinality(S) \in Nat
    BY FS_CardinalityType DEF GenLine
  <2>2. first(Cardinality(S)) = S
    BY GenRanks
  <2> QED
    BY <1>3, <2>1, <2>2
<1> QED
  BY <1>4

\* What step 4 inserts beside an open row it is near to took the place of another.
LEMMA GenBatch ==
    ASSUME Generation!ConstantsOK, GenInv, Generation!Persist,
           NEW d \in OfTodos.Ids, NEW k \in OfTodos.Ids, d # k,
           Generation!Inserted(d), gen_todo'[k] # OfTodos.NoTodo,
           gen_todo'[k].status \in Generation!Open,
           Generation!Near(gen_todo'[d].title, gen_todo'[k].title)
    PROVE  /\ ~ Generation!Inserted(k)
           /\ \E b \in Generation!Holding(Generation!Open) :
                 /\ gen_todo'[b] = OfTodos.NoTodo
                 /\ gen_todo'[d].priority < gen_todo[b].priority
                 /\ OfTodos.Likeness[<<gen_todo'[d].title, gen_todo[k].title>>]
                        <= OfTodos.Likeness[<<gen_todo'[d].title, gen_todo[b].title>>]
<1>1. PICK best \in [Generation!Capped(gen_kept) -> OfTodos.Ids \cup {OfTodos.NoTodo}] :
      \E stay \in SUBSET Generation!Surviving(best) :
        /\ Generation!Matched(best)
        /\ Generation!WithinBatch(stay, Generation!Surviving(best))
        /\ Generation!Fits(stay)
        /\ gen_todo' = Generation!Written(Generation!Replaced(best), stay)
        /\ Generation!Capped(gen_kept) \subseteq gen_kept
        /\ DOMAIN best = Generation!Capped(gen_kept)
        /\ stay \subseteq GenPlaced
        /\ Generation!Replaced(best) \subseteq Generation!Rows
  BY GenPersists
<1>2. PICK stay \in SUBSET Generation!Surviving(best) :
        /\ Generation!Matched(best)
        /\ Generation!WithinBatch(stay, Generation!Surviving(best))
        /\ Generation!Fits(stay)
        /\ gen_todo' = Generation!Written(Generation!Replaced(best), stay)
        /\ Generation!Capped(gen_kept) \subseteq gen_kept
        /\ DOMAIN best = Generation!Capped(gen_kept)
        /\ stay \subseteq GenPlaced
        /\ Generation!Replaced(best) \subseteq Generation!Rows
  BY <1>1
<1> DEFINE gone == Generation!Replaced(best)
<1>3. PICK id \in [stay -> Generation!Unused] : GenWrites(id, gen_todo', gone, stay)
  BY <1>2, GenWritten DEF GenInv
<1> HIDE DEF gone
<1>4. \A e \in OfTodos.Ids : /\ e \in Generation!Unused <=> gen_todo[e] = OfTodos.NoTodo
                             /\ e \in Generation!Rows <=> gen_todo[e] # OfTodos.NoTodo
  BY DEF Generation!Unused, Generation!Rows
<1>5. PICK g \in stay : d = id[g]
  BY <1>3, <1>4 DEF Generation!Inserted, GenWrites
<1>6. gen_todo'[d].title = g.title /\ gen_todo'[d].priority = g.priority
  <2>1. gen_todo'[d] = GenRowOf(g)
    BY <1>3, <1>5 DEF GenWrites
  <2> QED
    BY <2>1 DEF GenRowOf
<1>7. CASE k \in Generation!Unused
  <2>1. PICK h \in stay : k = id[h]
    BY <1>3, <1>4, <1>7 DEF GenWrites
  <2>2. gen_todo'[k].title = h.title /\ h # g
    <3>1. gen_todo'[k] = GenRowOf(h)
      BY <1>3, <2>1 DEF GenWrites
    <3> QED
      BY <1>5, <2>1, <3>1 DEF GenRowOf
  <2>3. g \in gen_kept /\ h \in gen_kept
    BY <1>2 DEF Generation!Surviving
  <2>4. g.place # h.place
    BY <2>2, <2>3 DEF GenInv, GenPlaces
  <2>5. Generation!Before(g, h) \/ Generation!Before(h, g)
    BY <1>2, <2>4, GenOrder
  <2>6. ~ Generation!Similar(g.title, h.title) \/ ~ Generation!Similar(h.title, g.title)
    BY <1>2, <2>5, Zenon DEF Generation!WithinBatch
  <2>7. /\ OfTodos.Likeness[<<g.title, h.title>>] = OfTodos.Likeness[<<h.title, g.title>>]
        /\ OfTodos.Likeness[<<g.title, h.title>>] \in 0 .. Generation!Whole
    <3>1. g.title \in OfTodos.Titles /\ h.title \in OfTodos.Titles
      BY <1>2 DEF GenPlaced
    <3> QED
      BY <3>1 DEF Generation!ConstantsOK
  <2>8. ~ Generation!Near(g.title, h.title)
    BY <2>6, <2>7 DEF Generation!Similar, Generation!Near, Generation!Whole
  <2> QED
    BY <1>6, <2>2, <2>8
<1>8. CASE k \notin Generation!Unused
  <2>1. k \in Generation!Rows /\ k \notin gone
    <3>1. k \notin gone
      BY <1>3 DEF GenWrites
    <3>2. gen_todo[k] # OfTodos.NoTodo
      BY <1>4, <1>8
    <3> QED
      BY <1>4, <3>1, <3>2
  <2>2. gen_todo'[k] = gen_todo[k]
    BY <1>3, <2>1 DEF GenWrites
  <2>3. k \in Generation!Holding(Generation!Open)
    BY <2>1, <2>2 DEF Generation!Holding
  <2>4. PICK b \in Generation!Holding(Generation!Open) :
            /\ b \in gone /\ g.priority < gen_todo[b].priority
            /\ OfTodos.Likeness[<<g.title, gen_todo[k].title>>]
                   <= OfTodos.Likeness[<<g.title, gen_todo[b].title>>]
    <3>1. DOMAIN best \subseteq gen_kept
      BY <1>2
    <3>2. Generation!Near(g.title, gen_todo[k].title)
      BY <1>6, <2>2
    <3>3. g \in Generation!Surviving(best)
      BY <1>2
    <3> QED
      BY <1>2, <2>3, <3>1, <3>2, <3>3, GenSurvivor DEF gone
  <2>5. gen_todo'[b] = OfTodos.NoTodo
    BY <1>3, <2>4 DEF GenWrites
  <2>6. ~ Generation!Inserted(k)
    BY <2>1, <1>4 DEF Generation!Inserted
  <2> QED
    BY <1>6, <2>4, <2>5, <2>6
<1> QED
  BY <1>7, <1>8

\* Step 11 inserts each title once.
LEMMA GenOnce ==
    ASSUME GenInv, Generation!Suggest,
           NEW d \in OfTodos.Ids, NEW k \in OfTodos.Ids, d # k,
           Generation!Inserted(d), Generation!Inserted(k)
    PROVE  gen_todo'[d].title # gen_todo'[k].title
<1> DEFINE none == {}
<1>1. /\ gen_kept \in SUBSET GenPlaced /\ Generation!Fits(gen_kept)
      /\ gen_todo' = Generation!Written(none, gen_kept) /\ none \in SUBSET Generation!Rows
  BY DEF GenInv, GenShape, Generation!Suggest
<1> HIDE DEF none
<1>2. PICK id \in [gen_kept -> Generation!Unused] : GenWrites(id, gen_todo', none, gen_kept)
  BY <1>1, GenWritten DEF GenInv
<1>3. d \in Generation!Unused /\ k \in Generation!Unused
  BY DEF Generation!Inserted, Generation!Unused, Generation!Rows
<1>4. PICK g \in gen_kept : d = id[g]
  BY <1>2, <1>3 DEF GenWrites, Generation!Inserted
<1>5. PICK h \in gen_kept : k = id[h]
  BY <1>2, <1>3 DEF GenWrites, Generation!Inserted
<1>6. g.title # h.title
  BY <1>4, <1>5 DEF GenInv, GenTitles, Generation!Suggest
<1> QED
  <2>1. gen_todo'[d] = GenRowOf(g) /\ gen_todo'[k] = GenRowOf(h)
    BY <1>2, <1>4, <1>5 DEF GenWrites
  <2> QED
    BY <1>6, <2>1 DEF GenRowOf

\* A row goes only for a todo that outranks it, and that or one like it is
\* inserted.
LEMMA GenReplaces ==
    ASSUME Generation!ConstantsOK, GenInv, Generation!Persist,
           NEW d \in OfTodos.Ids, gen_todo[d] # OfTodos.NoTodo, gen_todo'[d] = OfTodos.NoTodo
    PROVE  \E g \in gen_kept, k \in OfTodos.Ids :
              /\ Generation!Near(g.title, gen_todo[d].title)
              /\ g.priority < gen_todo[d].priority
              /\ Generation!Inserted(k)
              /\ gen_todo'[k].priority <= g.priority
              /\ gen_todo'[k].title = g.title
                     \/ Generation!Similar(g.title, gen_todo'[k].title)
<1>1. PICK best \in [Generation!Capped(gen_kept) -> OfTodos.Ids \cup {OfTodos.NoTodo}] :
      \E stay \in SUBSET Generation!Surviving(best) :
        /\ Generation!WithinBatch(stay, Generation!Surviving(best))
        /\ Generation!Fits(stay)
        /\ gen_todo' = Generation!Written(Generation!Replaced(best), stay)
        /\ Generation!Capped(gen_kept) \subseteq gen_kept
        /\ DOMAIN best = Generation!Capped(gen_kept)
        /\ stay \subseteq GenPlaced
        /\ Generation!Replaced(best) \subseteq Generation!Rows
  BY GenPersists
<1>2. PICK stay \in SUBSET Generation!Surviving(best) :
        /\ Generation!WithinBatch(stay, Generation!Surviving(best))
        /\ Generation!Fits(stay)
        /\ gen_todo' = Generation!Written(Generation!Replaced(best), stay)
        /\ Generation!Capped(gen_kept) \subseteq gen_kept
        /\ DOMAIN best = Generation!Capped(gen_kept)
        /\ stay \subseteq GenPlaced
        /\ Generation!Replaced(best) \subseteq Generation!Rows
  BY <1>1
<1> DEFINE gone == Generation!Replaced(best)
<1>3. PICK id \in [stay -> Generation!Unused] : GenWrites(id, gen_todo', gone, stay)
  BY <1>2, GenWritten DEF GenInv
<1> HIDE DEF gone
<1>4. d \in gone
  BY <1>3 DEF GenWrites, Generation!Rows
<1>5. PICK g \in DOMAIN best : best[g] = d /\ Generation!Replaces(g, d)
  BY <1>4 DEF gone, Generation!Replaced
<1>6. /\ g \in Generation!Surviving(best) /\ g \in GenPlaced /\ g \in gen_kept
      /\ Generation!Near(g.title, gen_todo[d].title)
      /\ g.priority < gen_todo[d].priority
  <2>1. Generation!Surviving(best) \subseteq GenPlaced
    BY <1>2 DEF Generation!Surviving, GenInv, GenShape
  <2> QED
    BY <1>2, <1>5, <2>1
    DEF Generation!Surviving, Generation!Survives, Generation!Replaces, Generation!Outranks
<1>7. PICK h \in stay : /\ h = g \/ Generation!Before(h, g)
                        /\ h = g \/ Generation!Similar(g.title, h.title)
  BY <1>2, <1>6, Zenon DEF Generation!WithinBatch
<1>8. h.priority <= g.priority
  <2>1. h.priority \in Nat /\ g.priority \in Nat
    BY <1>2, <1>6 DEF GenPlaced, Generation!Priorities
  <2> QED
    BY <1>7, <2>1 DEF Generation!Before
<1>9. /\ id[h] \in OfTodos.Ids /\ gen_todo[id[h]] = OfTodos.NoTodo
       /\ gen_todo'[id[h]] = GenRowOf(h)
  BY <1>3 DEF GenWrites, Generation!Unused, Generation!Rows
<1>10. GenRowOf(h) # OfTodos.NoTodo
  <2>1. GenRowOf(h) \in GenRow
    BY <1>2 DEF GenInv, GenShape, GenRowOf, GenRow, GenPlaced, Generation!Status,
       Generation!Open
  <2> QED
    BY <2>1 DEF Generation!ConstantsOK, GenRow
<1>11. /\ GenRowOf(h).title = h.title /\ GenRowOf(h).priority = h.priority
  BY DEF GenRowOf
<1> QED
  BY <1>6, <1>7, <1>8, <1>9, <1>10, <1>11 DEF Generation!Inserted

\* The invariant includes the types of the todos and of the run.
LEMMA GenTypeOK == ASSUME GenInv PROVE Generation!TypeOK
  BY DEF GenInv, GenShape, GenRow, GenPlaced, Generation!TypeOK

\* A step of the whole is one of the generation of todos, or leaves it alone.
LEMMA TodoParts == ASSUME [Next]_vars PROVE [Generation!Next]_(Generation!vars)
BY Zenon DEF Next, vars, gen, Generation!vars

LEMMA TodoInvHolds == Spec => []GenInv
<1>1. Init => GenInv
  BY ConstantsOK, GenInit DEF Init, ConstantsOK
<1>2. GenInv /\ [Next]_vars => GenInv'
  BY TodoParts, ConstantsOK, GenNext DEF ConstantsOK
<1> QED
  BY <1>1, <1>2, PTL DEF Spec

\* The todos of step 4 always have best matches, a todo has none only if no open
\* row is similar to it, and whichever they are the comparison of the survivors with each other has exactly one outcome, as the
\* loop over a sorted list has (TodoDeduplicator.deduplicate).
OneOutcome ==
    gen_at = "filter" =>
        /\ \E best \in [Generation!Capped(gen_kept) -> OfTodos.Ids \cup {OfTodos.NoTodo}] :
               Generation!Matched(best)
        /\ \A g \in gen_kept : Generation!SimilarRows(g) # {} => Generation!BestMatches(g) # {}
        /\ \A best \in [Generation!Capped(gen_kept) -> OfTodos.Ids \cup {OfTodos.NoTodo}] :
               \E stay \in SUBSET Generation!Surviving(best) :
                   \A other \in SUBSET Generation!Surviving(best) :
                       Generation!WithinBatch(other, Generation!Surviving(best))
                           <=> other = stay

THEOREM BatchHasOneOutcome == Spec => []OneOutcome
<1>0. \E best \in [Generation!Capped(gen_kept) -> OfTodos.Ids \cup {OfTodos.NoTodo}] :
          Generation!Matched(best)
  <2> DEFINE best == [g \in Generation!Capped(gen_kept) |->
                        IF Generation!BestMatches(g) = {} THEN OfTodos.NoTodo
                        ELSE CHOOSE d \in Generation!BestMatches(g) : TRUE]
  <2>1. \A g : Generation!BestMatches(g) \subseteq OfTodos.Ids
    BY DEF Generation!BestMatches, Generation!SimilarRows, Generation!Holding,
       Generation!Rows
  <2>2. best \in [Generation!Capped(gen_kept) -> OfTodos.Ids \cup {OfTodos.NoTodo}]
    BY <2>1
  <2>3. Generation!Matched(best)
    BY DEF Generation!Matched
  <2> QED
    BY <2>2, <2>3
<1>1. GenInv => OneOutcome
  <2> SUFFICES ASSUME GenInv,
                      NEW best \in [Generation!Capped(gen_kept) ->
                                        OfTodos.Ids \cup {OfTodos.NoTodo}]
               PROVE  \E stay \in SUBSET Generation!Surviving(best) :
                        \A other \in SUBSET Generation!Surviving(best) :
                          Generation!WithinBatch(other, Generation!Surviving(best))
                              <=> other = stay
    BY <1>0, GenMatches, ConstantsOK, Zenon DEF OneOutcome, ConstantsOK
  <2> DEFINE S == Generation!Surviving(best)
  <2>1. S \subseteq gen_kept
    BY DEF Generation!Surviving, Generation!Capped
  <2>2. GenLine(S)
    <3>1. IsFiniteSet(gen_kept) /\ gen_kept \subseteq GenPlaced
          /\ \A g, h \in gen_kept : g.place = h.place => g = h
      BY DEF GenInv, GenShape, GenPlaces
    <3> HIDE DEF S
    <3> QED
      BY <2>1, <3>1, FS_Subset DEF GenLine
  <2> HIDE DEF S
  <2>3. PICK stay \in SUBSET S : Generation!WithinBatch(stay, S)
    BY <2>2, GenSettles
  <2>4. \A other \in SUBSET S : Generation!WithinBatch(other, S) <=> other = stay
    BY <2>2, <2>3, GenOutcome
  <2> QED
    BY <2>4 DEF S
<1> QED
  BY <1>1, TodoInvHolds, PTL

\* A run of step 4 inserts a todo near-identical to an open row only in place of
\* another row, at least as close and less important, and step 11 suggests a
\* title once, for every table of likeness (TodoDeduplicator.deduplicate,
\* added_titles of step_11_assoc_todos.py).
THEOREM NearTwinsReplaced == Spec => TwinsAreReplaced
<1> DEFINE Beside(d, k) ==
             /\ ~ Generation!Inserted(k)
             /\ \E b \in Generation!Holding(Generation!Open) :
                   /\ gen_todo'[b] = OfTodos.NoTodo
                   /\ gen_todo'[d].priority < gen_todo[b].priority
                   /\ OfTodos.Likeness[<<gen_todo'[d].title, gen_todo[k].title>>]
                          <= OfTodos.Likeness[<<gen_todo'[d].title, gen_todo[b].title>>]
           Replacing == \A d, k \in OfTodos.Ids :
             d # k /\ Generation!Inserted(d) /\ gen_todo'[k] # OfTodos.NoTodo =>
               /\ /\ gen_at = "filter" /\ gen_todo'[k].status \in Generation!Open
                  /\ Generation!Near(gen_todo'[d].title, gen_todo'[k].title)
                  => Beside(d, k)
               /\ gen_at = "suggest" /\ Generation!Inserted(k) =>
                    gen_todo'[d].title # gen_todo'[k].title
<1>1. ASSUME GenInv, [Next]_vars PROVE Replacing
  <2>1. ASSUME NEW d \in OfTodos.Ids, NEW k \in OfTodos.Ids, d # k,
               Generation!Inserted(d), gen_todo'[k] # OfTodos.NoTodo
        PROVE  /\ /\ gen_at = "filter" /\ gen_todo'[k].status \in Generation!Open
                  /\ Generation!Near(gen_todo'[d].title, gen_todo'[k].title)
                  => Beside(d, k)
               /\ gen_at = "suggest" /\ Generation!Inserted(k) =>
                    gen_todo'[d].title # gen_todo'[k].title
    <3>1. Generation!ConstantsOK /\ [Generation!Next]_(Generation!vars)
      BY <1>1, TodoParts, ConstantsOK DEF ConstantsOK
    <3>2. \/ gen_at = "filter" /\ Generation!Persist
          \/ gen_at = "suggest" /\ Generation!Suggest
      BY <1>1, <2>1, <3>1, GenWho DEF Generation!Inserted
    <3> QED
      BY <1>1, <2>1, <3>1, <3>2, GenBatch, GenOnce
  <2> QED
    BY <2>1
<1> HIDE DEF Replacing
<1>2. ASSUME GenInv, [Next]_vars PROVE [Replacing]_(Generation!vars)
  BY <1>1, <1>2
<1> USE DEF Replacing
<1> QED
  BY <1>2, TodoInvHolds, PTL DEF Spec, TwinsAreReplaced, Generation!TwinsAreReplaced

\* A todo the user had is deleted only for a near-identical one that matters
\* more, and that one or one similar to it that ranks no lower is there
\* afterwards, although the batch is cut to the cap before and compared with
\* itself afterwards (deduplicate, pending_deletions).
THEOREM ReplacedHasSuccessor == Spec => ReplacedIsOutranked
<1> DEFINE Outranked == \A d \in OfTodos.Ids :
          gen_todo[d] # OfTodos.NoTodo /\ gen_todo'[d] = OfTodos.NoTodo =>
            \E g \in gen_kept, k \in OfTodos.Ids :
              /\ Generation!Near(g.title, gen_todo[d].title)
              /\ g.priority < gen_todo[d].priority
              /\ Generation!Inserted(k)
              /\ gen_todo'[k].priority <= g.priority
              /\ gen_todo'[k].title = g.title
                     \/ Generation!Similar(g.title, gen_todo'[k].title)
<1>1. ASSUME GenInv, [Next]_vars PROVE Outranked
  <2>1. ASSUME NEW d \in OfTodos.Ids,
               gen_todo[d] # OfTodos.NoTodo, gen_todo'[d] = OfTodos.NoTodo
        PROVE  Generation!Persist /\ Generation!ConstantsOK
    <3>1. Generation!ConstantsOK /\ [Generation!Next]_(Generation!vars)
      BY <1>1, TodoParts, ConstantsOK DEF ConstantsOK
    <3> QED
      BY <1>1, <2>1, <3>1, GenWho
  <2> QED
    BY <1>1, <2>1, GenReplaces
<1> HIDE DEF Outranked
<1>2. ASSUME GenInv, [Next]_vars PROVE [Outranked]_(Generation!vars)
  BY <1>1, <1>2
<1> USE DEF Outranked
<1> QED
  BY <1>2, TodoInvHolds, PTL DEF Spec, ReplacedIsOutranked, Generation!ReplacedIsOutranked

----------------------------------------------------------------------------
(* Associations: the invariant *)

RowSet == [src : OfLinks.People, tgt : OfLinks.People, type : Link!Types,
           shared : SUBSET OfLinks.Events,
           legacy : OfLinks.Events \cup {OfLinks.NoEvent},
           event : OfLinks.Events \cup {OfLinks.NoEvent}]
Statuses == {"unknown", "active", "merged"}
Stages == {"idle", "resolve", "read", "link", "count", "load", "mark"}

\* Types of what the properties are about.
Shape ==
    /\ assoc_status \in [OfLinks.People -> Statuses]
    /\ assoc_source \in [OfLinks.People -> OfLinks.Events \cup {OfLinks.NoEvent}]
    /\ assoc_met \in [OfLinks.People -> SUBSET OfLinks.Events]
    /\ assoc_seen.met \in [OfLinks.People -> SUBSET OfLinks.Events]
    /\ \A m \in assoc_merges :
           /\ {m.src, m.tgt} \subseteq OfLinks.People /\ m.src # m.tgt
           /\ m.met \in [{m.src, m.tgt} -> SUBSET OfLinks.Events]
    /\ assoc_at \in Stages
    /\ assoc_event \in OfLinks.Events \cup {OfLinks.NoEvent}
    /\ assoc_at = "resolve" => assoc_event \in OfLinks.Events
    /\ assoc_who \subseteq OfLinks.People
    /\ assoc_runs \in 0 .. OfLinks.MaxRuns

\* A row links two different people.
RowsShape == assoc_rows \subseteq RowSet /\ \A r \in assoc_rows : r.src # r.tgt

\* The event a person first came up in is among those attended, also in the copies
\* that will be written.
SourcesMet ==
    \A p \in OfLinks.People : assoc_source[p] # OfLinks.NoEvent =>
        /\ assoc_source[p] \in assoc_met[p]
        /\ assoc_at \in {"resolve", "mark"} => assoc_source[p] \in assoc_seen.met[p]
        /\ \A m \in assoc_merges : p \in {m.src, m.tgt} => assoc_source[p] \in m.met[p]

\* Who is being merged was created before.
MergesKnown == \A m \in assoc_merges : {m.src, m.tgt} \subseteq Link!Known

LinkInv == Shape /\ RowsShape /\ SourcesMet /\ MergesKnown

\* What the step has read of the events is what is stored.
Current == assoc_seen.met = assoc_met

LEMMA KeyFacts ==
    ASSUME Link!ConstantsOK, NEW a \in OfLinks.People, NEW b \in OfLinks.People, a # b,
           NEW t \in Link!Types
    PROVE  /\ Link!Key(a, b, t) = Link!Key(b, a, t)
           /\ Link!Key(a, b, t)[1] \in {a, b} /\ Link!Key(a, b, t)[2] \in {a, b}
           /\ Link!Key(a, b, t)[1] # Link!Key(a, b, t)[2]
           /\ Link!Key(a, b, t)[3] = t
           /\ Link!Key(Link!Key(a, b, t)[1], Link!Key(a, b, t)[2], t)
                = Link!Key(a, b, t)
  BY DEF Link!Key, Link!MinOf, Link!MaxOf, Link!ConstantsOK

\* Two keys that are the same name the same pair.
LEMMA SameKey ==
    ASSUME Link!ConstantsOK, NEW a \in OfLinks.People, NEW b \in OfLinks.People,
           NEW c \in OfLinks.People, NEW d \in OfLinks.People,
           NEW t, NEW u, Link!Key(a, b, t) = Link!Key(c, d, u)
    PROVE  /\ (a = c /\ b = d) \/ (a = d /\ b = c)
           /\ t = u
  BY DEF Link!Key, Link!MinOf, Link!MaxOf, Link!ConstantsOK

\* The row r links a and b by t.
RowOf(r, a, b, t, S, l) ==
    /\ r \in RowSet /\ r.src # r.tgt
    /\ Link!RowKey(r) = Link!Key(a, b, t)
    /\ \/ r.src = a /\ r.tgt = b
       \/ r.src = b /\ r.tgt = a
    /\ r.type = t /\ r.shared = S /\ r.legacy = l

LEMMA RowFacts ==
    ASSUME Link!ConstantsOK, NEW a \in OfLinks.People, NEW b \in OfLinks.People, a # b,
           NEW t \in Link!Types,
           NEW S \in SUBSET OfLinks.Events,
           NEW l \in OfLinks.Events \cup {OfLinks.NoEvent},
           NEW e \in OfLinks.Events \cup {OfLinks.NoEvent}
    PROVE  RowOf(Link!Row(Link!Key(a, b, t), S, l, e), a, b, t, S, l)
<1> DEFINE k == Link!Key(a, b, t)
<1>1. /\ k[1] \in {a, b} /\ k[2] \in {a, b} /\ k[1] # k[2] /\ k[3] = t
      /\ Link!Key(k[1], k[2], t) = k
  BY KeyFacts
<1> HIDE DEF k
<1>2. Link!Row(k, S, l, e) = [src |-> k[1], tgt |-> k[2], type |-> t, shared |-> S,
                         legacy |-> l, event |-> e]
  BY <1>1 DEF Link!Row
<1> DEFINE r == Link!Row(k, S, l, e)
<1>3. r \in RowSet /\ r.src # r.tgt /\ Link!RowKey(r) = k
  BY <1>1, <1>2 DEF RowSet, Link!RowKey
<1>4. \/ r.src = a /\ r.tgt = b
      \/ r.src = b /\ r.tgt = a
  BY <1>1, <1>2
<1>5. r.type = t /\ r.shared = S /\ r.legacy = l
  BY <1>2
<1> HIDE DEF r
<1>6. RowOf(r, a, b, t, S, l)
  BY <1>3, <1>4, <1>5 DEF RowOf, k
<1> QED
  BY <1>6 DEF k, r

LEMMA Picks == ASSUME NEW S, S # {} PROVE Link!Pick(S) \in S
  BY DEF Link!Pick

LEMMA ThreeOf == ASSUME NEW S PROVE Link!Three(S) \subseteq S
  BY DEF Link!Three

LEMMA CommonFacts ==
    ASSUME LinkInv, NEW a \in OfLinks.People, NEW b \in OfLinks.People
    PROVE  /\ Link!Common(a, b) \in SUBSET OfLinks.Events
           /\ Link!Common(a, b) = Link!Common(b, a)
  BY DEF LinkInv, Shape, Link!Common, Link!MetBy

----------------------------------------------------------------------------
(* Link!Evidence and meetings *)
LEMMA EvidenceFacts ==
    ASSUME Link!ConstantsOK, LinkInv, NEW a \in OfLinks.People,
           NEW b \in OfLinks.People, a # b, NEW t \in Link!Types
    PROVE  /\ Link!Evidence(b, a, t) = Link!Evidence(a, b, t)
           /\ \/ t # "co_occurrence"
                   /\ RowOf(Link!Evidence(a, b, t), a, b, t, {}, OfLinks.NoEvent)
              \/ /\ assoc_source[a] = assoc_source[b]
                 /\ RowOf(Link!Evidence(a, b, t), a, b, t, {}, assoc_source[a])
              \/ RowOf(Link!Evidence(a, b, t), a, b, t, Link!Three(Link!Common(a, b)),
                       OfLinks.NoEvent)
<1>0. Link!Key(a, b, t) = Link!Key(b, a, t) /\ Link!Common(a, b) = Link!Common(b, a)
  BY KeyFacts, CommonFacts
<1> DEFINE E == Link!Three(Link!Common(a, b))
<1>1. /\ {} \in SUBSET OfLinks.Events /\ E \in SUBSET OfLinks.Events
      /\ OfLinks.NoEvent \in OfLinks.Events \cup {OfLinks.NoEvent}
      /\ assoc_source[a] \in OfLinks.Events \cup {OfLinks.NoEvent}
      /\ assoc_event \in OfLinks.Events \cup {OfLinks.NoEvent}
  BY CommonFacts, ThreeOf DEF LinkInv, Shape
<1> DEFINE k == Link!Key(a, b, t)
<1>2. CASE t # "co_occurrence"
  <2>1. /\ Link!Evidence(a, b, t) = Link!Row(k, {}, OfLinks.NoEvent, assoc_event)
        /\ Link!Evidence(b, a, t) = Link!Evidence(a, b, t)
    BY <1>0, <1>2 DEF Link!Evidence
  <2>2. RowOf(Link!Row(k, {}, OfLinks.NoEvent, assoc_event), a, b, t, {},
              OfLinks.NoEvent)
    BY <1>1, RowFacts
  <2> QED
    BY <1>2, <2>1, <2>2, Zenon
<1>3. CASE t = "co_occurrence" /\ assoc_source[a] # OfLinks.NoEvent
        /\ assoc_source[a] = assoc_source[b]
  <2>1. /\ Link!Evidence(a, b, t) = Link!Row(k, {}, assoc_source[a], assoc_event)
        /\ Link!Evidence(b, a, t) = Link!Evidence(a, b, t)
    BY <1>0, <1>3 DEF Link!Evidence
  <2>2. RowOf(Link!Row(k, {}, assoc_source[a], assoc_event), a, b, t, {},
              assoc_source[a])
    BY <1>1, RowFacts
  <2> QED
    BY <1>3, <2>1, <2>2, Zenon
<1>4. CASE t = "co_occurrence"
        /\ ~(assoc_source[a] # OfLinks.NoEvent /\ assoc_source[a] = assoc_source[b])
  <2>1. Link!Evidence(a, b, t)
          = Link!Row(k, E, OfLinks.NoEvent, assoc_event)
    BY <1>4 DEF Link!Evidence
  <2>2. Link!Evidence(b, a, t) = Link!Evidence(a, b, t)
    BY <1>0, <1>4 DEF Link!Evidence
  <2>3. RowOf(Link!Row(k, E, OfLinks.NoEvent, assoc_event), a, b, t, E,
              OfLinks.NoEvent)
    BY <1>1, RowFacts
  <2> QED
    BY <2>1, <2>2, <2>3, Zenon
<1> QED
  BY <1>2, <1>3, <1>4

\* What the meetings of the people in S add.
LEMMA MeetingFacts ==
    ASSUME Link!ConstantsOK, LinkInv, NEW S \in SUBSET OfLinks.People,
           NEW r \in Link!NewMeetings(S)
    PROVE  /\ r \in RowSet /\ r.src # r.tgt
           /\ Link!RowKey(r) \notin assoc_pairs
           /\ r.type = "co_occurrence"
           /\ r.shared = Link!Common(r.src, r.tgt) /\ r.legacy \in r.shared
           /\ \A x \in Link!NewMeetings(S) : Link!RowKey(x) = Link!RowKey(r) => x = r
<1> DEFINE co == "co_occurrence"
           made(p) == Link!Row(Link!Key(p[1], p[2], co), Link!Common(p[1], p[2]),
                               Link!Pick(Link!Common(p[1], p[2])),
                               Link!LastOf(Link!Common(p[1], p[2])))
<1>1. co \in Link!Types
  BY DEF Link!Types
<1>2. ASSUME NEW p \in Link!Together(S), ~Link!Linked(p, co)
      PROVE  /\ p = <<p[1], p[2]>> /\ p[1] \in OfLinks.People /\ p[2] \in OfLinks.People
             /\ p[1] < p[2]
             /\ made(p) \in RowSet /\ made(p).src # made(p).tgt
             /\ Link!RowKey(made(p)) = Link!Key(p[1], p[2], co)
             /\ Link!RowKey(made(p)) \notin assoc_pairs
             /\ made(p).type = co
             /\ made(p).shared = Link!Common(made(p).src, made(p).tgt)
             /\ made(p).legacy \in made(p).shared
  <2>1. /\ p = <<p[1], p[2]>> /\ p[1] \in OfLinks.People /\ p[2] \in OfLinks.People
        /\ p[1] < p[2]
        /\ Link!Common(p[1], p[2]) # {}
    BY <1>2 DEF Link!Together, Link!Pairs2
  <2>2. p[1] # p[2]
    BY <2>1 DEF Link!ConstantsOK
  <2>3. /\ Link!Common(p[1], p[2]) \in SUBSET OfLinks.Events
        /\ Link!Common(p[1], p[2]) = Link!Common(p[2], p[1])
    BY <2>1, CommonFacts
  <2>4. /\ Link!Pick(Link!Common(p[1], p[2])) \in Link!Common(p[1], p[2])
        /\ assoc_event \in OfLinks.Events \cup {OfLinks.NoEvent}
    BY <2>1, Picks DEF LinkInv, Shape
  <2> DEFINE C == Link!Common(p[1], p[2])
  <2>7. /\ Link!Pick(C) \in OfLinks.Events \cup {OfLinks.NoEvent}
        /\ Link!LastOf(C) \in OfLinks.Events \cup {OfLinks.NoEvent}
    BY <2>3, <2>4 DEF Link!LastOf
  <2>8. RowOf(made(p), p[1], p[2], co, C, Link!Pick(C))
    BY <1>1, <2>1, <2>2, <2>3, <2>4, <2>7, RowFacts
  <2>5. /\ made(p) \in RowSet /\ made(p).src # made(p).tgt
        /\ Link!RowKey(made(p)) = Link!Key(p[1], p[2], co)
        /\ \/ made(p).src = p[1] /\ made(p).tgt = p[2]
           \/ made(p).src = p[2] /\ made(p).tgt = p[1]
        /\ made(p).type = co /\ made(p).shared = Link!Common(p[1], p[2])
        /\ made(p).legacy = Link!Pick(Link!Common(p[1], p[2]))
    BY <2>8, Zenon DEF RowOf
  <2>6. Link!Common(made(p).src, made(p).tgt) = Link!Common(p[1], p[2])
    BY <2>2, <2>3, <2>5
  <2> QED
    BY <1>2, <2>1, <2>4, <2>5, <2>6 DEF Link!Linked
<1>3. Link!NewMeetings(S)
        = {made(p) : p \in {q \in Link!Together(S) : ~Link!Linked(q, co)}}
  BY DEF Link!NewMeetings
<1>4. PICK p \in Link!Together(S) : ~Link!Linked(p, co) /\ r = made(p)
  BY <1>3
<1>5. ASSUME NEW x \in Link!NewMeetings(S), Link!RowKey(x) = Link!RowKey(r) PROVE x = r
  <2>1. PICK q \in Link!Together(S) : ~Link!Linked(q, co) /\ x = made(q)
    BY <1>3, <1>5
  <2>2. Link!Key(p[1], p[2], co) = Link!Key(q[1], q[2], co)
    BY <1>2, <1>4, <1>5, <2>1
  <2>3. /\ (p[1] = q[1] /\ p[2] = q[2]) \/ (p[1] = q[2] /\ p[2] = q[1])
        /\ p[1] < p[2] /\ q[1] < q[2]
    BY <1>2, <1>4, <2>1, <2>2, SameKey
  <2>4. p[1] \in Nat /\ p[2] \in Nat /\ q[1] \in Nat /\ q[2] \in Nat
    BY <1>2, <1>4, <2>1 DEF Link!ConstantsOK
  <2>5. p[1] = q[1] /\ p[2] = q[2]
    BY <2>3, <2>4
  <2> QED
    BY <1>4, <2>1, <2>5
<1> QED
  BY <1>2, <1>4, <1>5

\* The rows of new are of pairs not read as linked, one for each, and name events
\* both people attended.
Sound(new) ==
    \A r \in new :
        /\ r \in RowSet /\ r.src # r.tgt
        /\ Link!RowKey(r) \notin assoc_pairs
        /\ r.type = "co_occurrence" /\ Current
             => Link!Recorded(r) \subseteq assoc_met[r.src] \cap assoc_met[r.tgt]
        /\ \A x \in new : Link!RowKey(x) = Link!RowKey(r) => x = r

\* No event is counted for two people that both have not attended.
LEMMA CommonAttended ==
    ASSUME Current, NEW a \in OfLinks.People, NEW b \in OfLinks.People
    PROVE  Link!Common(a, b) \subseteq assoc_met[a] \cap assoc_met[b]
  BY DEF Current, Link!Common, Link!MetBy

LEMMA MeetingsSound ==
    ASSUME Link!ConstantsOK, LinkInv, NEW S \in SUBSET OfLinks.People
    PROVE  Sound(Link!NewMeetings(S))
<1> SUFFICES ASSUME NEW r \in Link!NewMeetings(S)
             PROVE  /\ r \in RowSet /\ r.src # r.tgt
                    /\ Link!RowKey(r) \notin assoc_pairs
                    /\ Current
                         => Link!Recorded(r) \subseteq assoc_met[r.src] \cap assoc_met[r.tgt]
                    /\ \A x \in Link!NewMeetings(S) : Link!RowKey(x) = Link!RowKey(r)
                         => x = r
  BY Zenon DEF Sound
<1>1. /\ r \in RowSet /\ r.src # r.tgt
      /\ Link!RowKey(r) \notin assoc_pairs
      /\ r.shared = Link!Common(r.src, r.tgt) /\ r.legacy \in r.shared
      /\ \A x \in Link!NewMeetings(S) : Link!RowKey(x) = Link!RowKey(r) => x = r
  BY MeetingFacts
<1>2. r.src \in OfLinks.People /\ r.tgt \in OfLinks.People
  BY <1>1 DEF RowSet
<1>3. Current => Link!Recorded(r) \subseteq assoc_met[r.src] \cap assoc_met[r.tgt]
  BY <1>1, <1>2, CommonAttended DEF Link!Recorded
<1> QED
  BY <1>1, <1>3

LEMMA EvidenceSound ==
    ASSUME Link!ConstantsOK, LinkInv,
           NEW a \in OfLinks.People, NEW b \in OfLinks.People, a # b,
           NEW t \in Link!Types
    PROVE  LET r == Link!Evidence(a, b, t)
           IN  /\ r \in RowSet /\ r.src # r.tgt /\ Link!RowKey(r) = Link!Key(a, b, t)
               /\ r.type = "co_occurrence" /\ Current
                    => Link!Recorded(r) \subseteq assoc_met[r.src] \cap assoc_met[r.tgt]
<1> DEFINE r == Link!Evidence(a, b, t)
<1>1. /\ r \in RowSet /\ r.src # r.tgt /\ Link!RowKey(r) = Link!Key(a, b, t)
      /\ r.type = t
      /\ \/ r.src = a /\ r.tgt = b
         \/ r.src = b /\ r.tgt = a
      /\ \/ t # "co_occurrence"
         \/ r.shared = {} /\ assoc_source[a] = assoc_source[b]
              /\ r.legacy = assoc_source[a]
         \/ r.shared \subseteq Link!Common(a, b) /\ r.legacy = OfLinks.NoEvent
  <2>1. \/ t # "co_occurrence" /\ RowOf(r, a, b, t, {}, OfLinks.NoEvent)
        \/ assoc_source[a] = assoc_source[b] /\ RowOf(r, a, b, t, {}, assoc_source[a])
        \/ RowOf(r, a, b, t, Link!Three(Link!Common(a, b)), OfLinks.NoEvent)
    BY EvidenceFacts, Zenon
  <2> HIDE DEF r
  <2> QED
    BY <2>1, ThreeOf DEF RowOf
<1> HIDE DEF r
<1>2. Current => Link!Common(a, b) \subseteq assoc_met[a] \cap assoc_met[b]
  BY CommonAttended
<1>3. assoc_source[a] # OfLinks.NoEvent => assoc_source[a] \in assoc_met[a]
  BY DEF LinkInv, SourcesMet
<1>4. assoc_source[b] # OfLinks.NoEvent => assoc_source[b] \in assoc_met[b]
  BY DEF LinkInv, SourcesMet
<1>5. r.type = "co_occurrence" /\ Current
        => Link!Recorded(r) \subseteq assoc_met[r.src] \cap assoc_met[r.tgt]
  BY <1>1, <1>2, <1>3, <1>4 DEF Link!Recorded
<1> QED
  BY <1>1, <1>5 DEF r

LEMMA LinksSound ==
    ASSUME Link!ConstantsOK, LinkInv,
           NEW S \in SUBSET OfLinks.People, NEW known,
           assoc_pairs \subseteq known
    PROVE  /\ Sound(Link!NewLinks(S, known))
           /\ \A r \in Link!NewLinks(S, known) : Link!RowKey(r) \notin known
<1>1. ASSUME NEW r \in Link!NewLinks(S, known)
      PROVE  \E a, b \in OfLinks.People, t \in Link!Types :
                 a # b /\ r = Link!Evidence(a, b, t) /\ Link!Key(a, b, t) \notin known
  <2>1. \E l \in S \X Link!Active \X Link!Types :
            /\ l[1] # l[2] /\ Link!Key(l[1], l[2], l[3]) \notin known
            /\ r = Link!Evidence(l[1], l[2], l[3])
    BY <1>1 DEF Link!NewLinks
  <2>2. Link!Active \subseteq OfLinks.People
    BY DEF Link!Active
  <2> QED
    BY <2>1, <2>2
<1>2. ASSUME NEW r \in Link!NewLinks(S, known)
      PROVE  /\ r \in RowSet /\ r.src # r.tgt /\ Link!RowKey(r) \notin known
             /\ r.type = "co_occurrence" /\ Current
                  => Link!Recorded(r) \subseteq assoc_met[r.src] \cap assoc_met[r.tgt]
             /\ \A x \in Link!NewLinks(S, known) : Link!RowKey(x) = Link!RowKey(r)
                  => x = r
  <2>1. PICK a \in OfLinks.People, b \in OfLinks.People, t \in Link!Types :
            a # b /\ r = Link!Evidence(a, b, t) /\ Link!Key(a, b, t) \notin known
    BY <1>1
  <2>2. /\ r \in RowSet /\ r.src # r.tgt /\ Link!RowKey(r) = Link!Key(a, b, t)
        /\ r.type = "co_occurrence" /\ Current
             => Link!Recorded(r) \subseteq assoc_met[r.src] \cap assoc_met[r.tgt]
    BY <2>1, EvidenceSound, Zenon
  <2>3. ASSUME NEW x \in Link!NewLinks(S, known), Link!RowKey(x) = Link!RowKey(r)
        PROVE  x = r
    <3>1. PICK c \in OfLinks.People, d \in OfLinks.People, u \in Link!Types :
              c # d /\ x = Link!Evidence(c, d, u)
      BY <1>1
    <3>2. Link!Key(a, b, t) = Link!Key(c, d, u)
      BY <2>2, <2>3, <3>1, EvidenceSound, Zenon
    <3>3. /\ (a = c /\ b = d) \/ (a = d /\ b = c)
          /\ t = u
      BY <3>2, SameKey
    <3>5. Link!Evidence(b, a, t) = Link!Evidence(a, b, t)
      BY <2>1, EvidenceFacts, Zenon
    <3> QED
      BY <2>1, <3>1, <3>3, <3>5
  <2> QED
    BY <2>1, <2>2, <2>3
<1> QED
  BY <1>2 DEF Sound

LEMMA UnionSound ==
    ASSUME NEW A, NEW B, Sound(A), Sound(B),
           \A r \in A, x \in B : Link!RowKey(r) # Link!RowKey(x)
    PROVE  Sound(A \cup B)
  BY DEF Sound

\* What FullScan links by city and company.
LEMMA PlacedSound ==
    ASSUME Link!ConstantsOK, LinkInv
    PROVE  Sound(Link!Placed) /\ \A r \in Link!Placed : r.type # "co_occurrence"
<1>0. \A p \in Link!Unlinked :
          /\ Link!Place(p[1], p[2]) \subseteq Link!Types \ {"co_occurrence"}
          /\ \A t, u \in Link!Place(p[1], p[2]) : t = u
  BY DEF Link!Place, Link!Types
<1>1. ASSUME NEW p \in Link!Unlinked, NEW t \in Link!Place(p[1], p[2])
      PROVE  /\ p[1] \in OfLinks.People /\ p[2] \in OfLinks.People /\ p[1] # p[2]
             /\ p[1] < p[2]
             /\ p = <<p[1], p[2]>>
             /\ RowOf(Link!Row(Link!Key(p[1], p[2], t), {}, OfLinks.NoEvent,
                               assoc_source[p[1]]),
                      p[1], p[2], t, {}, OfLinks.NoEvent)
  <2>1. /\ p[1] \in OfLinks.People /\ p[2] \in OfLinks.People /\ p[1] < p[2]
        /\ p = <<p[1], p[2]>>
    BY DEF Link!Unlinked, Link!Pairs2, Link!Active
  <2>2. p[1] # p[2]
    BY <2>1 DEF Link!ConstantsOK
  <2>3. assoc_source[p[1]] \in OfLinks.Events \cup {OfLinks.NoEvent} /\ t \in Link!Types
    BY <1>0, <2>1 DEF LinkInv, Shape
  <2>4. RowOf(Link!Row(Link!Key(p[1], p[2], t), {}, OfLinks.NoEvent,
                       assoc_source[p[1]]), p[1], p[2], t, {}, OfLinks.NoEvent)
    BY <2>1, <2>2, <2>3, RowFacts
  <2> QED
    BY <2>1, <2>2, <2>4
<1>2. ASSUME NEW r \in Link!Placed
      PROVE  \E p \in Link!Unlinked : \E t \in Link!Place(p[1], p[2]) :
                 r = Link!Row(Link!Key(p[1], p[2], t), {}, OfLinks.NoEvent,
                              assoc_source[p[1]])
  BY <1>2 DEF Link!Placed
<1>3. ASSUME NEW r \in Link!Placed
      PROVE  /\ r \in RowSet /\ r.src # r.tgt /\ Link!RowKey(r) \notin assoc_pairs
             /\ r.type # "co_occurrence"
             /\ \A x \in Link!Placed : Link!RowKey(x) = Link!RowKey(r) => x = r
  <2>0. PICK p \in Link!Unlinked : \E t \in Link!Place(p[1], p[2]) :
            r = Link!Row(Link!Key(p[1], p[2], t), {}, OfLinks.NoEvent,
                         assoc_source[p[1]])
    BY <1>2
  <2>1. PICK t \in Link!Place(p[1], p[2]) :
            r = Link!Row(Link!Key(p[1], p[2], t), {}, OfLinks.NoEvent,
                         assoc_source[p[1]])
    BY <2>0
  <2>2. /\ RowOf(r, p[1], p[2], t, {}, OfLinks.NoEvent)
        /\ t \in Link!Types \ {"co_occurrence"}
    BY <1>0, <1>1, <2>1
  <2>3. ASSUME NEW x \in Link!Placed, Link!RowKey(x) = Link!RowKey(r) PROVE x = r
    <3>0. PICK q \in Link!Unlinked : \E u \in Link!Place(q[1], q[2]) :
              x = Link!Row(Link!Key(q[1], q[2], u), {}, OfLinks.NoEvent,
                           assoc_source[q[1]])
      BY <1>2
    <3>1. PICK u \in Link!Place(q[1], q[2]) :
              x = Link!Row(Link!Key(q[1], q[2], u), {}, OfLinks.NoEvent,
                           assoc_source[q[1]])
      BY <3>0
    <3>2. RowOf(x, q[1], q[2], u, {}, OfLinks.NoEvent)
      BY <1>1, <3>1
    <3>3. Link!Key(p[1], p[2], t) = Link!Key(q[1], q[2], u)
      BY <2>2, <2>3, <3>2 DEF RowOf
    <3>4. /\ p[1] \in OfLinks.People /\ p[2] \in OfLinks.People
          /\ q[1] \in OfLinks.People /\ q[2] \in OfLinks.People
      BY <1>1, <2>1, <3>1
    <3> DEFINE a == p[1]  b == p[2]  c == q[1]  d == q[2]
    <3>5. /\ (a = c /\ b = d) \/ (a = d /\ b = c)
          /\ t = u
      <4>1. /\ a \in OfLinks.People /\ b \in OfLinks.People /\ c \in OfLinks.People
            /\ d \in OfLinks.People
        BY <3>4
      <4>2. Link!Key(a, b, t) = Link!Key(c, d, u)
        BY <3>3
      <4> HIDE DEF a, b, c, d
      <4> QED
        BY <4>1, <4>2, SameKey
    <3>6. p[1] < p[2] /\ q[1] < q[2]
      BY <1>1, <2>1, <3>1
    <3>8. p[1] \in Nat /\ p[2] \in Nat /\ q[1] \in Nat /\ q[2] \in Nat
      BY <3>4 DEF Link!ConstantsOK
    <3>7. p[1] = q[1] /\ p[2] = q[2]
      BY <3>5, <3>6, <3>8
    <3>9. p = <<p[1], p[2]>> /\ q = <<q[1], q[2]>>
      BY <1>1, <2>1, <3>1
    <3> QED
      BY <2>1, <3>1, <3>5, <3>7, <3>9
  <2> QED
    <3>1. Link!RowKey(r) \notin assoc_pairs
      BY <2>1, <2>2 DEF RowOf, Link!Unlinked, Link!Linked
    <3> QED
      BY <2>2, <2>3, <3>1 DEF RowOf
<1> QED
  BY <1>3 DEF Sound

----------------------------------------------------------------------------
(* What a discovery makes of the assoc_rows *)

\* A row that was met again keeps its ends and its type, and names more events.
LEMMA AppendsFacts ==
    ASSUME Link!ConstantsOK, LinkInv, NEW S, NEW r \in assoc_rows, Link!Met(r, S)
    PROVE  LET x == Link!Appends(r, Link!Common(r.src, r.tgt))
           IN  /\ x \in RowSet /\ x.src = r.src /\ x.tgt = r.tgt /\ x.type = r.type
               /\ Link!RowKey(x) = Link!RowKey(r)
               /\ Link!Recorded(x) \subseteq Link!Recorded(r)
                    \cup Link!Common(r.src, r.tgt)
               /\ Link!Common(r.src, r.tgt) \subseteq x.shared
<1> DEFINE E == Link!Common(r.src, r.tgt)
<1>1. r \in RowSet /\ r.src \in OfLinks.People /\ r.tgt \in OfLinks.People
  BY DEF LinkInv, RowsShape, RowSet
<1>2. E \in SUBSET OfLinks.Events
  BY <1>1, CommonFacts
<1>3. E # {}
  <2>1. Link!Common(Link!MinOf(r.src, r.tgt), Link!MaxOf(r.src, r.tgt)) # {}
    BY DEF Link!Met, Link!Together
  <2>2. Link!Common(r.src, r.tgt) = Link!Common(r.tgt, r.src)
    BY <1>1, CommonFacts
  <2> QED
    BY <2>1, <2>2 DEF Link!MinOf, Link!MaxOf
<1>4. Link!Pick(E) \in E
  BY <1>3, Picks
<1> HIDE DEF E
<1> DEFINE x == Link!Appends(r, E)
<1> DEFINE more == r.shared \cup E
      \cup (IF r.legacy = OfLinks.NoEvent THEN {} ELSE {r.legacy})
           y == [src |-> r.src, tgt |-> r.tgt, type |-> r.type, shared |-> more,
                 legacy |-> Link!Pick(E), event |-> Link!Pick(E)]
<1>a. r = [src |-> r.src, tgt |-> r.tgt, type |-> r.type, shared |-> r.shared,
           legacy |-> r.legacy, event |-> r.event]
  BY <1>1 DEF RowSet
<1>b. x = [r EXCEPT !.shared = more, !.legacy = Link!Pick(E), !.event = Link!Pick(E)]
  BY Zenon DEF Link!Appends
<1>c. x = y
  <2> HIDE DEF x, more
  <2> QED
    BY <1>a, <1>b
<1>5. /\ x.src = r.src /\ x.tgt = r.tgt /\ x.type = r.type
      /\ x.shared = r.shared \cup E
           \cup (IF r.legacy = OfLinks.NoEvent THEN {} ELSE {r.legacy})
      /\ x.legacy = Link!Pick(E) /\ x.event = Link!Pick(E)
      /\ x = [src |-> x.src, tgt |-> x.tgt, type |-> x.type, shared |-> x.shared,
              legacy |-> x.legacy, event |-> x.event]
  <2> HIDE DEF x
  <2> QED
    BY <1>c
<1> HIDE DEF x
<1>6. x.shared \subseteq OfLinks.Events /\ Link!Pick(E) \in OfLinks.Events
  BY <1>1, <1>2, <1>4, <1>5 DEF RowSet
<1>7. x \in RowSet
  BY <1>1, <1>5, <1>6 DEF RowSet
<1>8. Link!RowKey(x) = Link!RowKey(r)
  BY <1>5 DEF Link!RowKey
<1>9. Link!Recorded(x) \subseteq Link!Recorded(r) \cup E
  BY <1>4, <1>5 DEF Link!Recorded
<1> QED
  BY <1>5, <1>7, <1>8, <1>9 DEF E, x

LEMMA AccumulatedFacts ==
    ASSUME Link!ConstantsOK, LinkInv, NEW S, NEW x \in Link!Accumulated(S)
    PROVE  \E r \in assoc_rows :
              /\ x = IF Link!Met(r, S) /\ Link!RowKey(r) \in assoc_pairs
                     THEN Link!Appends(r, Link!Common(r.src, r.tgt)) ELSE r
              /\ x \in RowSet /\ x.src = r.src /\ x.tgt = r.tgt /\ x.type = r.type
              /\ Link!RowKey(x) = Link!RowKey(r)
              /\ Link!Recorded(x) \subseteq Link!Recorded(r)
                   \cup Link!Common(r.src, r.tgt)
<1>1. PICK r \in assoc_rows :
            x = IF Link!Met(r, S) /\ Link!RowKey(r) \in assoc_pairs
                THEN Link!Appends(r, Link!Common(r.src, r.tgt)) ELSE r
  BY DEF Link!Accumulated
<1>2. r \in RowSet
  BY DEF LinkInv, RowsShape
<1>3. CASE Link!Met(r, S) /\ Link!RowKey(r) \in assoc_pairs
  BY <1>1, <1>3, AppendsFacts
<1>4. CASE ~(Link!Met(r, S) /\ Link!RowKey(r) \in assoc_pairs)
  BY <1>1, <1>2, <1>4
<1> QED
  BY <1>1, <1>3, <1>4

\* A discovery that adds sound rows adds no twin and names no event that was missed.
LEMMA AddsSoundly ==
    ASSUME Link!ConstantsOK, LinkInv, NEW S, NEW new, Sound(new)
    PROVE  LET R == Link!Accumulated(S) \cup new
           IN  /\ R \subseteq RowSet /\ \A r \in R : r.src # r.tgt
               /\ assoc_pairs = Link!PairSet(assoc_rows) /\ Link!Twin(R)
                    => Link!Twin(assoc_rows)
               /\ Current /\ Link!Attended(assoc_rows, assoc_met)
                    => Link!Attended(R, assoc_met)
<1> DEFINE R == Link!Accumulated(S) \cup new
<1>1. ASSUME NEW x \in Link!Accumulated(S)
      PROVE  /\ x \in RowSet /\ x.src # x.tgt
             /\ Link!RowKey(x) \in Link!PairSet(assoc_rows)
             /\ Current /\ Link!Attended(assoc_rows, assoc_met) /\ x.type = "co_occurrence" =>
                    Link!Recorded(x) \subseteq assoc_met[x.src] \cap assoc_met[x.tgt]
  <2>1. PICK r \in assoc_rows :
              /\ x \in RowSet /\ x.src = r.src /\ x.tgt = r.tgt /\ x.type = r.type
              /\ Link!RowKey(x) = Link!RowKey(r)
              /\ Link!Recorded(x) \subseteq Link!Recorded(r)
                   \cup Link!Common(r.src, r.tgt)
    BY AccumulatedFacts
  <2>2. r.src # r.tgt /\ r.src \in OfLinks.People /\ r.tgt \in OfLinks.People
    BY DEF LinkInv, RowsShape, RowSet
  <2>3. Current => Link!Common(r.src, r.tgt) \subseteq assoc_met[r.src] \cap assoc_met[r.tgt]
    BY <2>2, CommonAttended
  <2>4. Link!Attended(assoc_rows, assoc_met) /\ r.type = "co_occurrence" =>
            Link!Recorded(r) \subseteq assoc_met[r.src] \cap assoc_met[r.tgt]
    BY DEF Link!Attended
  <2> QED
    BY <2>1, <2>2, <2>3, <2>4 DEF Link!PairSet
<1>2. R \subseteq RowSet /\ \A r \in R : r.src # r.tgt
  BY <1>1 DEF Sound
<1>3. Current /\ Link!Attended(assoc_rows, assoc_met) => Link!Attended(R, assoc_met)
  BY <1>1 DEF Sound, Link!Attended
<1>4. ASSUME assoc_pairs = Link!PairSet(assoc_rows), NEW x \in R, NEW y \in R, x # y,
             Link!RowKey(x) = Link!RowKey(y)
      PROVE  Link!Twin(assoc_rows)
  <2>1. x \in Link!Accumulated(S) /\ y \in Link!Accumulated(S)
    BY <1>1, <1>4 DEF Sound
  <2>2. PICK r \in assoc_rows :
              /\ x = IF Link!Met(r, S) /\ Link!RowKey(r) \in assoc_pairs
                     THEN Link!Appends(r, Link!Common(r.src, r.tgt)) ELSE r
              /\ Link!RowKey(x) = Link!RowKey(r)
    BY <2>1, AccumulatedFacts
  <2>3. PICK s \in assoc_rows :
              /\ y = IF Link!Met(s, S) /\ Link!RowKey(s) \in assoc_pairs
                     THEN Link!Appends(s, Link!Common(s.src, s.tgt)) ELSE s
              /\ Link!RowKey(y) = Link!RowKey(s)
    BY <2>1, AccumulatedFacts
  <2>4. r # s /\ Link!RowKey(r) = Link!RowKey(s)
    BY <1>4, <2>2, <2>3
  <2> QED
    BY <2>4 DEF Link!Twin
<1>5. assoc_pairs = Link!PairSet(assoc_rows) /\ Link!Twin(R) => Link!Twin(assoc_rows)
  BY <1>4 DEF Link!Twin
<1> QED
  BY <1>2, <1>3, <1>5

\* The rows a step of the discovery leaves, unless it leaves them as they were.
Fresh(S) ==
    Link!NewMeetings(S)
        \cup Link!NewLinks(S, assoc_pairs \cup Link!PairSet(Link!NewMeetings(S)))

LEMMA FreshSound ==
    ASSUME Link!ConstantsOK, LinkInv, NEW S \in SUBSET OfLinks.People
    PROVE  Sound(Fresh(S))
<1> DEFINE known == assoc_pairs \cup Link!PairSet(Link!NewMeetings(S))
<1>1. Sound(Link!NewMeetings(S))
  BY MeetingsSound
<1>2. /\ Sound(Link!NewLinks(S, known))
      /\ \A r \in Link!NewLinks(S, known) : Link!RowKey(r) \notin known
  BY LinksSound
<1>3. \A r \in Link!NewMeetings(S),
        x \in Link!NewLinks(S, known) : Link!RowKey(r) # Link!RowKey(x)
  BY <1>2 DEF Link!PairSet
<1> QED
  BY <1>1, <1>2, <1>3, UnionSound DEF Fresh

LEMMA ScanSound ==
    ASSUME Link!ConstantsOK, LinkInv, NEW S \in SUBSET OfLinks.People
    PROVE  Sound(Link!NewMeetings(S) \cup Link!Placed)
<1>1. /\ Sound(Link!NewMeetings(S))
      /\ \A r \in Link!NewMeetings(S) : r.type = "co_occurrence"
  BY MeetingsSound, MeetingFacts
<1>2. Sound(Link!Placed) /\ \A r \in Link!Placed : r.type # "co_occurrence"
  BY PlacedSound
<1>3. \A r \in Link!NewMeetings(S), x \in Link!Placed : Link!RowKey(r) # Link!RowKey(x)
  BY <1>1, <1>2 DEF Link!RowKey, Link!Key
<1> QED
  BY <1>1, <1>2, <1>3, UnionSound

\* What a step at link makes of the rows.
LEMMA Discovers ==
    ASSUME Link!Discover \/ Link!FullScan
    PROVE  /\ assoc_at = "link" /\ Link!Done
           /\ \/ assoc_rows' = assoc_rows
              \/ assoc_who # {}
                   /\ assoc_rows' = Link!Accumulated(assoc_who) \cup Fresh(assoc_who)
              \/ assoc_who = {}
                   /\ assoc_rows' = Link!Accumulated(Link!Known)
                        \cup (Link!NewMeetings(Link!Known) \cup Link!Placed)
  BY DEF Link!Discover, Link!FullScan, Fresh

LEMMA DiscoversSoundly ==
    ASSUME Link!ConstantsOK, LinkInv, Link!Discover \/ Link!FullScan
    PROVE  /\ assoc_rows' \subseteq RowSet /\ \A r \in assoc_rows' : r.src # r.tgt
           /\ assoc_pairs = Link!PairSet(assoc_rows) /\ Link!Twin(assoc_rows')
                => Link!Twin(assoc_rows)
           /\ Current /\ Link!Attended(assoc_rows, assoc_met)
                => Link!Attended(assoc_rows', assoc_met)
<1>1. /\ assoc_at = "link" /\ assoc_who \subseteq OfLinks.People
      /\ Link!Known \subseteq OfLinks.People
  BY Discovers DEF LinkInv, Shape, Link!Known
<1>2. CASE assoc_rows' = assoc_rows
  BY <1>2 DEF LinkInv, RowsShape
<1>3. CASE assoc_rows' = Link!Accumulated(assoc_who) \cup Fresh(assoc_who)
  BY <1>1, <1>3, FreshSound, AddsSoundly
<1>4. CASE assoc_rows' = Link!Accumulated(Link!Known)
        \cup (Link!NewMeetings(Link!Known) \cup Link!Placed)
  BY <1>1, <1>4, ScanSound, AddsSoundly
<1> QED
  BY <1>2, <1>3, <1>4, Discovers

----------------------------------------------------------------------------
(* A merge *)

LEMMA MovedFacts ==
    ASSUME NEW s \in OfLinks.People, NEW t \in OfLinks.People, NEW r \in RowSet
    PROVE  LET x == Link!Moved(r, s, t)
           IN  /\ x \in RowSet /\ x.type = r.type
               /\ x.shared = r.shared /\ x.legacy = r.legacy
               /\ x.src = (IF r.src = s THEN t ELSE r.src)
               /\ x.tgt = (IF r.tgt = s THEN t ELSE r.tgt)
<1> DEFINE a == IF r.src = s THEN t ELSE r.src
           b == IF r.tgt = s THEN t ELSE r.tgt
           x == Link!Moved(r, s, t)
<1>1. x = [r EXCEPT !.src = a, !.tgt = b]
  BY Zenon DEF Link!Moved
<1>2. r = [src |-> r.src, tgt |-> r.tgt, type |-> r.type, shared |-> r.shared,
           legacy |-> r.legacy, event |-> r.event]
  BY DEF RowSet
<1>3. a \in OfLinks.People /\ b \in OfLinks.People
  BY DEF RowSet
<1> HIDE DEF a, b, x
<1>4. x = [src |-> a, tgt |-> b, type |-> r.type, shared |-> r.shared,
           legacy |-> r.legacy, event |-> r.event]
  BY <1>1, <1>2
<1>5. x \in RowSet
  BY <1>3, <1>4 DEF RowSet
<1> QED
  BY <1>4, <1>5 DEF a, b, x

LEMMA Merges ==
    ASSUME Link!ConstantsOK, LinkInv, NEW m \in assoc_merges, Link!MergeWrite(m)
    PROVE  /\ assoc_rows' \subseteq RowSet /\ \A r \in assoc_rows' : r.src # r.tgt
           /\ Link!Twin(assoc_rows') => Link!Twin(assoc_rows)
           /\ ~Link!Outdated(m.met) /\ Link!Attended(assoc_rows, assoc_met)
                => Link!Attended(assoc_rows', assoc_met')
<1> DEFINE s == m.src
           t == m.tgt
           Kept == ~Link!Outdated(m.met)
<1>0. /\ s \in OfLinks.People /\ t \in OfLinks.People /\ s # t
      /\ m.met \in [{s, t} -> SUBSET OfLinks.Events]
  BY DEF LinkInv, Shape
<1> DEFINE own == {r \in assoc_rows : {r.src, r.tgt} = {s, t}}
           old == {r \in assoc_rows \ own : s \in {r.src, r.tgt}}
           one(k) == CHOOSE r \in old : Link!RowKey(Link!Moved(r, s, t)) = k
           moving == {one(Link!RowKey(Link!Moved(r, s, t))) :
                         r \in {x \in old : ~Link!Conflicts(x, s, t)}}
           came == {Link!Moved(r, s, t) : r \in moving}
<1>1. assoc_rows' = (assoc_rows \ (own \cup old)) \cup came
  BY DEF Link!MergeWrite
<1>2. /\ assoc_met'
           = [assoc_met EXCEPT ![t] = m.met[t] \cup m.met[s], ![s] = m.met[s]]
      /\ assoc_met \in [OfLinks.People -> SUBSET OfLinks.Events]
  BY DEF Link!MergeWrite, Link!EventsUnion, LinkInv, Shape
<1> HIDE DEF s, t
<1>3. ASSUME Kept
      PROVE  /\ \A p \in OfLinks.People : assoc_met[p] \subseteq assoc_met'[p]
             /\ assoc_met[s] \subseteq assoc_met'[t]
  <2>1. m.met[s] = assoc_met[s] /\ m.met[t] = assoc_met[t]
    BY <1>0, <1>3 DEF Link!Outdated
  <2> QED
    BY <1>0, <1>2, <2>1
<1> HIDE DEF Kept
<1>5. ASSUME NEW r \in moving
      PROVE  /\ r \in assoc_rows /\ r \in RowSet /\ r.src # r.tgt
             /\ {r.src, r.tgt} # {s, t} /\ s \in {r.src, r.tgt}
             /\ one(Link!RowKey(Link!Moved(r, s, t))) = r
             /\ ~Link!Conflicts(r, s, t)
  <2>1. PICK q \in old : ~Link!Conflicts(q, s, t)
          /\ r = one(Link!RowKey(Link!Moved(q, s, t)))
    OBVIOUS
  <2> DEFINE k == Link!RowKey(Link!Moved(q, s, t))
  <2>2. \E x \in old : Link!RowKey(Link!Moved(x, s, t)) = k
    OBVIOUS
  <2>3. one(k) \in old /\ Link!RowKey(Link!Moved(one(k), s, t)) = k
    <3> HIDE DEF k, old
    <3> QED
      BY <2>2
  <2>4. r \in old /\ Link!RowKey(Link!Moved(r, s, t)) = k
    BY <2>1, <2>3
  <2>5. one(Link!RowKey(Link!Moved(r, s, t))) = r
    BY <2>1, <2>4
  <2>6. ~Link!Conflicts(r, s, t)
    BY <2>1, <2>4 DEF Link!Conflicts
  <2>7. r \in assoc_rows /\ {r.src, r.tgt} # {s, t} /\ s \in {r.src, r.tgt}
    BY <2>4
  <2>8. r \in RowSet /\ r.src # r.tgt
    BY <2>7 DEF LinkInv, RowsShape
  <2> QED
    BY <2>5, <2>6, <2>7, <2>8
<1> HIDE DEF own, old, one, moving
<1>6. ASSUME NEW x \in came
      PROVE  /\ x \in RowSet /\ x.src # x.tgt /\ t \in {x.src, x.tgt}
             /\ Kept /\ Link!Attended(assoc_rows, assoc_met) /\ x.type = "co_occurrence" =>
                    Link!Recorded(x) \subseteq assoc_met'[x.src] \cap assoc_met'[x.tgt]
             /\ \E r \in moving : x = Link!Moved(r, s, t)
  <2>1. PICK r \in moving : x = Link!Moved(r, s, t)
    OBVIOUS
  <2>2. /\ r \in assoc_rows /\ r \in RowSet /\ r.src # r.tgt
        /\ {r.src, r.tgt} # {s, t} /\ s \in {r.src, r.tgt}
    BY <1>5
  <2>3. /\ x \in RowSet /\ x.type = r.type /\ x.shared = r.shared /\ x.legacy = r.legacy
        /\ x.src = (IF r.src = s THEN t ELSE r.src)
        /\ x.tgt = (IF r.tgt = s THEN t ELSE r.tgt)
    BY <1>0, <2>1, <2>2, MovedFacts
  <2>4. x.src # x.tgt /\ t \in {x.src, x.tgt}
    BY <1>0, <2>2, <2>3
  <2>5. Link!Recorded(x) = Link!Recorded(r)
    BY <2>3 DEF Link!Recorded
  <2>6. Link!Attended(assoc_rows, assoc_met) /\ r.type = "co_occurrence" =>
            Link!Recorded(r) \subseteq assoc_met[r.src] \cap assoc_met[r.tgt]
    BY <2>2 DEF Link!Attended
  <2>7. r.src \in OfLinks.People /\ r.tgt \in OfLinks.People
    BY <2>2 DEF RowSet
  <2>8. Kept => /\ assoc_met[r.src] \subseteq assoc_met'[x.src]
                /\ assoc_met[r.tgt] \subseteq assoc_met'[x.tgt]
    BY <1>3, <2>3, <2>7
  <2> QED
    BY <2>1, <2>3, <2>4, <2>5, <2>6, <2>8
<1>7. ASSUME NEW x \in assoc_rows
      PROVE  /\ x \in RowSet /\ x.src # x.tgt
             /\ Kept /\ Link!Attended(assoc_rows, assoc_met) /\ x.type = "co_occurrence" =>
                    Link!Recorded(x) \subseteq assoc_met'[x.src] \cap assoc_met'[x.tgt]
  <2>1. /\ x \in RowSet /\ x.src # x.tgt /\ x.src \in OfLinks.People
        /\ x.tgt \in OfLinks.People
    BY DEF LinkInv, RowsShape, RowSet
  <2>2. Kept => /\ assoc_met[x.src] \subseteq assoc_met'[x.src]
                /\ assoc_met[x.tgt] \subseteq assoc_met'[x.tgt]
    BY <1>3, <2>1
  <2> QED
    BY <2>1, <2>2 DEF Link!Attended
<1>8. assoc_rows' \subseteq assoc_rows \cup came
  BY <1>1
<1>9. assoc_rows' \subseteq RowSet /\ (\A r \in assoc_rows' : r.src # r.tgt)
      /\ (Kept /\ Link!Attended(assoc_rows, assoc_met)
          => Link!Attended(assoc_rows', assoc_met'))
  BY <1>6, <1>7, <1>8 DEF Link!Attended
<1>10. ASSUME NEW x \in came, NEW y \in came, Link!RowKey(x) = Link!RowKey(y)
       PROVE  x = y
  <2>1. PICK r \in moving : x = Link!Moved(r, s, t)
    OBVIOUS
  <2>2. PICK q \in moving : y = Link!Moved(q, s, t)
    OBVIOUS
  <2>3. r = one(Link!RowKey(x)) /\ q = one(Link!RowKey(y))
    BY <1>5, <2>1, <2>2
  <2> QED
    BY <1>10, <2>1, <2>2, <2>3
<1>11. ASSUME NEW x \in came, NEW y \in assoc_rows, Link!RowKey(x) = Link!RowKey(y)
       PROVE  FALSE
  <2>1. PICK r \in moving : x = Link!Moved(r, s, t) /\ x \in RowSet
          /\ t \in {x.src, x.tgt}
    BY <1>6
  <2>2. y \in RowSet
    BY DEF LinkInv, RowsShape
  <2>3. /\ x.src \in OfLinks.People /\ x.tgt \in OfLinks.People
        /\ y.src \in OfLinks.People /\ y.tgt \in OfLinks.People
        /\ Link!Key(x.src, x.tgt, x.type) = Link!Key(y.src, y.tgt, y.type)
    BY <1>11, <2>1, <2>2 DEF RowSet, Link!RowKey
  <2>4. \/ x.src = y.src /\ x.tgt = y.tgt
        \/ x.src = y.tgt /\ x.tgt = y.src
    BY <2>3, SameKey
  <2>5. t \in {y.src, y.tgt}
    BY <2>1, <2>4
  <2>6. Link!Conflicts(r, s, t)
    BY <1>11, <2>1, <2>5 DEF Link!Conflicts
  <2> QED
    BY <1>5, <2>6
<1>12. Link!Twin(assoc_rows') => Link!Twin(assoc_rows)
  BY <1>8, <1>10, <1>11 DEF Link!Twin
<1> QED
  BY <1>9, <1>12 DEF Kept

----------------------------------------------------------------------------
(* The invariant *)

LEMMA LinkInit == ASSUME Link!ConstantsOK, Link!Init PROVE LinkInv
<1>1. /\ assoc_seen.met = [p \in OfLinks.People |-> {}]
      /\ assoc_at = "idle" /\ assoc_rows = {} /\ assoc_merges = {}
  BY DEF Link!Init, Link!Closed
<1>2. Shape
  BY <1>1 DEF Link!Init, Shape, Statuses, Stages, Link!ConstantsOK
<1>3. SourcesMet /\ MergesKnown
  BY <1>1 DEF Link!Init, SourcesMet, MergesKnown
<1> QED
  BY <1>1, <1>2, <1>3 DEF LinkInv, RowsShape

\* The end of step 10: rows apart, nothing of the invariant is touched.
LEMMA DoneKeeps ==
    ASSUME Link!ConstantsOK, LinkInv, Link!Done, assoc_rows' \subseteq RowSet,
           \A r \in assoc_rows' : r.src # r.tgt
    PROVE  LinkInv'
<1>1. Shape'
  BY DEF Link!Done, Link!people, LinkInv, Shape, Link!Closed, Stages
<1>2. SourcesMet' /\ MergesKnown'
  BY DEF Link!Done, Link!people, LinkInv, SourcesMet, MergesKnown, Link!Known
<1> QED
  BY <1>1, <1>2 DEF LinkInv, RowsShape

\* Step 2 writes copies that hold the first event of everyone known.
LEMMA RecordKeeps ==
    ASSUME Link!ConstantsOK, LinkInv, NEW S \in OfLinks.Meetings, Link!Record(S)
    PROVE  LinkInv'
<1>1. S \subseteq OfLinks.People
  BY DEF Link!ConstantsOK
<1>2. /\ assoc_at = "resolve" /\ assoc_at' = "read"
      /\ assoc_status' = [p \in OfLinks.People |->
             IF p \in S \ Link!Known THEN "active" ELSE assoc_status[p]]
      /\ assoc_source' = [p \in OfLinks.People |->
             IF p \in S \ Link!Known THEN assoc_event ELSE assoc_source[p]]
      /\ assoc_met' = [p \in OfLinks.People |->
             IF p \in S THEN assoc_seen.met[p] \cup {assoc_event} ELSE assoc_met[p]]
      /\ assoc_who' = IF S = {} THEN {p \in Link!Known : assoc_source[p] = assoc_event}
                       ELSE S
      /\ assoc_seen'.met = [p \in OfLinks.People |-> {}]
      /\ UNCHANGED <<assoc_rows, assoc_merges, assoc_event, assoc_pairs, assoc_runs>>
  BY DEF Link!Record, Link!Closed
<1>3. assoc_event \in OfLinks.Events
  BY <1>2 DEF LinkInv, Shape
<1>4. Shape'
  <2>1. /\ assoc_status' \in [OfLinks.People -> Statuses]
        /\ assoc_source' \in [OfLinks.People -> OfLinks.Events \cup {OfLinks.NoEvent}]
    BY <1>2, <1>3 DEF LinkInv, Shape, Statuses
  <2>2. assoc_met' \in [OfLinks.People -> SUBSET OfLinks.Events]
    BY <1>2, <1>3 DEF LinkInv, Shape
  <2>3. assoc_who' \subseteq OfLinks.People
    BY <1>1, <1>2 DEF Link!Known
  <2> QED
    BY <1>2, <2>1, <2>2, <2>3 DEF LinkInv, Shape, Stages
<1>5. SourcesMet'
  <2> SUFFICES ASSUME NEW p \in OfLinks.People, assoc_source'[p] # OfLinks.NoEvent
               PROVE  /\ assoc_source'[p] \in assoc_met'[p]
                      /\ \A m \in assoc_merges : p \in {m.src, m.tgt}
                             => assoc_source'[p] \in m.met[p]
    BY <1>2 DEF SourcesMet
  <2>1. CASE p \in S \ Link!Known
    <3>1. assoc_source'[p] = assoc_event /\ assoc_event \in assoc_met'[p]
      BY <1>2, <2>1
    <3>2. \A m \in assoc_merges : p \notin {m.src, m.tgt}
      BY <2>1 DEF LinkInv, MergesKnown
    <3> QED
      BY <3>1, <3>2
  <2>2. CASE p \notin S \ Link!Known
    BY <1>2, <2>2 DEF LinkInv, SourcesMet
  <2> QED
    BY <2>1, <2>2
<1>6. MergesKnown'
  BY <1>2 DEF LinkInv, Shape, MergesKnown, Link!Known
<1> QED
  BY <1>2, <1>4, <1>5, <1>6 DEF LinkInv, RowsShape

\* Of the two profiles of a merge, both are written from copies made when known.
LEMMA MergeKeeps ==
    ASSUME Link!ConstantsOK, LinkInv, NEW m \in assoc_merges, Link!MergeWrite(m)
    PROVE  LinkInv'
<1> DEFINE s == m.src
           t == m.tgt
<1>1. /\ s \in OfLinks.People /\ t \in OfLinks.People /\ s # t
      /\ m.met \in [{s, t} -> SUBSET OfLinks.Events]
  BY DEF LinkInv, Shape
<1>2. /\ assoc_status' = [assoc_status EXCEPT ![s] = "merged"]
      /\ assoc_met'
           = [assoc_met EXCEPT ![t] = m.met[t] \cup m.met[s], ![s] = m.met[s]]
      /\ assoc_merges' = assoc_merges \ {m}
      /\ UNCHANGED <<assoc_source, assoc_at, assoc_event, assoc_who, assoc_pairs,
                     assoc_seen, assoc_runs>>
  BY DEF Link!MergeWrite, Link!EventsUnion, Link!run
<1>3. \A p \in {s, t} : assoc_source[p] # OfLinks.NoEvent => assoc_source[p] \in m.met[p]
  BY <1>1 DEF LinkInv, SourcesMet
<1> HIDE DEF s, t
<1>4. Shape'
  <2>1. /\ assoc_status' \in [OfLinks.People -> Statuses]
        /\ assoc_met' \in [OfLinks.People -> SUBSET OfLinks.Events]
    BY <1>1, <1>2 DEF LinkInv, Shape, Statuses
  <2> QED
    BY <1>2, <2>1 DEF LinkInv, Shape
<1>5. SourcesMet'
  <2> SUFFICES ASSUME NEW p \in OfLinks.People, assoc_source[p] # OfLinks.NoEvent
               PROVE  assoc_source[p] \in assoc_met'[p]
    BY <1>2 DEF LinkInv, SourcesMet
  <2>1. assoc_source[p] \in assoc_met[p]
    BY DEF LinkInv, SourcesMet
  <2>2. \/ p \notin {s, t} /\ assoc_met'[p] = assoc_met[p]
        \/ p \in {s, t} /\ m.met[p] \subseteq assoc_met'[p]
    BY <1>1, <1>2 DEF LinkInv, Shape
  <2> QED
    BY <1>3, <2>1, <2>2
<1>6. MergesKnown'
  BY <1>1, <1>2 DEF LinkInv, Shape, MergesKnown, Link!Known
<1> QED
  BY <1>4, <1>5, <1>6, Merges DEF LinkInv, RowsShape

LEMMA LinkNext ==
    ASSUME Link!ConstantsOK, LinkInv, [Link!Next]_(Link!vars)
    PROVE  LinkInv'
<1> USE DEF Link!people, Link!run
<1>1. ASSUME NEW e \in OfLinks.Events, Link!Begin(e) PROVE LinkInv'
  <2>1. /\ assoc_event' = e /\ assoc_at' = "resolve" /\ assoc_runs < OfLinks.MaxRuns
        /\ assoc_runs' = assoc_runs + 1 /\ assoc_who' \subseteq OfLinks.People
        /\ assoc_seen'.met = assoc_met
        /\ UNCHANGED <<assoc_status, assoc_source, assoc_met, assoc_rows, assoc_merges,
                       assoc_pairs>>
    BY <1>1 DEF Link!Begin, Link!Properties, Link!Active
  <2>2. Shape'
    BY <2>1 DEF LinkInv, Shape, Stages, Link!ConstantsOK
  <2> QED
    BY <2>1, <2>2 DEF LinkInv, RowsShape, SourcesMet, MergesKnown, Link!Known
<1>2. ASSUME NEW S \in OfLinks.Meetings, Link!Record(S) PROVE LinkInv'
  BY <1>2, RecordKeeps
<1>3. CASE Link!ExtractFails
  <2>1. /\ assoc_event' = OfLinks.NoEvent /\ assoc_at' = "idle" /\ assoc_who' = {}
        /\ assoc_seen'.met = [p \in OfLinks.People |-> {}]
        /\ UNCHANGED <<assoc_status, assoc_source, assoc_met, assoc_rows, assoc_merges,
                       assoc_pairs, assoc_runs>>
    BY <1>3 DEF Link!ExtractFails, Link!Closed
  <2> QED
    BY <2>1 DEF LinkInv, Shape, RowsShape, SourcesMet, MergesKnown, Stages, Link!Known
<1>4. CASE Link!ReadPairs
  <2>1. /\ assoc_seen'.met = assoc_met /\ assoc_at' = "link"
        /\ UNCHANGED <<assoc_status, assoc_source, assoc_met, assoc_rows, assoc_merges,
                       assoc_event, assoc_who, assoc_runs>>
    BY <1>4 DEF Link!ReadPairs, Link!Properties
  <2> QED
    BY <2>1 DEF LinkInv, Shape, RowsShape, SourcesMet, MergesKnown, Stages, Link!Known
<1>5. CASE Link!Discover \/ Link!FullScan
  <2>1. Link!Done
    BY <1>5, Discovers
  <2>2. assoc_rows' \subseteq RowSet /\ \A r \in assoc_rows' : r.src # r.tgt
    BY <1>5, DiscoversSoundly
  <2> QED
    BY <2>1, <2>2, DoneKeeps
<1>6. CASE Link!LinkFails
  <2>1. /\ Link!Done /\ assoc_rows' \subseteq RowSet
        /\ \A r \in assoc_rows' : r.src # r.tgt
    BY <1>6 DEF Link!LinkFails, LinkInv, RowsShape
  <2> QED
    BY <2>1, DoneKeeps
<1>7. CASE Link!Count
  <2>1. /\ assoc_at' \in {"idle", "load"}
        /\ UNCHANGED <<assoc_status, assoc_source, assoc_met, assoc_rows, assoc_merges,
                       assoc_event, assoc_who, assoc_runs, assoc_seen>>
    BY <1>7 DEF Link!Count
  <2> QED
    BY <2>1 DEF LinkInv, Shape, RowsShape, SourcesMet, MergesKnown, Stages, Link!Known
<1>8. CASE Link!Load
  <2>1. /\ assoc_seen'.met = assoc_met /\ assoc_at' = "mark"
        /\ UNCHANGED <<assoc_status, assoc_source, assoc_met, assoc_rows, assoc_merges,
                       assoc_event, assoc_who, assoc_runs>>
    BY <1>8 DEF Link!Load, Link!Properties
  <2> QED
    BY <2>1 DEF LinkInv, Shape, RowsShape, SourcesMet, MergesKnown, Stages, Link!Known
<1>9. CASE Link!Mark
  <2>1. /\ assoc_at = "mark" /\ assoc_at' = "idle"
        /\ \E M : assoc_met' = [p \in OfLinks.People |->
                    IF p \in M THEN assoc_seen.met[p] ELSE assoc_met[p]]
        /\ assoc_seen'.met = [p \in OfLinks.People |-> {}]
        /\ UNCHANGED <<assoc_status, assoc_source, assoc_rows, assoc_merges, assoc_event,
                       assoc_who, assoc_runs>>
    BY <1>9, Zenon DEF Link!Mark, Link!Closed
  <2>2. Shape'
    BY <2>1 DEF LinkInv, Shape, Stages
  <2>3. SourcesMet' /\ MergesKnown'
    BY <2>1 DEF LinkInv, SourcesMet, MergesKnown, Link!Known
  <2> QED
    BY <2>1, <2>2, <2>3 DEF LinkInv, RowsShape
<1>10. ASSUME NEW s \in OfLinks.People, NEW t \in OfLinks.People, Link!MergeRead(s, t)
       PROVE  LinkInv'
  <2> DEFINE n == [src |-> s, tgt |-> t,
                   met |-> [p \in {s, t} |-> assoc_met[p]],
                   marked |-> [p \in {s, t} |-> assoc_marked[p]],
                   traits |-> [p \in {s, t} |-> assoc_traits[p]]]
  <2>1. /\ s # t /\ {s, t} \subseteq Link!Active
        /\ assoc_merges' = assoc_merges \cup {n}
        /\ UNCHANGED <<assoc_status, assoc_source, assoc_met, assoc_rows, assoc_at,
                       assoc_event, assoc_who, assoc_seen, assoc_runs>>
    BY <1>10 DEF Link!MergeRead
  <2>2. n.src = s /\ n.tgt = t /\ n.met = [p \in {s, t} |-> assoc_met[p]]
    OBVIOUS
  <2> HIDE DEF n
  <2>3. Shape'
    <3>1. /\ {n.src, n.tgt} \subseteq OfLinks.People /\ n.src # n.tgt
          /\ n.met \in [{n.src, n.tgt} -> SUBSET OfLinks.Events]
      BY <2>1, <2>2 DEF LinkInv, Shape
    <3> QED
      BY <2>1, <3>1 DEF LinkInv, Shape
  <2>4. SourcesMet' /\ MergesKnown'
    BY <2>1, <2>2 DEF LinkInv, SourcesMet, MergesKnown, Link!Known, Link!Active
  <2> QED
    BY <2>1, <2>3, <2>4 DEF LinkInv, RowsShape
<1>11. ASSUME NEW m \in assoc_merges, Link!MergeWrite(m) PROVE LinkInv'
  BY <1>11, MergeKeeps
<1>12. CASE UNCHANGED Link!vars
  BY <1>12 DEF Link!vars, LinkInv, Shape, RowsShape, SourcesMet, MergesKnown, Link!Known
<1> QED
  BY <1>1, <1>2, <1>3, <1>4, <1>5, <1>6, <1>7, <1>8, <1>9, <1>10, <1>11, <1>12
  DEF Link!Next

\* The invariant includes the types of the graph and of the run.
LEMMA LinkTypeOK == ASSUME LinkInv PROVE Link!TypeOK
  BY DEF LinkInv, Shape, RowsShape, RowSet, Statuses, Stages, Link!TypeOK

\* A step of the whole is one of the associations, or leaves them alone.
LEMMA LinkParts == ASSUME [Next]_vars PROVE [Link!Next]_(Link!vars)
BY Zenon DEF Next, vars, assoc, Link!vars, Link!people, Link!run

LEMMA LinkHolds == Spec => []LinkInv
<1>1. Init => LinkInv
  BY ConstantsOK, LinkInit DEF Init, ConstantsOK
<1>2. LinkInv /\ [Next]_vars => LinkInv'
  BY LinkParts, ConstantsOK, LinkNext DEF ConstantsOK
<1> QED
  BY <1>1, <1>2, PTL DEF Spec

----------------------------------------------------------------------------
(* Theorems *)

\* Rows change in a discovery and in a merge.
LEMMA RowsChange ==
    ASSUME [Link!Next]_(Link!vars), assoc_rows' # assoc_rows
    PROVE  \/ Link!Discover \/ Link!FullScan
           \/ \E m \in assoc_merges : Link!MergeWrite(m)
  BY DEF Link!Next, Link!Begin, Link!Record, Link!ExtractFails, Link!ReadPairs,
     Link!LinkFails, Link!Count, Link!Load, Link!Mark, Link!MergeRead, Link!vars

\* A run that finds a new pair alone adds its row once, and a merge moves no row
\* onto another: two rows of a pair come from two reads of the pairs that crossed
\* (discover_incremental beside _update_associations).
THEOREM NoTwinRows == Spec => OneRowPerPair
<1>1. ASSUME LinkInv, [Link!Next]_(Link!vars), Link!Twin(assoc_rows'),
             ~Link!Twin(assoc_rows)
      PROVE  assoc_at = "link" /\ assoc_pairs # Link!PairSet(assoc_rows)
  <2>1. assoc_rows' # assoc_rows
    BY <1>1
  <2>2. ~ \E m \in assoc_merges : Link!MergeWrite(m)
    BY <1>1, ConstantsOK, Merges DEF ConstantsOK
  <2>3. Link!Discover \/ Link!FullScan
    BY <1>1, <2>1, <2>2, RowsChange
  <2> QED
    BY <1>1, <2>3, ConstantsOK, DiscoversSoundly, Discovers DEF ConstantsOK
<1>2. ASSUME LinkInv, [Link!Next]_(Link!vars)
      PROVE  [Link!Twin(assoc_rows') =>
                \/ Link!Twin(assoc_rows)
                \/ assoc_at = "link" /\ assoc_pairs # Link!PairSet(assoc_rows)]_(Link!vars)
  BY <1>1, <1>2
<1> QED
  BY <1>2, LinkParts, LinkHolds, PTL DEF Spec, OneRowPerPair, Link!OneRowPerPair

\* The events a row counts were attended by both its people, until a step writes
\* from copies another write has outdated: step 2 (merge_entity), the discovery, the
\* scan (scan_frequent_contacts) or the second of two merges (merge_entities).
THEOREM RecordedWereAttended == Spec => SharedAreAttended
<1> DEFINE Keeps == Link!Attended(assoc_rows, assoc_met) =>
          \/ Link!Attended(assoc_rows', assoc_met')
          \/ assoc_at # assoc_at' /\ assoc_at \in {"resolve", "link", "mark"}
               /\ Link!Outdated(assoc_seen.met)
          \/ \E m \in assoc_merges \ assoc_merges' : Link!Outdated(m.met)
<1>1. ASSUME LinkInv, [Link!Next]_(Link!vars) PROVE Keeps
  <2> SUFFICES ASSUME Link!Attended(assoc_rows, assoc_met),
                      ~(assoc_at # assoc_at' /\ assoc_at \in {"resolve", "link", "mark"}
                          /\ Link!Outdated(assoc_seen.met)),
                      \A m \in assoc_merges \ assoc_merges' : ~Link!Outdated(m.met)
               PROVE  Link!Attended(assoc_rows', assoc_met')
    OBVIOUS
  <2>0. assoc_at # assoc_at' /\ assoc_at \in {"resolve", "link", "mark"} => Current
    <3>1. /\ assoc_seen.met \in [OfLinks.People -> SUBSET OfLinks.Events]
          /\ assoc_met \in [OfLinks.People -> SUBSET OfLinks.Events]
      BY <1>1 DEF LinkInv, Shape
    <3>2. ~Link!Outdated(assoc_seen.met) => Current
      BY <3>1 DEF Current, Link!Outdated
    <3> QED
      BY <3>2
  <2>1. CASE Link!Discover \/ Link!FullScan
    <3>1. assoc_met' = assoc_met /\ assoc_at = "link" /\ assoc_at' = "count"
      BY <2>1, Discovers DEF Link!Done, Link!people
    <3> QED
      BY <1>1, <2>0, <2>1, <3>1, ConstantsOK, DiscoversSoundly DEF ConstantsOK
  <2>2. ASSUME NEW m \in assoc_merges, Link!MergeWrite(m)
        PROVE  Link!Attended(assoc_rows', assoc_met')
    <3>1. m \in assoc_merges \ assoc_merges'
      BY <2>2 DEF Link!MergeWrite
    <3> QED
      BY <1>1, <2>2, <3>1, ConstantsOK, Merges DEF ConstantsOK
  <2>3. CASE assoc_rows' = assoc_rows
          /\ \A p \in OfLinks.People : assoc_met[p] \subseteq assoc_met'[p]
    <3>1. \A r \in assoc_rows : r.src \in OfLinks.People /\ r.tgt \in OfLinks.People
      BY <1>1 DEF LinkInv, RowsShape, RowSet
    <3> QED
      BY <2>3, <3>1 DEF Link!Attended
  <2>4. ASSUME NEW S \in OfLinks.Meetings, Link!Record(S)
        PROVE  /\ assoc_rows' = assoc_rows
               /\ \A p \in OfLinks.People : assoc_met[p] \subseteq assoc_met'[p]
    <3>1. /\ assoc_rows' = assoc_rows /\ assoc_at = "resolve" /\ assoc_at' = "read"
          /\ assoc_met' = [p \in OfLinks.People |->
                 IF p \in S THEN assoc_seen.met[p] \cup {assoc_event} ELSE assoc_met[p]]
      BY <2>4 DEF Link!Record
    <3>2. assoc_seen.met = assoc_met
      BY <2>0, <3>1 DEF Current
    <3> QED
      BY <3>1, <3>2
  <2>5. CASE Link!Mark
    <3>1. assoc_seen.met = assoc_met
      BY <2>0, <2>5 DEF Link!Mark, Current
    <3> QED
      BY <2>3, <2>5, <3>1 DEF Link!Mark
  <2> QED
    BY <1>1, <2>1, <2>2, <2>3, <2>4, <2>5
    DEF Link!Next, Link!Begin, Link!ExtractFails, Link!ReadPairs, Link!LinkFails,
        Link!Done, Link!Count, Link!Load, Link!MergeRead, Link!vars, Link!people, Link!run
<1> HIDE DEF Keeps
<1>2. ASSUME LinkInv, [Link!Next]_(Link!vars) PROVE [Keeps]_(Link!vars)
  BY <1>1, <1>2
<1> USE DEF Keeps
<1> QED
  BY <1>2, LinkParts, LinkHolds, PTL DEF Spec, SharedAreAttended, Link!SharedAreAttended

\* Step 10 leaves a row for any two people of the event who share one.
LEMMA Accumulates ==
    ASSUME Link!ConstantsOK, LinkInv, Link!Discover, assoc_rows' # assoc_rows,
           assoc_seen = Link!Properties, assoc_pairs = Link!PairSet(assoc_rows),
           NEW a \in assoc_who, NEW b \in assoc_who, a < b,
           assoc_met[a] \cap assoc_met[b] # {}
    PROVE  \E r \in assoc_rows' :
               /\ Link!RowKey(r) = Link!Key(a, b, "co_occurrence")
               /\ assoc_met[a] \cap assoc_met[b] \subseteq r.shared
<1> DEFINE k == Link!Key(a, b, "co_occurrence")
<1>1. /\ assoc_at = "link" /\ assoc_who # {} /\ assoc_who \subseteq OfLinks.People
      /\ assoc_rows' = Link!Accumulated(assoc_who) \cup Fresh(assoc_who)
  BY DEF Link!Discover, Fresh, LinkInv, Shape
<1>2. assoc_pairs = Link!PairSet(assoc_rows)
  OBVIOUS
<1>3. /\ a \in OfLinks.People /\ b \in OfLinks.People /\ a # b
      /\ Link!Common(a, b) = assoc_met[a] \cap assoc_met[b]
  BY <1>1 DEF Link!ConstantsOK, Link!Common, Link!MetBy, Link!Loaded, Link!Properties
<1>4. <<a, b>> \in Link!Together(assoc_who)
  BY <1>3 DEF Link!Together, Link!Pairs2
<1>5. CASE k \in assoc_pairs
  <2>1. PICK r \in assoc_rows : Link!RowKey(r) = k
    BY <1>2, <1>5 DEF Link!PairSet
  <2>2. r.src \in OfLinks.People /\ r.tgt \in OfLinks.People
    BY DEF LinkInv, RowsShape, RowSet
  <2>3. /\ r.type = "co_occurrence"
        /\ Link!MinOf(r.src, r.tgt) = Link!MinOf(a, b)
        /\ Link!MaxOf(r.src, r.tgt) = Link!MaxOf(a, b)
    BY <2>1 DEF Link!RowKey, Link!Key
  <2>4. Link!MinOf(a, b) = a /\ Link!MaxOf(a, b) = b
    BY <1>3 DEF Link!MinOf, Link!MaxOf, Link!ConstantsOK
  <2>5. Link!Met(r, assoc_who)
    BY <1>4, <2>3, <2>4 DEF Link!Met
  <2>6. (r.src = a /\ r.tgt = b) \/ (r.src = b /\ r.tgt = a)
    BY <1>3, <2>1, <2>2, SameKey DEF Link!RowKey
  <2>7. Link!Common(r.src, r.tgt) = assoc_met[a] \cap assoc_met[b]
    BY <1>3, <2>6, CommonFacts
  <2> DEFINE x == Link!Appends(r, Link!Common(r.src, r.tgt))
  <2>8. Link!RowKey(x) = k /\ Link!Common(r.src, r.tgt) \subseteq x.shared
    BY <2>1, <2>5, AppendsFacts
  <2>9. x \in Link!Accumulated(assoc_who)
    BY <1>5, <2>1, <2>5 DEF Link!Accumulated
  <2> QED
    BY <1>1, <2>7, <2>8, <2>9
<1>6. CASE k \notin assoc_pairs
  <2> DEFINE x == Link!Row(k, Link!Common(a, b), Link!Pick(Link!Common(a, b)),
                           Link!LastOf(Link!Common(a, b)))
  <2>1. x \in Link!NewMeetings(assoc_who)
    BY <1>4, <1>6 DEF Link!NewMeetings, Link!Linked
  <2>2. /\ "co_occurrence" \in Link!Types /\ Link!Common(a, b) \in SUBSET OfLinks.Events
        /\ Link!Pick(Link!Common(a, b)) \in OfLinks.Events \cup {OfLinks.NoEvent}
        /\ Link!LastOf(Link!Common(a, b)) \in OfLinks.Events \cup {OfLinks.NoEvent}
    BY <1>3, CommonFacts, Picks DEF Link!Types, Link!LastOf, LinkInv, Shape
  <2>3. RowOf(x, a, b, "co_occurrence", Link!Common(a, b), Link!Pick(Link!Common(a, b)))
    BY <1>3, <2>2, RowFacts
  <2> QED
    BY <1>1, <1>3, <2>1, <2>3 DEF RowOf, Fresh
<1> QED
  BY <1>5, <1>6

\* A step 10 that changes rows, and read them as they are, leaves a row for any two
\* people it looked at that counts every event both attended (_accumulate_co_occurrence).
THEOREM EncountersAreKept == Spec => EncountersAddUp
<1> DEFINE Adds ==
          /\ assoc_at = "link" /\ assoc_at' = "count" /\ assoc_rows' # assoc_rows
          /\ assoc_seen = Link!Properties /\ assoc_pairs = Link!PairSet(assoc_rows)
          => \A a, b \in assoc_who : a < b /\ assoc_met[a] \cap assoc_met[b] # {} =>
              \E r \in assoc_rows' :
                  /\ Link!RowKey(r) = Link!Key(a, b, "co_occurrence")
                  /\ assoc_met[a] \cap assoc_met[b] \subseteq r.shared
<1>1. ASSUME LinkInv, [Link!Next]_(Link!vars) PROVE Adds
  <2> SUFFICES ASSUME assoc_at = "link", assoc_at' = "count",
                      assoc_rows' # assoc_rows, assoc_seen = Link!Properties,
                      assoc_pairs = Link!PairSet(assoc_rows),
                      NEW a \in assoc_who, NEW b \in assoc_who, a < b,
                      assoc_met[a] \cap assoc_met[b] # {}
               PROVE  \E r \in assoc_rows' :
                          /\ Link!RowKey(r) = Link!Key(a, b, "co_occurrence")
                          /\ assoc_met[a] \cap assoc_met[b] \subseteq r.shared
    OBVIOUS
  <2>1. Link!Discover \/ Link!FullScan
    BY <1>1, RowsChange DEF Link!MergeWrite, Link!run
  <2>2. Link!Discover
    BY <2>1 DEF Link!FullScan
  <2> QED
    BY <1>1, <2>2, ConstantsOK, Accumulates DEF ConstantsOK
<1> HIDE DEF Adds
<1>2. ASSUME LinkInv, [Link!Next]_(Link!vars) PROVE [Adds]_(Link!vars)
  BY <1>1, <1>2
<1> USE DEF Adds
<1> QED
  BY <1>2, LinkParts, LinkHolds, PTL DEF Spec, EncountersAddUp, Link!EncountersAddUp
=============================================================================
