---------------------------- MODULE Associations ----------------------------
(***************************************************************************)
(* The graph between people: step 10 of the pipeline links the people of   *)
(* an event with each other and with the people already known, step 10b    *)
(* counts who meets often, and a merge moves the links of the profile it   *)
(* ends.  One user: the pipeline lock lets one run at a time through, but  *)
(* the merge endpoint does not take it.                                    *)
(*                                                                         *)
(* SQLite has one writer and a SELECT before the first write of a          *)
(* transaction sees what is committed at that moment, so a merge may fall  *)
(* between what a step reads and what it writes, and two merges cross.     *)
(* Whoever writes the properties of a person writes the whole JSON of the  *)
(* copy it has read.                                                       *)
(***************************************************************************)
EXTENDS Naturals, FiniteSets, FiniteSetsExt

CONSTANTS
    People,      \* entity ids of one user, ordered as the ids are
    Traits,      \* what is known of a person: a set of values for each field
    Events,
    Recent,      \* the events within the window of the frequent-contact rule
    Meetings,    \* the sets of people an event may mention
    Threshold,   \* co_occurrence_threshold
    MaxRuns,     \* bound on the runs of one behaviour
    MaxWork,     \* bound on the runs, the merges under way and the profiles merged
    Investing, Startup,  \* industries the built-in chain rule knows
    NoEvent

Fields == {"city", "company", "industry", "worked", "keywords", "topics",
           "techs", "schools", "deals", "risks", "offers", "needs"}
ColdTypes == {"alumni", "tech_overlap", "deal_link", "risk_link",
              "supply_demand", "industry_chain"}
Types == ColdTypes \cup
    {"co_occurrence", "same_city", "ex_colleague", "competitor", "topic_overlap"}

ConstantsOK ==
    /\ People \subseteq Nat
    /\ \A p \in People, f \in Fields : IsFiniteSet(Traits[p][f])
    /\ Recent \subseteq Events /\ NoEvent \notin Events
    /\ Meetings \subseteq SUBSET People
    /\ Threshold \in Nat \ {0, 1} /\ {MaxRuns, MaxWork} \subseteq Nat

VARIABLES
    status,   \* of a person: unknown, active or merged
    traits,   \* properties, filled by merges
    source,   \* source_event_id of a person
    met,      \* properties.event_ids and source_event_id of a person
    marked,   \* properties.frequent_contact: the count and the partners
    rows,     \* the associations
    merges,   \* the merges under way: whom into whom, and what was read of both
    at,       \* where the run is
    event,    \* the event it processes
    who,      \* the people of the event, as step 2 left them; before, its index
    pairs,    \* the pairs step 10 has found linked
    busy,     \* the pairs step 10b has found above the threshold
    seen,     \* the properties a step has read
    runs      \* the number of runs, a bound

people == <<status, traits, source, met, marked>>
run == <<at, event, who, pairs, busy, seen, runs>>
vars == <<people, rows, merges, run>>

Unmarked == [count |-> 0, partners |-> {}]
Active == {p \in People : status[p] = "active"}
Known == {p \in People : status[p] # "unknown"}
Work == runs + Cardinality(merges) + Cardinality(Known \ Active)
Properties == [met |-> met, marked |-> marked, traits |-> traits]
Closed == [met |-> [p \in People |-> {}], marked |-> [p \in People |-> Unmarked],
           traits |-> <<>>]
MinOf(a, b) == IF a < b THEN a ELSE b
MaxOf(a, b) == IF a < b THEN b ELSE a

Init ==
    /\ status = [p \in People |-> "unknown"]
    /\ traits = Traits
    /\ source = [p \in People |-> NoEvent]
    /\ met = [p \in People |-> {}]
    /\ marked = [p \in People |-> Unmarked]
    /\ rows = {}
    /\ merges = {}
    /\ at = "idle"
    /\ event = NoEvent
    /\ who = {}
    /\ pairs = {}
    /\ busy = {}
    /\ seen = Closed
    /\ runs = 0

----------------------------------------------------------------------------
(* What links two people.  Confidence is left out: it decides between      *)
(* provisional and confirmed only, which nothing here reads.               *)

\* The people of the event (all, if it has none) are loaded once, and their
\* session keeps what it has loaded.
Loaded == IF who = {} THEN Known ELSE who
Trait(p, f) == IF p \in Loaded THEN seen.traits[p][f] ELSE traits[p][f]
MetBy(p) == IF p \in Loaded THEN seen.met[p] ELSE met[p]

Shares(f, a, b) == Trait(a, f) \cap Trait(b, f) # {}
Common(a, b) == MetBy(a) \cap MetBy(b)

SameCity(a, b) == Shares("city", a, b)
ExColleague(a, b) == Shares("worked", a, b)
\* The list of competitors is never configured.
Competitor(a, b) == Shares("industry", a, b)
CoOccurrence(a, b) == Common(a, b) # {} \/ Shares("company", a, b)
Words(p) == Trait(p, "keywords") \cup Trait(p, "techs")
\* The base of 0.4 is above the threshold of 0.3 already: any two people with
\* a keyword overlap.
TopicOverlap(a, b) == Words(a) # {} /\ Words(b) # {}

Alumni(a, b) == Shares("schools", a, b)
TechOverlap(a, b) == Shares("techs", a, b)
DealLink(a, b) == Shares("deals", a, b)
RiskLink(a, b) == Shares("risks", a, b)
\* The fallback by embeddings gives at most 0.3, which is never above 0.3.
SupplyDemand(a, b) ==
    \/ Trait(a, "offers") \cap Trait(b, "needs") # {}
    \/ Trait(b, "offers") \cap Trait(a, "needs") # {}
IndustryChain(a, b) ==
    \E p \in {<<a, b>>, <<b, a>>} :
        /\ Trait(p[1], "industry") \cap Investing # {}
        /\ Trait(p[2], "industry") \cap Startup # {}

Hot(a, b) ==
    {t \in Types : \/ t = "same_city" /\ SameCity(a, b)
                   \/ t = "ex_colleague" /\ ExColleague(a, b)
                   \/ t = "competitor" /\ Competitor(a, b)
                   \/ t = "co_occurrence" /\ CoOccurrence(a, b)
                   \/ t = "topic_overlap" /\ TopicOverlap(a, b)}

\* supply_chain needs a map that is never configured.
Cold(a, b) ==
    {t \in Types : \/ t = "alumni" /\ Alumni(a, b)
                   \/ t = "tech_overlap" /\ TechOverlap(a, b)
                   \/ t = "deal_link" /\ DealLink(a, b)
                   \/ t = "risk_link" /\ RiskLink(a, b)
                   \/ t = "supply_demand" /\ SupplyDemand(a, b)
                   \/ t = "industry_chain" /\ IndustryChain(a, b)}

\* Who is compared with a person of the event at all (of the first 200).
Candidates(p) ==
    {o \in Active \ {p} :
        \/ Shares("city", p, o) \/ Shares("company", p, o)
        \/ Common(p, o) # {}
        \/ Words(p) \cap Words(o) # {} \/ Shares("topics", p, o)}

\* _create_association puts the smaller id first.
Key(a, b, t) == <<MinOf(a, b), MaxOf(a, b), t>>

RowKey(r) == Key(r.src, r.tgt, r.type)
PairSet(R) == {RowKey(r) : r \in R}
Row(k, shared, legacy, e) ==
    [src |-> k[1], tgt |-> k[2], type |-> k[3], shared |-> shared,
     legacy |-> legacy, event |-> e]

----------------------------------------------------------------------------
(* Step 10 *)

Pairs2(S) == {p \in S \X S : p[1] < p[2]}
Pick(S) == CHOOSE x \in S : TRUE

\* Mutant: a pair met before is left as it was (before W4).
AppendsNothing(r, E) == r
\* _append_shared_event, once for each shared event, in any order.
Appends(r, E) ==
    [r EXCEPT !.shared = @ \cup E \cup (IF r.legacy = NoEvent THEN {} ELSE {r.legacy}),
              !.legacy = Pick(E),
              !.event = Pick(E)]

\* The people of the event, by the events they share.  Pairs that were read
\* as linked get these events appended to their row; where it has moved
\* meanwhile nothing is.
Together(S) == {p \in Pairs2(S) : Common(p[1], p[2]) # {}}
Linked(p, t) == Key(p[1], p[2], t) \in pairs
Met(r, S) == /\ r.type = "co_occurrence"
             /\ <<MinOf(r.src, r.tgt), MaxOf(r.src, r.tgt)>> \in Together(S)
Accumulated(S) ==
    {IF Met(r, S) /\ RowKey(r) \in pairs
     THEN Appends(r, Common(r.src, r.tgt)) ELSE r : r \in rows}
\* A new row is of the event of the run, unless a second one was appended.
LastOf(E) == IF Cardinality(E) = 1 THEN event ELSE Pick(E)
NewMeetings(S) ==
    {Row(Key(p[1], p[2], "co_occurrence"), Common(p[1], p[2]),
         Pick(Common(p[1], p[2])), LastOf(Common(p[1], p[2]))) :
        p \in {q \in Together(S) : ~Linked(q, "co_occurrence")}}

\* Any three of S, if it has more.
Three(S) ==
    LET x == Pick(S)
        y == Pick(S \ {x})
    IN  IF Cardinality(S) <= 3 THEN S ELSE S \cap {x, y, Pick(S \ {x, y})}

\* A pair linked by step 2 of the discovery: the event of a co_occurrence, or up
\* to three, are in its evidence under one of two names, or are not known.
Evidence(a, b, t) ==
    LET k == Key(a, b, t)
    IN  IF t # "co_occurrence" THEN Row(k, {}, NoEvent, event)
        ELSE IF source[a] # NoEvent /\ source[a] = source[b]
        THEN Row(k, {}, source[a], event)
        ELSE Row(k, Three(Common(a, b)), NoEvent, event)

HasCold(a, b, R) == \E t \in ColdTypes : Key(a, b, t) \in R
\* Each person of the event with the candidates, and with everyone active of
\* whom no cold link is known (the 100 last changed).
NewLinks(S, known) ==
    LET found(p, o) ==
            (IF o \in Candidates(p) THEN Hot(p, o) \cup Cold(p, o) ELSE {})
            \cup (IF HasCold(p, o, known) THEN {} ELSE Cold(p, o))
        links == {l \in S \X Active \X Types :
                    /\ l[1] # l[2] /\ l[3] \in found(l[1], l[2])
                    /\ Key(l[1], l[2], l[3]) \notin known}
    IN  {Evidence(l[1], l[2], l[3]) : l \in links}

\* Two rows of one pair and type.
Twin(R) == \E r, s \in R : r # s /\ RowKey(r) = RowKey(s)
\* What the unique constraint refuses, and what scalar_one_or_none does.
Refused(new) == \E n \in new, r \in rows :
                    n.src = r.src /\ n.tgt = r.tgt /\ n.type = r.type
Ambiguous(S) == \E r, s \in rows :
                    r # s /\ RowKey(r) = RowKey(s) /\ Met(r, S) /\ RowKey(r) \in pairs

\* A run of an event: the engine of step 2 loads the active people as its index.
Begin(e) ==
    /\ at = "idle"
    /\ runs < MaxRuns /\ Work < MaxWork
    /\ runs' = runs + 1
    /\ event' = e
    /\ who' = Active
    /\ seen' = Properties
    /\ at' = "resolve"
    /\ UNCHANGED <<people, rows, merges, pairs, busy>>

\* The text names the people S: who is in the index gets the event, in the whole
\* JSON of the copy that was loaded, and the others are created and have met
\* nobody before.  If it names nobody, those first seen in the event are taken.
Record(S) ==
    /\ at = "resolve"
    /\ S \cap Known \subseteq who
    /\ status' = [p \in People |-> IF p \in S \ Known THEN "active" ELSE status[p]]
    /\ source' = [p \in People |-> IF p \in S \ Known THEN event ELSE source[p]]
    /\ met' = [p \in People |-> IF p \in S THEN seen.met[p] \cup {event} ELSE met[p]]
    /\ marked' = [p \in People |-> IF p \in S THEN seen.marked[p] ELSE marked[p]]
    /\ traits' = [p \in People |-> IF p \in S THEN seen.traits[p] ELSE traits[p]]
    /\ who' = IF S = {} THEN {p \in Known : source[p] = event} ELSE S
    /\ seen' = Closed
    /\ at' = "read"
    /\ UNCHANGED <<rows, merges, event, pairs, busy, runs>>

\* The extraction fails: the run stops.
ExtractFails ==
    /\ at = "resolve"
    /\ at' = "idle"
    /\ event' = NoEvent
    /\ who' = {}
    /\ seen' = Closed
    /\ UNCHANGED <<people, rows, merges, pairs, busy, runs>>

ReadPairs ==
    /\ at = "read"
    /\ pairs' = PairSet(rows)
    /\ seen' = Properties
    /\ at' = "link"
    /\ UNCHANGED <<people, rows, merges, event, who, busy, runs>>

\* The session of the step is closed.
Done ==
    /\ at' = "count"
    /\ event' = NoEvent
    /\ who' = {}
    /\ pairs' = {}
    /\ seen' = Closed
    /\ UNCHANGED <<people, merges, busy, runs>>

Discover ==
    /\ at = "link"
    /\ who # {}
    /\ LET meetings == NewMeetings(who)
           known == pairs \cup PairSet(meetings)
           new == meetings \cup NewLinks(who, known)
       IN  IF Refused(new) \/ Ambiguous(who)
           THEN UNCHANGED rows
           ELSE rows' = Accumulated(who) \cup new
    /\ Done

\* Pairs without a link are linked by city, or else by company, once.
Place(a, b) ==
    IF SameCity(a, b) THEN {"same_city"}
    ELSE IF ~Shares("company", a, b) THEN {}
    ELSE IF ExColleague(a, b) THEN {"ex_colleague"} ELSE {"competitor"}
Unlinked == {p \in Pairs2(Active) : \A t \in Types : ~Linked(p, t)}
Placed ==
    UNION {{Row(Key(p[1], p[2], t), {}, NoEvent, source[p[1]]) :
              t \in Place(p[1], p[2])} : p \in Unlinked}

\* No people in the event: all pairs are compared by meetings, and the active
\* ones of whom no link is known by where they live and work.
FullScan ==
    /\ at = "link"
    /\ who = {}
    /\ LET meetings == NewMeetings(Known)
           new == meetings \cup Placed
       IN  IF Cardinality(Known) < 2 \/ Refused(new) \/ Ambiguous(Known)
           THEN UNCHANGED rows
           ELSE rows' = Accumulated(Known) \cup new
    /\ Done

\* SQLAlchemyError: the transaction is rolled back, the step noted as failed.
LinkFails ==
    /\ at = "link"
    /\ Done
    /\ UNCHANGED rows

----------------------------------------------------------------------------
(* Step 10b *)

\* What the scanner takes for the shared events of a pair.
Counted(k) ==
    UNION {r.shared \cup ({r.event} \ {NoEvent}) :
             r \in {s \in rows : RowKey(s) = k}} \cap Recent

Count ==
    /\ at = "count"
    /\ busy' = {[pair |-> {k[1], k[2]}, count |-> Cardinality(Counted(k))] :
                  k \in {j \in PairSet(rows) : /\ j[3] = "co_occurrence"
                                               /\ Cardinality(Counted(j)) >= Threshold}}
    /\ at' = IF busy' = {} THEN "idle" ELSE "load"
    /\ UNCHANGED <<people, rows, merges, event, who, pairs, seen, runs>>

Load ==
    /\ at = "load"
    /\ seen' = Properties
    /\ at' = "mark"
    /\ UNCHANGED <<people, rows, merges, event, who, pairs, busy, runs>>

\* The whole JSON of a marked person is written as it was read.
Mark ==
    /\ at = "mark"
    /\ LET mine(p) == {b \in busy : p \in b.pair}
           mark(p) == [count |-> Max({b.count : b \in mine(p)}),
                       partners |-> UNION {b.pair : b \in mine(p)} \ {p}]
           M == {p \in People : mine(p) # {}}
       IN  /\ marked' = [p \in People |-> IF p \in M THEN mark(p) ELSE marked[p]]
           /\ met' = [p \in People |-> IF p \in M THEN seen.met[p] ELSE met[p]]
           /\ traits' = [p \in People |-> IF p \in M THEN seen.traits[p] ELSE traits[p]]
    /\ at' = "idle"
    /\ busy' = {}
    /\ seen' = Closed
    /\ UNCHANGED <<status, source, rows, merges, event, who, pairs, runs>>

----------------------------------------------------------------------------
(* merge_entities *)

Moved(r, s, t) ==
    [r EXCEPT !.src = IF @ = s THEN t ELSE @, !.tgt = IF @ = s THEN t ELSE @]

\* Mutant: only a row in the same direction is a conflict.
SameRow(r, s, t) ==
    \E x \in rows : /\ t \in {x.src, x.tgt} /\ x.type = r.type
                    /\ x.src = Moved(r, s, t).src /\ x.tgt = Moved(r, s, t).tgt
\* The target's own row of the pair and type stays and the source's is deleted.
Conflicts(r, s, t) ==
    \E x \in rows : t \in {x.src, x.tgt} /\ RowKey(x) = RowKey(Moved(r, s, t))

\* Mutant: the events of the source are not carried over.
TargetEvents(m) == m.met[m.tgt]
EventsUnion(m) == m.met[m.tgt] \cup m.met[m.src]

\* The target's values stand, the source's fill the gaps.
Filled(m) ==
    [f \in Fields |-> IF m.traits[m.tgt][f] = {} THEN m.traits[m.src][f]
                     ELSE m.traits[m.tgt][f]]
MarkFilled(m) ==
    IF m.marked[m.tgt] = Unmarked THEN m.marked[m.src] ELSE m.marked[m.tgt]

\* Both profiles are read and found active (the two queries are one step here).
MergeRead(s, t) ==
    /\ s # t
    /\ {s, t} \subseteq Active
    /\ Work < MaxWork
    /\ merges' = merges \cup
           {[src |-> s, tgt |-> t,
             met |-> [p \in {s, t} |-> met[p]],
             marked |-> [p \in {s, t} |-> marked[p]],
             traits |-> [p \in {s, t} |-> traits[p]]]}
    /\ UNCHANGED <<people, rows, run>>

\* From the first UPDATE on the merge holds the write lock: the associations are
\* read under it, the two profiles are written as they were read before.
MergeWrite(m) ==
    LET s == m.src
        t == m.tgt
        own == {r \in rows : {r.src, r.tgt} = {s, t}}
        old == {r \in rows \ own : s \in {r.src, r.tgt}}
        one(k) == CHOOSE r \in old : RowKey(Moved(r, s, t)) = k
        moving == {one(RowKey(Moved(r, s, t))) :
                     r \in {x \in old : ~Conflicts(x, s, t)}}
    IN  /\ rows' = (rows \ (own \cup old)) \cup {Moved(r, s, t) : r \in moving}
        /\ status' = [status EXCEPT ![s] = "merged"]
        /\ met' = [met EXCEPT ![t] = EventsUnion(m), ![s] = m.met[s]]
        /\ traits' = [traits EXCEPT ![t] = Filled(m), ![s] = m.traits[s]]
        /\ marked' = [marked EXCEPT ![t] = MarkFilled(m), ![s] = m.marked[s]]
        /\ merges' = merges \ {m}
        /\ UNCHANGED <<source, run>>

Next ==
    \/ \E e \in Events : Begin(e)
    \/ \E S \in Meetings : Record(S)
    \/ ExtractFails
    \/ ReadPairs
    \/ Discover
    \/ FullScan
    \/ LinkFails
    \/ Count
    \/ Load
    \/ Mark
    \/ \E s, t \in People : MergeRead(s, t)
    \/ \E m \in merges : MergeWrite(m)

Spec == Init /\ [][Next]_vars

----------------------------------------------------------------------------
(* Properties *)

TypeOK ==
    /\ status \in [People -> {"unknown", "active", "merged"}]
    /\ source \in [People -> Events \cup {NoEvent}]
    /\ met \in [People -> SUBSET Events]
    /\ \A r \in rows : /\ {r.src, r.tgt} \subseteq People /\ r.src # r.tgt
                       /\ r.type \in Types /\ r.shared \subseteq Events
                       /\ {r.legacy, r.event} \subseteq Events \cup {NoEvent}
    /\ \A m \in merges : /\ {m.src, m.tgt} \subseteq People /\ m.src # m.tgt
                         /\ m.met \in [{m.src, m.tgt} -> SUBSET Events]
    /\ at \in {"idle", "resolve", "read", "link", "count", "load", "mark"}
    /\ event \in Events \cup {NoEvent}
    /\ who \subseteq People
    /\ runs \in 0 .. MaxRuns

\* One canonical row per unordered pair and type, whatever is discovered,
\* rediscovered and merged, in any order (the W4 comment in
\* association_graph.py).  The unique constraint looks at the two directions
\* separately and a merge turns rows around, so of what is modelled a second
\* row can only come from a discovery whose pairs a merge has moved since it
\* read them.  (A correction of the user may give a row another type, at
\* event_pipeline_api.py:1333; that is left out.)
OneRowPerPair ==
    [][Twin(rows') => Twin(rows) \/ (at = "link" /\ pairs # PairSet(rows))]_vars

\* After step 10 has linked the people of an event, the row of any two of them
\* lists every event they share, also what an earlier run failed to record,
\* what the conflict rule of a merge dropped, and what only one of two merged
\* profiles attended.  A merge that writes during the step leaves that to the
\* next one.
EncountersAddUp ==
    [][/\ at = "link" /\ at' = "count" /\ rows' # rows
       /\ seen = Properties /\ pairs = PairSet(rows)
       => \A a, b \in who : a < b /\ met[a] \cap met[b] # {} =>
              \E r \in rows' :
                  /\ RowKey(r) = Key(a, b, "co_occurrence")
                  /\ met[a] \cap met[b] \subseteq r.shared]_vars

Recorded(r) == (r.shared \cup {r.legacy}) \ {NoEvent}
Attended(R, m) == \A r \in R : r.type = "co_occurrence" =>
                      Recorded(r) \subseteq m[r.src] \cap m[r.tgt]
\* The events in a copy are not those stored now.
Outdated(copy) == \E p \in DOMAIN copy : copy[p] # met[p]

\* A row never names an event, in its list or in the old single field, that
\* one of its two people was not at, also after merges have moved the row or
\* the person, unless a step wrote from a copy read before another write: step
\* 2 or the scan puts back the properties of a person another merge has given
\* events since (merge_entity, scan_frequent_contacts), the discovery lists
\* what its copies say, or of two crossing merges the second writes what it
\* had read before the first (merge_entities).
SharedAreAttended ==
    [][Attended(rows, met) =>
          \/ Attended(rows', met')
          \/ at # at' /\ at \in {"resolve", "link", "mark"} /\ Outdated(seen.met)
          \/ \E m \in merges \ merges' : Outdated(m.met)]_vars

=============================================================================
