---------------------------- MODULE DailyReminders ----------------------------
(***************************************************************************)
(* What the user is reminded of.  Step 7 of the pipeline scores the todos  *)
(* of its event; the daily list takes the best scored open todos while the *)
(* day's threshold lasts and logs each of them; the buttons of the page    *)
(* close or snooze them, one at a time or in a batch.                      *)
(*                                                                         *)
(* Requests read, await and commit.  The clock counts hours from a         *)
(* midnight; scores are in ten thousandths.                                *)
(***************************************************************************)
EXTENDS Integers, Sequences, FiniteSets, TLC

CONSTANTS
    Todos, Type, Role, Person, Due, Priority,  \* the todos and their columns
    EventOf,    \* source_event_id of a todo
    Origin,     \* source_event_id of a person
    Meetings,   \* the events that are meetings or calls
    Made,       \* the hour in which an event was created
    Times,      \* the hours the instance looks at
    Clients,    \* concurrent requests
    Asked,      \* the requests the instance explores
    MaxRequests,  \* bound on the requests and the scorings
    NoDue, NoOne

Ends == [completed |-> "done", snoozed |-> "snoozed", dismissed |-> "dismissed"]

ConstantsOK ==
    /\ IsFiniteSet(Todos) /\ Times \subseteq Nat
    /\ Due \in [Todos -> Int \cup {NoDue}] /\ Priority \in [Todos -> Int]
    /\ \A q \in Asked :
           /\ q.op \in {"action", "batch", "prefer"}
           /\ q.op # "prefer" => q.action \in DOMAIN Ends
           /\ q.op = "prefer" /\ q.valid =>
                  q.fields \in [threshold : 0 .. 20, from : 0 .. 24, until : 0 .. 24]

VARIABLES
    now,       \* the hour
    rows,      \* the todos that exist
    status, score,  \* of each todo; a score may be missing
    pref,      \* the row of preferences, or NoRow
    log,       \* the reminders sent for each todo, the oldest first
    pc, request, seen,  \* of each client: where it is, what it asks, what it read
    scoring,   \* the scores step 7 is about to write
    shared,    \* history: two lists were made at once
    peak,      \* history: the highest threshold so far
    sent       \* bound

vars == <<now, rows, status, score, pref, log, pc, request, seen, scoring, shared, peak, sent>>

NoRow == [exists |-> FALSE]
Defaults == [exists |-> TRUE, threshold |-> 5, from |-> 22, until |-> 8]
NoScore == -1
TopScore == 10000
Idle == [op |-> "none"]

Init ==
    /\ now \in {t \in Times : \A u \in Times : t <= u}
    /\ rows = Todos
    /\ status = [d \in Todos |-> "pending"]
    /\ score = [d \in Todos |-> NoScore]
    /\ pref = NoRow
    /\ log = [d \in Todos |-> <<>>]
    /\ pc = [c \in Clients |-> "idle"]
    /\ request = [c \in Clients |-> Idle]
    /\ seen = [c \in Clients |-> Idle]
    /\ scoring = <<>>
    /\ shared = FALSE
    /\ peak = Defaults.threshold
    /\ sent = 0

----------------------------------------------------------------------------
(* Scores *)

\* _calc_urgency, times 3000: overdue, a day, three, seven, a slope, the rest.
Urgency(d) ==
    LET left == Due[d] - now
    IN  IF Due[d] = NoDue THEN 900
        ELSE CASE left < 0 -> 3000
               [] left >= 0 /\ left < 24 -> 2700
               [] left >= 24 /\ left <= 72 -> 2100
               [] left > 72 /\ left <= 168 -> 1500
               [] left > 168 /\ left <= 720 -> 1500 - (600 * (left - 168)) \div 552
               [] OTHER -> 900

\* IMPORTANCE_WEIGHTS, times 3500
Importance(d) ==
    CASE Type[d] \in {"promise", "risk"} -> 3150
      [] Type[d] = "help" -> 2800
      [] Type[d] = "cooperation_signal" -> 2450
      [] Type[d] = "care" -> 2100
      [] OTHER -> 1750

\* What my promise holds up: their promises of the same person.  No edge leaves
\* one of these, so every chain has two todos and one that is blocked.
Blocks(d, e) ==
    /\ {d, e} \subseteq {t \in rows : status[t] = "pending" /\ Type[t] \in {"promise", "help"}}
    /\ Person[d] = Person[e] /\ Person[d] # NoOne
    /\ Role[d] = "my_promise" /\ Role[e] = "their_promise"
Dependency(d) ==
    LET held == 300 * Cardinality({e \in Todos : Blocks(d, e)})
    IN  IF held > 2000 THEN 2000 ELSE held

\* The person came up in a meeting or a call of the last hour.  An event is
\* never created in the future, so the time until it is always zero.
Context(d) ==
    IF Person[d] # NoOne /\ Origin[Person[d]] \in Meetings /\ now - Made[Origin[Person[d]]] <= 1
    THEN 1500 ELSE 0

Score(d) ==
    LET sum == Urgency(d) + Importance(d) + Dependency(d) + Context(d)
               + 250 * (3 - Priority[d])
    IN  IF sum < 0 THEN 0 ELSE IF sum > TopScore THEN TopScore ELSE sum

\* A todo whose scoring fails keeps the score it had.
ScoreEvent(e) ==
    /\ scoring = <<>> /\ Made[e] <= now
    /\ sent < MaxRequests /\ sent' = sent + 1
    /\ \E S \in SUBSET {d \in rows : EventOf[d] = e} :
           /\ S # {}
           /\ scoring' = [d \in S |-> Score(d)]
    /\ UNCHANGED <<now, rows, status, score, pref, log, pc, request, seen, shared, peak>>

\* One commit: a todo deleted in the meantime fails the scores of the others.
SaveScores ==
    /\ scoring # <<>>
    /\ scoring' = <<>>
    /\ score' = IF DOMAIN scoring \subseteq rows
                THEN [d \in Todos |-> IF d \in DOMAIN scoring THEN scoring[d] ELSE score[d]]
                ELSE score
    /\ UNCHANGED <<now, rows, status, pref, log, pc, request, seen, shared, peak, sent>>

----------------------------------------------------------------------------
(* The daily list *)

\* _is_quiet_hours
IsQuiet(from, until, hour) ==
    IF from <= until THEN from <= hour /\ hour < until ELSE from <= hour \/ hour < until

Preferences == IF pref.exists THEN pref ELSE Defaults
Hour == now % 24
Today == now \div 24

\* The rows of the log, each by its todo and its place among those of the todo.
Logged == UNION {{d} \X DOMAIN log[d] : d \in Todos}
Sent(e) == log[e[1]][e[2]]

\* The reminders logged since midnight, and what is left of the threshold.
SentSinceAnswered(day) ==  \* mutant: counts what the user has answered
    Cardinality({e \in Logged : Sent(e).at \div 24 >= day /\ Sent(e).taken # "none"})
SentSince(day) == Cardinality({e \in Logged : Sent(e).at \div 24 >= day})
Remaining(threshold, count) == IF count < threshold THEN threshold - count ELSE 0

\* ORDER BY dynamic_score DESC NULLS LAST, priority
Ranks(d, e) == score[d] > score[e] \/ (score[d] = score[e] /\ Priority[d] < Priority[e])
Open == {d \in rows : status[d] \in {"pending", "in_progress", "snoozed"}}
Tops(n) ==
    {S \in SUBSET Open :
        /\ Cardinality(S) = (IF n < Cardinality(Open) THEN n ELSE Cardinality(Open))
        /\ \A d \in S, e \in Open \ S : ~ Ranks(e, d)}

Send(c, op, read) ==
    /\ pc[c] = "idle"
    /\ sent < MaxRequests
    /\ sent' = sent + 1
    /\ pc' = [pc EXCEPT ![c] = "commit"]
    /\ request' = [request EXCEPT ![c] = op]
    /\ seen' = [seen EXCEPT ![c] = read]

Return(c) ==
    /\ pc' = [pc EXCEPT ![c] = "idle"]
    /\ request' = [request EXCEPT ![c] = Idle]
    /\ seen' = [seen EXCEPT ![c] = Idle]

\* Quiet hours are told and the list is made all the same.
List(c) ==
    /\ \E items \in Tops(Remaining(Preferences.threshold, SentSince(Today))) :
           Send(c, [op |-> "daily"],
                [op |-> "daily", items |-> items,
                 quiet |-> IsQuiet(Preferences.from, Preferences.until, Hour)])
    /\ shared' = (shared \/ \E b \in Clients : request[b].op = "daily")
    /\ UNCHANGED <<now, rows, status, score, pref, log, scoring, peak>>

LogList(c) ==
    /\ pc[c] = "commit" /\ request[c].op = "daily"
    /\ log' = [d \in Todos |->
                  IF d \in seen[c].items THEN Append(log[d], [at |-> now, taken |-> "none"])
                  ELSE log[d]]
    /\ Return(c)
    /\ UNCHANGED <<now, rows, status, score, pref, scoring, shared, peak, sent>>

----------------------------------------------------------------------------
(* The buttons *)

\* One todo that exists, or a batch, of which those that exist are changed.
Found(q) == q.todos \cap rows
Press(c, q) ==
    /\ q.op \in {"action", "batch"}
    /\ q.op = "action" => q.todos \subseteq rows
    /\ Send(c, q, [op |-> q.op, todos |-> Found(q),
                   last |-> [d \in Found(q) |-> Len(log[d])],
                   was |-> [d \in Found(q) |-> status[d]]])
    /\ UNCHANGED <<now, rows, status, score, pref, log, scoring, shared, peak>>

\* No state machine is asked.  A second dismissal changes nothing and so cannot
\* miss its row; any other change of a row that is gone fails the whole commit.
Changed(c) ==
    {d \in seen[c].todos : request[c].action # "dismissed" \/ seen[c].was[d] # "dismissed"}
Apply(c) ==
    /\ pc[c] = "commit" /\ request[c].op \in {"action", "batch"}
    /\ IF Changed(c) \subseteq rows
       THEN /\ status' = [d \in Todos |->
                             IF d \in Changed(c) /\ seen[c].was[d] # Ends[request[c].action]
                             THEN Ends[request[c].action] ELSE status[d]]
            /\ log' = IF request[c].op = "batch" THEN log
                      ELSE [d \in Todos |->
                               IF d \in seen[c].todos /\ seen[c].last[d] > 0
                               THEN [log[d] EXCEPT ![seen[c].last[d]].taken = request[c].action]
                               ELSE log[d]]
       ELSE UNCHANGED <<status, log>>
    /\ Return(c)
    /\ UNCHANGED <<now, rows, score, pref, scoring, shared, peak, sent>>

\* DELETE /todos/{id}
Delete(d) ==
    /\ d \in rows
    /\ rows' = rows \ {d}
    /\ sent < MaxRequests /\ sent' = sent + 1
    /\ UNCHANGED <<now, status, score, pref, log, pc, request, seen, scoring, shared, peak>>

----------------------------------------------------------------------------
(* Preferences *)

Prefer(c, q) ==
    /\ q.op = "prefer"
    /\ Send(c, q, [op |-> "prefer", pref |-> pref])
    /\ UNCHANGED <<now, rows, status, score, pref, log, scoring, shared, peak>>

Given(new, old) ==
    [exists |-> TRUE,
     threshold |-> IF new.threshold = 0 THEN old.threshold ELSE new.threshold,
     from |-> IF new.from = 24 THEN old.from ELSE new.from,
     until |-> IF new.until = 24 THEN old.until ELSE new.until]

\* A second first row violates the primary key; so does nothing else.
SavePreferences(c) ==
    /\ pc[c] = "commit" /\ request[c].op = "prefer"
    /\ IF request[c].valid /\ (seen[c].pref.exists = pref.exists)
       THEN /\ pref' = Given(request[c].fields, Preferences)
            /\ peak' = IF pref'.threshold > peak THEN pref'.threshold ELSE peak
       ELSE UNCHANGED <<pref, peak>>
    /\ Return(c)
    /\ UNCHANGED <<now, rows, status, score, log, scoring, shared, sent>>

----------------------------------------------------------------------------
Tick ==
    /\ \E t \in Times : t > now /\ (\A u \in Times : u > now => t <= u) /\ now' = t
    /\ UNCHANGED <<rows, status, score, pref, log, pc, request, seen, scoring, shared, peak, sent>>

Next ==
    \/ \E e \in DOMAIN Made : ScoreEvent(e)
    \/ SaveScores
    \/ \E c \in Clients :
           \/ List(c) \/ LogList(c) \/ Apply(c) \/ SavePreferences(c)
           \/ \E q \in Asked : Press(c, q) \/ Prefer(c, q)
    \/ \E d \in Todos : Delete(d)
    \/ Tick

Spec == Init /\ [][Next]_vars

----------------------------------------------------------------------------
(* Properties *)

\* Types of rows, logs, requests and what they read.
TypeOK ==
    /\ now \in Times /\ rows \subseteq Todos
    /\ status \in [Todos -> {"pending", "done", "snoozed", "dismissed"}]
    /\ score \in [Todos -> {NoScore} \cup 0 .. TopScore]
    /\ pref = NoRow \/ pref \in [exists : {TRUE}, threshold : 1 .. 20, from : 0 .. 23, until : 0 .. 23]
    /\ \A d \in Todos : \A i \in DOMAIN log[d] :
           log[d][i] \in [at : Times, taken : {"none"} \cup DOMAIN Ends]
    /\ \A c \in Clients : pc[c] = "idle" <=> request[c] = Idle
    /\ DOMAIN scoring \subseteq Todos
    /\ peak \in 5 .. 20

\* Fatigue: unless two lists were made at once, no day has more reminders than
\* the highest threshold the user had, whatever buttons were pressed, todos
\* deleted, thresholds changed and midnights passed in between.
ThresholdHolds ==
    shared \/ \A t \in Times :
        Cardinality({e \in Logged : Sent(e).at \div 24 = t \div 24}) <= peak

\* Quiet hours are the hours from the first to the last, across midnight where
\* the last comes before the first, and none where the two are the same.
QuietIsAnInterval ==
    \A from, until \in {Preferences.from, Preferences.until, 0, 12} :
        IsQuiet(from, until, Hour) <=> \E k \in 1 .. (until - from) % 24 : Hour = (from + k - 1) % 24
=============================================================================
