--------------------------- MODULE PromiseTracking ---------------------------
(***************************************************************************)
(* Who promised what, and whether it was kept.  Step 5 of the pipeline     *)
(* reads the todos of its event, asks rules and then the model about each  *)
(* of them, and writes what it found; a later run of the event does so     *)
(* again.  Meanwhile the user corrects promises (under the pipeline lock), *)
(* confirms them, marks them fulfilled or overdue, deletes todos and asks  *)
(* for drafts of a reminder (none of which takes the lock).                *)
(*                                                                         *)
(* The ORM updates the columns whose value differs from the one it read,   *)
(* by primary key: a write leaves the other columns as they are by then,   *)
(* and a JSON column changed in place does not differ.                     *)
(***************************************************************************)
EXTENDS Naturals, Sequences, TLC

CONSTANTS
    Todos,      \* todos of one event
    Added,      \* those that a correction may add
    Type,       \* todo_type
    Says,       \* the rule patterns found in title and description
    EventSays,  \* the rule patterns found in the text of the event
    Related,    \* related_entity_id of a todo
    EventPeople,  \* the entities of the event, in the order of the database
    Clients,    \* concurrent requests
    Asked,      \* the requests the instance explores
    MaxRuns, MaxRequests,  \* bounds on the runs and the requests
    Nobody

Rules == {"system", "I promise", "together", "we must", "they ask us", "if we can",
          "I plan", "plan to give", "they promise", "look after"}
ActionTypes == {"my_promise", "their_promise", "my_followup", "mutual_action",
                "system_reminder", "unclear"}
Answers == {"confirmed", "rejected"}
Fulfilments == {"pending", "fulfilled", "overdue", "expired"}

Requests ==
    [op : {"fulfil"}, todo : Todos, to : Fulfilments]
    \cup [op : {"confirm"}, todo : Todos, to : Answers]
    \cup [op : {"delete", "draft"}, todo : Todos, to : {"none"}]

ConstantsOK ==
    /\ Added \subseteq Todos
    /\ Says \in [Todos -> SUBSET Rules] /\ EventSays \subseteq Rules
    /\ EventPeople \in Seq(STRING) /\ Nobody \notin {EventPeople[i] : i \in DOMAIN EventPeople}
    /\ Asked \subseteq Requests
    /\ MaxRuns \in Nat /\ MaxRequests \in Nat

VARIABLES
    todo,     \* the rows
    at,       \* where the analysis is
    read,     \* the rows as the analysis read them
    found,    \* what it found for each of them, or Nothing
    pc,       \* where a request is
    request,  \* what it asks
    row,      \* the row as it read it
    since,    \* history: the channels of the answers since the analysis read
    runs, sent  \* bounds

vars == <<todo, at, read, found, pc, request, row, since, runs, sent>>

Gone == [exists |-> FALSE]
Fresh(props) ==
    [exists |-> TRUE, action |-> "none", promisor |-> Nobody, beneficiary |-> Nobody,
     confirmation |-> "none", fulfilment |-> "pending", fulfilled_at |-> FALSE,
     overdue_at |-> FALSE, status |-> "pending", properties |-> props, draft |-> FALSE]
Nothing == [action |-> "none"]
NoRequest == [op |-> "none", todo |-> Nobody, to |-> "none"]
Rows == {d \in Todos : todo[d].exists}

\* Generated todos carry properties, added promises do not.
Init ==
    /\ todo = [d \in Todos |-> IF d \in Added THEN Gone ELSE Fresh("some")]
    /\ at = "idle"
    /\ read = [d \in Todos |-> Gone]
    /\ found = [d \in Todos |-> Nothing]
    /\ pc = [c \in Clients |-> "idle"]
    /\ request = [c \in Clients |-> NoRequest]
    /\ row = [c \in Clients |-> Gone]
    /\ since = [d \in Todos |-> {}]
    /\ runs = 0
    /\ sent = 0

----------------------------------------------------------------------------
(* The analysis *)

\* RULE_PATTERNS: confidence in hundredths; the first of equals counts, which
\* concerns "they ask us" and "they promise" only.
Confidence ==
    "system" :> 95 @@ "I promise" :> 92 @@ "they ask us" :> 91 @@ "they promise" :> 90
    @@ "we must" :> 88 @@ "look after" :> 88 @@ "I plan" :> 87 @@ "if we can" :> 86
    @@ "together" :> 85 @@ "plan to give" :> 84
Means(r) ==
    CASE r = "system" -> "system_reminder"
      [] r = "together" -> "mutual_action"
      [] r = "they promise" -> "their_promise"
      [] r = "look after" -> "my_followup"
      [] OTHER -> "my_promise"

Strongest(S) == CHOOSE r \in S : \A q \in S : Confidence[r] >= Confidence[q]
Best(S) == IF S = {} THEN "unclear" ELSE Means(Strongest(S))
Surety(S) == IF S = {} THEN 0 ELSE Confidence[Strongest(S)]

ByType ==
    [help |-> <<"my_followup", 82>>, risk |-> <<"system_reminder", 80>>,
     care |-> <<"my_followup", 80>>, cooperation_signal |-> <<"mutual_action", 83>>]

\* The title, then the type, then the text of the event.  Every rule is sure
\* enough to spare the model, whose answer may be anything, or unclear when
\* it does not answer.
Directions(d) ==
    LET title == Says[d]
    IN  IF Surety(title) >= 85 THEN {<<Best(title), "auto_set">>}
        ELSE IF Type[d] \in DOMAIN ByType /\ ByType[Type[d]][2] > Surety(title)
        THEN {<<ByType[Type[d]][1], "auto_set">>}
        ELSE IF title # {} THEN {<<Best(title), "auto_set">>}
        ELSE IF EventSays # {} THEN {<<Best(EventSays), "auto_set">>}
        ELSE ActionTypes \X {"pending"}

\* _map_entities: the user is nobody.
Mapped(d, action) ==
    LET first == IF EventPeople = <<>> THEN Nobody ELSE EventPeople[1]
        other == IF \E i \in DOMAIN EventPeople : EventPeople[i] = Related[d]
                 THEN Related[d] ELSE first
    IN  CASE action \in {"my_promise", "my_followup"} -> <<Nobody, other>>
          [] action = "their_promise" -> <<other, Nobody>>
          [] action = "mutual_action" ->
                <<first, IF Len(EventPeople) >= 2 THEN EventPeople[2] ELSE other>>
          [] OTHER -> <<Nobody, Nobody>>

\* A run holds the user's pipeline lock from here to Apply.
Read ==
    /\ at = "idle"
    /\ runs < MaxRuns
    /\ runs' = runs + 1
    /\ read' = todo
    /\ found' = [d \in Todos |-> Nothing]
    /\ since' = [d \in Todos |-> {}]
    /\ at' = "analyze"
    /\ UNCHANGED <<todo, pc, request, row, sent>>

\* All todos are analysed in parallel; one that raises is skipped.
Analyze ==
    /\ at = "analyze"
    /\ LET here == {d \in Todos : read[d].exists}
           outcome(d) == {[action |-> x[1], confirmation |-> x[2],
                           roles |-> Mapped(d, x[1])] : x \in Directions(d)}
                         \cup {Nothing}
       IN  \E f \in [here -> UNION {outcome(d) : d \in here}] :
             /\ \A d \in here : f[d] \in outcome(d)
             /\ found' = [d \in Todos |-> IF d \in here THEN f[d] ELSE Nothing]
    /\ at' = "apply"
    /\ UNCHANGED <<todo, read, pc, request, row, since, runs, sent>>

\* Mutant: every column is written, as a statement of its own would.
WrittenWhole(now, was, new) == new
\* The columns that differ from what was read are written over what is there.
Written(now, was, new) == [c \in DOMAIN now |-> IF new[c] # was[c] THEN new[c] ELSE now[c]]

Promises == {"my_promise", "their_promise"}
Analysed(d) ==
    IF found[d] = Nothing THEN read[d]
    ELSE [read[d] EXCEPT !.action = found[d].action,
                         !.promisor = found[d].roles[1],
                         !.beneficiary = found[d].roles[2],
                         !.confirmation = found[d].confirmation,
                         !.fulfilment = IF found[d].action \in Promises
                                        THEN "pending" ELSE @]

\* One commit for all: an UPDATE of a row that is gone fails it.
Apply ==
    /\ at = "apply"
    /\ LET here == {d \in Todos : read[d].exists}
           lost == {d \in here : ~todo[d].exists /\ Analysed(d) # read[d]}
       IN  todo' = IF lost # {} THEN todo
                   ELSE [d \in Todos |-> IF d \in here /\ todo[d].exists
                                        THEN Written(todo[d], read[d], Analysed(d))
                                        ELSE todo[d]]
    /\ at' = "idle"
    /\ read' = [d \in Todos |-> Gone]
    /\ found' = [d \in Todos |-> Nothing]
    /\ UNCHANGED <<pc, request, row, since, runs, sent>>

AnalysisFails ==
    /\ at \in {"analyze", "apply"}
    /\ at' = "idle"
    /\ read' = [d \in Todos |-> Gone]
    /\ found' = [d \in Todos |-> Nothing]
    /\ UNCHANGED <<todo, pc, request, row, since, runs, sent>>

----------------------------------------------------------------------------
(* Corrections: correct_event waits for the lock, then reads and writes in *)
(* one transaction.                                                        *)

LockFree == at = "idle"

Correct(d, act) ==
    /\ LockFree
    /\ sent < MaxRequests
    /\ IF act = "add"
       THEN /\ d \in Added \ Rows
            /\ \E kind \in Promises :
                 LET roles == Mapped(d, kind)
                 IN  todo' = [todo EXCEPT ![d] =
                        [Fresh("none") EXCEPT !.action = kind,
                            !.promisor = roles[1], !.beneficiary = roles[2],
                            !.confirmation = "confirmed"]]
       ELSE /\ d \in Rows
            /\ CASE act = "confirm" ->
                      todo' = [todo EXCEPT ![d].confirmation = "confirmed"]
                 [] act = "ignore" ->
                      todo' = [todo EXCEPT ![d].confirmation = "rejected",
                                           ![d].status = "dismissed"]
                 [] act = "modify" ->
                      \E kind \in Promises :
                        todo' = [todo EXCEPT ![d].action = kind,
                                             ![d].confirmation = "confirmed"]
    /\ sent' = sent + 1
    /\ since' = [since EXCEPT ![d] = @ \cup {"correct"}]
    /\ UNCHANGED <<at, read, found, pc, request, row, runs>>

----------------------------------------------------------------------------
(* Requests that read and then write *)

Send(c, q) ==
    /\ pc[c] = "idle"
    /\ sent < MaxRequests
    /\ q.todo \in Rows
    /\ q.op = "draft" => /\ todo[q.todo].action = "their_promise"
                         /\ ~todo[q.todo].draft
    /\ sent' = sent + 1
    /\ pc' = [pc EXCEPT ![c] = "write"]
    /\ request' = [request EXCEPT ![c] = q]
    /\ row' = [row EXCEPT ![c] = todo[q.todo]]
    /\ UNCHANGED <<todo, at, read, found, since, runs>>

\* update_fulfillment, confirm_todo.
Wanted(q, was) ==
    IF q.op = "fulfil"
    THEN [was EXCEPT !.fulfilment = q.to,
                     !.fulfilled_at = IF q.to = "fulfilled" THEN TRUE
                                      ELSE IF q.to = "pending" THEN FALSE ELSE @,
                     !.overdue_at = IF q.to = "overdue" THEN TRUE
                                    ELSE IF q.to = "pending" THEN FALSE ELSE @]
    ELSE [was EXCEPT !.confirmation = q.to,
                     !.status = IF q.to = "rejected" THEN "dismissed" ELSE @]

\* The in-place change of a JSON that was not empty does not differ from the
\* value read, and is not written.
Drafted(was) == [was EXCEPT !.properties = "some", !.draft = was.properties = "none"]

Write(c) ==
    LET q == request[c] IN
    /\ pc[c] = "write"
    /\ pc' = [pc EXCEPT ![c] = "idle"]
    /\ request' = [request EXCEPT ![c] = NoRequest]
    /\ row' = [row EXCEPT ![c] = Gone]
    /\ todo' = IF ~todo[q.todo].exists THEN todo
               ELSE IF q.op = "delete" THEN [todo EXCEPT ![q.todo] = Gone]
               ELSE LET new == IF q.op = "draft" THEN Drafted(row[c]) ELSE Wanted(q, row[c])
                    IN  [todo EXCEPT ![q.todo] = Written(@, row[c], new)]
    /\ since' = IF q.op = "confirm" /\ todo[q.todo].exists
                THEN [since EXCEPT ![q.todo] = @ \cup {"confirm"}] ELSE since
    /\ UNCHANGED <<at, read, found, runs, sent>>

Next ==
    \/ Read
    \/ Analyze
    \/ Apply
    \/ AnalysisFails
    \/ \E d \in Todos, act \in {"add", "confirm", "ignore", "modify"} : Correct(d, act)
    \/ \E c \in Clients, q \in Asked : Send(c, q)
    \/ \E c \in Clients : Write(c)

Spec == Init /\ [][Next]_vars

----------------------------------------------------------------------------
(* Properties *)

TypeOK ==
    /\ \A d \in Rows : /\ todo[d].action \in ActionTypes \cup {"none"}
                       /\ todo[d].confirmation \in Answers \cup {"none", "auto_set", "pending"}
                       /\ todo[d].fulfilment \in Fulfilments
                       /\ todo[d].status \in {"pending", "dismissed"}
    /\ at \in {"idle", "analyze", "apply"}
    /\ pc \in [Clients -> {"idle", "write"}]
    /\ runs \in 0 .. MaxRuns /\ sent \in 0 .. MaxRequests

\* An analysis that takes its time undoes nothing the user did meanwhile
\* unless it had read something else before: a promise it read as open stays
\* fulfilled, and an answer given through a correction is never overwritten,
\* because corrections wait for the run.  (The confirm endpoint does not wait:
\* its answers can be.)
AnalysisKeepsAnswers ==
    [][\A d \in Rows : at = "apply" /\ at' = "idle" /\ todo'[d].exists =>
          /\ todo[d].fulfilment = "fulfilled" /\ todo'[d].fulfilment = "pending"
                => read[d].fulfilment # "pending"
          /\ todo'[d].confirmation # todo[d].confirmation => "correct" \notin since[d]]_vars

=============================================================================
