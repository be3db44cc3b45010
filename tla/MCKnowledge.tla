----------------------------- MODULE MCKnowledge -----------------------------
(* Small instances of what Knowledge puts together. *)
EXTENDS Knowledge, Sequences

CONSTANT NoTodo

(* Todos of one event *)
Todo(t, p) == [title |-> t, priority |-> p]
\* Three titles of which the outer two are near the middle one only, and one
\* that is similar to the middle one only.
TodoTitles == {"quote", "quotation", "quotes", "price", "visit"}
Ratios == [quotation |-> [quote |-> 90, quotes |-> 95, price |-> 62],
           quotes |-> [quote |-> 86, price |-> 58],
           price |-> [quote |-> 56]]
Ratio(s, t) == IF s \in DOMAIN Ratios /\ t \in DOMAIN Ratios[s] THEN Ratios[s][t] ELSE 0
TodoLikeness ==
    [p \in TodoTitles \X TodoTitles |->
        IF p[1] = p[2] THEN 100 ELSE Ratio(p[1], p[2]) + Ratio(p[2], p[1])]
Answers == {<<Todo("quotes", 2)>>, <<Todo("quotation", 1)>>,
            <<Todo("visit", 4), Todo("quote", 3), Todo("quotation", 2), Todo("price", 1)>>}
Fallbacks == {<<>>, <<Todo("visit", 1)>>}
TodoLinks == {<<Todo("quote", 3), Todo("quote", 3)>>}

(* People who are linked by what is known of them, and by meetings *)
Traits ==
    LET Known(r) == [f \in {"city", "company", "industry", "worked", "keywords", "topics",
                            "techs", "schools", "deals", "risks", "offers", "needs"} |->
                        IF f \in DOMAIN r THEN r[f] ELSE {}]
    IN  <<Known([company |-> {"acme"}, keywords |-> {"chips"}, industry |-> {"fund"},
                 offers |-> {"capital"}]),
          Known([city |-> {"north"}, company |-> {"acme"}, needs |-> {"capital"}]),
          Known([city |-> {"north"}, keywords |-> {"chips"}, industry |-> {"ai"}])>>
Meetings == {{}, {1, 2}, {2, 3}, {3}}

(* A promise, a request for help, and a promise a correction may add *)
PromiseType == [t1 |-> "promise", t2 |-> "help", t3 |-> "promise"]
Says == [t1 |-> {"they promise"}, t2 |-> {"plan to give"}, t3 |-> {}]
Related == [t1 |-> "ann", t2 |-> "nobody", t3 |-> "nobody"]
Ask(op, d, to) == [op |-> op, todo |-> d, to |-> to]
PromiseRequests ==
    {Ask("fulfil", "t1", "fulfilled"), Ask("fulfil", "t1", "pending"),
     Ask("confirm", "t1", "confirmed"), Ask("delete", "t2", "none"),
     Ask("draft", "t1", "none")}

(* A promise that holds up another, and something to care about *)
ReminderType == <<"promise", "promise", "care">>
Role == <<"my_promise", "their_promise", "none">>
Person == <<"ann", "ann", "nobody">>
Due == <<20, 100, 1000>>
Priority == <<3, 1, 3>>
Preferred(valid, t, f, u) ==
    [op |-> "prefer", valid |-> valid, fields |-> [threshold |-> t, from |-> f, until |-> u]]
Buttons ==
    {[op |-> "action", todos |-> {1}, action |-> "completed"],
     [op |-> "action", todos |-> {2}, action |-> "snoozed"],
     [op |-> "batch", todos |-> {1, 2}, action |-> "dismissed"],
     Preferred(TRUE, 2, 24, 24), Preferred(TRUE, 6, 9, 24), Preferred(FALSE, 1, 24, 24)}

(* Briefs of two people, one with much to suggest *)
BriefType == [d |-> "care"]
BriefRole == [d |-> "their_promise"]
BriefLinks == [ann |-> <<"refer", "meet", "talk", "supply">>, bob |-> <<>>]

----------------------------------------------------------------------------
(* The parameters of the parts *)

TodoParameters ==
    [Ids |-> 1 .. 4, Titles |-> TodoTitles, Likeness |-> TodoLikeness,
     Answers |-> Answers, Fallbacks |-> Fallbacks, Links |-> TodoLinks,
     MaxRuns |-> 2, NoTodo |-> NoTodo]
LinkParameters ==
    [People |-> 1 .. 3, Events |-> {"e1", "e2"}, Recent |-> {"e1", "e2"},
     Traits |-> Traits, Meetings |-> Meetings, Threshold |-> 2, MaxRuns |-> 3, MaxWork |-> 4,
     Investing |-> {"fund"}, Startup |-> {"ai"}, NoEvent |-> "none"]
PromiseParameters ==
    [Todos |-> {"t1", "t2", "t3"}, Added |-> {"t3"}, Type |-> PromiseType,
     Says |-> Says, EventSays |-> {}, Related |-> Related,
     EventPeople |-> <<"bob", "ann">>, Clients |-> {1}, Asked |-> PromiseRequests,
     MaxRuns |-> 2, MaxRequests |-> 2, Nobody |-> "nobody"]
ReminderParameters ==
    [Todos |-> 1 .. 3, Type |-> ReminderType, Role |-> Role, Person |-> Person,
     Due |-> Due, Priority |-> Priority, EventOf |-> [d \in 1 .. 3 |-> "e1"],
     Origin |-> [ann |-> "e1"], Meetings |-> {"e1"}, Made |-> [e1 |-> 22],
     Times |-> {22, 25}, Clients |-> {1, 2}, Asked |-> Buttons, MaxRequests |-> 3,
     NoDue |-> 1000, NoOne |-> "nobody"]
BriefParameters ==
    [People |-> {"ann", "bob"}, Todos |-> {"d"}, Type |-> BriefType,
     Role |-> BriefRole, Overdue |-> {}, Links |-> BriefLinks,
     Steps |-> {"r1", "r2"}, Clients |-> {"c1"}, Notes |-> {"n"}, Aware |-> FALSE,
     MaxEvents |-> 2, MaxEdits |-> 1, Nobody |-> "nobody"]
TokenParameters ==
    [Calls |-> {1, 2}, MaxRetries |-> 3]
CallParameters ==
    [Callers |-> {1, 2}, Prompts |-> {"p", "q"}, MaxRetries |-> 2,
     FallbackAfter |-> 2, MaxTokens |-> 2, MemorySize |-> 1]
LimitParameters ==
    [Limit |-> 2, Window |-> 3, Requests |-> 1 .. 4]
=============================================================================
