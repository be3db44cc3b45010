------------------------ MODULE MCPersonResolution ------------------------
(* Two events that mention people of one surname, or with names alike. *)
EXTENDS PersonResolution, TLC

CONSTANTS e1, e2

Who(n, c) == [name |-> n, doubtful |-> FALSE,
              about |-> [f \in Facts |-> IF f = "company" THEN c ELSE NoFact]]

PeopleNames == {"Zhang San/Jon", "Zhang Wei", "Jon", "John"}
SurnameOf == [n \in PeopleNames |->
                  IF n \in {"Zhang San/Jon", "Zhang Wei"} THEN "Zhang"
                  ELSE NoSurname]
\* Step 2 gives the engine no dictionary.
NoFamily == [n \in PeopleNames |-> {}]
\* A name as some clients write it, with the nickname after a slash.
InsidePairs == {<<"Jon", "Zhang San/Jon">>}
AlikePairs == {<<"Jon", "John">>, <<"John", "Jon">>}
FuzzyScores == [q \in PeopleNames \X PeopleNames |->
                    IF q \in AlikePairs THEN 75 ELSE 0]
\* One name at two companies, a look-alike, two people with one surname, one of
\* them known by a nickname that is the name of another.
MentionsOf == (e1 :> <<Who("Jon", "B")>>)
           @@ (e2 :> <<Who("Jon", "A"), Who("John", NoFact),
                       Who("Zhang San/Jon", "A"), Who("Zhang Wei", "B")>>)
KindOf == (e1 :> "card") @@ (e2 :> "conversation")
RunsOf == (e1 :> 2) @@ (e2 :> 1)
===========================================================================
