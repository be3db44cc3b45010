------------------------------- MODULE MCBriefs -------------------------------
EXTENDS Briefs
MCType == [d \in Todos |-> IF d = "d1" THEN "promise" ELSE "care"]
MCRole == [d \in Todos |-> IF d = "d1" THEN "my_promise" ELSE "their_promise"]
MCLinks == [p \in People |-> IF p = "ann" THEN <<"refer", "meet", "talk", "supply">> ELSE <<>>]
=============================================================================
