----------------------------- MODULE CommitRetry -----------------------------
\* commit_with_retry, for sessions that write to one SQLite file.
EXTENDS Integers

CONSTANTS Sessions, MaxRetries

VARIABLES session, stored   \* per session: where it is, its pending write, retries

vars == <<session, stored>>

Init ==
    /\ session = [s \in Sessions |-> [at |-> "work", pending |-> TRUE, tries |-> 0]]
    /\ stored = {}

Set(s, at, pending, tries) ==
    session' = [session EXCEPT
                  ![s] = [at |-> at, pending |-> pending, tries |-> tries]]

\* The flush of the other session, or of the session itself, takes the file.
Locked(s) == \E t \in Sessions \ {s} : session[t].at = "holds"
Take(s) ==
    /\ session[s].at = "work" /\ ~Locked(s)
    /\ Set(s, "holds", session[s].pending, session[s].tries)
    /\ UNCHANGED stored

Commit(s) ==
    /\ session[s].at \in {"work", "holds"} /\ ~Locked(s)
    /\ stored' = IF session[s].pending THEN stored \cup {s} ELSE stored
    /\ Set(s, "returned", FALSE, session[s].tries)

\* "database is locked": raise after the last attempt, else sleep and roll back.
Refused(s) ==
    LET n == session[s].tries
    IN  /\ session[s].at = "work" /\ Locked(s)
        /\ IF n = MaxRetries THEN Set(s, "raised", session[s].pending, n)
           ELSE Set(s, "work", FALSE, n + 1)
        /\ UNCHANGED stored

Next == \E s \in Sessions : Take(s) \/ Commit(s) \/ Refused(s)

Spec == Init /\ [][Next]_vars

\* database.py:195: lock contention loses nothing the caller was told is saved.
NoDataLoss == \A s \in Sessions : session[s].at = "returned" => s \in stored
=============================================================================
