--------------------------- MODULE FirstDecision ---------------------------
(***************************************************************************)
(* What an operation behind a candidate token promises: the first          *)
(* successful confirm or reject decides it, and every answer anyone is     *)
(* ever given about it, however often it is submitted, is that decision.   *)
(***************************************************************************)
CONSTANT Ops

VARIABLES
    decision,   \* the decision on each operation, or "none"
    told        \* the answers that have been given

vars == <<decision, told>>

Decisions == {"confirmed", "rejected"}

Init ==
    /\ decision = [o \in Ops |-> "none"]
    /\ told = {}

\* One request decides several operations at once, each for the first time.
Decide ==
    \E d \in [Ops -> Decisions \cup {"none"}] :
        /\ \A o \in Ops : decision[o] # "none" => d[o] = decision[o]
        /\ decision' = d
        /\ UNCHANGED told

\* Answers repeat decisions.
Answer ==
    \E A \in SUBSET (Ops \X Decisions) :
        /\ \A a \in A : decision[a[1]] = a[2]
        /\ told' = told \cup A
        /\ UNCHANGED decision

Next == Decide \/ Answer

Spec == Init /\ [][Next]_vars

----------------------------------------------------------------------------

\* No two answers about one operation differ.
AnswersAgree == \A a, b \in told : a[1] = b[1] => a = b
=============================================================================
