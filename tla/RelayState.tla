----------------------------- MODULE RelayState -----------------------------
(***************************************************************************)
(* What a relay client shows to the rest of the program: RelayWSSState and *)
(* whether its task still runs.                                            *)
(***************************************************************************)
VARIABLES
    state,  \* trying, connected, rejected (terminal_reason) or stopped
    told    \* stop() was called

vars == <<state, told>>

Init == state = "trying" /\ told = FALSE

\* What the client may become on its own.  A connection that opens after the
\* client was told to stop is cancelled five seconds later.
After ==
    (IF told THEN {"stopped"} ELSE {})
    \cup (IF state = "trying" THEN {"connected", "rejected"} ELSE {})
    \cup (IF state = "connected" /\ ~told THEN {"trying"} ELSE {})

Move ==
    /\ state \in {"trying", "connected"}
    /\ state' \in After
    /\ UNCHANGED told

Tell == ~told /\ told' = TRUE /\ UNCHANGED state

Next == Move \/ Tell

Spec == Init /\ [][Next]_vars
=============================================================================
