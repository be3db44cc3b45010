------------------------------ MODULE RelayLink ------------------------------
(***************************************************************************)
(* RelayWSSClient: the connection of the desktop to the gateway.  One loop *)
(* makes sure of a token, connects, serves requests of the phone, and      *)
(* reconnects with a growing delay until it is stopped or its licence has  *)
(* been rejected too often.  The token is that of RelayClient: cached, and *)
(* asked for anew a minute before it expires.                              *)
(*                                                                         *)
(* Everything between two awaits of the event loop is one step; network    *)
(* and gateway are the environment.                                        *)
(***************************************************************************)
EXTENDS Integers

CONSTANTS
    MaxAuth,      \* relay_max_auth_failures
    MaxBackoff,   \* relay_reconnect_max, a power of two here
    Forwards      \* http_requests of the gateway, each sent once

\* The settings are counts of at least one.
ConstantsOK == MaxAuth \in Nat \ {0} /\ MaxBackoff \in Nat \ {0}

VARIABLES
    standing,  \* what the gateway thinks of the licence: good or bad
    loop,      \* where the task is
    fresh,     \* the cached token is not due for a refresh
    stop,      \* _stop_event
    terminal,  \* terminal_reason is set
    fails,     \* auth_failures
    backoff,   \* the next delay
    forward,   \* requests: new, waiting for the local API, orphaned, answered
    denied     \* history: rejections since it last was connected

link == <<loop, fresh, stop, terminal, fails, backoff>>
vars == <<standing, link, forward, denied>>

Running == loop \in {"connect", "serve", "backoff"}

\* start, on a new object.
Init ==
    /\ standing \in {"good", "bad"}
    /\ loop = "connect"
    /\ fresh = FALSE /\ stop = FALSE /\ terminal = FALSE
    /\ fails = 0 /\ backoff = 1
    /\ forward = [r \in Forwards |-> "new"]
    /\ denied = 0

Judge ==
    /\ standing' = IF standing = "good" THEN "bad" ELSE "good"
    /\ UNCHANGED <<link, forward, denied>>

\* After an attempt or a connection: a loop that was told to stop or has given
\* up ends, any other one waits.
Leave(rejected) ==
    loop' = IF stop \/ rejected THEN "ended" ELSE "backoff"

\* Mutant: a rejection more than allowed is needed.
RejectedAtLast(n) == n > MaxAuth
RejectedTooOften(n) == n >= MaxAuth

\* _ensure_token asks the gateway unless the cached token is fresh.
Deny ==
    /\ loop = "connect" /\ ~fresh /\ standing = "bad"
    /\ fails' = fails + 1
    /\ terminal' = RejectedTooOften(fails + 1)
    /\ Leave(RejectedTooOften(fails + 1))
    /\ denied' = denied + 1
    /\ UNCHANGED <<standing, fresh, stop, backoff, forward>>

\* Mutant: an error of the network ends the loop.
AttemptFailsFinally ==
    /\ loop = "connect"
    /\ loop' = "ended"
    /\ UNCHANGED <<standing, fresh, stop, terminal, fails, backoff, forward,
                   denied>>
\* The gateway is not reached, answers 429 or 5xx, or refuses the handshake of a
\* token it no longer likes.
AttemptFails ==
    /\ loop = "connect"
    /\ Leave(FALSE)
    /\ UNCHANGED <<standing, fresh, stop, terminal, fails, backoff, forward,
                   denied>>

\* Connected, though the loop may have been told to stop meanwhile.
Open ==
    /\ loop = "connect"
    /\ fresh \/ standing = "good"
    /\ loop' = "serve"
    /\ fresh' = TRUE
    /\ denied' = 0
    /\ UNCHANGED <<standing, stop, terminal, fails, backoff, forward>>

\* Requests that wait for the local API have lost their connection.
Orphan ==
    forward' = [r \in Forwards |-> IF forward[r] = "waiting" THEN "orphaned"
                                   ELSE forward[r]]

\* The gateway closes the connection in good order: the counters start over.
Close ==
    /\ loop = "serve"
    /\ fails' = 0 /\ backoff' = 1
    /\ Leave(FALSE) /\ Orphan
    /\ UNCHANGED <<standing, fresh, stop, terminal, denied>>

\* It breaks: the network, another first message than "connected", a message
\* that is no JSON object.
Break ==
    /\ loop = "serve"
    /\ Leave(FALSE) /\ Orphan
    /\ UNCHANGED <<standing, fresh, stop, terminal, fails, backoff, denied>>

Lesser(a, b) == IF a < b THEN a ELSE b

\* Mutant: a delay that has grown to the maximum is not waited out.
WakeUntilMax ==
    /\ loop = "backoff" /\ ~stop /\ backoff < MaxBackoff
    /\ loop' = "connect"
    /\ backoff' = Lesser(2 * backoff, MaxBackoff)
    /\ UNCHANGED <<standing, fresh, stop, terminal, fails, forward, denied>>
Wake ==
    /\ loop = "backoff" /\ ~stop
    /\ loop' = "connect"
    /\ backoff' = Lesser(2 * backoff, MaxBackoff)
    /\ UNCHANGED <<standing, fresh, stop, terminal, fails, forward, denied>>

AskToStop ==
    /\ ~stop
    /\ stop' = TRUE
    /\ UNCHANGED <<standing, loop, fresh, terminal, fails, backoff, forward,
                   denied>>

\* The socket is closed, the delay cut short, a hanging attempt cancelled after
\* five seconds.
StopTakes ==
    /\ stop /\ Running
    /\ loop' = "ended"
    /\ Orphan
    /\ UNCHANGED <<standing, fresh, stop, terminal, fails, backoff, denied>>

Expire ==
    /\ Running /\ fresh
    /\ fresh' = FALSE
    /\ UNCHANGED <<standing, loop, stop, terminal, fails, backoff, forward,
                   denied>>

\* _message_loop hands a request to a task of its own.
Receive(r) ==
    /\ loop = "serve" /\ ~stop
    /\ forward[r] = "new"
    /\ forward' = [forward EXCEPT ![r] = "waiting"]
    /\ UNCHANGED <<standing, link, denied>>

\* The local API answers, is too late (504) or not reached (502): something is
\* sent in any case, into the connection the request came by.
Answer(r) ==
    /\ forward[r] \in {"waiting", "orphaned"}
    /\ forward' = [forward EXCEPT
          ![r] = IF @ = "waiting" THEN "answered" ELSE "lost"]
    /\ UNCHANGED <<standing, link, denied>>

Next ==
    \/ Judge \/ Deny \/ AttemptFails \/ Open \/ Close \/ Break \/ Wake
    \/ AskToStop \/ StopTakes \/ Expire
    \/ \E r \in Forwards : Receive(r) \/ Answer(r)

Spec == Init /\ [][Next]_vars

\* Timers fire, and awaited calls return or time out.  That the network lets
\* through an attempt that is made again and again is assumed.
FairSpec ==
    /\ Spec
    /\ WF_vars(Wake) /\ WF_vars(StopTakes) /\ WF_vars(Expire)
    /\ SF_vars(Deny) /\ SF_vars(Open)
    /\ \A r \in Forwards : WF_vars(Answer(r))

----------------------------------------------------------------------------
(* Properties *)

TypeOK ==
    /\ standing \in {"good", "bad"}
    /\ loop \in {"connect", "serve", "backoff", "ended"}
    /\ fresh \in BOOLEAN /\ stop \in BOOLEAN /\ terminal \in BOOLEAN
    /\ fails \in 0..MaxAuth
    /\ backoff \in 1..MaxBackoff
    /\ \A r \in Forwards :
          forward[r] \in {"new", "waiting", "orphaned", "answered", "lost"}

\* A loop that nobody stopped ends by rejections alone, and what it counts covers
\* those since it last was connected: a licence that is never accepted again is
\* asked at most MaxAuth times more.
RejectionsAreBounded ==
    /\ loop = "ended" /\ ~stop => terminal
    /\ denied <= fails /\ fails <= MaxAuth

\* A client without a connection does not try a rejected licence for ever,
\* although a cached token may carry it for a while.
RejectedComesToRest ==
    ~<>[](loop \in {"connect", "backoff"} /\ standing = "bad")

\* A licence that stays good is connected again and again, from any delay.
GoodIsServed ==
    <>[](Running /\ ~stop /\ standing = "good") => []<>(loop = "serve")

\* Each request a connection brought is answered while it stands; none is left
\* waiting by another one that is slow or has lost its connection.
RequestsAreAnswered ==
    \A r \in Forwards :
        forward[r] = "waiting" ~> (forward[r] = "answered" \/ loop # "serve")

\* The client as the pairing sees it.
Link == INSTANCE RelayState WITH
    state <- CASE loop = "serve" -> "connected"
               [] loop = "ended" -> IF terminal THEN "rejected" ELSE "stopped"
               [] OTHER -> "trying",
    told <- stop
\* For whoever looks at it from outside, the client is trying, connected,
\* rejected for good or stopped, and none of these is left but as RelayState
\* allows.
IsRelayState == Link!Init /\ [][Link!Next]_(Link!vars)
=============================================================================
