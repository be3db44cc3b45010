----------------------------- MODULE RelayTokens -----------------------------
(***************************************************************************)
(* RelayClient's calls of the gateway and the token they share.  A call    *)
(* makes sure that the token is not due, posts, and tries again after a    *)
(* transient error or, once, after a 401.  Renewing the token is done      *)
(* under a lock, with the refresh token first and the licence second.      *)
(***************************************************************************)
EXTENDS Integers

CONSTANTS
    Calls,       \* calls at a time
    MaxRetries   \* attempts of a JSON call

ConstantsOK == 0 \notin Calls /\ MaxRetries \in Nat \ {0}

VARIABLES
    access,   \* the cached access token, as the gateway sees it: none, live, dead
    due,      \* needs_refresh: none, or about to expire
    refresh,  \* the cached refresh token
    lock,     \* who holds refresh_lock
    call,     \* per call: kind, where it is, attempts made, its 401 used up
    renewed,  \* history: renewals less the times the token became due
    revoked   \* history: the gateway withdrew a token or refused the licence

token == <<access, due, refresh>>
vars == <<token, lock, call, renewed, revoked>>

Kinds == {"json", "multipart", "stream"}
Free == 0
Unused == [kind |-> "json", at |-> "idle", attempt |-> 0, again |-> FALSE]

Init ==
    /\ access = "none" /\ due = TRUE /\ refresh = "none" /\ lock = Free
    /\ call = [c \in Calls |-> Unused]
    /\ renewed = 0 /\ revoked = FALSE

At(c, p) == call[c].at = p
Goto(c, p) == call' = [call EXCEPT ![c].at = p]

Begin(c, k) ==
    /\ At(c, "idle")
    /\ call' = [call EXCEPT ![c] = [Unused EXCEPT !.kind = k, !.at = "ensure"]]
    /\ UNCHANGED <<token, lock, renewed, revoked>>

\* The result goes to the caller.
Return(c) ==
    /\ call[c].at \in {"done", "refused", "failed"}
    /\ call' = [call EXCEPT ![c] = Unused]
    /\ UNCHANGED <<token, lock, renewed, revoked>>

Ensure(c) ==
    /\ At(c, "ensure")
    /\ Goto(c, IF due THEN "lock" ELSE "post")
    /\ UNCHANGED <<token, lock, renewed, revoked>>

\* A JSON call goes through _ensure_token again after the renewal.
Onward(c) == IF call[c].kind = "json" /\ call[c].again THEN "ensure" ELSE "post"

Ask == IF refresh = "none" THEN "activate" ELSE "refresh"
\* Mutant: the token is not looked at again under the lock.
LockAnyway(c) ==
    /\ At(c, "lock") /\ lock = Free
    /\ lock' = c /\ Goto(c, Ask)
    /\ UNCHANGED <<token, renewed, revoked>>
\* Another call may have renewed the token while this one waited.
Lock(c) ==
    /\ At(c, "lock") /\ lock = Free
    /\ IF due THEN lock' = c /\ Goto(c, Ask)
       ELSE UNCHANGED lock /\ Goto(c, Onward(c))
    /\ UNCHANGED <<token, renewed, revoked>>

Renew(c) ==
    /\ access' = "live" /\ due' = FALSE
    /\ refresh' \in {"live", "none"}
    /\ renewed' = renewed + 1
    /\ lock' = Free
    /\ Goto(c, Onward(c))
    /\ UNCHANGED revoked

\* The gateway is not reached, or its answer is an error of another kind.
GiveUp(c) ==
    /\ call[c].at \in {"refresh", "activate"}
    /\ lock' = Free /\ Goto(c, "failed")
    /\ UNCHANGED <<token, renewed, revoked>>

\* _refresh_via_refresh_token; a rejection falls back to the licence.
Refresh(c) ==
    /\ At(c, "refresh")
    /\ \/ refresh = "live" /\ Renew(c)
       \/ /\ refresh = "dead"
          /\ refresh' = "none" /\ Goto(c, "activate")
          /\ UNCHANGED <<access, due, lock, renewed, revoked>>

\* _activate_license.
Activate(c) ==
    /\ At(c, "activate")
    /\ \/ Renew(c)
       \/ /\ lock' = Free /\ Goto(c, "refused") /\ revoked' = TRUE
          /\ UNCHANGED <<token, renewed>>

Accept(c) ==
    /\ At(c, "post") /\ access = "live"
    /\ Goto(c, "done")
    /\ UNCHANGED <<token, lock, renewed, revoked>>

\* A JSON call renews the token only at its first attempt.
MayRenew(c) ==
    ~call[c].again /\ (call[c].kind = "json" => call[c].attempt = 0)

\* A 401 for a token the gateway does not like.
Refuse(c) ==
    /\ At(c, "post") /\ access # "live"
    /\ IF MayRenew(c)
       THEN call' = [call EXCEPT ![c].again = TRUE, ![c].at = "lock",
                                 ![c].attempt = @ + 1]
       ELSE Goto(c, "refused")
    /\ UNCHANGED <<token, lock, renewed, revoked>>

\* A timeout, a network error, 429 or 5xx: JSON calls back off and try again.
Disturb(c) ==
    /\ At(c, "post")
    /\ IF call[c].kind = "json" /\ call[c].attempt < MaxRetries - 1
       THEN call' = [call EXCEPT ![c].at = "ensure", ![c].attempt = @ + 1]
       ELSE Goto(c, "failed")
    /\ UNCHANGED <<token, lock, renewed, revoked>>

\* A minute is left.
BecomeDue ==
    /\ ~due
    /\ due' = TRUE /\ renewed' = renewed - 1
    /\ UNCHANGED <<access, refresh, lock, call, revoked>>

\* The minute is over.  A request is on its way for less than that, but a stream
\* is posted when its consumer asks for the first event.
Lapse ==
    /\ due /\ access = "live"
    /\ \A c \in Calls : At(c, "post") => call[c].kind = "stream" /\ ~call[c].again
    /\ access' = "dead"
    /\ UNCHANGED <<due, refresh, lock, call, renewed, revoked>>

Withdraw ==
    /\ access # "none"
    /\ access' = "dead"
    /\ revoked' = TRUE
    /\ UNCHANGED <<due, refresh, lock, call, renewed>>

LapseRefresh ==
    /\ refresh = "live"
    /\ refresh' = "dead"
    /\ UNCHANGED <<access, due, lock, call, renewed, revoked>>

Next ==
    \/ \E c \in Calls :
          \/ \E k \in Kinds : Begin(c, k)
          \/ Return(c) \/ Ensure(c) \/ Lock(c) \/ Refresh(c) \/ Activate(c)
          \/ GiveUp(c) \/ Accept(c) \/ Refuse(c) \/ Disturb(c)
    \/ BecomeDue \/ Lapse \/ LapseRefresh \/ Withdraw

Spec == Init /\ [][Next]_vars

----------------------------------------------------------------------------
(* Properties *)

TypeOK ==
    /\ access \in {"none", "live", "dead"} /\ refresh \in {"none", "live", "dead"}
    /\ lock \in Calls \cup {Free}
    /\ \A c \in Calls : call[c].attempt \in 0..MaxRetries

\* The calls that find the token due ask the gateway for one new token together:
\* a licence is not activated once per call.
RenewedOnce == renewed <= 1

\* A call is refused only by a gateway that withdrew a token or rejected the
\* licence; that a token has grown old is never seen by a caller.
ExpiryIsInvisible == (\E c \in Calls : At(c, "refused")) => revoked
=============================================================================
