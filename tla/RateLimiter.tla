----------------------------- MODULE RateLimiter -----------------------------
(***************************************************************************)
(* check_rate_limit for one key: a sliding window in Redis, and one in     *)
(* memory that takes over for every request Redis fails on.  A window is a *)
(* set of requests, each with its age; the code drops old ones when it     *)
(* looks.                                                                  *)
(***************************************************************************)
EXTENDS Integers, FiniteSetsExt

CONSTANTS
    Limit, Window,
    Requests   \* names of the requests that any window holds: a bound

ConstantsOK ==
    /\ Limit \in Nat \ {0} /\ Window \in Nat \ {0}
    /\ IsFiniteSet(Requests)

VARIABLES
    redis,     \* the ZSET: requests, allowed or not
    memory,    \* the in-memory window: allowed requests
    age,       \* of each request that a window holds
    allowed,   \* history: the requests of the last window that each store let in
    wait       \* what the last refusal asks the caller to wait, and who refused

vars == <<redis, memory, age, allowed, wait>>

NoWait == [left |-> 0, by |-> "none"]
Init ==
    /\ redis = {} /\ memory = {}
    /\ age = [r \in Requests |-> 0]
    /\ allowed = [s \in {"redis", "memory"} |-> {}]
    /\ wait = NoWait

\* Mutant: the limit itself is still let through.
OverAfter(window) == Cardinality(window) > Limit
Over(window) == Cardinality(window) >= Limit

Oldest(window) == Max({age[r] : r \in window})
Decide(r, window, who) ==
    IF Over(window)
    THEN /\ wait' = [left |-> Window - Oldest(window), by |-> who]
         /\ UNCHANGED allowed
    ELSE /\ allowed' = [allowed EXCEPT ![who] = @ \cup {r}]
         /\ wait' = NoWait

\* The pipeline removes, counts and adds, whatever the count says.
AskRedis(r) ==
    /\ Decide(r, redis, "redis")
    /\ redis' = redis \cup {r}
    /\ UNCHANGED <<memory, age>>

\* Redis may have run the pipeline before it failed.
AskMemory(r) ==
    /\ Decide(r, memory, "memory")
    /\ memory' = IF Over(memory) THEN memory ELSE memory \cup {r}
    /\ redis' \in {redis, redis \cup {r}}
    /\ UNCHANGED age

\* A request is a name that no window holds.
Ask ==
    LET unused == Requests \ (redis \cup memory)
        r == CHOOSE u \in unused : TRUE
    IN  unused # {} /\ (AskRedis(r) \/ AskMemory(r))

Young(window) == {r \in window : age[r] + 1 < Window}
Tick ==
    /\ redis' = Young(redis)
    /\ memory' = Young(memory)
    /\ age' = [r \in Requests |-> IF r \in Young(redis \cup memory) THEN age[r] + 1 ELSE 0]
    /\ allowed' = [s \in DOMAIN allowed |-> Young(allowed[s])]
    /\ wait' = IF wait.left = 0 THEN wait ELSE [wait EXCEPT !.left = @ - 1]

Next == Ask \/ Tick

Spec == Init /\ [][Next]_vars

----------------------------------------------------------------------------
(* Properties *)

\* What is allowed is recorded where it was allowed; the rest are types.
TypeOK ==
    /\ redis \subseteq Requests /\ memory \subseteq Requests
    /\ age \in [Requests -> 0 .. Window - 1]
    /\ allowed["redis"] \subseteq redis /\ allowed["memory"] = memory
    /\ wait.left \in 0 .. Window /\ wait.by \in {"none", "redis", "memory"}

\* Each store keeps to the limit, so a Redis that comes and goes lets at most
\* twice as many through in a window; and a caller who waits as long as the
\* memory window tells him is let through.
LimitHolds ==
    /\ \A s \in {"redis", "memory"} : Cardinality(allowed[s]) <= Limit
    /\ wait.by = "memory" /\ wait.left = 0 => ~Over(memory)
=============================================================================
