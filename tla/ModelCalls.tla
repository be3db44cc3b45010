----------------------------- MODULE ModelCalls -----------------------------
(***************************************************************************)
(* LLMClient: a prompt is answered from the cache or by the provider, with *)
(* retries that escalate to a second model.  CacheService keeps answers in *)
(* Redis, or in memory as long as Redis cannot be reached; old versions    *)
(* have left empty answers in it.                                          *)
(***************************************************************************)
EXTENDS Integers, Sequences, SequencesExt

CONSTANTS
    Callers, Prompts,
    MaxRetries,       \* llm_max_retries
    FallbackAfter,    \* llm_fallback_after_attempts
    MaxTokens,        \* 8192
    MemorySize        \* _MEMORY_CACHE_MAX_SIZE

\* The first attempt that escalates is among those that are made.
ConstantsOK ==
    /\ MaxRetries \in Nat \ {0} /\ FallbackAfter \in 1 .. MaxRetries
    /\ {MaxTokens, MemorySize} \subseteq Nat \ {0}

VARIABLES
    up,      \* Redis answers
    redis,   \* what it holds of each prompt: none, empty, answer
    memory,  \* the memory cache, from least to most recently used
    call     \* per caller: where it is, prompt, attempts, tokens, model

vars == <<up, redis, memory, call>>

Idle == [at |-> "idle", prompt |-> CHOOSE p \in Prompts : TRUE,
         attempt |-> 0, tokens |-> 1, tried |-> {}, result |-> "none"]

Init ==
    /\ up \in BOOLEAN
    /\ redis \in [Prompts -> {"none", "empty"}]
    /\ memory = <<>>
    /\ call = [c \in Callers |-> Idle]

At(c, p) == call[c].at = p
Set(c, r) == call' = [call EXCEPT ![c] = r]
\* A prompt is in the memory cache once.
Hits(m, p) == {i \in DOMAIN m : m[i].prompt = p}
Without(m, p) ==
    IF Hits(m, p) = {} THEN m ELSE RemoveAt(m, CHOOSE i \in Hits(m, p) : TRUE)
Put(m, p, v) ==
    LET new == Append(Without(m, p), [prompt |-> p, value |-> v])
    IN  IF Len(new) > MemorySize THEN Tail(new) ELSE new
Recall(p) ==
    IF Hits(memory, p) = {} THEN "none"
    ELSE memory[CHOOSE i \in Hits(memory, p) : TRUE].value
\* CacheService.get: Redis first, memory if it fails or has nothing.
Cached(p) == IF up /\ redis[p] # "none" THEN redis[p] ELSE Recall(p)
FromMemory(p) == ~(up /\ redis[p] # "none") /\ Recall(p) # "none"

Begin(c, p) ==
    /\ At(c, "idle")
    /\ Set(c, [Idle EXCEPT !.at = "look", !.prompt = p])
    /\ UNCHANGED <<up, redis, memory>>

\* Mutant: whatever is cached is returned.
UsableIfAny(v) == v # "none"
Usable(v) == v = "answer"

\* A cached answer is returned, an empty one is purged first.
Look(c) ==
    LET p == call[c].prompt  v == Cached(p)
    IN  /\ At(c, "look")
        /\ memory' = IF FromMemory(p) THEN Put(memory, p, v) ELSE memory
        /\ Set(c, [call[c] EXCEPT
              !.at = IF Usable(v) THEN "done"
                     ELSE IF v = "empty" THEN "purge" ELSE "ask",
              !.result = IF Usable(v) THEN v ELSE "none"])
        /\ UNCHANGED <<up, redis>>

\* CacheService.delete: both stores, as far as they are reached.
Purge(c) ==
    LET p == call[c].prompt
    IN  /\ At(c, "purge")
        /\ redis' = IF up THEN [redis EXCEPT ![p] = "none"] ELSE redis
        /\ memory' = Without(memory, p)
        /\ Set(c, [call[c] EXCEPT !.at = "ask"])
        /\ UNCHANGED up

Escalates(n) == n + 1 >= FallbackAfter

Model(c) == IF Escalates(call[c].attempt) THEN "fallback" ELSE "primary"
Tried(c) == [call[c] EXCEPT !.attempt = @ + 1, !.tried = @ \cup {Model(c)}]

Answered(c) ==
    /\ At(c, "ask")
    /\ Set(c, [Tried(c) EXCEPT !.at = "store", !.result = "answer"])
    /\ UNCHANGED <<up, redis, memory>>

Failed(c, tokens) ==
    Set(c, [Tried(c) EXCEPT
          !.at = IF call[c].attempt < MaxRetries - 1 THEN "ask" ELSE "failed",
          !.tokens = tokens])

\* A timeout, 429, another HTTP error or an answer that does not parse.
Disturbed(c) ==
    /\ At(c, "ask")
    /\ Failed(c, call[c].tokens)
    /\ UNCHANGED <<up, redis, memory>>

\* The budget went into reasoning: try with twice as much.
EmptyContent(c) ==
    LET twice == 2 * call[c].tokens
    IN  /\ At(c, "ask")
        /\ Failed(c, IF twice < MaxTokens THEN twice ELSE MaxTokens)
        /\ UNCHANGED <<up, redis, memory>>

\* 402 and 403 are not retried.
QuotaExceeded(c) ==
    /\ At(c, "ask")
    /\ Set(c, [Tried(c) EXCEPT !.at = "quota"])
    /\ UNCHANGED <<up, redis, memory>>

\* CacheService.set, under the key of the primary model.
Store(c) ==
    LET p == call[c].prompt
    IN  /\ At(c, "store")
        /\ redis' = IF up THEN [redis EXCEPT ![p] = "answer"] ELSE redis
        /\ memory' = IF up THEN memory ELSE Put(memory, p, "answer")
        /\ Set(c, [call[c] EXCEPT !.at = "done"])
        /\ UNCHANGED up

Return(c) ==
    /\ call[c].at \in {"done", "failed", "quota"}
    /\ Set(c, Idle)
    /\ UNCHANGED <<up, redis, memory>>

\* Redis comes and goes, and entries outlive their time to live.
Toggle == up' = ~up /\ UNCHANGED <<redis, memory, call>>
Expire(p) ==
    /\ redis' = [redis EXCEPT ![p] = "none"]
    /\ memory' = Without(memory, p)
    /\ UNCHANGED <<up, call>>

Next ==
    \/ \E c \in Callers :
          \/ \E p \in Prompts : Begin(c, p)
          \/ Look(c) \/ Purge(c) \/ Answered(c) \/ Disturbed(c) \/ EmptyContent(c)
          \/ QuotaExceeded(c) \/ Store(c) \/ Return(c)
    \/ Toggle
    \/ \E p \in Prompts : Expire(p)

Spec == Init /\ [][Next]_vars

----------------------------------------------------------------------------
(* Properties *)

TypeOK ==
    /\ redis \in [Prompts -> {"none", "empty", "answer"}]
    /\ Len(memory) <= MemorySize
    /\ \A c \in Callers :
          call[c].attempt \in 0..MaxRetries /\ call[c].tokens \in 1..MaxTokens

\* Whatever the cache holds and whichever store answers, a call returns content;
\* and one that fails has made all its attempts, the fallback model among them,
\* unless the quota is used up.
CallsAreExhaustive ==
    \A c \in Callers :
        /\ At(c, "done") => call[c].result = "answer"
        /\ At(c, "failed") => call[c].attempt = MaxRetries
                              /\ "fallback" \in call[c].tried
=============================================================================
