--------------------------- MODULE KnowledgeProofs ---------------------------
(***************************************************************************)
(* What holds of tokens, model calls, promises, briefs, reminders and rate *)
(* limits for any number of calls, retries, todos, people, runs, edits and *)
(* requests.  A step of the whole is a step of one part and leaves the     *)
(* others alone, so each part has an inductive invariant of its own; the   *)
(* types of all parts come last.                                           *)
(***************************************************************************)
EXTENDS RunProofs, SequenceTheorems

----------------------------------------------------------------------------
(* The gateway's tokens *)

\* A token is due until it was renewed, and alive until then if nobody withdrew it.
TokenFresh ==
    /\ token_renewed = IF token_due THEN 0 ELSE 1
    /\ token_due \in BOOLEAN
    /\ ~token_due /\ ~token_revoked => token_access = "live"

\* Whoever is renewing the token holds the lock, and found the token due.
TokenHolds ==
    \A c \in OfTokens.Calls :
        token_call[c].at \in {"refresh", "activate"} => token_lock = c /\ token_due

\* A call that may not ask for a token again posts one that is alive.
TokenPosts ==
    /\ token_revoked \in BOOLEAN
    /\ \A c \in OfTokens.Calls :
           Token!At(c, "post") /\ ~Token!MayRenew(c) /\ ~token_revoked =>
               token_access = "live"

TokenPlaces ==
    {"idle", "ensure", "lock", "refresh", "activate", "post", "done", "refused", "failed"}
TokenOneCall == [kind : Token!Kinds, at : TokenPlaces, attempt : Nat, again : BOOLEAN]
TokenShape == token_call \in [OfTokens.Calls -> TokenOneCall]

TokenInv ==
    /\ TokenFresh /\ TokenHolds /\ TokenPosts /\ TokenShape
    /\ Token!ExpiryIsInvisible

LEMMA TokenInit == ASSUME Token!ConstantsOK, Token!Init PROVE TokenInv
  BY DEF Token!Init, TokenInv, TokenFresh, TokenHolds, TokenPosts, TokenShape,
     TokenOneCall, TokenPlaces, Token!Kinds,
     Token!ExpiryIsInvisible, Token!At, Token!Unused

\* Calls that only move keep everything but their place.
LEMMA TokenMoves ==
    ASSUME TokenInv, NEW c \in OfTokens.Calls, NEW p \in TokenPlaces, Token!Goto(c, p)
    PROVE  /\ TokenShape'
           /\ token_call'[c].at = p
           /\ token_call'[c].kind = token_call[c].kind
           /\ token_call'[c].attempt = token_call[c].attempt
           /\ token_call'[c].again = token_call[c].again
           /\ \A d \in OfTokens.Calls \ {c} : token_call'[d] = token_call[d]
  BY DEF TokenInv, TokenShape, TokenOneCall, Token!Goto

LEMMA TokenNext ==
    ASSUME Token!ConstantsOK, TokenInv, [Token!Next]_(Token!vars)
    PROVE  TokenInv'
<1> USE DEF Token!At, Token!MayRenew, TokenPlaces
<1>1. ASSUME NEW c \in OfTokens.Calls, NEW k \in Token!Kinds, Token!Begin(c, k)
      PROVE  TokenInv'
  <2>1. /\ TokenShape' /\ token_call'[c].at = "ensure"
        /\ \A d \in OfTokens.Calls \ {c} : token_call'[d] = token_call[d]
        /\ Token!MayRenew(c)'
    BY <1>1 DEF Token!Begin, TokenInv, TokenShape, TokenOneCall, Token!Unused
  <2> QED
    BY <1>1, <2>1 DEF Token!Begin, TokenInv, TokenFresh, TokenHolds, TokenPosts,
       Token!ExpiryIsInvisible, Token!token
<1>2. ASSUME NEW c \in OfTokens.Calls, Token!Return(c) PROVE TokenInv'
  <2>1. /\ TokenShape' /\ token_call'[c].at = "idle"
        /\ \A d \in OfTokens.Calls \ {c} : token_call'[d] = token_call[d]
    BY <1>2 DEF Token!Return, TokenInv, TokenShape, TokenOneCall, Token!Unused,
       Token!Kinds
  <2> QED
    BY <1>2, <2>1 DEF Token!Return, TokenInv, TokenFresh, TokenHolds, TokenPosts,
       Token!ExpiryIsInvisible, Token!token
<1>3. ASSUME NEW c \in OfTokens.Calls, Token!Ensure(c) PROVE TokenInv'
  BY <1>3, TokenMoves DEF Token!Ensure, TokenInv, TokenFresh, TokenHolds, TokenPosts,
     Token!ExpiryIsInvisible, Token!token
<1>4. ASSUME NEW c \in OfTokens.Calls, Token!Lock(c) PROVE TokenInv'
  <2>1. CASE token_due
    BY <1>4, <2>1, TokenMoves
    DEF Token!Lock, Token!Ask, TokenInv, TokenFresh, TokenHolds, TokenPosts,
        Token!ExpiryIsInvisible, Token!token, Token!Free, Token!ConstantsOK
  <2>2. CASE ~token_due
    BY <1>4, <2>2, TokenMoves
    DEF Token!Lock, Token!Onward, TokenInv, TokenFresh, TokenHolds, TokenPosts,
        Token!ExpiryIsInvisible, Token!token
  <2> QED
    BY <2>1, <2>2
<1>5. ASSUME NEW c \in OfTokens.Calls, Token!Renew(c),
             token_call[c].at \in {"refresh", "activate"}
      PROVE  TokenInv'
  <2>1. /\ TokenShape'
        /\ token_call'[c].at \in {"ensure", "post"}
        /\ \A d \in OfTokens.Calls \ {c} : token_call'[d] = token_call[d]
    BY <1>5, TokenMoves DEF Token!Renew, Token!Onward
  <2>2. /\ token_due = TRUE /\ token_due' = FALSE /\ token_access' = "live"
        /\ token_revoked' = token_revoked
        /\ token_renewed' = token_renewed + 1 /\ token_lock = c
    BY <1>5 DEF Token!Renew, TokenInv, TokenHolds, TokenFresh
  <2>3. TokenFresh'
    <3>1. token_renewed = 0
      BY <2>2, Zenon DEF TokenInv, TokenFresh
    <3>2. token_renewed' = 1
      BY <2>2, <3>1
    <3> QED
      BY <2>2, <3>2, Zenon DEF TokenFresh
  <2>4. TokenHolds'
    BY <2>1, <2>2 DEF TokenInv, TokenHolds
  <2>5. TokenPosts'
    BY <2>2 DEF TokenInv, TokenPosts
  <2>6. Token!ExpiryIsInvisible'
    BY <2>1, <2>2 DEF TokenInv, Token!ExpiryIsInvisible
  <2> QED
    BY <2>1, <2>3, <2>4, <2>5, <2>6 DEF TokenInv
<1>6. ASSUME NEW c \in OfTokens.Calls, Token!Refresh(c) PROVE TokenInv'
  <2>1. CASE Token!Renew(c)
    BY <1>5, <1>6, <2>1 DEF Token!Refresh
  <2>2. CASE ~Token!Renew(c)
    BY <1>6, <2>2, TokenMoves DEF Token!Refresh, TokenInv, TokenFresh, TokenHolds,
       TokenPosts, Token!ExpiryIsInvisible
  <2> QED
    BY <2>1, <2>2
<1>7. ASSUME NEW c \in OfTokens.Calls, Token!Activate(c) PROVE TokenInv'
  <2>1. CASE Token!Renew(c)
    BY <1>5, <1>7, <2>1 DEF Token!Activate
  <2>2. CASE ~Token!Renew(c)
    <3>1. /\ Token!Goto(c, "refused") /\ token_revoked' = TRUE
          /\ UNCHANGED <<Token!token, token_renewed>>
      BY <1>7, <2>2 DEF Token!Activate
    <3>2. /\ TokenShape' /\ token_call'[c].at = "refused"
          /\ \A d \in OfTokens.Calls \ {c} : token_call'[d] = token_call[d]
      BY <3>1, TokenMoves
    <3>3. token_lock = c /\ token_due
      BY <1>7 DEF Token!Activate, TokenInv, TokenHolds
    <3> QED
      BY <3>1, <3>2, <3>3 DEF TokenInv, TokenFresh, TokenHolds, TokenPosts,
         Token!ExpiryIsInvisible, Token!token
  <2> QED
    BY <2>1, <2>2
<1>8. ASSUME NEW c \in OfTokens.Calls, Token!GiveUp(c) PROVE TokenInv'
  BY <1>8, TokenMoves DEF Token!GiveUp, TokenInv, TokenFresh, TokenHolds, TokenPosts,
     Token!ExpiryIsInvisible, Token!token
<1>9. ASSUME NEW c \in OfTokens.Calls, Token!Accept(c) PROVE TokenInv'
  BY <1>9, TokenMoves DEF Token!Accept, TokenInv, TokenFresh, TokenHolds, TokenPosts,
     Token!ExpiryIsInvisible, Token!token
<1>10. ASSUME NEW c \in OfTokens.Calls, Token!Refuse(c) PROVE TokenInv'
  <2>1. CASE Token!MayRenew(c)
    <3>1. UNCHANGED <<Token!token, token_lock, token_renewed, token_revoked>>
      BY <1>10 DEF Token!Refuse
    <3>2. /\ TokenShape' /\ token_call'[c].at = "lock"
          /\ \A d \in OfTokens.Calls \ {c} : token_call'[d] = token_call[d]
      BY <1>10, <2>1 DEF Token!Refuse, TokenInv, TokenShape, TokenOneCall
    <3> QED
      BY <3>1, <3>2 DEF TokenInv, TokenFresh, TokenHolds, TokenPosts,
         Token!ExpiryIsInvisible, Token!token
  <2>2. CASE ~Token!MayRenew(c)
    BY <1>10, <2>2, TokenMoves
    DEF Token!Refuse, TokenInv, TokenFresh, TokenHolds, TokenPosts,
        Token!ExpiryIsInvisible, Token!token
  <2> QED
    BY <2>1, <2>2
<1>11. ASSUME NEW c \in OfTokens.Calls, Token!Disturb(c) PROVE TokenInv'
  <2>1. CASE token_call[c].kind = "json"
          /\ token_call[c].attempt < OfTokens.MaxRetries - 1
    <3>1. UNCHANGED <<Token!token, token_lock, token_renewed, token_revoked>>
      BY <1>11 DEF Token!Disturb
    <3>2. /\ TokenShape' /\ token_call'[c].at = "ensure"
          /\ \A d \in OfTokens.Calls \ {c} : token_call'[d] = token_call[d]
      BY <1>11, <2>1 DEF Token!Disturb, TokenInv, TokenShape, TokenOneCall
    <3> QED
      BY <3>1, <3>2 DEF TokenInv, TokenFresh, TokenHolds, TokenPosts,
         Token!ExpiryIsInvisible, Token!token
  <2>2. CASE ~(token_call[c].kind = "json"
               /\ token_call[c].attempt < OfTokens.MaxRetries - 1)
    BY <1>11, <2>2, TokenMoves
    DEF Token!Disturb, TokenInv, TokenFresh, TokenHolds, TokenPosts,
        Token!ExpiryIsInvisible, Token!token
  <2> QED
    BY <2>1, <2>2
<1>12. CASE Token!BecomeDue
  BY <1>12 DEF Token!BecomeDue, TokenInv, TokenFresh, TokenHolds, TokenPosts,
     TokenShape, Token!ExpiryIsInvisible
<1>13. CASE Token!Lapse
  BY <1>13 DEF Token!Lapse, TokenInv, TokenFresh, TokenHolds, TokenPosts, TokenShape,
     Token!ExpiryIsInvisible
<1>14. CASE Token!Withdraw
  BY <1>14 DEF Token!Withdraw, TokenInv, TokenFresh, TokenHolds, TokenPosts, TokenShape,
     Token!ExpiryIsInvisible
<1>15. CASE Token!LapseRefresh \/ UNCHANGED Token!vars
  BY <1>15 DEF Token!LapseRefresh, Token!vars, Token!token, TokenInv, TokenFresh,
     TokenHolds, TokenPosts, TokenShape, Token!ExpiryIsInvisible
<1> QED
  BY <1>1, <1>2, <1>3, <1>4, <1>6, <1>7, <1>8, <1>9, <1>10, <1>11, <1>12, <1>13,
     <1>14, <1>15 DEF Token!Next

----------------------------------------------------------------------------
(* Calls of the language model *)

ModelStages == {"idle", "look", "purge", "ask", "store", "done", "failed", "quota"}

\* The part of a call that the property is about.
Counted(r) ==
    /\ DOMAIN r = {"at", "prompt", "attempt", "tokens", "tried", "result"}
    /\ r.at \in ModelStages /\ r.attempt \in 0 .. OfCalls.MaxRetries
    /\ r.at \in {"look", "purge"} => r.attempt = 0
    /\ r.at = "ask" => r.attempt < OfCalls.MaxRetries
    /\ r.at \in {"store", "done"} => r.result = "answer"
    /\ r.at = "failed" => r.attempt = OfCalls.MaxRetries
    /\ r.attempt >= OfCalls.FallbackAfter => "fallback" \in r.tried

ModelInv == DOMAIN model_call = OfCalls.Callers
    /\ \A c \in OfCalls.Callers : Counted(model_call[c])

LEMMA IdleCounts == ASSUME Model!ConstantsOK PROVE Counted(Model!Idle)
  BY DEF Model!ConstantsOK, Counted, Model!Idle, ModelStages

LEMMA ModelInit == ASSUME Model!ConstantsOK, Model!Init PROVE ModelInv
  BY IdleCounts DEF Model!Init, ModelInv

LEMMA SetKeeps ==
    ASSUME ModelInv, NEW c \in OfCalls.Callers, NEW r, Counted(r), Model!Set(c, r)
    PROVE  ModelInv'
  BY DEF ModelInv, Model!Set, Counted

LEMMA TriedCounts ==
    ASSUME Model!ConstantsOK, ModelInv, NEW c \in OfCalls.Callers, Model!At(c, "ask")
    PROVE  /\ DOMAIN Model!Tried(c) = DOMAIN model_call[c]
           /\ Model!Tried(c).attempt = model_call[c].attempt + 1
           /\ Model!Tried(c).attempt \in 1 .. OfCalls.MaxRetries
           /\ Model!Tried(c).attempt >= OfCalls.FallbackAfter
                => "fallback" \in Model!Tried(c).tried
<1>1. Counted(model_call[c]) /\ model_call[c].at = "ask"
  BY DEF ModelInv, Model!At
<1>2. /\ DOMAIN Model!Tried(c) = DOMAIN model_call[c]
      /\ Model!Tried(c).attempt = model_call[c].attempt + 1
      /\ Model!Tried(c).tried = model_call[c].tried \cup {Model!Model(c)}
  BY <1>1 DEF Model!Tried, Counted
<1> QED
  BY <1>1, <1>2 DEF Model!ConstantsOK, Counted, Model!Model, Model!Escalates

LEMMA ModelNext ==
    ASSUME Model!ConstantsOK, ModelInv, [Model!Next]_(Model!vars)
    PROVE  ModelInv'
<1>1. ASSUME NEW c \in OfCalls.Callers, NEW p \in OfCalls.Prompts, Model!Begin(c, p)
      PROVE  ModelInv'
  <2>1. Counted([Model!Idle EXCEPT !.at = "look", !.prompt = p])
    BY IdleCounts DEF Counted, Model!Idle, ModelStages
  <2> QED
    BY <1>1, <2>1, SetKeeps DEF Model!Begin
<1>2. ASSUME NEW c \in OfCalls.Callers, Model!Look(c) PROVE ModelInv'
  <2> DEFINE v == Model!Cached(model_call[c].prompt)
             r == [model_call[c] EXCEPT
                     !.at = IF Model!Usable(v) THEN "done"
                            ELSE IF v = "empty" THEN "purge" ELSE "ask",
                     !.result = IF Model!Usable(v) THEN v ELSE "none"]
  <2>1. Counted(model_call[c]) /\ model_call[c].at = "look" /\ Model!Set(c, r)
    BY <1>2 DEF Model!Look, Model!At, ModelInv
  <2>2. Counted(r)
    BY <2>1 DEF Model!ConstantsOK, Counted, Model!Usable, ModelStages
  <2> QED
    BY <2>1, <2>2, SetKeeps
<1>3. ASSUME NEW c \in OfCalls.Callers, Model!Purge(c) PROVE ModelInv'
  <2>1. /\ Counted(model_call[c]) /\ model_call[c].at = "purge"
        /\ Model!Set(c, [model_call[c] EXCEPT !.at = "ask"])
    BY <1>3 DEF Model!Purge, Model!At, ModelInv
  <2>2. Counted([model_call[c] EXCEPT !.at = "ask"])
    BY <2>1 DEF Model!ConstantsOK, Counted, ModelStages
  <2> QED
    BY <2>1, <2>2, SetKeeps
<1>4. ASSUME NEW c \in OfCalls.Callers, Model!Answered(c) PROVE ModelInv'
  <2>1. Counted([Model!Tried(c) EXCEPT !.at = "store", !.result = "answer"])
    BY <1>4, TriedCounts DEF Model!Answered, ModelInv, Model!At, Counted, ModelStages
  <2> QED
    BY <1>4, <2>1, SetKeeps DEF Model!Answered
<1>5. ASSUME NEW c \in OfCalls.Callers, NEW tokens, Model!At(c, "ask"),
             Model!Failed(c, tokens)
      PROVE  ModelInv'
  <2> DEFINE t == Model!Tried(c)
             place == IF model_call[c].attempt < OfCalls.MaxRetries - 1
                      THEN "ask" ELSE "failed"
             r == [t EXCEPT !.at = place, !.tokens = tokens]
  <2>1. Counted(model_call[c]) /\ model_call[c].at = "ask"
    BY <1>5 DEF ModelInv, Model!At
  <2>2. /\ DOMAIN t = {"at", "prompt", "attempt", "tokens", "tried", "result"}
        /\ t.attempt = model_call[c].attempt + 1 /\ t.attempt \in 1 .. OfCalls.MaxRetries
        /\ t.attempt >= OfCalls.FallbackAfter => "fallback" \in t.tried
    BY <1>5, <2>1, TriedCounts DEF Counted
  <2>3. /\ model_call[c].attempt \in Nat /\ OfCalls.MaxRetries \in Nat
        /\ place \in {"ask", "failed"}
        /\ place = "ask" => t.attempt < OfCalls.MaxRetries
        /\ place = "failed" => t.attempt = OfCalls.MaxRetries
    BY <2>1, <2>2 DEF Counted, Model!ConstantsOK
  <2>4. Model!Failed(c, tokens) <=> Model!Set(c, r)
    BY Zenon DEF Model!Failed
  <2> HIDE DEF t, place
  <2>5. Counted(r)
    BY <2>2, <2>3 DEF Counted, ModelStages
  <2> QED
    BY <1>5, <2>4, <2>5, SetKeeps
<1>6. ASSUME NEW c \in OfCalls.Callers, Model!QuotaExceeded(c) PROVE ModelInv'
  <2>1. Counted([Model!Tried(c) EXCEPT !.at = "quota"])
    BY <1>6, TriedCounts DEF Model!QuotaExceeded, ModelInv, Model!At, Counted,
       ModelStages
  <2> QED
    BY <1>6, <2>1, SetKeeps DEF Model!QuotaExceeded
<1>7. ASSUME NEW c \in OfCalls.Callers, Model!Store(c) PROVE ModelInv'
  <2>1. /\ Counted(model_call[c]) /\ model_call[c].at = "store"
        /\ Model!Set(c, [model_call[c] EXCEPT !.at = "done"])
    BY <1>7 DEF Model!Store, Model!At, ModelInv
  <2>2. Counted([model_call[c] EXCEPT !.at = "done"])
    BY <2>1 DEF Counted, ModelStages
  <2> QED
    BY <2>1, <2>2, SetKeeps
<1>8. ASSUME NEW c \in OfCalls.Callers, Model!Return(c) PROVE ModelInv'
  BY <1>8, IdleCounts, SetKeeps DEF Model!Return
<1>9. CASE UNCHANGED model_call
  BY <1>9 DEF ModelInv
<1> QED
  BY <1>1, <1>2, <1>3, <1>4, <1>5, <1>6, <1>7, <1>8, <1>9
  DEF Model!Next, Model!Disturbed, Model!EmptyContent, Model!Toggle, Model!Expire,
      Model!vars

----------------------------------------------------------------------------
(* Promises *)

\* A row has the columns the property is about.
PromiseColumns == {"fulfilment", "confirmation"}
PromiseComplete ==
    \A d \in OfPromises.Todos :
        prom_todo[d].exists => PromiseColumns \subseteq DOMAIN prom_todo[d]

\* A correction waits for the run, so none is made while a run is under way.
NoneCorrected ==
    prom_at # "idle" => \A d \in OfPromises.Todos : "correct" \notin prom_since[d]

PromiseShape ==
    /\ DOMAIN prom_todo = OfPromises.Todos /\ DOMAIN prom_since = OfPromises.Todos
    /\ \A c \in OfPromises.Clients :
           prom_pc[c] = "write" => prom_request[c].todo \in OfPromises.Todos
    /\ DOMAIN prom_pc = OfPromises.Clients /\ DOMAIN prom_request = OfPromises.Clients

PromiseInv == PromiseShape /\ PromiseComplete /\ NoneCorrected

LEMMA PromiseInit == ASSUME Promise!ConstantsOK, Promise!Init PROVE PromiseInv
  BY DEF Promise!Init, PromiseInv, PromiseShape, PromiseComplete, NoneCorrected,
     PromiseColumns, Promise!Gone, Promise!Fresh

\* A write of columns leaves the columns that there are, and those that it does
\* not change keep what they hold by then.
LEMMA WritesColumns ==
    ASSUME NEW now, NEW was, NEW new
    PROVE  /\ DOMAIN Promise!Written(now, was, new) = DOMAIN now
           /\ \A c \in DOMAIN now :
                  Promise!Written(now, was, new)[c] \in {new[c], now[c]}
           /\ \A c \in DOMAIN now :
                 Promise!Written(now, was, new)[c] # now[c] => new[c] # was[c]
  BY DEF Promise!Written

LEMMA PromiseNext ==
    ASSUME Promise!ConstantsOK, PromiseInv, [Promise!Next]_(Promise!vars)
    PROVE  PromiseInv'
<1> USE DEF PromiseInv, PromiseColumns
<1>1. CASE Promise!Read
  BY <1>1 DEF Promise!Read, PromiseShape, PromiseComplete, NoneCorrected
<1>2. CASE Promise!Analyze
  BY <1>2 DEF Promise!Analyze, PromiseShape, PromiseComplete, NoneCorrected
<1>3. CASE Promise!Apply
  <2>1. /\ DOMAIN prom_todo' = OfPromises.Todos
        /\ UNCHANGED <<prom_pc, prom_request, prom_since>> /\ prom_at' = "idle"
    BY <1>3 DEF Promise!Apply, PromiseShape
  <2>2. ASSUME NEW d \in OfPromises.Todos, prom_todo'[d].exists
        PROVE  PromiseColumns \subseteq DOMAIN prom_todo'[d]
    <3>1. \/ prom_todo'[d] = prom_todo[d]
          \/ prom_todo[d].exists
               /\ prom_todo'[d]
                    = Promise!Written(prom_todo[d], prom_read[d], Promise!Analysed(d))
      BY <1>3 DEF Promise!Apply
    <3> QED
      BY <2>2, <3>1, WritesColumns DEF PromiseComplete
  <2> QED
    BY <2>1, <2>2 DEF PromiseShape, PromiseComplete, NoneCorrected
<1>4. CASE Promise!AnalysisFails
  BY <1>4 DEF Promise!AnalysisFails, PromiseShape, PromiseComplete, NoneCorrected
<1>5. ASSUME NEW d \in OfPromises.Todos,
             NEW act \in {"add", "confirm", "ignore", "modify"},
             Promise!Correct(d, act)
      PROVE  PromiseInv'
  <2>1. /\ prom_at' = "idle" /\ UNCHANGED <<prom_pc, prom_request>>
        /\ DOMAIN prom_since' = OfPromises.Todos
    BY <1>5 DEF Promise!Correct, Promise!LockFree, PromiseShape
  <2>2. /\ DOMAIN prom_todo' = OfPromises.Todos
        /\ \A e \in OfPromises.Todos : e # d => prom_todo'[e] = prom_todo[e]
        /\ PromiseColumns \subseteq DOMAIN prom_todo'[d]
    <3>1. CASE act = "add"
      <4>1. PICK kind \in Promise!Promises :
              prom_todo' = [prom_todo EXCEPT ![d] =
                [Promise!Fresh("none") EXCEPT
                    !.action = kind, !.promisor = Promise!Mapped(d, kind)[1],
                    !.beneficiary = Promise!Mapped(d, kind)[2],
                    !.confirmation = "confirmed"]]
        BY <1>5, <3>1 DEF Promise!Correct
      <4>2. PromiseColumns \subseteq DOMAIN Promise!Fresh("none")
        BY DEF Promise!Fresh
      <4> QED
        BY <4>1, <4>2 DEF PromiseShape
    <3>2. CASE act # "add"
      <4>1. d \in OfPromises.Todos /\ prom_todo[d].exists
        BY <1>5, <3>2 DEF Promise!Correct, Promise!Rows
      <4>2. PromiseColumns \subseteq DOMAIN prom_todo[d]
        BY <4>1 DEF PromiseComplete
      <4>3. CASE act = "confirm"
        BY <1>5, <4>2, <4>3 DEF Promise!Correct, PromiseShape
      <4>4. CASE act = "ignore"
        <5>1. prom_todo' = [prom_todo EXCEPT ![d] =
                [prom_todo[d] EXCEPT !.confirmation = "rejected",
                 !.status = "dismissed"]]
          BY <1>5, <4>4 DEF Promise!Correct, PromiseShape
        <5> QED
          BY <4>2, <5>1 DEF PromiseShape
      <4>5. CASE act = "modify"
        <5>1. PICK kind \in Promise!Promises :
                prom_todo' = [prom_todo EXCEPT ![d] =
                  [prom_todo[d] EXCEPT !.action = kind, !.confirmation = "confirmed"]]
          BY <1>5, <4>5 DEF Promise!Correct, PromiseShape
        <5> QED
          BY <4>2, <5>1 DEF PromiseShape
      <4> QED
        BY <3>2, <4>3, <4>4, <4>5
    <3> QED
      BY <3>1, <3>2
  <2> QED
    BY <2>1, <2>2 DEF PromiseShape, PromiseComplete, NoneCorrected
<1>6. ASSUME NEW c \in OfPromises.Clients, NEW q \in OfPromises.Asked,
             Promise!Send(c, q)
      PROVE  PromiseInv'
  BY <1>6 DEF Promise!Send, Promise!Rows, PromiseShape, PromiseComplete, NoneCorrected
<1>7. ASSUME NEW c \in OfPromises.Clients, Promise!Write(c) PROVE PromiseInv'
  <2> DEFINE d == prom_request[c].todo
  <2>1. d \in OfPromises.Todos /\ prom_at' = prom_at
    BY <1>7 DEF Promise!Write, PromiseShape
  <2>2. /\ DOMAIN prom_todo' = OfPromises.Todos
        /\ \A e \in OfPromises.Todos : e # d => prom_todo'[e] = prom_todo[e]
        /\ prom_todo'[d].exists => PromiseColumns \subseteq DOMAIN prom_todo'[d]
    <3>1. CASE ~prom_todo[d].exists
      BY <1>7, <2>1, <3>1 DEF Promise!Write, PromiseShape
    <3>2. CASE prom_todo[d].exists /\ prom_request[c].op = "delete"
      BY <1>7, <2>1, <3>2 DEF Promise!Write, PromiseShape, Promise!Gone
    <3>3. CASE prom_todo[d].exists /\ prom_request[c].op # "delete"
      <4>1. PICK new :
              prom_todo' =
                  [prom_todo EXCEPT ![d] = Promise!Written(prom_todo[d], prom_row[c], new)]
        BY <1>7, <2>1, <3>3 DEF Promise!Write, PromiseShape
      <4> QED
        BY <2>1, <3>3, <4>1, WritesColumns DEF PromiseShape, PromiseComplete
    <3> QED
      BY <3>1, <3>2, <3>3
  <2>3. NoneCorrected' /\ DOMAIN prom_since' = OfPromises.Todos
    BY <1>7, <2>1 DEF Promise!Write, PromiseShape, NoneCorrected
  <2>4. PromiseShape'
    BY <1>7, <2>1, <2>2, <2>3 DEF Promise!Write, PromiseShape
  <2> QED
    BY <2>2, <2>3, <2>4 DEF PromiseComplete
<1>8. CASE UNCHANGED Promise!vars
  BY <1>8 DEF Promise!vars, PromiseShape, PromiseComplete, NoneCorrected
<1> QED
  BY <1>1, <1>2, <1>3, <1>4, <1>5, <1>6, <1>7, <1>8 DEF Promise!Next

\* What the end of a run does to a row that stays.
PromiseKept(d) ==
    /\ prom_todo[d].fulfilment = "fulfilled" /\ prom_todo'[d].fulfilment = "pending"
          => prom_read[d].fulfilment # "pending"
    /\ prom_todo'[d].confirmation # prom_todo[d].confirmation
         => "correct" \notin prom_since[d]

LEMMA EndOfRun ==
    ASSUME PromiseInv, [Promise!Next]_(Promise!vars), prom_at = "apply",
           prom_at' = "idle", NEW d \in Promise!Rows, prom_todo'[d].exists
    PROVE  PromiseKept(d)
<1>1. /\ d \in OfPromises.Todos /\ PromiseColumns \subseteq DOMAIN prom_todo[d]
      /\ "correct" \notin prom_since[d]
  BY DEF Promise!Rows, PromiseInv, PromiseComplete, NoneCorrected
<1>2. CASE Promise!Apply
  <2>1. \/ prom_todo'[d] = prom_todo[d]
        \/ prom_todo'[d]
             = Promise!Written(prom_todo[d], prom_read[d], Promise!Analysed(d))
    BY <1>1, <1>2 DEF Promise!Apply
  <2> QED
    BY <1>1, <2>1, WritesColumns DEF PromiseKept, PromiseColumns
<1>3. CASE Promise!AnalysisFails
  BY <1>1, <1>3 DEF Promise!AnalysisFails, PromiseKept
<1> QED
  BY <1>2, <1>3 DEF Promise!Next, Promise!Read, Promise!Analyze, Promise!Correct,
     Promise!LockFree, Promise!Send, Promise!Write, Promise!vars

----------------------------------------------------------------------------
(* Briefs *)

\* A row that is out has a note, if an empty one.
BriefNoted(b) ==
    /\ b.version \in Nat
    /\ IF b.version = 0 THEN b = Brief!NoBrief ELSE "notes" \in DOMAIN b.data

RowsNoted == DOMAIN brief_brief = OfBriefs.People
    /\ \A p \in OfBriefs.People : BriefNoted(brief_brief[p])

\* Who is about to write has read a row that is out.
ReadsNoted ==
    /\ DOMAIN brief_pc = Brief!Writers /\ DOMAIN brief_read = Brief!Writers
    /\ \A w \in Brief!Writers : BriefNoted(brief_read[w])
         /\ (brief_pc[w] = "update" => brief_read[w].version # 0)

\* What a run holds has the note of the row as it read it.
HoldsNotes ==
    \A p \in DOMAIN brief_held :
        /\ brief_held[p].version \in Nat \ {0}
        /\ "notes" \in DOMAIN brief_held[p].data
        /\ brief_held[p].data.notes = brief_held[p].base.data.notes

BriefInv == RowsNoted /\ ReadsNoted /\ HoldsNotes

\* Every client has an edit, if an empty one.
Edited == DOMAIN brief_edit = OfBriefs.Clients

\* A brief has a note, that of another one or a new one.
SaysAs(new, old) == "notes" \in DOMAIN new /\ new.notes = old.notes

LEMMA BlankNoted == BriefNoted(Brief!NoBrief) /\ BriefNoted([version |-> 1,
                                                             data |-> Brief!Blank])
  BY DEF BriefNoted, Brief!NoBrief, Brief!Blank

LEMMA BriefInit == ASSUME Brief!ConstantsOK, Brief!Init PROVE BriefInv
  BY BlankNoted DEF Brief!Init, BriefInv, RowsNoted, ReadsNoted, HoldsNotes

LEMMA EventKeepsNote ==
    ASSUME NEW p, NEW data, "notes" \in DOMAIN data, NEW S
    PROVE  SaysAs(Brief!FromEvent(p, data, S), data)
<1>1. ASSUME NEW d, "notes" \in DOMAIN d
      PROVE  /\ "notes" \in DOMAIN Brief!Derived(p, d)
             /\ Brief!Derived(p, d).notes = d.notes
  BY <1>1 DEF Brief!Derived
<1> DEFINE counted == [data EXCEPT !.seen = TRUE, !.count = brief_events + 1]
           synced ==
            [counted EXCEPT !.mine = Brief!Mine(S), !.theirs = Brief!Theirs(S),
                            !.learned =
                                [k \in Brief!Learned |-> @[k] \cup Brief!Titles(S, k)]]
<1>2. "notes" \in DOMAIN counted /\ counted.notes = data.notes
  OBVIOUS
<1>3. "notes" \in DOMAIN synced /\ synced.notes = data.notes
  <2> HIDE DEF counted
  <2> QED
    BY <1>2
<1>4. Brief!FromEvent(p, data, S) = Brief!Derived(p, IF S = {} THEN counted ELSE synced)
  BY Zenon DEF Brief!FromEvent
<1> HIDE DEF counted, synced
<1> QED
  BY <1>1, <1>2, <1>3, <1>4 DEF SaysAs

LEMMA EditKeepsNote ==
    ASSUME NEW p, NEW data, "notes" \in DOMAIN data, NEW e
    PROVE  /\ "notes" \in DOMAIN Brief!FromEdit(p, data, e)
           /\ e.notes = <<>> => SaysAs(Brief!FromEdit(p, data, e), data)
<1>1. ASSUME NEW d, "notes" \in DOMAIN d
      PROVE  /\ "notes" \in DOMAIN Brief!Derived(p, d)
             /\ Brief!Derived(p, d).notes = d.notes
  BY <1>1 DEF Brief!Derived
<1> DEFINE noted == IF e.notes = <<>> THEN data ELSE [data EXCEPT !.notes = e.notes[1]]
           cared == [noted EXCEPT !.learned["care"] = e.concerns[1]]
<1>2. "notes" \in DOMAIN noted /\ (e.notes = <<>> => noted.notes = data.notes)
  OBVIOUS
<1>3. "notes" \in DOMAIN cared /\ cared.notes = noted.notes
  <2> HIDE DEF noted
  <2> QED
    BY <1>2
<1>4. Brief!FromEdit(p, data, e)
        = Brief!Derived(p, IF e.concerns = <<>> THEN noted ELSE cared)
  BY Zenon DEF Brief!FromEdit
<1> HIDE DEF noted, cared
<1> QED
  BY <1>1, <1>2, <1>3, <1>4 DEF SaysAs

LEMMA EndKeeps ==
    ASSUME Brief!ConstantsOK, BriefInv, NEW r \in Brief!Writers, NEW new,
           Brief!End(r, new),
           DOMAIN new = OfBriefs.People, \A p \in OfBriefs.People : BriefNoted(new[p])
    PROVE  BriefInv'
<1>1. RowsNoted'
  BY DEF Brief!End, RowsNoted, BriefNoted
<1>2. ReadsNoted'
  BY BlankNoted DEF Brief!End, BriefInv, ReadsNoted, BriefNoted
<1>3. HoldsNotes'
  BY DEF Brief!End, BriefInv, HoldsNotes
<1> QED
  BY <1>1, <1>2, <1>3 DEF BriefInv

LEMMA BriefNext ==
    ASSUME Brief!ConstantsOK, BriefInv, [Brief!Next]_(Brief!vars)
    PROVE  BriefInv'
<1>1. ASSUME NEW r \in OfBriefs.Steps, NEW S, Brief!Start(r, S) PROVE BriefInv'
  BY <1>1 DEF Brief!Start, BriefInv, RowsNoted, ReadsNoted, HoldsNotes, BriefNoted,
     Brief!Writers
<1>2. ASSUME NEW r \in OfBriefs.Steps, NEW p \in OfBriefs.People, Brief!Select(r, p)
      PROVE  BriefInv'
  <2>1. /\ brief_pc' = [brief_pc EXCEPT ![r] =
                  IF brief_brief[p] = Brief!NoBrief THEN "insert" ELSE "update"]
        /\ brief_read' = [brief_read EXCEPT ![r] = brief_brief[p]]
        /\ UNCHANGED <<brief_brief, brief_held>>
    BY <1>2 DEF Brief!Select
  <2> QED
    BY <2>1 DEF BriefInv, RowsNoted, ReadsNoted, HoldsNotes, BriefNoted, Brief!Writers
<1>3. ASSUME NEW r \in OfBriefs.Steps, Brief!Insert(r) PROVE BriefInv'
  <2>1. CASE brief_brief[brief_whom[r]] = Brief!NoBrief
    <3>1. /\ brief_read' =
                 [brief_read EXCEPT ![r] = [version |-> 1, data |-> Brief!Blank]]
          /\ brief_pc' = [brief_pc EXCEPT ![r] = "update"]
          /\ UNCHANGED <<brief_brief, brief_held>>
      BY <1>3, <2>1 DEF Brief!Insert
    <3> QED
      BY <3>1, BlankNoted DEF BriefInv, RowsNoted, ReadsNoted, HoldsNotes, BriefNoted,
         Brief!Writers
  <2>2. CASE brief_brief[brief_whom[r]] # Brief!NoBrief
    BY <1>3, <2>2, EndKeeps DEF Brief!Insert, BriefInv, RowsNoted, Brief!Writers
  <2> QED
    BY <2>1, <2>2
<1>4. ASSUME NEW r \in OfBriefs.Steps, Brief!Update(r) PROVE BriefInv'
  <2> DEFINE new == [version |-> brief_read[r].version + 1,
                     data |-> Brief!FromEvent(brief_whom[r], brief_read[r].data,
                                              brief_todos[r]),
                     base |-> brief_read[r]]
  <2>1. /\ brief_held' = [q \in DOMAIN brief_held \cup {brief_whom[r]} |->
               IF q # brief_whom[r] THEN brief_held[q]
               ELSE [version |-> brief_read[r].version + 1,
                     data |-> Brief!FromEvent(q, brief_read[r].data, brief_todos[r]),
                     base |-> brief_read[r]]]
        /\ brief_pc' = [brief_pc EXCEPT ![r] = "next"]
        /\ UNCHANGED <<brief_brief, brief_read>>
        /\ r \in Brief!Writers /\ brief_pc[r] = "update"
    BY <1>4 DEF Brief!Update, Brief!Writers
  <2>2. brief_read[r].version \in Nat \ {0} /\ "notes" \in DOMAIN brief_read[r].data
    BY <2>1 DEF BriefInv, ReadsNoted, BriefNoted
  <2>3. /\ new.version \in Nat \ {0} /\ "notes" \in DOMAIN new.data
        /\ new.data.notes = new.base.data.notes
    <3> DEFINE kept == Brief!FromEvent(brief_whom[r], brief_read[r].data,
                                       brief_todos[r])
    <3>1. SaysAs(kept, brief_read[r].data)
      BY <2>2, EventKeepsNote
    <3> HIDE DEF kept
    <3>2. new = [version |-> brief_read[r].version + 1, data |-> kept,
                 base |-> brief_read[r]]
      BY Zenon DEF kept
    <3> QED
      BY <2>2, <3>1, <3>2 DEF SaysAs
  <2>4. \A q \in DOMAIN brief_held' :
            brief_held'[q] = IF q # brief_whom[r] THEN brief_held[q] ELSE new
    BY <2>1
  <2>5. DOMAIN brief_held' = DOMAIN brief_held \cup {brief_whom[r]}
    BY <2>1
  <2> HIDE DEF new
  <2>6. HoldsNotes'
    BY <2>3, <2>4, <2>5 DEF BriefInv, HoldsNotes
  <2> QED
    BY <2>1, <2>6 DEF BriefInv, RowsNoted, ReadsNoted, BriefNoted
<1>5. ASSUME NEW r \in OfBriefs.Steps, Brief!Commit(r) PROVE BriefInv'
  <2> DEFINE new == [p \in OfBriefs.People |->
                        IF brief_lock = r /\ p \in DOMAIN brief_held
                        THEN [version |-> brief_held[p].version,
                              data |-> brief_held[p].data]
                        ELSE brief_brief[p]]
  <2>1. Brief!End(r, new) /\ r \in Brief!Writers
    BY <1>5 DEF Brief!Commit, Brief!Writers
  <2>2. \A p \in OfBriefs.People : BriefNoted(new[p])
    BY DEF BriefInv, RowsNoted, HoldsNotes, BriefNoted
  <2>3. DOMAIN new = OfBriefs.People
    OBVIOUS
  <2> HIDE DEF new
  <2> QED
    BY <2>1, <2>2, <2>3, EndKeeps
<1>6. ASSUME NEW c \in OfBriefs.Clients, NEW e \in Brief!Edits, NEW v,
             Brief!Patch(c, e, v)
      PROVE  BriefInv'
  <2>1. /\ brief_brief[e.person] # Brief!NoBrief /\ e.person \in OfBriefs.People
        /\ brief_pc' = [brief_pc EXCEPT ![c] = "update"]
        /\ brief_read' = [brief_read EXCEPT ![c] = brief_brief[e.person]]
        /\ UNCHANGED <<brief_brief, brief_held>>
    BY <1>6 DEF Brief!Patch, Brief!Edits
  <2> QED
    BY <2>1 DEF BriefInv, RowsNoted, ReadsNoted, HoldsNotes, BriefNoted, Brief!Writers
<1>7. ASSUME NEW c \in OfBriefs.Clients, Brief!Save(c) PROVE BriefInv'
  <2> DEFINE p == brief_edit[c].person
             new == [version |-> brief_read[c].version + 1,
                     data |-> Brief!FromEdit(p, brief_read[c].data, brief_edit[c])]
  <2>1. /\ brief_brief' = [brief_brief EXCEPT ![p] = new]
        /\ brief_pc' = [brief_pc EXCEPT ![c] = "idle"]
        /\ brief_read' = [brief_read EXCEPT ![c] = Brief!NoBrief]
        /\ UNCHANGED brief_held
        /\ brief_pc[c] = "update" /\ c \in Brief!Writers
    BY <1>7 DEF Brief!Save, Brief!Writers
  <2>2. brief_read[c].version \in Nat \ {0} /\ "notes" \in DOMAIN brief_read[c].data
    BY <2>1 DEF BriefInv, ReadsNoted, BriefNoted
  <2>3. BriefNoted(new)
    <3> DEFINE kept == Brief!FromEdit(p, brief_read[c].data, brief_edit[c])
    <3>1. "notes" \in DOMAIN kept
      BY <2>2, EditKeepsNote DEF SaysAs
    <3> HIDE DEF kept
    <3>2. new = [version |-> brief_read[c].version + 1, data |-> kept]
      BY Zenon DEF kept
    <3> QED
      BY <2>2, <3>1, <3>2 DEF BriefNoted
  <2> HIDE DEF p, new
  <2>4. RowsNoted'
    BY <2>1, <2>3 DEF BriefInv, RowsNoted, BriefNoted
  <2> QED
    BY <2>1, <2>4, BlankNoted DEF BriefInv, ReadsNoted, HoldsNotes, BriefNoted
<1>8. CASE UNCHANGED <<brief_brief, brief_pc, brief_read, brief_held>>
  BY <1>8 DEF BriefInv, RowsNoted, ReadsNoted, HoldsNotes, BriefNoted
<1> QED
  BY <1>1, <1>2, <1>3, <1>4, <1>5, <1>6, <1>7, <1>8 DEF Brief!Next, Brief!Finish,
     Brief!NewEvent, Brief!vars

LEMMA EditedInit == ASSUME Brief!Init PROVE Edited
  BY DEF Brief!Init, Edited

LEMMA EditedNext == ASSUME Edited, [Brief!Next]_(Brief!vars) PROVE Edited'
  BY DEF Edited, Brief!Next, Brief!Start, Brief!Select, Brief!Insert, Brief!Update,
     Brief!Commit, Brief!Patch, Brief!Save, Brief!Finish, Brief!NewEvent, Brief!vars

LEMMA WhoReplaces ==
    ASSUME Brief!ConstantsOK, BriefInv, Edited, [Brief!Next]_(Brief!vars),
           NEW p \in OfBriefs.People, brief_brief[p].version # 0,
           brief_brief'[p].data.notes # brief_brief[p].data.notes
    PROVE  \/ \E c \in OfBriefs.Clients :
                 /\ brief_edit[c].person = p /\ brief_edit'[c] = Brief!NoEdit
                 /\ brief_edit[c].notes # <<>> \/ brief_read[c] # brief_brief[p]
           \/ p \in DOMAIN brief_held /\ brief_held[p].base # brief_brief[p]
<1>1. brief_brief' # brief_brief
  OBVIOUS
<1>2. ASSUME NEW r \in OfBriefs.Steps, Brief!Insert(r) PROVE FALSE
  BY <1>1, <1>2 DEF Brief!Insert, Brief!End
<1>3. ASSUME NEW r \in OfBriefs.Steps, Brief!Commit(r)
      PROVE  p \in DOMAIN brief_held /\ brief_held[p].base # brief_brief[p]
  <2>1. brief_brief' = [q \in OfBriefs.People |->
                            IF brief_lock = r /\ q \in DOMAIN brief_held
                            THEN [version |-> brief_held[q].version,
                                  data |-> brief_held[q].data]
                            ELSE brief_brief[q]]
    BY <1>3 DEF Brief!Commit, Brief!End
  <2>2. p \in DOMAIN brief_held /\ brief_brief'[p].data = brief_held[p].data
    BY <2>1
  <2> QED
    BY <2>2 DEF BriefInv, HoldsNotes
<1>4. ASSUME NEW c \in OfBriefs.Clients, Brief!Save(c)
      PROVE  /\ brief_edit[c].person = p /\ brief_edit'[c] = Brief!NoEdit
             /\ brief_edit[c].notes # <<>> \/ brief_read[c] # brief_brief[p]
  <2> DEFINE new == [version |-> brief_read[c].version + 1,
                     data |-> Brief!FromEdit(brief_edit[c].person, brief_read[c].data,
                                             brief_edit[c])]
  <2>1. /\ brief_brief' = [brief_brief EXCEPT ![brief_edit[c].person] = new]
        /\ brief_edit' = [brief_edit EXCEPT ![c] = Brief!NoEdit]
    BY <1>4 DEF Brief!Save
  <2>2. brief_edit[c].person = p /\ brief_brief'[p] = new
    <3> HIDE DEF new
    <3> QED
      BY <2>1 DEF BriefInv, RowsNoted
  <2>3. "notes" \in DOMAIN brief_read[c].data
    BY <1>4 DEF Brief!Save, BriefInv, ReadsNoted, BriefNoted, Brief!Writers
  <2>4. brief_edit[c].notes = <<>>
          => brief_brief'[p].data.notes = brief_read[c].data.notes
    <3> DEFINE kept == Brief!FromEdit(brief_edit[c].person, brief_read[c].data,
                                      brief_edit[c])
    <3>1. brief_edit[c].notes = <<>> => SaysAs(kept, brief_read[c].data)
      BY <2>3, EditKeepsNote
    <3> HIDE DEF kept
    <3>2. new = [version |-> brief_read[c].version + 1, data |-> kept]
      BY Zenon DEF kept
    <3> HIDE DEF new
    <3>3. brief_brief'[p].data = kept
      BY <2>2, <3>2
    <3> QED
      BY <3>1, <3>3 DEF SaysAs
  <2>5. brief_edit'[c] = Brief!NoEdit
    BY <2>1 DEF Edited
  <2> QED
    BY <2>2, <2>4, <2>5
<1> QED
  BY <1>1, <1>2, <1>3, <1>4
  DEF Brief!Next, Brief!Start, Brief!Select, Brief!Update, Brief!Patch, Brief!Finish,
      Brief!NewEvent, Brief!vars

----------------------------------------------------------------------------
(* Sets of numbers *)

----------------------------------------------------------------------------
(* The rate limit *)

RateWait == [left : 0 .. OfLimits.Window, by : {"none", "redis", "memory"}]
RateUnused == OfLimits.Requests \ (rate_redis \cup rate_memory)
USE DEF RateWait, RateUnused

\* The windows hold requests that are young enough, and what each allowed.
RateShape ==
    /\ rate_redis \subseteq OfLimits.Requests /\ rate_memory \subseteq OfLimits.Requests
    /\ rate_age \in [OfLimits.Requests -> 0 .. OfLimits.Window - 1]
    /\ rate_allowed \in [{"redis", "memory"} -> SUBSET OfLimits.Requests]
    /\ rate_allowed["redis"] \subseteq rate_redis
    /\ rate_allowed["memory"] = rate_memory
    /\ rate_wait \in RateWait

\* Whoever the memory window sent away waits for a request it holds to grow old.
RateWaits ==
    rate_wait.by = "memory" =>
        IF rate_wait.left = 0 THEN ~ Rate!Over(rate_memory)
        ELSE \E r \in rate_memory : rate_age[r] + rate_wait.left = OfLimits.Window

RateInv ==
    /\ RateShape /\ RateWaits
    /\ \A s \in {"redis", "memory"} : Cardinality(rate_allowed[s]) <= OfLimits.Limit

LEMMA RateCounts ==
    ASSUME Rate!ConstantsOK, NEW S \in SUBSET OfLimits.Requests
    PROVE  /\ IsFiniteSet(S) /\ Cardinality(S) \in Nat
           /\ Rate!Over(S) <=> Cardinality(S) >= OfLimits.Limit
           /\ Rate!Over(S) => S # {}
           /\ \A T \in SUBSET S : /\ Cardinality(T) <= Cardinality(S)
                                  /\ T # S => Cardinality(T) < Cardinality(S)
<1>1. IsFiniteSet(OfLimits.Requests) /\ OfLimits.Limit \in Nat \ {0}
  BY Zenon DEF Rate!ConstantsOK, Rate!IsFiniteSet, IsFiniteSet
<1>2. IsFiniteSet(S) /\ Cardinality(S) \in Nat
  BY <1>1, FS_Subset, FS_CardinalityType
<1>3. Rate!Over(S) <=> Cardinality(S) >= OfLimits.Limit
  BY DEF Rate!Over, Rate!Cardinality, Cardinality
<1>4. S = {} => Cardinality(S) = 0
  BY FS_EmptySet
<1>5. ASSUME NEW T \in SUBSET S
      PROVE  /\ Cardinality(T) <= Cardinality(S)
             /\ T # S => Cardinality(T) < Cardinality(S)
  <2>1. IsFiniteSet(T) /\ Cardinality(T) <= Cardinality(S)
        /\ (Cardinality(S) = Cardinality(T) => S = T)
    BY <1>2, FS_Subset
  <2>2. Cardinality(T) \in Nat
    BY <2>1, FS_CardinalityType
  <2> QED
    BY <1>2, <2>1, <2>2
<1> QED
  BY <1>1, <1>2, <1>3, <1>4, <1>5

LEMMA RateInit == ASSUME Rate!ConstantsOK, Rate!Init PROVE RateInv
<1>1. Cardinality({}) = 0 /\ OfLimits.Limit \in Nat \ {0} /\ OfLimits.Window \in Nat \ {0}
  BY FS_EmptySet DEF Rate!ConstantsOK
<1> QED
  BY <1>1 DEF Rate!Init, RateInv, RateShape, RateWaits, Rate!NoWait

\* A request that is refused waits for one the window holds.
LEMMA RateOldest ==
    ASSUME Rate!ConstantsOK, RateShape, NEW S \in SUBSET OfLimits.Requests, S # {}
    PROVE  \E r \in S : Rate!Oldest(S) = rate_age[r]
<1> DEFINE Ages == {rate_age[r] : r \in S}
           Left == {OfLimits.Window - 1 - a : a \in Ages}
<1>1. Ages \subseteq 0 .. OfLimits.Window - 1 /\ OfLimits.Window \in Nat
  BY DEF RateShape, Rate!ConstantsOK
<1>2. Left \subseteq Nat /\ Left # {}
  <2>1. \A a \in Ages : OfLimits.Window - 1 - a \in Nat
    <3> HIDE DEF Ages
    <3> QED
      BY <1>1
  <2>2. Ages # {}
    OBVIOUS
  <2> HIDE DEF Ages
  <2> QED
    BY <2>1, <2>2
<1>3. PICK x \in Left : \A y \in Left : x <= y
  <2> HIDE DEF Left
  <2> QED
    BY <1>2, LeastOf
<1>4. \E a \in Ages : \A b \in Ages : a >= b
  <2> HIDE DEF Ages
  <2>1. PICK a \in Ages : x = OfLimits.Window - 1 - a
    BY <1>3
  <2>2. ASSUME NEW b \in Ages PROVE a >= b
    <3>1. x <= OfLimits.Window - 1 - b
      BY <1>3
    <3> QED
      BY <1>1, <2>1, <3>1
  <2> QED
    BY <2>2
<1>5. Rate!Max(Ages) \in Ages
  <2> HIDE DEF Ages
  <2> QED
    BY <1>4, Zenon DEF Rate!Max
<1> QED
  BY <1>5 DEF Rate!Oldest

LEMMA RateDecides ==
    ASSUME Rate!ConstantsOK, RateInv, NEW r \in RateUnused,
           NEW who \in {"redis", "memory"},
           NEW S \in SUBSET OfLimits.Requests, rate_allowed[who] \subseteq S,
           Rate!Decide(r, S, who)
    PROVE  /\ \A s \in {"redis", "memory"} :
                  /\ rate_allowed'[s] = IF s = who /\ ~Rate!Over(S)
                                        THEN rate_allowed[s] \cup {r} ELSE rate_allowed[s]
                  /\ Cardinality(rate_allowed'[s]) <= OfLimits.Limit
           /\ rate_allowed' \in [{"redis", "memory"} -> SUBSET OfLimits.Requests]
           /\ rate_wait' \in RateWait
           /\ rate_wait'.by = "memory" =>
                  /\ who = "memory" /\ Rate!Over(S) /\ rate_wait'.left # 0
                  /\ \E q \in S : rate_age[q] + rate_wait'.left = OfLimits.Window
<1>1. CASE Rate!Over(S)
  <2>1. PICK q \in S : Rate!Oldest(S) = rate_age[q]
    BY <1>1, RateOldest, RateCounts DEF RateInv
  <2>2. rate_age[q] \in 0 .. OfLimits.Window - 1 /\ OfLimits.Window \in Nat \ {0}
    BY DEF RateInv, RateShape, Rate!ConstantsOK
  <2>3. /\ rate_wait' = [left |-> OfLimits.Window - rate_age[q], by |-> who]
        /\ rate_allowed' = rate_allowed
    BY <1>1, <2>1 DEF Rate!Decide
  <2> QED
    BY <1>1, <2>2, <2>3 DEF RateInv, RateShape
<1>2. CASE ~Rate!Over(S)
  <2>1. /\ rate_allowed' = [rate_allowed EXCEPT ![who] = @ \cup {r}]
        /\ rate_wait' = [left |-> 0, by |-> "none"]
    BY <1>2 DEF Rate!Decide, Rate!NoWait
  <2>2. IsFiniteSet(S) /\ Cardinality(S) < OfLimits.Limit /\ Cardinality(S) \in Nat
        /\ OfLimits.Limit \in Nat
    BY <1>2, RateCounts DEF Rate!ConstantsOK
  <2>3. Cardinality(rate_allowed[who]) <= Cardinality(S)
    BY RateCounts
  <2>4. IsFiniteSet(rate_allowed[who]) /\ Cardinality(rate_allowed[who]) \in Nat
    BY RateCounts DEF RateInv, RateShape
  <2>5. Cardinality(rate_allowed[who] \cup {r}) <= Cardinality(rate_allowed[who]) + 1
    <3> DEFINE A == rate_allowed[who]
    <3>1. /\ IsFiniteSet(A) /\ Cardinality(A) \in Nat
          /\ Cardinality(A \cup {r}) = IF r \in A THEN Cardinality(A) ELSE Cardinality(A) + 1
      BY <2>4, FS_AddElement
    <3> HIDE DEF A
    <3>2. Cardinality(A \cup {r}) <= Cardinality(A) + 1
      BY <3>1
    <3> QED
      BY <3>2 DEF A
  <2>6. Cardinality(rate_allowed[who] \cup {r}) <= OfLimits.Limit
    <3>1. Cardinality(rate_allowed[who] \cup {r}) \in Nat
      BY <2>4, FS_AddElement, FS_CardinalityType
    <3> QED
      BY <2>2, <2>3, <2>4, <2>5, <3>1
  <2>7. /\ rate_allowed \in [{"redis", "memory"} -> SUBSET OfLimits.Requests]
        /\ \A s \in {"redis", "memory"} : Cardinality(rate_allowed[s]) <= OfLimits.Limit
        /\ OfLimits.Window \in Nat
    BY DEF RateInv, RateShape, Rate!ConstantsOK
  <2>8. ASSUME NEW s \in {"redis", "memory"}
        PROVE  /\ rate_allowed'[s] = IF s = who THEN rate_allowed[s] \cup {r}
                                      ELSE rate_allowed[s]
               /\ Cardinality(rate_allowed'[s]) <= OfLimits.Limit
    BY <2>1, <2>6, <2>7
  <2>9. /\ rate_allowed' \in [{"redis", "memory"} -> SUBSET OfLimits.Requests]
        /\ rate_wait' \in RateWait
        /\ rate_wait'.by # "memory"
    BY <2>1, <2>7
  <2> QED
    BY <1>2, <2>8, <2>9
<1> QED
  BY <1>1, <1>2

LEMMA RateNext ==
    ASSUME Rate!ConstantsOK, RateInv, [Rate!Next]_(Rate!vars)
    PROVE  RateInv'
<1>1. ASSUME NEW r \in RateUnused, Rate!AskRedis(r)
      PROVE  RateInv'
  <2>1. Rate!Decide(r, rate_redis, "redis") /\ rate_redis' = rate_redis \cup {r}
        /\ rate_memory' = rate_memory /\ rate_age' = rate_age
    BY <1>1 DEF Rate!AskRedis
  <2>2. /\ \A s \in {"redis", "memory"} :
              /\ rate_allowed'[s] = IF s = "redis" /\ ~Rate!Over(rate_redis)
                                    THEN rate_allowed[s] \cup {r} ELSE rate_allowed[s]
              /\ Cardinality(rate_allowed'[s]) <= OfLimits.Limit
        /\ rate_allowed' \in [{"redis", "memory"} -> SUBSET OfLimits.Requests]
        /\ rate_wait' \in RateWait
        /\ rate_wait'.by # "memory"
    BY <2>1, RateDecides DEF RateInv, RateShape
  <2>3. RateShape'
    BY <2>1, <2>2 DEF RateInv, RateShape
  <2> QED
    BY <2>2, <2>3 DEF RateInv, RateWaits
<1>2. ASSUME NEW r \in RateUnused, Rate!AskMemory(r)
      PROVE  RateInv'
  <2>1. /\ Rate!Decide(r, rate_memory, "memory")
        /\ rate_memory' = IF Rate!Over(rate_memory) THEN rate_memory
                           ELSE rate_memory \cup {r}
        /\ rate_redis' \in {rate_redis, rate_redis \cup {r}} /\ rate_age' = rate_age
    BY <1>2 DEF Rate!AskMemory
  <2>2. /\ \A s \in {"redis", "memory"} :
              /\ rate_allowed'[s] = IF s = "memory" /\ ~Rate!Over(rate_memory)
                                    THEN rate_allowed[s] \cup {r} ELSE rate_allowed[s]
              /\ Cardinality(rate_allowed'[s]) <= OfLimits.Limit
        /\ rate_allowed' \in [{"redis", "memory"} -> SUBSET OfLimits.Requests]
        /\ rate_wait' \in RateWait
        /\ rate_wait'.by = "memory" =>
                  /\ Rate!Over(rate_memory) /\ rate_wait'.left # 0
                  /\ \E q \in rate_memory : rate_age[q] + rate_wait'.left = OfLimits.Window
    BY <2>1, RateDecides DEF RateInv, RateShape
  <2>3. RateShape'
    BY <2>1, <2>2 DEF RateInv, RateShape
  <2>4. RateWaits'
    BY <2>1, <2>2 DEF RateWaits
  <2> QED
    BY <2>2, <2>3, <2>4 DEF RateInv
<1>3. ASSUME Rate!Tick PROVE RateInv'
  <2>1. /\ \A S \in SUBSET OfLimits.Requests : Rate!Young(S) \subseteq S
        /\ Rate!Young(rate_memory) \subseteq Rate!Young(rate_redis \cup rate_memory)
        /\ OfLimits.Limit \in Nat /\ OfLimits.Window \in Nat \ {0}
    BY DEF Rate!Young, RateInv, RateShape, Rate!ConstantsOK
  <2>2. RateShape'
    BY <1>3 DEF Rate!Tick, Rate!Young, RateInv, RateShape, Rate!ConstantsOK
  <2>3. ASSUME NEW s \in {"redis", "memory"}
        PROVE  Cardinality(rate_allowed'[s]) <= OfLimits.Limit
    <3>1. rate_allowed'[s] = Rate!Young(rate_allowed[s])
          /\ rate_allowed[s] \in SUBSET OfLimits.Requests
          /\ rate_allowed'[s] \in SUBSET OfLimits.Requests
      BY <1>3, <2>2 DEF Rate!Tick, RateInv, RateShape
    <3>2. Cardinality(rate_allowed'[s]) <= Cardinality(rate_allowed[s])
      BY <2>1, <3>1, RateCounts
    <3>3. Cardinality(rate_allowed'[s]) \in Nat /\ Cardinality(rate_allowed[s]) \in Nat
      BY <3>1, RateCounts
    <3> QED
      BY <2>1, <3>2, <3>3 DEF RateInv
  <2>4. RateWaits'
    <3>1. SUFFICES ASSUME rate_wait'.by = "memory"
                   PROVE  IF rate_wait'.left = 0 THEN ~ Rate!Over(rate_memory')
                          ELSE \E r \in rate_memory' :
                                   rate_age'[r] + rate_wait'.left = OfLimits.Window
      BY DEF RateWaits, Rate!Over, Rate!Cardinality
    <3>2. /\ rate_wait.by = "memory" /\ rate_wait.left \in Nat
          /\ rate_wait'.left = IF rate_wait.left = 0 THEN 0 ELSE rate_wait.left - 1
          /\ rate_memory' = Rate!Young(rate_memory)
          /\ rate_memory \in SUBSET OfLimits.Requests
      BY <1>3, <3>1 DEF Rate!Tick, RateInv, RateShape
    <3>3. /\ rate_memory' \in SUBSET rate_memory
          /\ Cardinality(rate_memory') <= Cardinality(rate_memory)
          /\ rate_memory' # rate_memory => Cardinality(rate_memory') < Cardinality(rate_memory)
          /\ Cardinality(rate_memory') \in Nat /\ Cardinality(rate_memory) \in Nat
          /\ Cardinality(rate_memory) <= OfLimits.Limit
          /\ Rate!Over(rate_memory') <=> Cardinality(rate_memory') >= OfLimits.Limit
          /\ Rate!Over(rate_memory) <=> Cardinality(rate_memory) >= OfLimits.Limit
      BY <2>1, <3>2, RateCounts DEF RateInv, RateShape
    <3>4. CASE rate_wait.left = 0
      BY <2>1, <3>2, <3>3, <3>4 DEF RateInv, RateWaits
    <3>5. CASE rate_wait.left # 0
      <4>1. PICK r \in rate_memory : rate_age[r] + rate_wait.left = OfLimits.Window
        BY <3>2, <3>5 DEF RateInv, RateWaits
      <4>2. rate_age[r] \in Nat
        BY <3>2 DEF RateInv, RateShape
      <4>3. CASE rate_wait.left = 1
        <5>1. r \notin rate_memory'
          BY <2>1, <3>2, <4>1, <4>2, <4>3 DEF Rate!Young
        <5> QED
          BY <2>1, <3>2, <3>3, <4>3, <5>1
      <4>4. CASE rate_wait.left # 1
        <5>1. r \in rate_memory' /\ rate_age'[r] = rate_age[r] + 1
          BY <1>3, <2>1, <3>2, <3>5, <4>1, <4>2, <4>4 DEF Rate!Young, Rate!Tick
        <5> QED
          BY <2>1, <3>2, <3>5, <4>1, <4>2, <4>4, <5>1
      <4> QED
        BY <4>3, <4>4
    <3> QED
      BY <3>4, <3>5
  <2> QED
    BY <2>2, <2>3, <2>4 DEF RateInv
<1>4. CASE UNCHANGED Rate!vars
  BY <1>4 DEF Rate!vars, RateInv, RateShape, RateWaits, Rate!Over, Rate!Cardinality
<1>5. CASE Rate!Ask
  <2> DEFINE free == RateUnused
             r == CHOOSE u \in free : TRUE
  <2>1. free # {} /\ (Rate!AskRedis(r) \/ Rate!AskMemory(r))
    BY <1>5, Zenon DEF Rate!Ask
  <2>2. r \in free
    BY <2>1, Zenon
  <2> QED
    BY <1>1, <1>2, <2>1, <2>2
<1> QED
  BY <1>3, <1>4, <1>5 DEF Rate!Next

LEMMA RateHolds == ASSUME RateInv PROVE Rate!LimitHolds
BY DEF RateInv, RateWaits, Rate!LimitHolds, Rate!Cardinality, Cardinality

----------------------------------------------------------------------------
(* The reminders *)

LEMMA Hours ==
    ASSUME NEW n \in Int
    PROVE  /\ n \in 0 .. 23 => n % 24 = n
           /\ n \in 24 .. 47 => n % 24 = n - 24
           /\ n \in -23 .. -1 => n % 24 = n + 24
  OBVIOUS

\* The quiet hours, as one counts them from the first to the last.
LEMMA QuietHours ==
    ASSUME NEW from \in 0 .. 23, NEW until \in 0 .. 23, NEW hour \in 0 .. 23
    PROVE  Reminder!IsQuiet(from, until, hour) <=>
               \E k \in 1 .. (until - from) % 24 : hour = (from + k - 1) % 24
<1>1. CASE from <= until
  <2>1. (until - from) % 24 = until - from
    BY <1>1, Hours
  <2>2. ASSUME from <= hour, hour < until
        PROVE  \E k \in 1 .. (until - from) % 24 : hour = (from + k - 1) % 24
    <3>1. /\ hour - from + 1 \in 1 .. (until - from) % 24
          /\ (from + (hour - from + 1) - 1) % 24 = hour
      BY <2>1, <2>2, Hours
    <3> QED
      BY <3>1
  <2>3. ASSUME NEW k \in 1 .. (until - from) % 24, hour = (from + k - 1) % 24
        PROVE  from <= hour /\ hour < until
    <3>1. k \in Int /\ from + k - 1 \in 0 .. 23
      BY <1>1, <2>1
    <3>2. hour = from + k - 1
      BY <2>3, <3>1, Hours
    <3> QED
      BY <2>1, <3>1, <3>2
  <2> QED
    BY <1>1, <2>2, <2>3 DEF Reminder!IsQuiet
<1>2. CASE until < from
  <2>1. (until - from) % 24 = until - from + 24
    BY <1>2, Hours
  <2>2. ASSUME from <= hour
        PROVE  \E k \in 1 .. (until - from) % 24 : hour = (from + k - 1) % 24
    <3>1. /\ hour - from + 1 \in 1 .. (until - from) % 24
          /\ (from + (hour - from + 1) - 1) % 24 = hour
      BY <1>2, <2>1, <2>2, Hours
    <3> QED
      BY <3>1
  <2>3. ASSUME hour < until
        PROVE  \E k \in 1 .. (until - from) % 24 : hour = (from + k - 1) % 24
    <3> DEFINE k == hour - from + 25
    <3>1. k \in 1 .. (until - from) % 24 /\ from + k - 1 = hour + 24
      BY <1>2, <2>1, <2>3
    <3>2. (hour + 24) % 24 = hour
      BY Hours
    <3> QED
      BY <3>1, <3>2
  <2>4. ASSUME NEW k \in 1 .. (until - from) % 24, hour = (from + k - 1) % 24
        PROVE  from <= hour \/ hour < until
    <3>1. k \in Int /\ from + k - 1 \in 0 .. 47 /\ from + k - 1 < until + 24
      BY <1>2, <2>1
    <3>2. from + k - 1 \in 24 .. 47 => hour = from + k - 1 - 24
      BY <2>4, <3>1, Hours
    <3>3. from + k - 1 \in 0 .. 23 => hour = from + k - 1
      BY <2>4, <3>1, Hours
    <3> QED
      BY <3>1, <3>2, <3>3
  <2>5. Reminder!IsQuiet(from, until, hour) <=> from <= hour \/ hour < until
    BY <1>2 DEF Reminder!IsQuiet
  <2> HIDE DEF Reminder!IsQuiet
  <2> QED
    BY <2>2, <2>3, <2>4, <2>5
<1> QED
  BY <1>1, <1>2

LEMMA Days ==
    ASSUME NEW s \in Nat, NEW t \in Nat
    PROVE  /\ t \div 24 \in Nat /\ t % 24 \in 0 .. 23
           /\ s <= t => s \div 24 <= t \div 24
  OBVIOUS

\* The reminders that a day of the log has.
OfDay(day) == {e \in Reminder!Logged : Reminder!Sent(e).at \div 24 = day}

\* The user's threshold and hours, and the highest threshold so far.
RemPrefers ==
    /\ rem_pref.exists \in BOOLEAN
    /\ rem_pref.exists => /\ rem_pref.threshold \in Nat
                          /\ rem_pref.from \in 0 .. 23 /\ rem_pref.until \in 0 .. 23
    /\ rem_peak \in Nat /\ Reminder!Preferences.threshold <= rem_peak

\* What is asked, and that nothing is logged for the future.
RemAt == OfReminders.Times \cap Nat
RemAnswers == {"none", "completed", "snoozed", "dismissed"}
RemLogs == [OfReminders.Todos -> Seq([at : RemAt, taken : RemAnswers])]
RemRequests ==
    [OfReminders.Clients -> OfReminders.Asked \cup {[op |-> "daily"], Reminder!Idle}]
USE DEF RemAt, RemLogs, RemRequests
RemShape ==
    /\ rem_now \in RemAt /\ rem_rows \subseteq OfReminders.Todos
    /\ rem_request \in RemRequests
    /\ rem_log \in RemLogs
    /\ IsFiniteSet(Reminder!Logged)
    /\ \A e \in Reminder!Logged : Reminder!Sent(e).at <= rem_now
    /\ DOMAIN rem_seen = OfReminders.Clients
    /\ \A c \in OfReminders.Clients :
           rem_request[c].op = "daily" => rem_seen[c].items \subseteq OfReminders.Todos

\* A list under way, if it is the only one, still fits into the day.
RemFits ==
    rem_shared \/
        /\ \A b, c \in OfReminders.Clients :
               rem_request[b].op = "daily" /\ rem_request[c].op = "daily" => b = c
        /\ \A day \in Nat : Cardinality(OfDay(day)) <= rem_peak
        /\ \A c \in OfReminders.Clients, day \in Nat :
               rem_request[c].op = "daily" /\ day >= rem_now \div 24 =>
                   Cardinality(OfDay(day)) + Cardinality(rem_seen[c].items) <= rem_peak

RemInv == RemPrefers /\ RemShape /\ RemFits

LEMMA DayCounts ==
    ASSUME RemShape, NEW day
    PROVE  IsFiniteSet(OfDay(day)) /\ Cardinality(OfDay(day)) \in Nat
  BY FS_Subset, FS_CardinalityType DEF RemShape, OfDay

\* As long as the log keeps its rows, a day keeps its count.
LEMMA LogStays ==
    ASSUME Reminder!Logged' = Reminder!Logged,
           \A e \in Reminder!Logged : Reminder!Sent(e)'.at = Reminder!Sent(e).at
    PROVE  \A day : OfDay(day)' = OfDay(day)
  BY DEF OfDay

\* A row of the log is a row of its todo.
LEMMA LoggedIs ==
    ASSUME NEW e
    PROVE  e \in Reminder!Logged <=>
               \E d \in OfReminders.Todos : \E i \in DOMAIN rem_log[d] : e = <<d, i>>
  BY DEF Reminder!Logged

LEMMA RemInit == ASSUME Reminder!ConstantsOK, Reminder!Init PROVE RemInv
<1>1. Reminder!Logged = {}
  BY DEF Reminder!Init, Reminder!Logged
<1>2. \A day : OfDay(day) = {}
  BY <1>1 DEF OfDay
<1>3. IsFiniteSet({}) /\ Cardinality({}) = 0
  BY FS_EmptySet
<1>4. RemPrefers
  BY DEF Reminder!Init, RemPrefers, Reminder!Preferences, Reminder!NoRow, Reminder!Defaults
<1>5. /\ rem_now \in RemAt /\ rem_rows = OfReminders.Todos /\ rem_peak = 5 /\ ~rem_shared
      /\ rem_request = [c \in OfReminders.Clients |-> Reminder!Idle]
      /\ rem_seen = [c \in OfReminders.Clients |-> Reminder!Idle]
      /\ rem_log = [d \in OfReminders.Todos |-> <<>>]
      /\ Reminder!Idle.op = "none"
  BY DEF Reminder!Init, Reminder!ConstantsOK, Reminder!Defaults, Reminder!Idle
<1>6. RemShape
  BY <1>1, <1>3, <1>5 DEF RemShape
<1>7. RemFits
  <2>1. \A c \in OfReminders.Clients : rem_request[c].op # "daily"
    BY <1>5
  <2>2. \A day : Cardinality(OfDay(day)) = 0
    BY <1>2, <1>3
  <2> QED
    BY <1>5, <2>1, <2>2 DEF RemFits
<1> QED
  BY <1>4, <1>6, <1>7 DEF RemInv

LEMMA ItemsCount ==
    ASSUME Reminder!ConstantsOK, NEW S \in SUBSET OfReminders.Todos
    PROVE  IsFiniteSet(S) /\ Cardinality(S) \in Nat
<1>1. IsFiniteSet(OfReminders.Todos)
  BY Zenon DEF Reminder!ConstantsOK, Reminder!IsFiniteSet, IsFiniteSet
<1> QED
  BY <1>1, FS_Subset, FS_CardinalityType

LEMMA RowsOf ==
    ASSUME NEW R, NEW s \in Seq(R)
    PROVE  /\ Len(s) \in Nat /\ DOMAIN s = 1 .. Len(s)
           /\ \A i \in DOMAIN s : s[i] \in R
  OBVIOUS

LEMMA MakesRows == ASSUME NEW R, NEW n \in Nat, NEW s \in [1 .. n -> R] PROVE s \in Seq(R)
  OBVIOUS

LEMMA SentIs ==
    ASSUME RemShape, NEW e \in Reminder!Logged
    PROVE  Reminder!Sent(e) \in [at : RemAt, taken : RemAnswers]
<1>1. PICK d \in OfReminders.Todos : \E i \in DOMAIN rem_log[d] : e = <<d, i>>
  BY LoggedIs
<1>2. PICK i \in DOMAIN rem_log[d] : e = <<d, i>>
  BY <1>1
<1>3. Reminder!Sent(e) = rem_log[d][i]
  BY <1>2 DEF Reminder!Sent
<1>4. rem_log[d] \in Seq([at : RemAt, taken : RemAnswers])
  BY DEF RemShape
<1>5. rem_log[d][i] \in [at : RemAt, taken : RemAnswers]
  <2> DEFINE R == [at : RemAt, taken : RemAnswers]
  <2> HIDE DEF R
  <2>1. rem_log[d] \in Seq(R)
    BY <1>4 DEF R
  <2>2. rem_log[d][i] \in R
    BY <2>1, RowsOf
  <2> QED
    BY <2>2 DEF R
<1> QED
  BY <1>3, <1>5

LEMMA SendFacts ==
    ASSUME NEW c \in OfReminders.Clients, NEW op, NEW read, RemShape,
           Reminder!Send(c, op, read)
    PROVE  /\ DOMAIN rem_seen' = OfReminders.Clients
           /\ rem_request'[c] = op /\ rem_seen'[c] = read
           /\ \A b \in OfReminders.Clients \ {c} :
                  rem_request'[b] = rem_request[b] /\ rem_seen'[b] = rem_seen[b]
           /\ op \in OfReminders.Asked \cup {[op |-> "daily"]} =>
                  rem_request' \in RemRequests
  BY DEF Reminder!Send, RemShape

LEMMA ReturnFacts ==
    ASSUME NEW c \in OfReminders.Clients, RemShape, Reminder!Return(c)
    PROVE  /\ DOMAIN rem_seen' = OfReminders.Clients
           /\ rem_request'[c].op = "none"
           /\ \A b \in OfReminders.Clients \ {c} :
                  rem_request'[b] = rem_request[b] /\ rem_seen'[b] = rem_seen[b]
           /\ rem_request' \in RemRequests
  BY DEF Reminder!Return, RemShape, Reminder!Idle

\* What leaves the clock, the log and the lists under way alone keeps the invariant.
LEMMA RemUntouched ==
    ASSUME Reminder!ConstantsOK, RemInv, RemPrefers', rem_peak' >= rem_peak,
           rem_shared' = rem_shared,
           rem_now' = rem_now, rem_rows' \subseteq rem_rows,
           rem_log' \in RemLogs,
           Reminder!Logged' = Reminder!Logged,
           \A e \in Reminder!Logged : Reminder!Sent(e)'.at = Reminder!Sent(e).at,
           DOMAIN rem_seen' = OfReminders.Clients,
           rem_request' \in RemRequests,
           \A c \in OfReminders.Clients :
               rem_request'[c].op = "daily" =>
                   rem_request'[c] = rem_request[c] /\ rem_seen'[c] = rem_seen[c]
    PROVE  RemInv'
<1>1. \A day : OfDay(day)' = OfDay(day)
  BY LogStays
<1>2. RemShape'
  BY DEF RemInv, RemShape
<1>3. \A c \in OfReminders.Clients :
          rem_request'[c].op = "daily" => rem_request[c].op = "daily"
  OBVIOUS
<1>4. ASSUME ~rem_shared PROVE RemFits'
  <2>1. /\ \A b, c \in OfReminders.Clients :
               rem_request'[b].op = "daily" /\ rem_request'[c].op = "daily" => b = c
    BY <1>3, <1>4 DEF RemInv, RemFits
  <2>2. rem_peak \in Nat /\ rem_peak' \in Nat
    BY DEF RemInv, RemPrefers
  <2>3. ASSUME NEW day \in Nat PROVE Cardinality(OfDay(day)') <= rem_peak'
    <3>1. Cardinality(OfDay(day)) \in Nat /\ Cardinality(OfDay(day)) <= rem_peak
      BY <1>4, DayCounts DEF RemInv, RemFits
    <3> QED
      BY <1>1, <2>2, <3>1
  <2>4. ASSUME NEW c \in OfReminders.Clients, NEW day \in Nat,
               rem_request'[c].op = "daily", day >= rem_now' \div 24
        PROVE  Cardinality(OfDay(day)') + Cardinality(rem_seen'[c].items) <= rem_peak'
    <3>1. /\ rem_seen'[c].items = rem_seen[c].items
          /\ rem_seen[c].items \subseteq OfReminders.Todos
          /\ rem_request[c].op = "daily"
      BY <2>4 DEF RemInv, RemShape
    <3>2. Cardinality(OfDay(day)) + Cardinality(rem_seen[c].items) <= rem_peak
      BY <1>4, <2>4, <3>1 DEF RemInv, RemFits
    <3>3. Cardinality(OfDay(day)) \in Nat /\ Cardinality(rem_seen[c].items) \in Nat
      BY <3>1, DayCounts, ItemsCount DEF RemInv
    <3> QED
      BY <1>1, <2>2, <3>1, <3>2, <3>3
  <2> QED
    BY <2>1, <2>3, <2>4 DEF RemFits, OfDay, Reminder!Sent, Reminder!Logged
<1> QED
  BY <1>2, <1>4 DEF RemInv, RemFits

LEMMA Presses ==
    ASSUME Reminder!ConstantsOK, RemInv, NEW c \in OfReminders.Clients,
           NEW q \in OfReminders.Asked, Reminder!Press(c, q) \/ Reminder!Prefer(c, q)
    PROVE  RemInv'
<1>1. /\ \E read : Reminder!Send(c, q, read)
      /\ UNCHANGED <<rem_now, rem_rows, rem_status, rem_score, rem_pref, rem_log,
                     rem_scoring, rem_shared, rem_peak>>
  BY Zenon DEF Reminder!Press, Reminder!Prefer
<1>2. PICK read : Reminder!Send(c, q, read)
  BY <1>1
<1>3. q.op \in {"action", "batch", "prefer"}
  BY DEF Reminder!ConstantsOK
<1>4. RemPrefers'
  BY <1>1 DEF RemInv, RemPrefers, Reminder!Preferences
<1>5. \A b \in OfReminders.Clients :
          rem_request'[b].op = "daily" =>
              rem_request'[b] = rem_request[b] /\ rem_seen'[b] = rem_seen[b]
  BY <1>2, <1>3, SendFacts DEF RemInv
<1>6. /\ DOMAIN rem_seen' = OfReminders.Clients
      /\ rem_request' \in RemRequests
  BY <1>2, SendFacts DEF RemInv
<1>7. /\ Reminder!Logged' = Reminder!Logged
      /\ rem_log' \in RemLogs
      /\ \A e \in Reminder!Logged : Reminder!Sent(e)'.at = Reminder!Sent(e).at
  BY <1>1 DEF RemInv, RemShape, Reminder!Logged, Reminder!Sent
<1>8. rem_peak' >= rem_peak
  BY <1>1 DEF RemInv, RemPrefers
<1> QED
  BY <1>1, <1>4, <1>5, <1>6, <1>7, <1>8, RemUntouched

\* A button changes what was taken of a reminder, and never when it was sent.
LEMMA Applies ==
    ASSUME Reminder!ConstantsOK, RemInv, NEW c \in OfReminders.Clients, Reminder!Apply(c)
    PROVE  RemInv'
<1>1. /\ rem_request[c].op \in {"action", "batch"} /\ Reminder!Return(c)
      /\ UNCHANGED <<rem_now, rem_rows, rem_score, rem_pref, rem_scoring, rem_shared, rem_peak>>
      /\ \/ rem_log' = rem_log
         \/ rem_log' = [d \in OfReminders.Todos |->
                IF d \in rem_seen[c].todos /\ rem_seen[c].last[d] > 0
                THEN [rem_log[d] EXCEPT ![rem_seen[c].last[d]].taken = rem_request[c].action]
                ELSE rem_log[d]]
  BY DEF Reminder!Apply
<1>2. rem_request[c] \in OfReminders.Asked /\ rem_request[c].action \in RemAnswers
  BY <1>1 DEF RemInv, RemShape, Reminder!Idle, Reminder!ConstantsOK, RemAnswers, Reminder!Ends
<1>3. /\ rem_log' \in RemLogs
      /\ \A d \in OfReminders.Todos :
             /\ DOMAIN rem_log'[d] = DOMAIN rem_log[d]
             /\ \A i \in DOMAIN rem_log[d] : rem_log'[d][i].at = rem_log[d][i].at
  <2>1. CASE rem_log' = rem_log
    BY <2>1 DEF RemInv, RemShape
  <2>2. CASE rem_log' = [d \in OfReminders.Todos |->
                IF d \in rem_seen[c].todos /\ rem_seen[c].last[d] > 0
                THEN [rem_log[d] EXCEPT ![rem_seen[c].last[d]].taken = rem_request[c].action]
                ELSE rem_log[d]]
    <3>1. ASSUME NEW d \in OfReminders.Todos
          PROVE  /\ rem_log'[d] \in Seq([at : RemAt, taken : RemAnswers])
                 /\ DOMAIN rem_log'[d] = DOMAIN rem_log[d]
                 /\ \A i \in DOMAIN rem_log[d] : rem_log'[d][i].at = rem_log[d][i].at
      <4> DEFINE k == rem_seen[c].last[d]
                 a == rem_request[c].action
                 s == rem_log[d]
      <4>1. s \in Seq([at : RemAt, taken : RemAnswers]) /\ a \in RemAnswers
        BY <1>2 DEF RemInv, RemShape
      <4>2. rem_log'[d] = s \/ rem_log'[d] = [s EXCEPT ![k].taken = a]
        BY <2>2
      <4> HIDE DEF k, a, s
      <4>3. /\ Len(s) \in Nat /\ DOMAIN s = 1 .. Len(s)
            /\ \A i \in DOMAIN s : s[i] \in [at : RemAt, taken : RemAnswers]
        BY <4>1, RowsOf
      <4>4. CASE rem_log'[d] = [s EXCEPT ![k].taken = a]
        <5>1. DOMAIN rem_log'[d] = DOMAIN s
          BY <4>4
        <5>2. \A i \in DOMAIN s : rem_log'[d][i] \in [at : RemAt, taken : RemAnswers]
                                  /\ rem_log'[d][i].at = s[i].at
          BY <4>1, <4>3, <4>4
        <5>3. rem_log'[d] \in [1 .. Len(s) -> [at : RemAt, taken : RemAnswers]]
          BY <4>3, <4>4, <5>1, <5>2
        <5>4. rem_log'[d] \in Seq([at : RemAt, taken : RemAnswers])
          BY <4>3, <5>3, MakesRows
        <5> QED
          BY <5>1, <5>2, <5>4 DEF s
      <4> QED
        BY <4>1, <4>2, <4>4 DEF s
    <3> QED
      BY <2>2, <3>1
  <2> QED
    BY <1>1, <2>1, <2>2
<1>4. Reminder!Logged' = Reminder!Logged
  BY <1>3 DEF Reminder!Logged
<1>5. \A e \in Reminder!Logged : Reminder!Sent(e)'.at = Reminder!Sent(e).at
  BY <1>3, LoggedIs DEF Reminder!Sent
<1>6. RemPrefers' /\ rem_peak' >= rem_peak
  BY <1>1 DEF RemInv, RemPrefers, Reminder!Preferences
<1>7. /\ DOMAIN rem_seen' = OfReminders.Clients
      /\ rem_request' \in RemRequests
      /\ \A b \in OfReminders.Clients :
             rem_request'[b].op = "daily" =>
                 rem_request'[b] = rem_request[b] /\ rem_seen'[b] = rem_seen[b]
  BY <1>1, ReturnFacts DEF RemInv
<1> QED
  BY <1>1, <1>3, <1>4, <1>5, <1>6, <1>7, RemUntouched

\* The threshold that is saved is a threshold, and the peak covers it.
LEMMA Saves ==
    ASSUME Reminder!ConstantsOK, RemInv, NEW c \in OfReminders.Clients,
           Reminder!SavePreferences(c)
    PROVE  RemInv'
<1>1. /\ rem_request[c].op = "prefer" /\ Reminder!Return(c)
      /\ UNCHANGED <<rem_now, rem_rows, rem_status, rem_score, rem_log, rem_scoring,
                     rem_shared>>
      /\ \/ rem_pref' = rem_pref /\ rem_peak' = rem_peak
         \/ /\ rem_request[c].valid
            /\ rem_pref' = Reminder!Given(rem_request[c].fields, Reminder!Preferences)
            /\ rem_peak' = IF rem_pref'.threshold > rem_peak THEN rem_pref'.threshold
                           ELSE rem_peak
  BY DEF Reminder!SavePreferences
<1>2. rem_request[c] \in OfReminders.Asked
  BY <1>1 DEF RemInv, RemShape, Reminder!Idle
<1>3. RemPrefers' /\ rem_peak' >= rem_peak
  <2>1. CASE rem_pref' = rem_pref /\ rem_peak' = rem_peak
    BY <2>1 DEF RemInv, RemPrefers, Reminder!Preferences
  <2>2. CASE /\ rem_request[c].valid
             /\ rem_pref' = Reminder!Given(rem_request[c].fields, Reminder!Preferences)
             /\ rem_peak' = IF rem_pref'.threshold > rem_peak THEN rem_pref'.threshold
                            ELSE rem_peak
    <3> DEFINE new == rem_request[c].fields
               old == Reminder!Preferences
    <3>1. new \in [threshold : 0 .. 20, from : 0 .. 24, until : 0 .. 24]
      BY <1>1, <1>2, <2>2 DEF Reminder!ConstantsOK
    <3>2. old.threshold \in Nat /\ old.from \in 0 .. 23 /\ old.until \in 0 .. 23
          /\ rem_peak \in Nat
      BY DEF RemInv, RemPrefers, Reminder!Preferences, Reminder!Defaults
    <3> HIDE DEF new, old
    <3>3. /\ rem_pref'.exists = TRUE
          /\ rem_pref'.threshold \in Nat
          /\ rem_pref'.from \in 0 .. 23 /\ rem_pref'.until \in 0 .. 23
      BY <2>2, <3>1, <3>2 DEF Reminder!Given, new, old
    <3>4. rem_peak' \in Nat /\ rem_peak' >= rem_peak /\ rem_pref'.threshold <= rem_peak'
      BY <2>2, <3>2, <3>3
    <3> QED
      BY <3>3, <3>4 DEF RemPrefers, Reminder!Preferences
  <2> QED
    BY <1>1, <2>1, <2>2
<1>4. /\ DOMAIN rem_seen' = OfReminders.Clients
      /\ rem_request' \in RemRequests
      /\ \A b \in OfReminders.Clients :
             rem_request'[b].op = "daily" =>
                 rem_request'[b] = rem_request[b] /\ rem_seen'[b] = rem_seen[b]
  BY <1>1, ReturnFacts DEF RemInv
<1>5. /\ Reminder!Logged' = Reminder!Logged
      /\ rem_log' \in RemLogs
      /\ \A e \in Reminder!Logged : Reminder!Sent(e)'.at = Reminder!Sent(e).at
  BY <1>1 DEF RemInv, RemShape, Reminder!Logged, Reminder!Sent
<1> QED
  BY <1>1, <1>3, <1>4, <1>5, RemUntouched

\* The clock leaves the days alone.
LEMMA Ticks ==
    ASSUME Reminder!ConstantsOK, RemInv, Reminder!Tick
    PROVE  RemInv'
<1>1. /\ rem_now' \in RemAt /\ rem_now' > rem_now /\ rem_now \in Nat
      /\ UNCHANGED <<rem_rows, rem_status, rem_score, rem_pref, rem_log, rem_pc, rem_request,
                     rem_seen, rem_scoring, rem_shared, rem_peak>>
  BY DEF Reminder!Tick, Reminder!ConstantsOK, RemInv, RemShape
<1>2. RemPrefers'
  BY <1>1 DEF RemInv, RemPrefers, Reminder!Preferences
<1>3. /\ Reminder!Logged' = Reminder!Logged
      /\ \A e \in Reminder!Logged : Reminder!Sent(e)' = Reminder!Sent(e)
  BY <1>1 DEF Reminder!Logged, Reminder!Sent
<1>4. \A e \in Reminder!Logged : Reminder!Sent(e).at \in Nat
  BY SentIs DEF RemInv
<1>5. \A e \in Reminder!Logged' : Reminder!Sent(e)'.at <= rem_now'
  BY <1>1, <1>3, <1>4 DEF RemInv, RemShape
<1>6. RemShape'
  BY <1>1, <1>3, <1>5 DEF RemInv, RemShape
<1>7. \A day : OfDay(day)' = OfDay(day)
  BY <1>3, LogStays
<1>8. \A day \in Nat : day >= rem_now' \div 24 => day >= rem_now \div 24
  <2>1. /\ rem_now \div 24 \in Nat /\ rem_now' \div 24 \in Nat
        /\ rem_now \div 24 <= rem_now' \div 24
    <3> DEFINE s == rem_now
               t == rem_now'
    <3>1. s \in Nat /\ t \in Nat /\ s <= t
      BY <1>1
    <3> HIDE DEF s, t
    <3>2. s \div 24 \in Nat /\ t \div 24 \in Nat /\ s \div 24 <= t \div 24
      BY <3>1, Days
    <3> QED
      BY <3>2 DEF s, t
  <2> QED
    BY <2>1
<1>9. RemFits'
  BY <1>1, <1>7, <1>8 DEF RemInv, RemFits
<1> QED
  BY <1>2, <1>6, <1>9 DEF RemInv

\* The best todos are never more than there is room for.
LEMMA TopsAre ==
    ASSUME Reminder!ConstantsOK, RemShape, NEW n \in Nat, NEW S \in Reminder!Tops(n)
    PROVE  S \in SUBSET OfReminders.Todos /\ Cardinality(S) <= n
<1>1. S \subseteq Reminder!Open /\ Reminder!Open \in SUBSET OfReminders.Todos
  BY DEF Reminder!Tops, Reminder!Open, RemShape
<1>2. Cardinality(Reminder!Open) \in Nat
  BY <1>1, ItemsCount
<1>3. Reminder!Cardinality(S) = IF n < Reminder!Cardinality(Reminder!Open) THEN n
                                ELSE Reminder!Cardinality(Reminder!Open)
  BY DEF Reminder!Tops
<1>4. Reminder!Cardinality(S) = Cardinality(S)
      /\ Reminder!Cardinality(Reminder!Open) = Cardinality(Reminder!Open)
  BY DEF Reminder!Cardinality, Cardinality
<1>5. Cardinality(S) <= n
  BY <1>2, <1>3, <1>4
<1> QED
  BY <1>1, <1>5

\* A list takes what the day has left, and the days to come have nothing yet.
LEMMA Lists ==
    ASSUME Reminder!ConstantsOK, RemInv, NEW c \in OfReminders.Clients, Reminder!List(c)
    PROVE  RemInv'
<1> DEFINE today == rem_now \div 24
           threshold == Reminder!Preferences.threshold
           since == {e \in Reminder!Logged : Reminder!Sent(e).at \div 24 >= today}
           room == Reminder!Remaining(threshold, Reminder!SentSince(today))
<1>1. PICK items \in Reminder!Tops(room) : \E read :
          read.items = items /\ Reminder!Send(c, [op |-> "daily"], read)
  BY DEF Reminder!List, Reminder!Today
<1>2. /\ rem_shared' = (rem_shared \/ \E b \in OfReminders.Clients : rem_request[b].op = "daily")
      /\ UNCHANGED <<rem_now, rem_rows, rem_status, rem_score, rem_pref, rem_log,
                     rem_scoring, rem_peak>>
  BY DEF Reminder!List
<1>3. /\ DOMAIN rem_seen' = OfReminders.Clients
      /\ rem_request'[c] = [op |-> "daily"] /\ rem_seen'[c].items = items
      /\ \A b \in OfReminders.Clients \ {c} :
             rem_request'[b] = rem_request[b] /\ rem_seen'[b] = rem_seen[b]
      /\ rem_request' \in RemRequests
  BY <1>1, SendFacts DEF RemInv
<1>4. today \in Nat /\ threshold \in Nat /\ threshold <= rem_peak /\ rem_peak \in Nat
  BY Days DEF RemInv, RemShape, RemPrefers, Reminder!Preferences, Reminder!Defaults
<1> HIDE DEF today, threshold
\* Nothing is logged for a later day.
<1>5. since = OfDay(today) /\ \A day \in Nat : day > today => OfDay(day) = {}
  <2>1. \A e \in Reminder!Logged :
            Reminder!Sent(e).at \div 24 \in Nat /\ Reminder!Sent(e).at \div 24 <= today
    BY SentIs, Days DEF RemInv, RemShape, today
  <2> QED
    BY <1>4, <2>1 DEF OfDay
<1>6. /\ Reminder!SentSince(today) = Cardinality(OfDay(today))
      /\ Cardinality(OfDay(today)) \in Nat
  <2>1. Reminder!SentSince(today) = Cardinality(since)
    BY DEF Reminder!SentSince, Reminder!Cardinality, Cardinality
  <2> QED
    BY <1>5, <2>1, DayCounts DEF RemInv
<1>7. /\ room \in Nat /\ room <= threshold
      /\ room # 0 => Cardinality(OfDay(today)) + room <= threshold
  BY <1>4, <1>6 DEF Reminder!Remaining
<1> HIDE DEF room, since
<1>8. /\ items \in SUBSET OfReminders.Todos
      /\ Cardinality(items) <= room /\ Cardinality(items) \in Nat
  BY <1>7, TopsAre, ItemsCount DEF RemInv
<1>9. /\ Reminder!Logged' = Reminder!Logged
      /\ \A e \in Reminder!Logged : Reminder!Sent(e)' = Reminder!Sent(e)
      /\ \A day : OfDay(day)' = OfDay(day)
  BY <1>2, LogStays DEF Reminder!Logged, Reminder!Sent
<1>10. RemShape'
  BY <1>2, <1>3, <1>8, <1>9 DEF RemInv, RemShape
<1>11. RemPrefers'
  BY <1>2 DEF RemInv, RemPrefers, Reminder!Preferences
<1>12. ASSUME ~rem_shared' PROVE RemFits'
  <2>1. ~rem_shared /\ \A b \in OfReminders.Clients : rem_request[b].op # "daily"
    BY <1>2, <1>12
  <2>2. \A b \in OfReminders.Clients : rem_request'[b].op = "daily" => b = c
    BY <1>3, <2>1
  <2>3. \A day \in Nat : Cardinality(OfDay(day)) <= rem_peak
    BY <2>1 DEF RemInv, RemFits
  <2>4. ASSUME NEW day \in Nat, day >= today
        PROVE  Cardinality(OfDay(day)) + Cardinality(items) <= rem_peak
    <3>1. CASE day = today
      <4>1. CASE room = 0
        BY <1>4, <1>6, <1>8, <2>3, <3>1, <4>1
      <4>2. CASE room # 0
        BY <1>4, <1>6, <1>7, <1>8, <3>1, <4>2
      <4> QED
        BY <4>1, <4>2
    <3>2. CASE day # today
      <4>1. Cardinality(OfDay(day)) = 0
        BY <1>4, <1>5, <2>4, <3>2, FS_EmptySet
      <4> QED
        BY <1>4, <1>7, <1>8, <4>1
    <3> QED
      BY <3>1, <3>2
  <2>5. \A day \in Nat : day >= rem_now' \div 24 =>
            Cardinality(OfDay(day)') + Cardinality(rem_seen'[c].items) <= rem_peak'
    BY <1>2, <1>3, <1>9, <2>4 DEF today
  <2>6. \A day \in Nat : Cardinality(OfDay(day)') <= rem_peak'
    BY <1>2, <1>9, <2>3
  <2> QED
    BY <1>12, <2>2, <2>5, <2>6 DEF RemFits, OfDay, Reminder!Sent, Reminder!Logged
<1> QED
  BY <1>10, <1>11, <1>12 DEF RemInv, RemFits

\* The commit of a list adds as many rows to the day as it has items.
LEMMA Commits ==
    ASSUME Reminder!ConstantsOK, RemInv, NEW c \in OfReminders.Clients, Reminder!LogList(c)
    PROVE  RemInv'
<1> DEFINE items == rem_seen[c].items
           today == rem_now \div 24
           Place(d) == <<d, Len(rem_log[d]) + 1>>
           new == {Place(d) : d \in items}
<1>1. /\ rem_request[c].op = "daily" /\ Reminder!Return(c)
      /\ rem_log' = [d \in OfReminders.Todos |->
                        IF d \in items THEN Append(rem_log[d], [at |-> rem_now, taken |-> "none"])
                        ELSE rem_log[d]]
      /\ UNCHANGED <<rem_now, rem_rows, rem_status, rem_score, rem_pref, rem_scoring,
                     rem_shared, rem_peak>>
  BY DEF Reminder!LogList
<1>2. /\ items \in SUBSET OfReminders.Todos
      /\ rem_now \in Nat
      /\ [at |-> rem_now, taken |-> "none"] \in [at : RemAt, taken : RemAnswers]
      /\ rem_log \in RemLogs
  BY <1>1 DEF RemInv, RemShape, RemAnswers
<1>3. today \in Nat
  BY <1>2, Days
<1> HIDE DEF items, today
<1>4. ASSUME NEW d \in OfReminders.Todos
      PROVE  /\ rem_log'[d] \in Seq([at : RemAt, taken : RemAnswers])
             /\ DOMAIN rem_log'[d] = DOMAIN rem_log[d]
                                        \cup (IF d \in items THEN {Len(rem_log[d]) + 1} ELSE {})
             /\ \A i \in DOMAIN rem_log[d] : rem_log'[d][i] = rem_log[d][i]
             /\ d \in items => rem_log'[d][Len(rem_log[d]) + 1].at = rem_now
             /\ Len(rem_log[d]) + 1 \notin DOMAIN rem_log[d]
  <2> DEFINE R == [at : RemAt, taken : RemAnswers]
             s == rem_log[d]
             row == [at |-> rem_now, taken |-> "none"]
  <2>1. s \in Seq(R) /\ row \in R /\ row.at = rem_now
    BY <1>2
  <2>2. rem_log'[d] = IF d \in items THEN Append(s, row) ELSE s
    BY <1>1
  <2> HIDE DEF R, s, row
  <2>3. /\ Append(s, row) \in Seq(R) /\ Len(s) \in Nat
        /\ DOMAIN Append(s, row) = DOMAIN s \cup {Len(s) + 1}
        /\ \A i \in DOMAIN s : Append(s, row)[i] = s[i]
        /\ Append(s, row)[Len(s) + 1] = row
        /\ Len(s) + 1 \notin DOMAIN s
    BY <2>1
  <2> QED
    BY <2>1, <2>2, <2>3 DEF R, s
<1>5. rem_log' \in RemLogs
  BY <1>1, <1>4
<1>6. /\ Reminder!Logged' = Reminder!Logged \cup new
      /\ new \cap Reminder!Logged = {}
  <2>1. \A e : e \in Reminder!Logged' <=>
                  \E d \in OfReminders.Todos : \E i \in DOMAIN rem_log'[d] : e = <<d, i>>
    BY DEF Reminder!Logged
  <2>2. \A e : e \in Reminder!Logged' <=> e \in Reminder!Logged \/ e \in new
    BY <1>2, <1>4, <2>1, LoggedIs
  <2>3. \A e \in new : e \notin Reminder!Logged
    BY <1>2, <1>4, LoggedIs
  <2> QED
    BY <2>2, <2>3
<1>7. /\ \A e \in Reminder!Logged : Reminder!Sent(e)' = Reminder!Sent(e)
      /\ \A e \in new : Reminder!Sent(e)'.at = rem_now
  <2>1. ASSUME NEW e \in Reminder!Logged PROVE Reminder!Sent(e)' = Reminder!Sent(e)
    BY <1>4, LoggedIs DEF Reminder!Sent
  <2>2. ASSUME NEW e \in new PROVE Reminder!Sent(e)'.at = rem_now
    BY <1>2, <1>4 DEF Reminder!Sent
  <2> QED
    BY <2>1, <2>2
<1>8. IsFiniteSet(new) /\ Cardinality(new) = Cardinality(items)
  <2> DEFINE f == [d \in items |-> Place(d)]
  <2>1. f \in Bijection(items, new)
    BY DEF Bijection, Injection, Surjection, IsInjective
  <2>2. IsFiniteSet(items)
    BY <1>2, ItemsCount
  <2> HIDE DEF f, new
  <2> QED
    BY <2>1, <2>2, FS_Bijection DEF ExistsBijection
<1> HIDE DEF new
<1>9. \A day : OfDay(day)' = IF day = today THEN OfDay(today) \cup new ELSE OfDay(day)
  BY <1>1, <1>6, <1>7 DEF OfDay, today
<1>10. IsFiniteSet(Reminder!Logged')
  BY <1>6, <1>8, FS_Union DEF RemInv, RemShape
<1>11. \A e \in Reminder!Logged' : Reminder!Sent(e)'.at <= rem_now'
  BY <1>1, <1>2, <1>6, <1>7 DEF RemInv, RemShape
<1>12. /\ DOMAIN rem_seen' = OfReminders.Clients
       /\ rem_request'[c].op = "none"
       /\ \A b \in OfReminders.Clients \ {c} :
              rem_request'[b] = rem_request[b] /\ rem_seen'[b] = rem_seen[b]
       /\ rem_request' \in RemRequests
  BY <1>1, ReturnFacts DEF RemInv
<1>13. RemShape'
  BY <1>1, <1>5, <1>10, <1>11, <1>12 DEF RemInv, RemShape
<1>14. RemPrefers'
  BY <1>1 DEF RemInv, RemPrefers, Reminder!Preferences
<1>15. ASSUME ~rem_shared PROVE RemFits'
  <2>1. \A b \in OfReminders.Clients : rem_request'[b].op # "daily"
    BY <1>1, <1>12, <1>15 DEF RemInv, RemFits
  <2>2. ASSUME NEW day \in Nat PROVE Cardinality(OfDay(day)') <= rem_peak'
    <3>1. CASE day # today
      BY <1>1, <1>9, <1>15, <3>1 DEF RemInv, RemFits
    <3>2. CASE day = today
      <4>1. Cardinality(OfDay(today)) + Cardinality(items) <= rem_peak
        BY <1>1, <1>3, <1>15 DEF RemInv, RemFits, items, today
      <4>2. /\ Cardinality(OfDay(today) \cup new) =
                   Cardinality(OfDay(today)) + Cardinality(new)
                       - Cardinality(OfDay(today) \cap new)
            /\ OfDay(today) \cap new = {}
        BY <1>6, <1>8, DayCounts, FS_Union DEF RemInv, OfDay
      <4>3. Cardinality(OfDay(today)) \in Nat /\ Cardinality(new) \in Nat
            /\ Cardinality({}) = 0
        BY <1>8, DayCounts, FS_CardinalityType, FS_EmptySet DEF RemInv
      <4> QED
        <5>1. Cardinality(OfDay(today) \cup new) <= rem_peak
          <6>1. Cardinality(OfDay(today) \cap new) = 0
            BY <4>2, <4>3
          <6> QED
            BY <1>8, <4>1, <4>2, <4>3, <6>1
        <5>2. OfDay(day)' = OfDay(today) \cup new
          BY <1>9, <3>2
        <5> QED
          BY <1>1, <5>1, <5>2
    <3> QED
      BY <3>1, <3>2
  <2> QED
    BY <2>1, <2>2 DEF RemFits, OfDay, Reminder!Sent, Reminder!Logged
<1> QED
  BY <1>1, <1>13, <1>14, <1>15 DEF RemInv, RemFits

LEMMA RemNext ==
    ASSUME Reminder!ConstantsOK, RemInv, [Reminder!Next]_(Reminder!vars)
    PROVE  RemInv'
<1>1. ASSUME UNCHANGED <<rem_now, rem_log, rem_pref, rem_request, rem_seen, rem_shared, rem_peak>>,
             rem_rows' \subseteq rem_rows
      PROVE  RemInv'
  <2>1. RemPrefers' /\ rem_peak' >= rem_peak
    BY <1>1 DEF RemInv, RemPrefers, Reminder!Preferences
  <2>2. /\ Reminder!Logged' = Reminder!Logged
        /\ \A e \in Reminder!Logged : Reminder!Sent(e)'.at = Reminder!Sent(e).at
    BY <1>1 DEF Reminder!Logged, Reminder!Sent
  <2>3. /\ DOMAIN rem_seen' = OfReminders.Clients
        /\ rem_log' \in RemLogs
        /\ rem_request' \in RemRequests
    BY <1>1 DEF RemInv, RemShape
  <2> QED
    BY <1>1, <2>1, <2>2, <2>3, RemUntouched
<1>2. CASE UNCHANGED Reminder!vars
  BY <1>1, <1>2 DEF Reminder!vars
<1>3. CASE (\E e \in DOMAIN OfReminders.Made : Reminder!ScoreEvent(e)) \/ Reminder!SaveScores
  BY <1>1, <1>3 DEF Reminder!ScoreEvent, Reminder!SaveScores
<1>4. CASE \E d \in OfReminders.Todos : Reminder!Delete(d)
  BY <1>1, <1>4 DEF Reminder!Delete
<1> QED
  BY <1>2, <1>3, <1>4, Lists, Commits, Applies, Saves, Presses, Ticks DEF Reminder!Next

LEMMA RemHolds ==
    ASSUME Reminder!ConstantsOK, RemInv
    PROVE  Reminder!ThresholdHolds /\ Reminder!QuietIsAnInterval
<1>1. Reminder!ThresholdHolds
  <2>1. SUFFICES ASSUME ~rem_shared, NEW t \in OfReminders.Times
                 PROVE  Reminder!Cardinality({e \in Reminder!Logged :
                            Reminder!Sent(e).at \div 24 = t \div 24}) <= rem_peak
    BY DEF Reminder!ThresholdHolds
  <2>2. t \div 24 \in Nat
    BY Days DEF Reminder!ConstantsOK
  <2>3. Cardinality(OfDay(t \div 24)) <= rem_peak
    BY <2>1, <2>2 DEF RemInv, RemFits
  <2> QED
    BY <2>3 DEF OfDay, Reminder!Cardinality, Cardinality
<1>2. Reminder!QuietIsAnInterval
  <2>1. /\ Reminder!Preferences.from \in 0 .. 23 /\ Reminder!Preferences.until \in 0 .. 23
        /\ Reminder!Hour \in 0 .. 23
    <3>1. rem_now \in Nat
      BY DEF RemInv, RemShape
    <3> QED
      BY <3>1, Days DEF RemInv, RemPrefers, Reminder!Preferences, Reminder!Defaults,
                        Reminder!Hour
  <2> DEFINE hours == {Reminder!Preferences.from, Reminder!Preferences.until, 0, 12}
  <2>2. hours \subseteq 0 .. 23
    BY <2>1
  <2>3. SUFFICES ASSUME NEW from \in hours, NEW until \in hours
                 PROVE  Reminder!IsQuiet(from, until, Reminder!Hour) <=>
                            \E k \in 1 .. (until - from) % 24 :
                                Reminder!Hour = (from + k - 1) % 24
    BY Zenon DEF Reminder!QuietIsAnInterval
  <2> HIDE DEF hours
  <2>4. from \in 0 .. 23 /\ until \in 0 .. 23
    BY <2>2
  <2> QED
    BY <2>1, <2>4, QuietHours, Zenon
<1> QED
  BY <1>1, <1>2

----------------------------------------------------------------------------
(* Types: tokens, model calls, limits *)

\* A token is cached or not and alive or not, the lock is a call's or free, and a
\* call other than JSON makes a second attempt only with its one new token.
TokenTypes ==
    /\ token_access \in {"none", "live", "dead"} /\ token_refresh \in {"none", "live", "dead"}
    /\ token_lock \in OfTokens.Calls \cup {Token!Free}
    /\ \A c \in OfTokens.Calls :
           /\ token_call[c].attempt \in 0 .. OfTokens.MaxRetries
           /\ token_call[c].kind # "json" /\ ~token_call[c].again => token_call[c].attempt = 0

LEMMA TokenTypesInit == ASSUME Token!ConstantsOK, Token!Init PROVE TokenTypes
  BY DEF Token!ConstantsOK, Token!Init, TokenTypes, Token!Unused

LEMMA TokenTypesNext ==
    ASSUME Token!ConstantsOK, TokenInv, TokenTypes, [Token!Next]_(Token!vars)
    PROVE  TokenTypes'
<1> USE DEF TokenTypes, TokenInv, TokenShape, TokenOneCall, Token!At, Token!Goto,
            Token!token, Token!ConstantsOK
<1>1. ASSUME NEW c \in OfTokens.Calls, NEW k \in Token!Kinds, Token!Begin(c, k)
      PROVE  TokenTypes'
  BY <1>1 DEF Token!Begin, Token!Unused, Token!Kinds
<1>2. ASSUME NEW c \in OfTokens.Calls, Token!Return(c) PROVE TokenTypes'
  BY <1>2 DEF Token!Return, Token!Unused
<1>3. ASSUME NEW c \in OfTokens.Calls, Token!Ensure(c) PROVE TokenTypes'
  BY <1>3 DEF Token!Ensure
<1>4. ASSUME NEW c \in OfTokens.Calls, Token!Lock(c) PROVE TokenTypes'
  BY <1>4 DEF Token!Lock
<1>5. ASSUME NEW c \in OfTokens.Calls, Token!Renew(c) PROVE TokenTypes'
  BY <1>5 DEF Token!Renew
<1>6. ASSUME NEW c \in OfTokens.Calls, Token!Refresh(c) PROVE TokenTypes'
  BY <1>5, <1>6 DEF Token!Refresh
<1>7. ASSUME NEW c \in OfTokens.Calls, Token!Activate(c) PROVE TokenTypes'
  BY <1>5, <1>7 DEF Token!Activate
<1>8. ASSUME NEW c \in OfTokens.Calls, Token!GiveUp(c) \/ Token!Accept(c)
      PROVE  TokenTypes'
  BY <1>8 DEF Token!GiveUp, Token!Accept
<1>9. ASSUME NEW c \in OfTokens.Calls, Token!Refuse(c) PROVE TokenTypes'
  <2>1. CASE Token!MayRenew(c)
    <3>1. token_call[c].attempt = 0
      BY <2>1 DEF Token!MayRenew
    <3> QED
      BY <1>9, <2>1, <3>1 DEF Token!Refuse
  <2>2. CASE ~Token!MayRenew(c)
    BY <1>9, <2>2 DEF Token!Refuse
  <2> QED
    BY <2>1, <2>2
<1>10. ASSUME NEW c \in OfTokens.Calls, Token!Disturb(c) PROVE TokenTypes'
  BY <1>10 DEF Token!Disturb
<1>11. CASE Token!BecomeDue \/ Token!Lapse \/ Token!LapseRefresh \/ Token!Withdraw
            \/ UNCHANGED Token!vars
  BY <1>11 DEF Token!BecomeDue, Token!Lapse, Token!LapseRefresh, Token!Withdraw, Token!vars
<1> QED
  BY <1>1, <1>2, <1>3, <1>4, <1>6, <1>7, <1>8, <1>9, <1>10, <1>11 DEF Token!Next

----------------------------------------------------------------------------

ModelEntries == [prompt : OfCalls.Prompts, value : {"empty", "answer"}]
ModelTypes ==
    /\ model_redis \in [OfCalls.Prompts -> {"none", "empty", "answer"}]
    /\ model_memory \in Seq(ModelEntries) /\ Len(model_memory) <= OfCalls.MemorySize
    /\ \A c \in OfCalls.Callers :
           /\ model_call[c].tokens \in 1 .. OfCalls.MaxTokens
           /\ model_call[c].at # "idle" => model_call[c].prompt \in OfCalls.Prompts

\* Taking an entry out of a sequence leaves a shorter one.
LEMMA RemovesOne ==
    ASSUME NEW S, NEW m \in Seq(S), NEW i \in DOMAIN m
    PROVE  Model!RemoveAt(m, i) \in Seq(S) /\ Len(Model!RemoveAt(m, i)) = Len(m) - 1
<1>1. i \in 1 .. Len(m) /\ Len(m) \in Nat
  OBVIOUS
<1> DEFINE a == SubSeq(m, 1, i - 1)
           b == SubSeq(m, i + 1, Len(m))
<1>2. a \in Seq(S) /\ Len(a) = i - 1 /\ b \in Seq(S) /\ Len(b) = Len(m) - i
  BY <1>1
<1>3. Model!RemoveAt(m, i) = a \o b
  BY DEF Model!RemoveAt
<1> HIDE DEF a, b
<1>4. a \o b \in Seq(S) /\ Len(a \o b) = Len(a) + Len(b)
  BY <1>2, ConcatProperties
<1> QED
  BY <1>1, <1>2, <1>3, <1>4

LEMMA WithoutTyped ==
    ASSUME NEW m \in Seq(ModelEntries), NEW p
    PROVE  Model!Without(m, p) \in Seq(ModelEntries) /\ Len(Model!Without(m, p)) <= Len(m)
<1>1. CASE Model!Hits(m, p) = {}
  BY <1>1 DEF Model!Without
<1>2. CASE Model!Hits(m, p) # {}
  <2> DEFINE i == CHOOSE j \in Model!Hits(m, p) : TRUE
  <2>1. i \in DOMAIN m
    BY <1>2 DEF Model!Hits
  <2>2. Model!Without(m, p) = Model!RemoveAt(m, i)
    BY <1>2 DEF Model!Without
  <2> HIDE DEF i
  <2> QED
    BY <2>1, <2>2, RemovesOne
<1> QED
  BY <1>1, <1>2

LEMMA PutTyped ==
    ASSUME Model!ConstantsOK, NEW m \in Seq(ModelEntries), Len(m) <= OfCalls.MemorySize,
           NEW p \in OfCalls.Prompts, NEW v \in {"empty", "answer"}
    PROVE  /\ Model!Put(m, p, v) \in Seq(ModelEntries)
           /\ Len(Model!Put(m, p, v)) <= OfCalls.MemorySize
<1> DEFINE w == Model!Without(m, p)
           e == [prompt |-> p, value |-> v]
           new == Append(w, e)
<1>1. w \in Seq(ModelEntries) /\ Len(w) <= Len(m) /\ e \in ModelEntries
  BY WithoutTyped DEF ModelEntries
<1>2. Model!Put(m, p, v) = IF Len(new) > OfCalls.MemorySize THEN Tail(new) ELSE new
  BY DEF Model!Put
<1>3. OfCalls.MemorySize \in Nat \ {0}
  BY DEF Model!ConstantsOK
<1> HIDE DEF w, e
<1>4. new \in Seq(ModelEntries) /\ Len(new) = Len(w) + 1 /\ Len(w) \in Nat
  BY <1>1
<1>5. new # <<>>
  BY <1>4
<1>6. Tail(new) \in Seq(ModelEntries) /\ Len(Tail(new)) = Len(new) - 1
  <2> HIDE DEF new
  <2> QED
    BY <1>4, <1>5
<1> HIDE DEF new
<1> QED
  BY <1>1, <1>2, <1>3, <1>4, <1>6

LEMMA RecallTyped ==
    ASSUME ModelTypes, NEW p
    PROVE  Model!Recall(p) \in {"none", "empty", "answer"}
<1>1. CASE Model!Hits(model_memory, p) = {}
  BY <1>1 DEF Model!Recall
<1>2. CASE Model!Hits(model_memory, p) # {}
  <2> DEFINE i == CHOOSE j \in Model!Hits(model_memory, p) : TRUE
  <2>1. i \in DOMAIN model_memory
    BY <1>2 DEF Model!Hits
  <2>2. Model!Recall(p) = model_memory[i].value
    BY <1>2 DEF Model!Recall
  <2> HIDE DEF i
  <2>3. model_memory[i] \in ModelEntries
    BY <2>1, RowsOf DEF ModelTypes
  <2> QED
    BY <2>2, <2>3 DEF ModelEntries
<1> QED
  BY <1>1, <1>2

LEMMA ModelTypesInit == ASSUME Model!ConstantsOK, Model!Init PROVE ModelTypes
<1>1. <<>> \in Seq(ModelEntries) /\ Len(<<>>) = 0
  OBVIOUS
<1> QED
  BY <1>1 DEF Model!ConstantsOK, Model!Init, ModelTypes, Model!Idle

\* A call that takes a typed state keeps the types.
LEMMA SetTyped ==
    ASSUME ModelInv, ModelTypes, NEW c \in OfCalls.Callers, NEW r, Model!Set(c, r),
           r.tokens \in 1 .. OfCalls.MaxTokens, r.at # "idle" => r.prompt \in OfCalls.Prompts,
           model_redis' \in [OfCalls.Prompts -> {"none", "empty", "answer"}],
           model_memory' \in Seq(ModelEntries), Len(model_memory') <= OfCalls.MemorySize
    PROVE  ModelTypes'
  BY DEF ModelInv, ModelTypes, Model!Set

LEMMA ModelTypesNext ==
    ASSUME Model!ConstantsOK, ModelInv, ModelTypes, [Model!Next]_(Model!vars)
    PROVE  ModelTypes'
<1>0. /\ {OfCalls.MaxTokens, OfCalls.MemorySize} \subseteq Nat \ {0}
      /\ \A c \in OfCalls.Callers : Counted(model_call[c])
      /\ model_redis \in [OfCalls.Prompts -> {"none", "empty", "answer"}]
      /\ model_memory \in Seq(ModelEntries) /\ Len(model_memory) <= OfCalls.MemorySize
  BY DEF Model!ConstantsOK, ModelInv, ModelTypes
<1>1. ASSUME NEW c \in OfCalls.Callers, NEW p \in OfCalls.Prompts, Model!Begin(c, p)
      PROVE  ModelTypes'
  <2> DEFINE r == [Model!Idle EXCEPT !.at = "look", !.prompt = p]
  <2>1. r.tokens = 1 /\ r.prompt = p
    BY DEF Model!Idle
  <2>2. Model!Set(c, r) /\ UNCHANGED <<model_redis, model_memory>>
    BY <1>1 DEF Model!Begin
  <2> HIDE DEF r
  <2> QED
    BY <1>0, <2>1, <2>2, SetTyped
<1>2. ASSUME NEW c \in OfCalls.Callers, Model!Look(c) PROVE ModelTypes'
  <2> DEFINE p == model_call[c].prompt
             v == Model!Cached(p)
             r == [model_call[c] EXCEPT
                     !.at = IF Model!Usable(v) THEN "done"
                            ELSE IF v = "empty" THEN "purge" ELSE "ask",
                     !.result = IF Model!Usable(v) THEN v ELSE "none"]
  <2>1. /\ model_call[c].at = "look" /\ Model!Set(c, r) /\ UNCHANGED model_redis
        /\ model_memory' = IF Model!FromMemory(p) THEN Model!Put(model_memory, p, v)
                           ELSE model_memory
    BY <1>2 DEF Model!Look, Model!At
  <2>2. p \in OfCalls.Prompts /\ model_call[c].tokens \in 1 .. OfCalls.MaxTokens
    BY <2>1 DEF ModelTypes
  <2>3. r.tokens = model_call[c].tokens /\ r.prompt = p
    BY <1>0 DEF Counted
  <2>4. Model!FromMemory(p) => v \in {"empty", "answer"}
    BY RecallTyped DEF Model!FromMemory, Model!Cached
  <2> HIDE DEF p, v, r
  <2>5. model_memory' \in Seq(ModelEntries) /\ Len(model_memory') <= OfCalls.MemorySize
    BY <1>0, <2>1, <2>2, <2>4, PutTyped
  <2> QED
    BY <1>0, <2>1, <2>2, <2>3, <2>5, SetTyped
<1>3. ASSUME NEW c \in OfCalls.Callers, Model!Purge(c) PROVE ModelTypes'
  <2> DEFINE p == model_call[c].prompt
             r == [model_call[c] EXCEPT !.at = "ask"]
  <2>1. /\ model_call[c].at = "purge" /\ Model!Set(c, r)
        /\ model_redis' = IF model_up THEN [model_redis EXCEPT ![p] = "none"] ELSE model_redis
        /\ model_memory' = Model!Without(model_memory, p)
    BY <1>3 DEF Model!Purge, Model!At
  <2>2. p \in OfCalls.Prompts /\ model_call[c].tokens \in 1 .. OfCalls.MaxTokens
    BY <2>1 DEF ModelTypes
  <2>3. r.tokens = model_call[c].tokens /\ r.prompt = p
    BY <1>0 DEF Counted
  <2> HIDE DEF p, r
  <2>4. /\ model_memory' \in Seq(ModelEntries) /\ Len(model_memory') <= OfCalls.MemorySize
        /\ model_redis' \in [OfCalls.Prompts -> {"none", "empty", "answer"}]
    BY <1>0, <2>1, <2>2, WithoutTyped
  <2> QED
    BY <1>0, <2>1, <2>2, <2>3, <2>4, SetTyped
<1>4. ASSUME NEW c \in OfCalls.Callers, Model!At(c, "ask")
      PROVE  /\ Model!Tried(c).prompt = model_call[c].prompt
             /\ Model!Tried(c).tokens = model_call[c].tokens
             /\ {"at", "prompt", "tokens", "result"} \subseteq DOMAIN Model!Tried(c)
             /\ model_call[c].prompt \in OfCalls.Prompts
             /\ model_call[c].tokens \in 1 .. OfCalls.MaxTokens
  BY <1>0, <1>4 DEF Model!Tried, Counted, Model!At, ModelTypes
<1>5. ASSUME NEW c \in OfCalls.Callers, Model!Answered(c) \/ Model!QuotaExceeded(c)
      PROVE  ModelTypes'
  <2> DEFINE t == Model!Tried(c)
  <2>1. /\ Model!At(c, "ask") /\ UNCHANGED <<model_redis, model_memory>>
        /\ \/ Model!Set(c, [t EXCEPT !.at = "store", !.result = "answer"])
           \/ Model!Set(c, [t EXCEPT !.at = "quota"])
    BY <1>5 DEF Model!Answered, Model!QuotaExceeded
  <2>2. /\ t.prompt \in OfCalls.Prompts /\ t.tokens \in 1 .. OfCalls.MaxTokens
        /\ {"at", "prompt", "tokens", "result"} \subseteq DOMAIN t
    BY <1>4, <2>1
  <2> HIDE DEF t
  <2> DEFINE a == [t EXCEPT !.at = "store", !.result = "answer"]
             q == [t EXCEPT !.at = "quota"]
  <2>3. /\ a.prompt = t.prompt /\ a.tokens = t.tokens
        /\ q.prompt = t.prompt /\ q.tokens = t.tokens
    BY <2>2
  <2> HIDE DEF a, q
  <2> QED
    BY <1>0, <2>1, <2>2, <2>3, SetTyped DEF a, q
<1>6. ASSUME NEW c \in OfCalls.Callers, NEW n \in 1 .. OfCalls.MaxTokens,
             Model!At(c, "ask"), Model!Failed(c, n),
             UNCHANGED <<model_redis, model_memory>>
      PROVE  ModelTypes'
  <2> DEFINE t == Model!Tried(c)
             place == IF model_call[c].attempt < OfCalls.MaxRetries - 1 THEN "ask" ELSE "failed"
             r == [t EXCEPT !.at = place, !.tokens = n]
  <2>1. t.prompt \in OfCalls.Prompts /\ {"at", "prompt", "tokens", "result"} \subseteq DOMAIN t
    BY <1>4, <1>6
  <2>2. Model!Set(c, r)
    BY <1>6, Zenon DEF Model!Failed
  <2> HIDE DEF t, place
  <2>3. r.prompt = t.prompt /\ r.tokens = n
    BY <2>1
  <2> HIDE DEF r
  <2> QED
    BY <1>0, <1>6, <2>1, <2>2, <2>3, SetTyped
<1>7. ASSUME NEW c \in OfCalls.Callers, Model!Disturbed(c) \/ Model!EmptyContent(c)
      PROVE  ModelTypes'
  <2> DEFINE twice == 2 * model_call[c].tokens
             more == IF twice < OfCalls.MaxTokens THEN twice ELSE OfCalls.MaxTokens
  <2>1. /\ Model!At(c, "ask") /\ UNCHANGED <<model_redis, model_memory>>
        /\ Model!Failed(c, model_call[c].tokens) \/ Model!Failed(c, more)
    BY <1>7 DEF Model!Disturbed, Model!EmptyContent
  <2>2. model_call[c].tokens \in 1 .. OfCalls.MaxTokens /\ more \in 1 .. OfCalls.MaxTokens
    BY <1>0, <1>4, <2>1
  <2> HIDE DEF more
  <2> QED
    BY <1>6, <2>1, <2>2
<1>8. ASSUME NEW c \in OfCalls.Callers, Model!Store(c) PROVE ModelTypes'
  <2> DEFINE p == model_call[c].prompt
             r == [model_call[c] EXCEPT !.at = "done"]
  <2>1. /\ model_call[c].at = "store" /\ Model!Set(c, r)
        /\ model_redis' = IF model_up THEN [model_redis EXCEPT ![p] = "answer"] ELSE model_redis
        /\ model_memory' = IF model_up THEN model_memory ELSE Model!Put(model_memory, p, "answer")
    BY <1>8 DEF Model!Store, Model!At
  <2>2. p \in OfCalls.Prompts /\ model_call[c].tokens \in 1 .. OfCalls.MaxTokens
    BY <2>1 DEF ModelTypes
  <2>3. r.tokens = model_call[c].tokens /\ r.prompt = p
    BY <1>0 DEF Counted
  <2> HIDE DEF p, r
  <2>4. /\ model_memory' \in Seq(ModelEntries) /\ Len(model_memory') <= OfCalls.MemorySize
        /\ model_redis' \in [OfCalls.Prompts -> {"none", "empty", "answer"}]
    BY <1>0, <2>1, <2>2, PutTyped
  <2> QED
    BY <1>0, <2>1, <2>2, <2>3, <2>4, SetTyped
<1>9. ASSUME NEW c \in OfCalls.Callers, Model!Return(c) PROVE ModelTypes'
  <2>1. Model!Set(c, Model!Idle) /\ UNCHANGED <<model_redis, model_memory>>
    BY <1>9 DEF Model!Return
  <2>2. Model!Idle.tokens = 1 /\ Model!Idle.at = "idle"
    BY DEF Model!Idle
  <2> QED
    BY <1>0, <2>1, <2>2, SetTyped
<1>10. CASE Model!Toggle \/ \E p \in OfCalls.Prompts : Model!Expire(p)
  <2>1. /\ UNCHANGED model_call
        /\ model_redis' \in [OfCalls.Prompts -> {"none", "empty", "answer"}]
        /\ \/ model_memory' = model_memory
           \/ \E p \in OfCalls.Prompts : model_memory' = Model!Without(model_memory, p)
    BY <1>0, <1>10 DEF Model!Toggle, Model!Expire
  <2>2. model_memory' \in Seq(ModelEntries) /\ Len(model_memory') <= OfCalls.MemorySize
    BY <1>0, <2>1, WithoutTyped
  <2> QED
    BY <2>1, <2>2 DEF ModelTypes
<1>11. CASE UNCHANGED Model!vars
  BY <1>11 DEF Model!vars, ModelTypes
<1> QED
  BY <1>1, <1>2, <1>3, <1>5, <1>7, <1>8, <1>9, <1>10, <1>11 DEF Model!Next

\* What follows of the small parts.
LEMMA SmallTypes ==
    ASSUME Model!ConstantsOK
    PROVE  /\ TokenTypes => Token!TypeOK
           /\ ModelInv /\ ModelTypes => Model!TypeOK
           /\ RateInv => Rate!TypeOK
<1>1. TokenTypes => Token!TypeOK
  BY DEF TokenTypes, Token!TypeOK
<1>2. ModelInv /\ ModelTypes => Model!TypeOK
  BY DEF ModelInv, ModelTypes, Counted, Model!TypeOK
<1>3. RateInv => Rate!TypeOK
  BY DEF RateInv, RateShape, RateWait, Rate!TypeOK
<1> QED
  BY <1>1, <1>2, <1>3

----------------------------------------------------------------------------
(* Types: promises *)

PromiseRowColumns ==
    {"exists", "action", "promisor", "beneficiary", "confirmation", "fulfilment",
     "fulfilled_at", "overdue_at", "status", "properties", "draft"}

\* The columns of a row that hold one of a few values.
PromiseRow(r) ==
    /\ DOMAIN r = PromiseRowColumns
    /\ r.exists = TRUE
    /\ r.action \in Promise!ActionTypes \cup {"none"}
    /\ r.confirmation \in Promise!Answers \cup {"none", "auto_set", "pending"}
    /\ r.fulfilment \in Promise!Fulfilments
    /\ r.status \in {"pending", "dismissed"}
PromiseRowOrNone(r) == r = Promise!Gone \/ PromiseRow(r)

PromiseFinding(f) ==
    f.action \in Promise!ActionTypes /\ f.confirmation \in {"auto_set", "pending"}

PromiseTypes ==
    /\ \A d \in OfPromises.Todos :
           /\ PromiseRowOrNone(prom_todo[d]) /\ PromiseRowOrNone(prom_read[d])
           /\ prom_found[d] = Promise!Nothing \/ PromiseFinding(prom_found[d])
    /\ DOMAIN prom_read = OfPromises.Todos
    /\ prom_at \in {"idle", "analyze", "apply"}
    /\ prom_pc \in [OfPromises.Clients -> {"idle", "write"}]
    /\ \A c \in OfPromises.Clients :
           prom_pc[c] = "write" =>
               prom_request[c] \in Promise!Requests /\ PromiseRow(prom_row[c])
    /\ DOMAIN prom_row = OfPromises.Clients
    /\ prom_runs \in 0 .. OfPromises.MaxRuns /\ prom_sent \in 0 .. OfPromises.MaxRequests

LEMMA FreshRow ==
    ASSUME NEW p PROVE PromiseRow(Promise!Fresh(p))
  BY DEF PromiseRow, Promise!Fresh, PromiseRowColumns, Promise!Fulfilments

LEMMA PromiseTypesInit == ASSUME Promise!ConstantsOK, Promise!Init PROVE PromiseTypes
  BY FreshRow DEF Promise!ConstantsOK, Promise!Init, PromiseTypes, PromiseRowOrNone

\* Whatever rules or the model say, what is found of a todo is an action type.
LEMMA FindsActions ==
    ASSUME NEW d, NEW x \in Promise!Directions(d)
    PROVE  x[1] \in Promise!ActionTypes /\ x[2] \in {"auto_set", "pending"}
<1>1. \A S : Promise!Best(S) \in Promise!ActionTypes
  BY DEF Promise!Best, Promise!Means, Promise!ActionTypes
<1>2. \A t \in DOMAIN Promise!ByType : Promise!ByType[t][1] \in Promise!ActionTypes
  BY DEF Promise!ByType, Promise!ActionTypes
<1> DEFINE T == OfPromises.Type[d]
<1>3. \/ x = <<Promise!Best(OfPromises.Says[d]), "auto_set">>
      \/ x = <<Promise!Best(OfPromises.EventSays), "auto_set">>
      \/ T \in DOMAIN Promise!ByType /\ x = <<Promise!ByType[T][1], "auto_set">>
      \/ x \in Promise!ActionTypes \X {"pending"}
  BY Zenon DEF Promise!Directions
<1> HIDE DEF T
<1> QED
  BY <1>1, <1>2, <1>3

\* What is written of two rows is a row.
LEMMA WrittenRow ==
    ASSUME NEW now, NEW was, NEW new, PromiseRow(now), PromiseRow(new)
    PROVE  PromiseRow(Promise!Written(now, was, new))
<1> DEFINE w == Promise!Written(now, was, new)
<1>1. DOMAIN w = PromiseRowColumns /\ \A c \in PromiseRowColumns : w[c] \in {new[c], now[c]}
  BY WritesColumns DEF PromiseRow
<1> HIDE DEF w
<1>2. /\ w["exists"] \in {new["exists"], now["exists"]}
      /\ w["action"] \in {new["action"], now["action"]}
      /\ w["confirmation"] \in {new["confirmation"], now["confirmation"]}
      /\ w["fulfilment"] \in {new["fulfilment"], now["fulfilment"]}
      /\ w["status"] \in {new["status"], now["status"]}
  BY <1>1 DEF PromiseRowColumns
<1>3. PromiseRow(w)
  BY <1>1, <1>2 DEF PromiseRow
<1> QED
  BY <1>3 DEF w

LEMMA AnalysedRow ==
    ASSUME PromiseTypes, NEW d \in OfPromises.Todos, PromiseRow(prom_read[d])
    PROVE  PromiseRow(Promise!Analysed(d))
<1>1. CASE prom_found[d] = Promise!Nothing
  BY <1>1 DEF Promise!Analysed
<1>2. CASE prom_found[d] # Promise!Nothing
  <2> DEFINE f == prom_found[d]
             r == prom_read[d]
  <2>1. PromiseFinding(f)
    BY <1>2 DEF PromiseTypes
  <2>2. Promise!Analysed(d) =
          [r EXCEPT !.action = f.action, !.promisor = f.roles[1], !.beneficiary = f.roles[2],
                    !.confirmation = f.confirmation,
                    !.fulfilment = IF f.action \in Promise!Promises THEN "pending" ELSE @]
    BY <1>2 DEF Promise!Analysed
  <2> HIDE DEF f, r
  <2> QED
    BY <2>1, <2>2 DEF r, PromiseRow, PromiseRowColumns, PromiseFinding, Promise!Fulfilments
<1> QED
  BY <1>1, <1>2

\* What a request wants of a row is a row.
LEMMA WantedRow ==
    ASSUME NEW q \in Promise!Requests, NEW was, PromiseRow(was)
    PROVE  /\ q.op = "draft" => PromiseRow(Promise!Drafted(was))
           /\ q.op \in {"fulfil", "confirm"} => PromiseRow(Promise!Wanted(q, was))
<1>1. PromiseRow(Promise!Drafted(was))
  BY DEF PromiseRow, PromiseRowColumns, Promise!Drafted
<1>2. CASE q.op = "fulfil"
  <2>1. q.to \in Promise!Fulfilments
    BY <1>2 DEF Promise!Requests
  <2> QED
    BY <1>2, <2>1 DEF PromiseRow, PromiseRowColumns, Promise!Wanted
<1>3. CASE q.op = "confirm"
  <2>1. q.to \in Promise!Answers
    BY <1>3 DEF Promise!Requests
  <2> QED
    BY <1>3, <2>1 DEF PromiseRow, PromiseRowColumns, Promise!Wanted
<1> QED
  BY <1>1, <1>2, <1>3

LEMMA PromiseTypesNext ==
    ASSUME Promise!ConstantsOK, PromiseInv, PromiseTypes, [Promise!Next]_(Promise!vars)
    PROVE  PromiseTypes'
<1> USE DEF PromiseTypes
<1>0. /\ ~Promise!Gone.exists
      /\ \A r : PromiseRow(r) => r.exists
      /\ DOMAIN prom_todo = OfPromises.Todos /\ DOMAIN prom_request = OfPromises.Clients
  BY DEF Promise!Gone, PromiseRow, PromiseInv, PromiseShape
<1>1. CASE Promise!Read
  <2>1. /\ prom_read' = prom_todo /\ prom_at' = "analyze"
        /\ \A d \in OfPromises.Todos : prom_found'[d] = Promise!Nothing
        /\ UNCHANGED <<prom_todo, prom_pc, prom_request, prom_row, prom_sent>>
    BY <1>1 DEF Promise!Read
  <2>2. prom_runs' \in 0 .. OfPromises.MaxRuns
    BY <1>1 DEF Promise!Read, Promise!ConstantsOK
  <2> QED
    BY <1>0, <2>1, <2>2
<1>2. CASE Promise!Analyze
  <2>1. ASSUME NEW d \in OfPromises.Todos
        PROVE  prom_found'[d] = Promise!Nothing \/ PromiseFinding(prom_found'[d])
    <3> DEFINE here == {e \in OfPromises.Todos : prom_read[e].exists}
               outcome(e) == {[action |-> x[1], confirmation |-> x[2],
                               roles |-> Promise!Mapped(e, x[1])] : x \in Promise!Directions(e)}
                             \cup {Promise!Nothing}
    <3>1. \E f \in [here -> UNION {outcome(e) : e \in here}] :
              /\ \A e \in here : f[e] \in outcome(e)
              /\ prom_found' = [e \in OfPromises.Todos |-> IF e \in here THEN f[e]
                                                           ELSE Promise!Nothing]
      BY <1>2, Zenon DEF Promise!Analyze
    <3> HIDE DEF here, outcome
    <3>2. prom_found'[d] = Promise!Nothing \/ prom_found'[d] \in outcome(d)
      BY <3>1
    <3>3. ASSUME NEW x \in Promise!Directions(d)
          PROVE  PromiseFinding([action |-> x[1], confirmation |-> x[2],
                                 roles |-> Promise!Mapped(d, x[1])])
      BY FindsActions DEF PromiseFinding
    <3> QED
      BY <3>2, <3>3 DEF outcome
  <2> QED
    BY <1>2, <2>1 DEF Promise!Analyze
<1>3. CASE Promise!Apply
  <2>1. ASSUME NEW d \in OfPromises.Todos PROVE PromiseRowOrNone(prom_todo'[d])
    <3>1. \/ prom_todo'[d] = prom_todo[d]
          \/ /\ prom_read[d].exists /\ prom_todo[d].exists
             /\ prom_todo'[d] =
                    Promise!Written(prom_todo[d], prom_read[d], Promise!Analysed(d))
      BY <1>3 DEF Promise!Apply
    <3> QED
      BY <1>0, <3>1, AnalysedRow, WrittenRow DEF PromiseRowOrNone
  <2> QED
    BY <1>3, <2>1 DEF Promise!Apply, PromiseRowOrNone
<1>4. CASE Promise!AnalysisFails
  BY <1>4 DEF Promise!AnalysisFails, PromiseRowOrNone
<1>5. ASSUME NEW d \in OfPromises.Todos,
             NEW act \in {"add", "confirm", "ignore", "modify"},
             Promise!Correct(d, act)
      PROVE  PromiseTypes'
  <2>1. \E r : PromiseRow(r) /\ prom_todo' = [prom_todo EXCEPT ![d] = r]
    <3>1. CASE act = "add"
      <4>1. PICK kind \in Promise!Promises :
              prom_todo' = [prom_todo EXCEPT ![d] =
                [Promise!Fresh("none") EXCEPT
                    !.action = kind, !.promisor = Promise!Mapped(d, kind)[1],
                    !.beneficiary = Promise!Mapped(d, kind)[2],
                    !.confirmation = "confirmed"]]
        BY <1>5, <3>1 DEF Promise!Correct
      <4> DEFINE f == Promise!Fresh("none")
      <4>2. PromiseRow(f)
        BY FreshRow
      <4> HIDE DEF f
      <4>3. PromiseRow([f EXCEPT !.action = kind, !.promisor = Promise!Mapped(d, kind)[1],
                    !.beneficiary = Promise!Mapped(d, kind)[2],
                    !.confirmation = "confirmed"])
        BY <4>2 DEF PromiseRow, PromiseRowColumns, Promise!Promises, Promise!ActionTypes,
                    Promise!Answers
      <4> QED
        BY <4>1, <4>3 DEF f
    <3>2. CASE act # "add"
      <4> DEFINE r == prom_todo[d]
                 confirmed == [r EXCEPT !.confirmation = "confirmed"]
                 ignored == [r EXCEPT !.confirmation = "rejected", !.status = "dismissed"]
                 modified(kind) == [r EXCEPT !.action = kind, !.confirmation = "confirmed"]
      <4>1. PromiseRow(r)
        BY <1>0, <1>5, <3>2 DEF Promise!Correct, Promise!Rows, PromiseRowOrNone
      <4>2. \/ act = "confirm" /\ prom_todo' = [prom_todo EXCEPT ![d].confirmation = "confirmed"]
            \/ act = "ignore" /\ prom_todo' = [prom_todo EXCEPT ![d].confirmation = "rejected",
                                                                ![d].status = "dismissed"]
            \/ \E kind \in Promise!Promises :
                 act = "modify" /\ prom_todo' = [prom_todo EXCEPT ![d].action = kind,
                                                 ![d].confirmation = "confirmed"]
        BY <1>5, <3>2 DEF Promise!Correct
      <4>3. \/ prom_todo' = [prom_todo EXCEPT ![d] = confirmed]
            \/ prom_todo' = [prom_todo EXCEPT ![d] = ignored]
            \/ \E kind \in Promise!Promises :
                 prom_todo' = [prom_todo EXCEPT ![d] = modified(kind)]
        BY <1>0, <4>2
      <4> HIDE DEF r
      <4>4. /\ PromiseRow(confirmed) /\ PromiseRow(ignored)
            /\ \A kind \in Promise!Promises : PromiseRow(modified(kind))
        BY <4>1 DEF PromiseRow, PromiseRowColumns, Promise!Promises, Promise!ActionTypes,
                    Promise!Answers
      <4> HIDE DEF confirmed, ignored, modified
      <4> QED
        BY <4>3, <4>4
    <3> QED
      BY <3>1, <3>2
  <2>2. prom_sent \in 0 .. OfPromises.MaxRequests - 1 /\ OfPromises.MaxRequests \in Nat
        /\ prom_sent' = prom_sent + 1
    <3>1. prom_sent < OfPromises.MaxRequests /\ prom_sent' = prom_sent + 1
      BY <1>5, Zenon DEF Promise!Correct
    <3> QED
      BY <3>1 DEF Promise!ConstantsOK
  <2>3. UNCHANGED <<prom_at, prom_read, prom_found, prom_pc, prom_request, prom_row, prom_runs>>
    BY <1>5, Zenon DEF Promise!Correct
  <2> QED
    BY <1>0, <2>1, <2>2, <2>3 DEF PromiseRowOrNone
<1>6. ASSUME NEW c \in OfPromises.Clients, NEW q \in OfPromises.Asked, Promise!Send(c, q)
      PROVE  PromiseTypes'
  <2>1. PromiseRow(prom_todo[q.todo]) /\ q \in Promise!Requests
    BY <1>0, <1>6 DEF Promise!Send, Promise!Rows, PromiseRowOrNone, Promise!ConstantsOK
  <2>2. prom_sent \in 0 .. OfPromises.MaxRequests - 1 /\ OfPromises.MaxRequests \in Nat
        /\ prom_sent' = prom_sent + 1
    BY <1>6 DEF Promise!Send, Promise!ConstantsOK
  <2> QED
    BY <1>0, <1>6, <2>1, <2>2 DEF Promise!Send
<1>7. ASSUME NEW c \in OfPromises.Clients, Promise!Write(c) PROVE PromiseTypes'
  <2> DEFINE q == prom_request[c]
  <2>1. q \in Promise!Requests /\ PromiseRow(prom_row[c])
    BY <1>7 DEF Promise!Write
  <2>2. q.todo \in OfPromises.Todos /\ q.op \in {"fulfil", "confirm", "delete", "draft"}
    BY <2>1 DEF Promise!Requests
  <2>3. \/ prom_todo' = prom_todo
        \/ prom_todo' = [prom_todo EXCEPT ![q.todo] = Promise!Gone]
        \/ /\ q.op # "delete" /\ prom_todo[q.todo].exists
           /\ prom_todo' = [prom_todo EXCEPT ![q.todo] =
                  Promise!Written(prom_todo[q.todo], prom_row[c],
                                  IF q.op = "draft" THEN Promise!Drafted(prom_row[c])
                                  ELSE Promise!Wanted(q, prom_row[c]))]
    BY <1>0, <1>7, <2>2 DEF Promise!Write
  <2>4. UNCHANGED <<prom_at, prom_read, prom_found, prom_runs, prom_sent>>
        /\ prom_pc' = [prom_pc EXCEPT ![c] = "idle"]
        /\ prom_request' = [prom_request EXCEPT ![c] = Promise!NoRequest]
        /\ prom_row' = [prom_row EXCEPT ![c] = Promise!Gone]
    BY <1>7 DEF Promise!Write
  <2> HIDE DEF q
  <2> DEFINE new == IF q.op = "draft" THEN Promise!Drafted(prom_row[c])
                    ELSE Promise!Wanted(q, prom_row[c])
  <2>5. q.op # "delete" => PromiseRow(new)
    BY <2>1, <2>2, WantedRow
  <2> HIDE DEF new
  <2>6. q.op # "delete" /\ prom_todo[q.todo].exists =>
            PromiseRow(Promise!Written(prom_todo[q.todo], prom_row[c], new))
    BY <1>0, <2>2, <2>5, WrittenRow DEF PromiseRowOrNone
  <2>7. \A d \in OfPromises.Todos : PromiseRowOrNone(prom_todo'[d])
    BY <1>0, <2>2, <2>3, <2>6 DEF PromiseRowOrNone, new
  <2> QED
    BY <1>0, <2>4, <2>7
<1>8. CASE UNCHANGED Promise!vars
  BY <1>8 DEF Promise!vars
<1> QED
  BY <1>1, <1>2, <1>3, <1>4, <1>5, <1>6, <1>7, <1>8 DEF Promise!Next

LEMMA PromiseTypeOK == ASSUME PromiseTypes PROVE Promise!TypeOK
  BY DEF PromiseTypes, Promise!TypeOK, Promise!Rows, PromiseRowOrNone, PromiseRow, Promise!Gone

----------------------------------------------------------------------------
(* Types: reminders *)

\* Columns of the reminders, and of what is scored.
RemThresholds == [exists : {TRUE}, threshold : 1 .. 20, from : 0 .. 23, until : 0 .. 23]
RemScores ==
    DOMAIN rem_scoring \subseteq OfReminders.Todos
    /\ \A d \in DOMAIN rem_scoring : rem_scoring[d] \in 0 .. Reminder!TopScore
RemScored == [OfReminders.Todos -> {Reminder!NoScore} \cup 0 .. Reminder!TopScore]
RemStatus == [OfReminders.Todos -> {"pending", "done", "snoozed", "dismissed"}]
RemPlaces ==
    DOMAIN rem_pc = OfReminders.Clients
    /\ \A c \in OfReminders.Clients : rem_pc[c] = "idle" <=> rem_request[c] = Reminder!Idle

RemTypes ==
    /\ rem_status \in RemStatus
    /\ rem_score \in RemScored
    /\ RemScores /\ RemPlaces
    /\ rem_pref = Reminder!NoRow \/ rem_pref \in RemThresholds
    /\ rem_peak \in 5 .. 20

LEMMA RemTypesInit == ASSUME Reminder!ConstantsOK, Reminder!Init PROVE RemTypes
  BY DEF Reminder!ConstantsOK, Reminder!Init, RemTypes, RemScores, RemPlaces, RemStatus,
         RemScored, Reminder!Defaults

\* Whatever is due, a score counts ten thousandths.
LEMMA ScoreCounts ==
    ASSUME Reminder!ConstantsOK, RemInv, NEW d \in OfReminders.Todos
    PROVE  Reminder!Score(d) \in 0 .. Reminder!TopScore
<1>1. rem_now \in Int /\ OfReminders.Priority[d] \in Int
  BY DEF RemInv, RemShape, Reminder!ConstantsOK
<1>2. Reminder!Urgency(d) \in Int
  <2> DEFINE left == OfReminders.Due[d] - rem_now
             slope == (600 * (left - 168)) \div 552
  <2>1. CASE OfReminders.Due[d] = OfReminders.NoDue
    BY <2>1 DEF Reminder!Urgency
  <2>2. CASE OfReminders.Due[d] # OfReminders.NoDue
    <3>1. left \in Int
      BY <1>1, <2>2 DEF Reminder!ConstantsOK
    <3>2. Reminder!Urgency(d) \in {3000, 2700, 2100, 1500, 900, 1500 - slope}
      <4>1. Reminder!Urgency(d) =
              CASE left < 0 -> 3000
               [] left >= 0 /\ left < 24 -> 2700
               [] left >= 24 /\ left <= 72 -> 2100
               [] left > 72 /\ left <= 168 -> 1500
               [] left > 168 /\ left <= 720 -> 1500 - slope
               [] OTHER -> 900
        BY <2>2 DEF Reminder!Urgency
      <4> HIDE DEF left, slope
      <4> QED
        BY <3>1, <4>1
    <3>3. slope \in Int
      <4> HIDE DEF left
      <4> QED
        BY <3>1
    <3> HIDE DEF slope
    <3> QED
      BY <3>2, <3>3
  <2> QED
    BY <2>1, <2>2
<1>3. Reminder!Importance(d) \in Int
  BY DEF Reminder!Importance
<1>4. Reminder!Dependency(d) \in Int
  <2> DEFINE S == {e \in OfReminders.Todos : Reminder!Blocks(d, e)}
  <2>1. S \in SUBSET OfReminders.Todos
    OBVIOUS
  <2>2. Reminder!Dependency(d) =
            IF 300 * Cardinality(S) > 2000 THEN 2000 ELSE 300 * Cardinality(S)
    BY DEF Reminder!Dependency, Reminder!Cardinality, Cardinality
  <2> HIDE DEF S
  <2>3. Cardinality(S) \in Nat
    BY <2>1, ItemsCount
  <2> QED
    BY <2>2, <2>3
<1>5. Reminder!Context(d) \in Int
  BY DEF Reminder!Context
<1> DEFINE sum == Reminder!Urgency(d) + Reminder!Importance(d) + Reminder!Dependency(d)
                  + Reminder!Context(d) + 250 * (3 - OfReminders.Priority[d])
<1>6. sum \in Int
  BY <1>1, <1>2, <1>3, <1>4, <1>5
<1>7. Reminder!Score(d) = IF sum < 0 THEN 0
                          ELSE IF sum > Reminder!TopScore THEN Reminder!TopScore ELSE sum
  BY DEF Reminder!Score
<1>8. Reminder!TopScore \in Int /\ Reminder!TopScore >= 0
  BY DEF Reminder!TopScore
<1> HIDE DEF sum
<1>9. CASE sum < 0
  BY <1>7, <1>8, <1>9
<1>10. CASE sum > Reminder!TopScore
  BY <1>6, <1>7, <1>8, <1>10
<1>11. CASE sum \in 0 .. Reminder!TopScore
  BY <1>7, <1>8, <1>11
<1> QED
  BY <1>6, <1>8, <1>9, <1>10, <1>11

LEMMA SendPlaces ==
    ASSUME RemInv, RemPlaces, NEW c \in OfReminders.Clients, NEW op, NEW read,
           Reminder!Send(c, op, read), op # Reminder!Idle
    PROVE  RemPlaces'
  BY DEF RemInv, RemShape, RemPlaces, Reminder!Send

LEMMA ReturnPlaces ==
    ASSUME RemInv, RemPlaces, NEW c \in OfReminders.Clients, Reminder!Return(c)
    PROVE  RemPlaces'
  BY DEF RemInv, RemShape, RemPlaces, Reminder!Return

LEMMA RemTypesNext ==
    ASSUME Reminder!ConstantsOK, RemInv, RemTypes, [Reminder!Next]_(Reminder!vars)
    PROVE  RemTypes'
<1>0. /\ rem_status \in RemStatus
      /\ rem_score \in RemScored
      /\ RemScores /\ RemPlaces
      /\ rem_pref = Reminder!NoRow \/ rem_pref \in RemThresholds
      /\ rem_peak \in 5 .. 20
  BY DEF RemTypes
\* What the clients are about to do is typed by its own lemmas.
<1>a. ASSUME UNCHANGED <<rem_pc, rem_request>> PROVE RemPlaces'
  BY <1>0, <1>a DEF RemPlaces
<1>b. ASSUME UNCHANGED rem_scoring PROVE RemScores'
  BY <1>0, <1>b DEF RemScores
<1>c. ASSUME RemPlaces', RemScores', rem_status' \in RemStatus,
              rem_score' \in RemScored,
              rem_pref' = Reminder!NoRow \/ rem_pref' \in RemThresholds,
              rem_peak' \in 5 .. 20
       PROVE  RemTypes'
  BY <1>c DEF RemTypes
<1>1. ASSUME NEW e \in DOMAIN OfReminders.Made, Reminder!ScoreEvent(e) PROVE RemTypes'
  <2>1. /\ \E S \in SUBSET {d \in rem_rows : OfReminders.EventOf[d] = e} :
               rem_scoring' = [d \in S |-> Reminder!Score(d)]
        /\ UNCHANGED <<rem_status, rem_score, rem_pref, rem_pc, rem_request, rem_peak>>
    BY <1>1 DEF Reminder!ScoreEvent
  <2>2. PICK S \in SUBSET OfReminders.Todos : rem_scoring' = [d \in S |-> Reminder!Score(d)]
    BY <2>1 DEF RemInv, RemShape
  <2>3. DOMAIN rem_scoring' = S /\ \A d \in S : rem_scoring'[d] = Reminder!Score(d)
    BY <2>2
  <2>4. \A d \in S : Reminder!Score(d) \in 0 .. Reminder!TopScore
    BY ScoreCounts
  <2>5. RemScores'
    BY <2>3, <2>4 DEF RemScores
  <2> QED
    BY <1>0, <1>a, <1>c, <2>1, <2>5
<1>2. CASE Reminder!SaveScores
  <2>1. /\ rem_scoring' = <<>>
        /\ rem_score' = rem_score
           \/ rem_score' = [d \in OfReminders.Todos |->
                  IF d \in DOMAIN rem_scoring THEN rem_scoring[d] ELSE rem_score[d]]
        /\ UNCHANGED <<rem_status, rem_pref, rem_pc, rem_request, rem_peak>>
    BY <1>2 DEF Reminder!SaveScores
  <2>2. rem_score' \in RemScored
    <3>1. \A d \in DOMAIN rem_scoring : rem_scoring[d] \in 0 .. Reminder!TopScore
      BY <1>0 DEF RemScores
    <3> QED
      BY <1>0, <2>1, <3>1 DEF RemScored
  <2>3. RemScores'
    BY <2>1 DEF RemScores
  <2> QED
    BY <1>0, <1>a, <1>c, <2>1, <2>2, <2>3
<1>3. ASSUME NEW c \in OfReminders.Clients, Reminder!List(c) PROVE RemTypes'
  <2>1. /\ \E read : Reminder!Send(c, [op |-> "daily"], read)
        /\ UNCHANGED <<rem_status, rem_score, rem_pref, rem_scoring, rem_peak>>
    BY <1>3 DEF Reminder!List
  <2>2. [op |-> "daily"] # Reminder!Idle
    <3>1. [op |-> "daily"].op # Reminder!Idle.op
      BY DEF Reminder!Idle
    <3> QED
      BY <3>1
  <2> QED
    BY <1>0, <1>b, <1>c, <2>1, <2>2, SendPlaces
<1>4. ASSUME NEW c \in OfReminders.Clients, NEW q \in OfReminders.Asked,
             Reminder!Press(c, q) \/ Reminder!Prefer(c, q)
      PROVE  RemTypes'
  <2>1. /\ \E read : Reminder!Send(c, q, read)
        /\ rem_status' = rem_status /\ rem_score' = rem_score /\ rem_pref' = rem_pref
        /\ rem_scoring' = rem_scoring /\ rem_peak' = rem_peak
    BY <1>4, Zenon DEF Reminder!Press, Reminder!Prefer
  <2>2. q # Reminder!Idle
    <3>1. q.op # Reminder!Idle.op
      BY DEF Reminder!Idle, Reminder!ConstantsOK
    <3> QED
      BY <3>1
  <2> QED
    BY <1>0, <1>b, <1>c, <2>1, <2>2, SendPlaces
<1>5. ASSUME NEW c \in OfReminders.Clients, Reminder!LogList(c) PROVE RemTypes'
  <2>1. /\ Reminder!Return(c)
        /\ UNCHANGED <<rem_status, rem_score, rem_pref, rem_scoring, rem_peak>>
    BY <1>5 DEF Reminder!LogList
  <2> QED
    BY <1>0, <1>b, <1>c, <2>1, ReturnPlaces
<1>6. ASSUME NEW c \in OfReminders.Clients, Reminder!Apply(c) PROVE RemTypes'
  <2>1. /\ rem_request[c].op \in {"action", "batch"} /\ Reminder!Return(c)
        /\ UNCHANGED <<rem_score, rem_pref, rem_scoring, rem_peak>>
        /\ \/ rem_status' = rem_status
           \/ \E S : rem_status' = [d \in OfReminders.Todos |->
                  IF d \in S THEN Reminder!Ends[rem_request[c].action] ELSE rem_status[d]]
    <3>1. /\ rem_request[c].op \in {"action", "batch"} /\ Reminder!Return(c)
          /\ UNCHANGED <<rem_score, rem_pref, rem_scoring, rem_peak>>
          /\ \/ rem_status' = rem_status
             \/ rem_status' = [d \in OfReminders.Todos |->
                    IF d \in Reminder!Changed(c)
                       /\ rem_seen[c].was[d] # Reminder!Ends[rem_request[c].action]
                    THEN Reminder!Ends[rem_request[c].action] ELSE rem_status[d]]
      BY <1>6 DEF Reminder!Apply
    <3> DEFINE S == {d \in OfReminders.Todos : d \in Reminder!Changed(c)
                       /\ rem_seen[c].was[d] # Reminder!Ends[rem_request[c].action]}
    <3>2. \/ rem_status' = rem_status
          \/ rem_status' = [d \in OfReminders.Todos |->
                    IF d \in S THEN Reminder!Ends[rem_request[c].action] ELSE rem_status[d]]
      BY <3>1
    <3> HIDE DEF S
    <3> QED
      BY <3>1, <3>2
  <2>2. Reminder!Ends[rem_request[c].action] \in {"done", "snoozed", "dismissed"}
    BY <2>1 DEF RemInv, RemShape, Reminder!Idle, Reminder!ConstantsOK, Reminder!Ends
  <2>3. rem_status' \in RemStatus
    BY <1>0, <2>1, <2>2 DEF RemStatus
  <2> QED
    BY <1>0, <1>b, <1>c, <2>1, <2>3, ReturnPlaces
<1>7. ASSUME NEW c \in OfReminders.Clients, Reminder!SavePreferences(c) PROVE RemTypes'
  <2>1. /\ rem_request[c].op = "prefer" /\ Reminder!Return(c)
        /\ UNCHANGED <<rem_status, rem_score, rem_scoring>>
        /\ \/ rem_pref' = rem_pref /\ rem_peak' = rem_peak
           \/ /\ rem_request[c].valid
              /\ rem_pref' = Reminder!Given(rem_request[c].fields, Reminder!Preferences)
              /\ rem_peak' = IF rem_pref'.threshold > rem_peak THEN rem_pref'.threshold
                             ELSE rem_peak
    BY <1>7 DEF Reminder!SavePreferences
  <2>2. CASE /\ rem_request[c].valid
             /\ rem_pref' = Reminder!Given(rem_request[c].fields, Reminder!Preferences)
             /\ rem_peak' = IF rem_pref'.threshold > rem_peak THEN rem_pref'.threshold
                            ELSE rem_peak
    <3> DEFINE new == rem_request[c].fields
               old == Reminder!Preferences
    <3>1. new \in [threshold : 0 .. 20, from : 0 .. 24, until : 0 .. 24]
      <4>1. rem_request[c] \in OfReminders.Asked
        BY <2>1 DEF RemInv, RemShape, Reminder!Idle
      <4> QED
        BY <2>1, <2>2, <4>1 DEF Reminder!ConstantsOK
    <3>2. old \in RemThresholds
      <4>1. Reminder!Defaults \in RemThresholds
        BY DEF RemThresholds, Reminder!Defaults
      <4>2. ~Reminder!NoRow.exists
        BY DEF Reminder!NoRow
      <4> QED
        BY <1>0, <4>1, <4>2 DEF Reminder!Preferences
    <3> HIDE DEF new, old
    <3>3. rem_pref' \in RemThresholds
      BY <2>2, <3>1, <3>2 DEF Reminder!Given, RemThresholds, new, old
    <3>4. rem_peak' \in 5 .. 20
      BY <1>0, <2>2, <3>3 DEF RemThresholds
    <3> QED
      BY <1>0, <1>b, <1>c, <2>1, <3>3, <3>4, ReturnPlaces
  <2>3. CASE rem_pref' = rem_pref /\ rem_peak' = rem_peak
    BY <1>0, <1>b, <1>c, <2>1, <2>3, ReturnPlaces
  <2> QED
    BY <2>1, <2>2, <2>3
<1>8. CASE \/ \E d \in OfReminders.Todos : Reminder!Delete(d)
           \/ Reminder!Tick \/ UNCHANGED Reminder!vars
  <2>1. UNCHANGED <<rem_status, rem_score, rem_pref, rem_pc, rem_request, rem_scoring,
                    rem_peak>>
    BY <1>8 DEF Reminder!Delete, Reminder!Tick, Reminder!vars
  <2> QED
    BY <1>0, <1>a, <1>b, <1>c, <2>1
<1> QED
  BY <1>1, <1>2, <1>3, <1>4, <1>5, <1>6, <1>7, <1>8, Zenon DEF Reminder!Next

LEMMA RemTypeOK == ASSUME RemInv, RemTypes PROVE Reminder!TypeOK
<1>1. \A d \in OfReminders.Todos : \A i \in DOMAIN rem_log[d] :
          rem_log[d][i] \in [at : OfReminders.Times, taken : {"none"} \cup DOMAIN Reminder!Ends]
  <2>1. ASSUME NEW d \in OfReminders.Todos, NEW i \in DOMAIN rem_log[d]
        PROVE  rem_log[d][i] \in [at : RemAt, taken : RemAnswers]
    <3> DEFINE R == [at : RemAt, taken : RemAnswers]
    <3>1. rem_log[d] \in Seq(R)
      BY DEF RemInv, RemShape
    <3> HIDE DEF R
    <3>2. rem_log[d][i] \in R
      BY <3>1, RowsOf
    <3> QED
      BY <3>2 DEF R
  <2> QED
    BY <2>1 DEF RemAnswers, Reminder!Ends
<1> QED
  BY <1>1 DEF RemInv, RemShape, RemTypes, RemStatus, RemScores, RemPlaces, RemThresholds,
              RemScored, Reminder!TypeOK

----------------------------------------------------------------------------
(* Types: briefs *)

\* What a brief says, and one that is written: it suggests something.
BriefActions ==
    (STRING \cup {"keep", "ask", "keep in touch"})
        \X (OfBriefs.Todos \cup {OfBriefs.Nobody})
BriefData(d) ==
    /\ DOMAIN d = DOMAIN Brief!Blank
    /\ d.notes \in {""} \cup OfBriefs.Notes
    /\ d.count \in Nat /\ d.strength \in 0 .. 100
    /\ d.mine \subseteq OfBriefs.Todos /\ d.theirs \subseteq OfBriefs.Todos
    /\ DOMAIN d.learned = Brief!Learned
    /\ \A k \in Brief!Learned : IsFiniteSet(d.learned[k])
    /\ d.actions \in Seq(BriefActions) /\ Len(d.actions) <= 5
BriefWritten(d) == BriefData(d) /\ d.actions # <<>>
BriefTyped(b) == b.version # 0 => BriefData(b.data)

\* What an edit gives.
BriefGiven(e) ==
    /\ e.notes # <<>> => e.notes[1] \in {""} \cup OfBriefs.Notes
    /\ e.concerns # <<>> => IsFiniteSet(e.concerns[1])

\* Committed rows, rows as they were read, and rows that are held.
BriefRows ==
    /\ \A p \in OfBriefs.People :
           brief_brief[p].version # 0 => BriefWritten(brief_brief[p].data)
    /\ \A w \in Brief!Writers : BriefTyped(brief_read[w])
    /\ \A p \in DOMAIN brief_held :
           BriefWritten(brief_held[p].data) /\ BriefTyped(brief_held[p].base)

\* Whom a writer is at, and with what.
BriefWork ==
    /\ DOMAIN brief_whom = Brief!Writers /\ DOMAIN brief_todos = Brief!Writers
    /\ \A w \in Brief!Writers : brief_todos[w] \subseteq OfBriefs.Todos
    /\ \A r \in OfBriefs.Steps :
           brief_pc[r] \in {"insert", "update"} => brief_whom[r] \in OfBriefs.People
    /\ \A c \in OfBriefs.Clients :
           /\ BriefGiven(brief_edit[c])
           /\ brief_pc[c] = "update" => brief_edit[c].person \in OfBriefs.People

BriefRest ==
    /\ brief_done \subseteq OfBriefs.Todos /\ brief_events \in 1 .. OfBriefs.MaxEvents
    /\ brief_lock \in OfBriefs.Steps \cup {OfBriefs.Nobody}
    /\ brief_lock = OfBriefs.Nobody => brief_held = <<>>

BriefTypes == BriefRows /\ BriefWork /\ BriefRest

LEMMA BlankTyped == BriefTyped(Brief!NoBrief) /\ BriefData(Brief!Blank)
<1>1. IsFiniteSet({})
  BY FS_EmptySet
<1> QED
  BY <1>1 DEF BriefTyped, BriefData, Brief!NoBrief, Brief!Blank

LEMMA BriefTypesInit == ASSUME Brief!ConstantsOK, Brief!Init PROVE BriefTypes
<1>1. BriefRows
  BY BlankTyped DEF Brief!Init, BriefRows, Brief!NoBrief
<1>2. BriefWork
  <2>1. BriefGiven(Brief!NoEdit)
    BY DEF BriefGiven, Brief!NoEdit
  <2> QED
    BY <2>1 DEF Brief!Init, BriefWork, Brief!Writers, Brief!ConstantsOK
<1>3. BriefRest
  BY DEF Brief!Init, BriefRest, Brief!ConstantsOK
<1> QED
  BY <1>1, <1>2, <1>3 DEF BriefTypes

LEMMA SomeTodos ==
    ASSUME Brief!ConstantsOK, NEW S \in SUBSET OfBriefs.Todos
    PROVE  IsFiniteSet(S) /\ Cardinality(S) \in Nat
<1>1. IsFiniteSet(OfBriefs.Todos)
  BY DEF Brief!ConstantsOK, Brief!IsFiniteSet, IsFiniteSet
<1> QED
  BY <1>1, FS_Subset, FS_CardinalityType

\* A score is the sum of five parts that are capped, to a hundred together.
LEMMA StrengthCounts ==
    ASSUME Brief!ConstantsOK, NEW d, BriefData(d) PROVE Brief!Strength(d) \in 0 .. 100
<1> DEFINE mine == Cardinality(d.mine)
           theirs == Cardinality(d.theirs)
           care == Cardinality(d.learned["care"])
           help == Cardinality(d.learned["help"])
           count == d.count
<1>1. mine \in Nat /\ theirs \in Nat
  BY SomeTodos DEF BriefData
<1>2. care \in Nat /\ help \in Nat
  BY FS_CardinalityType DEF BriefData, Brief!Learned
<1>3. count \in Nat
  BY DEF BriefData
<1>4. Brief!Strength(d) = Brief!Capped(3 * count, 30) + Brief!Capped(5 * (mine + theirs), 20)
                          + Brief!Capped(5 * care, 15) + Brief!Capped(5 * help, 15)
                          + Brief!Recency(d)
  BY Zenon DEF Brief!Strength, Brief!Cardinality, Cardinality
<1> HIDE DEF mine, theirs, care, help, count
<1>5. Brief!Capped(3 * count, 30) \in 0 .. 30
  BY <1>3 DEF Brief!Capped
<1>6. Brief!Capped(5 * (mine + theirs), 20) \in 0 .. 20
  BY <1>1 DEF Brief!Capped
<1>7. Brief!Capped(5 * care, 15) \in 0 .. 15 /\ Brief!Capped(5 * help, 15) \in 0 .. 15
  BY <1>2 DEF Brief!Capped
<1>8. Brief!Recency(d) \in 0 .. 20
  BY DEF Brief!Recency
<1> QED
  BY <1>4, <1>5, <1>6, <1>7, <1>8

\* A finite set in some order.
LEMMA InSomeOrder ==
    ASSUME NEW S, IsFiniteSet(S)
    PROVE  Brief!SetToSeq(S) \in Seq(S) /\ Len(Brief!SetToSeq(S)) = Cardinality(S)
<1> DEFINE n == Cardinality(S)
<1>1. n \in Nat /\ \E f \in [1 .. n -> S] : \A a, b \in 1 .. n : f[a] = f[b] => a = b
  <2>1. n \in Nat /\ ExistsBijection(1 .. n, S)
    BY FS_CardinalityType
  <2> HIDE DEF n
  <2>2. PICK f : f \in Bijection(1 .. n, S)
    BY <2>1 DEF ExistsBijection
  <2>3. f \in [1 .. n -> S] /\ \A a, b \in 1 .. n : f[a] = f[b] => a = b
    BY <2>2 DEF Bijection, Injection, IsInjective
  <2> QED
    BY <2>1, <2>3
<1>2. Brief!SetToSeq(S) = CHOOSE f \in [1 .. n -> S] :
                              \A a, b \in DOMAIN f : f[a] = f[b] => a = b
  BY Zenon DEF Brief!SetToSeq, Brief!IsInjective, Brief!Cardinality, Cardinality
<1> HIDE DEF n
<1>3. Brief!SetToSeq(S) \in [1 .. n -> S]
  BY <1>1, <1>2
<1> QED
  BY <1>1, <1>3 DEF n

LEMMA Suggested ==
    ASSUME NEW t \in OfBriefs.Todos \cup {OfBriefs.Nobody}
    PROVE  /\ <<"keep", t>> \in BriefActions /\ <<"ask", t>> \in BriefActions
           /\ <<"keep in touch", t>> \in BriefActions
           /\ \A s \in STRING : <<s, t>> \in BriefActions
<1>1. <<"keep", t>> \in BriefActions
  BY DEF BriefActions
<1>2. <<"ask", t>> \in BriefActions
  BY DEF BriefActions
<1>3. <<"keep in touch", t>> \in BriefActions
  BY DEF BriefActions
<1>4. ASSUME NEW s \in STRING PROVE <<s, t>> \in BriefActions
  BY DEF BriefActions
<1> QED
  BY <1>1, <1>2, <1>3, <1>4

\* What is suggested: something, and five things at most.
LEMMA ActionsTyped ==
    ASSUME Brief!ConstantsOK, NEW p \in OfBriefs.People, NEW d, BriefData(d)
    PROVE  /\ Brief!NextActions(p, d) \in Seq(BriefActions)
           /\ Len(Brief!NextActions(p, d)) \in 1 .. 5
<1> DEFINE late == {<<"keep", t>> : t \in Brief!OverdueMine(d)}
           kept == Brief!SetToSeq(late)
           asked == IF d.learned["care"] # {} /\ Len(kept) < 5
                    THEN <<<<"ask", OfBriefs.Nobody>>>> ELSE <<>>
           linked == IF Len(kept) + Len(asked) < 5
                     THEN [i \in DOMAIN OfBriefs.Links[p] |->
                               <<OfBriefs.Links[p][i], OfBriefs.Nobody>>]
                     ELSE <<>>
           all == kept \o asked \o linked
<1>1. Brief!NextActions(p, d) = IF all = <<>> THEN <<<<"keep in touch", OfBriefs.Nobody>>>>
                                ELSE SubSeq(all, 1, Brief!Capped(Len(all), 5))
  BY Zenon DEF Brief!NextActions
<1>2. kept \in Seq(BriefActions)
  <2>1. Brief!OverdueMine(d) \subseteq OfBriefs.Todos
    BY DEF Brief!OverdueMine, BriefData
  <2>2. IsFiniteSet(Brief!OverdueMine(d))
    BY <2>1, SomeTodos
  <2>3. IsFiniteSet(late)
    <3> DEFINE f == [t \in Brief!OverdueMine(d) |-> <<"keep", t>>]
    <3>1. f \in Surjection(Brief!OverdueMine(d), late)
      BY DEF Surjection
    <3> HIDE DEF f, late
    <3> QED
      BY <2>2, <3>1, FS_Surjection
  <2>4. late \subseteq BriefActions
    BY <2>1, Suggested
  <2> HIDE DEF late
  <2>5. kept \in Seq(late)
    BY <2>3, InSomeOrder
  <2> HIDE DEF kept
  <2> QED
    BY <2>4, <2>5
<1> HIDE DEF kept
<1>3. asked \in Seq(BriefActions)
  <2> DEFINE ask == <<"ask", OfBriefs.Nobody>>
  <2>1. ask \in BriefActions
    BY Suggested
  <2>2. asked = <<ask>> \/ asked = <<>>
    OBVIOUS
  <2> HIDE DEF ask, asked
  <2>3. <<ask>> \in Seq(BriefActions) /\ <<>> \in Seq(BriefActions)
    BY <2>1
  <2> QED
    BY <2>2, <2>3, Zenon
<1> HIDE DEF asked
<1>4. linked \in Seq(BriefActions)
  <2>1. OfBriefs.Links[p] \in Seq(STRING)
    BY DEF Brief!ConstantsOK
  <2> DEFINE l == OfBriefs.Links[p]
  <2> HIDE DEF l
  <2>2. [i \in DOMAIN l |-> <<l[i], OfBriefs.Nobody>>] \in Seq(BriefActions)
    <3>1. ASSUME NEW i \in DOMAIN l PROVE <<l[i], OfBriefs.Nobody>> \in BriefActions
      <4>1. l[i] \in STRING
        BY <2>1, RowsOf, Zenon DEF l
      <4> QED
        BY <4>1, Suggested
    <3>2. DOMAIN l = 1 .. Len(l) /\ Len(l) \in Nat
      BY <2>1 DEF l
    <3> QED
      BY <3>1, <3>2
  <2> QED
    BY <2>2 DEF l
<1> HIDE DEF linked
<1>5. kept \o asked \in Seq(BriefActions)
  BY <1>2, <1>3, ConcatProperties
<1>6. all \in Seq(BriefActions)
  BY <1>4, <1>5, ConcatProperties
<1> HIDE DEF all
<1>7. CASE all = <<>>
  <2> DEFINE keep == <<"keep in touch", OfBriefs.Nobody>>
  <2>1. Brief!NextActions(p, d) = <<keep>>
    BY <1>1, <1>7
  <2>2. keep \in BriefActions
    BY Suggested
  <2> HIDE DEF keep
  <2> QED
    BY <2>1, <2>2
<1>8. CASE all # <<>>
  <2> DEFINE size == Len(all)
             n == Brief!Capped(Len(all), 5)
  <2>1. size \in Nat \ {0} /\ n = Brief!Capped(size, 5)
    BY <1>6, <1>8
  <2>2. n \in 1 .. 5 /\ n <= size
    <3> HIDE DEF n, size
    <3>1. CASE size < 5
      BY <2>1, <3>1 DEF Brief!Capped
    <3>2. CASE ~(size < 5)
      BY <2>1, <3>2 DEF Brief!Capped
    <3> QED
      BY <3>1, <3>2
  <2>3. Brief!NextActions(p, d) = SubSeq(all, 1, n)
    BY <1>1, <1>8
  <2> HIDE DEF n
  <2>4. \A i \in 1 .. n : all[i] \in BriefActions
    BY <1>6, <2>1, <2>2
  <2>5. SubSeq(all, 1, n) \in Seq(BriefActions) /\ Len(SubSeq(all, 1, n)) = n
    BY <2>2, <2>4, SubSeqProperties
  <2> QED
    BY <2>2, <2>3, <2>5
<1> QED
  BY <1>7, <1>8

LEMMA DerivedTyped ==
    ASSUME Brief!ConstantsOK, NEW p \in OfBriefs.People, NEW d, BriefData(d)
    PROVE  BriefWritten(Brief!Derived(p, d))
<1> DEFINE actions == Brief!NextActions(p, d)
           strength == Brief!Strength(d)
<1>1. /\ actions \in Seq(BriefActions) /\ Len(actions) \in 1 .. 5
      /\ strength \in 0 .. 100
  BY ActionsTyped, StrengthCounts
<1>2. Brief!Derived(p, d) = [d EXCEPT !.actions = actions, !.strength = strength]
  BY DEF Brief!Derived
<1> HIDE DEF actions, strength
<1>3. actions # <<>> /\ Len(actions) <= 5
  <2>1. Len(actions) >= 1 /\ Len(actions) <= 5
    <3> DEFINE n == Len(actions)
    <3>1. n \in 1 .. 5
      BY <1>1
    <3> HIDE DEF n
    <3>2. n >= 1 /\ n <= 5
      BY <3>1
    <3> QED
      BY <3>2 DEF n
  <2>2. actions # <<>>
    <3>1. ASSUME actions = <<>> PROVE Len(actions) = 0
      BY <3>1
    <3> QED
      BY <2>1, <3>1
  <2> QED
    BY <2>1, <2>2
<1> QED
  BY <1>1, <1>2, <1>3 DEF BriefWritten, BriefData, Brief!Blank

\* Who the promises are of, and what is learned, are sets of the event's todos.
LEMMA EventTyped ==
    ASSUME Brief!ConstantsOK, BriefRest, NEW p \in OfBriefs.People, NEW d, BriefData(d),
           NEW S \in SUBSET OfBriefs.Todos
    PROVE  BriefWritten(Brief!FromEvent(p, d, S))
<1> DEFINE counted == [d EXCEPT !.seen = TRUE, !.count = brief_events + 1]
           known == [k \in Brief!Learned |-> counted.learned[k] \cup Brief!Titles(S, k)]
           synced == [counted EXCEPT !.mine = Brief!Mine(S), !.theirs = Brief!Theirs(S),
                                     !.learned = [k \in Brief!Learned |->
                                                     @[k] \cup Brief!Titles(S, k)]]
<1>1. BriefData(counted)
  <2> DEFINE n == brief_events + 1
  <2>1. n \in Nat
    BY DEF BriefRest, Brief!ConstantsOK
  <2> HIDE DEF n
  <2>2. counted = [d EXCEPT !.seen = TRUE, !.count = n]
    BY DEF n
  <2> QED
    BY <2>1, <2>2 DEF BriefData, Brief!Blank
<1>2. BriefData(synced)
  <2>1. /\ Brief!Mine(S) \subseteq OfBriefs.Todos /\ Brief!Theirs(S) \subseteq OfBriefs.Todos
        /\ \A k : Brief!Titles(S, k) \subseteq OfBriefs.Todos
    BY DEF Brief!Mine, Brief!Theirs, Brief!Titles
  <2>2. \A k \in Brief!Learned : IsFiniteSet(counted.learned[k] \cup Brief!Titles(S, k))
    <3>1. ASSUME NEW k \in Brief!Learned
          PROVE  IsFiniteSet(counted.learned[k] \cup Brief!Titles(S, k))
      <4>1. IsFiniteSet(counted.learned[k])
        BY <1>1 DEF BriefData
      <4>2. IsFiniteSet(Brief!Titles(S, k))
        BY <2>1, SomeTodos
      <4> HIDE DEF counted
      <4> QED
        BY <4>1, <4>2, FS_Union
    <3> QED
      BY <3>1
  <2> HIDE DEF counted
  <2>3. synced = [counted EXCEPT !.mine = Brief!Mine(S), !.theirs = Brief!Theirs(S),
                                 !.learned = known]
    OBVIOUS
  <2>4. DOMAIN known = Brief!Learned /\ \A k \in Brief!Learned : IsFiniteSet(known[k])
    BY <2>2
  <2> HIDE DEF known, synced
  <2> QED
    BY <1>1, <2>1, <2>3, <2>4 DEF BriefData, Brief!Blank
<1>3. Brief!FromEvent(p, d, S) = Brief!Derived(p, IF S = {} THEN counted ELSE synced)
  BY Zenon DEF Brief!FromEvent
<1> HIDE DEF counted, synced
<1> QED
  BY <1>1, <1>2, <1>3, DerivedTyped

LEMMA EditTyped ==
    ASSUME Brief!ConstantsOK, NEW p \in OfBriefs.People, NEW d, BriefData(d),
           NEW e, BriefGiven(e)
    PROVE  BriefWritten(Brief!FromEdit(p, d, e))
<1> DEFINE noted == IF e.notes = <<>> THEN d ELSE [d EXCEPT !.notes = e.notes[1]]
           cared == [noted EXCEPT !.learned["care"] = e.concerns[1]]
<1>1. BriefData(noted)
  BY DEF BriefData, BriefGiven, Brief!Blank
<1>2. e.concerns # <<>> => BriefData(cared)
  <2> HIDE DEF noted
  <2> QED
    BY <1>1 DEF BriefData, BriefGiven, Brief!Blank, Brief!Learned
<1>3. Brief!FromEdit(p, d, e) = Brief!Derived(p, IF e.concerns = <<>> THEN noted ELSE cared)
  BY Zenon DEF Brief!FromEdit
<1> HIDE DEF noted, cared
<1> QED
  BY <1>1, <1>2, <1>3, DerivedTyped

LEMMA EndTyped ==
    ASSUME Brief!ConstantsOK, BriefInv, BriefTypes, NEW r \in OfBriefs.Steps, NEW new,
           Brief!End(r, new), UNCHANGED <<brief_done, brief_events, brief_edit>>,
           \A p \in OfBriefs.People : new[p].version # 0 => BriefWritten(new[p].data)
    PROVE  BriefTypes'
<1>1. /\ brief_brief' = new
      /\ brief_pc' = [brief_pc EXCEPT ![r] = "over"]
      /\ brief_whom' = [brief_whom EXCEPT ![r] = OfBriefs.Nobody]
      /\ brief_todos' = [brief_todos EXCEPT ![r] = {}]
      /\ brief_read' = [brief_read EXCEPT ![r] = Brief!NoBrief]
      /\ \/ brief_lock' = OfBriefs.Nobody /\ brief_held' = <<>>
         \/ brief_lock' = brief_lock /\ brief_held' = brief_held
      /\ UNCHANGED <<brief_done, brief_events, brief_edit>>
  BY DEF Brief!End
<1>2. BriefRows'
  BY <1>1, BlankTyped DEF BriefInv, ReadsNoted, BriefTypes, BriefRows, Brief!Writers
<1>3. BriefWork'
  BY <1>1 DEF BriefInv, ReadsNoted, BriefTypes, BriefWork, Brief!Writers, Brief!ConstantsOK
<1>4. BriefRest'
  BY <1>1 DEF BriefTypes, BriefRest
<1> QED
  BY <1>2, <1>3, <1>4 DEF BriefTypes

LEMMA BriefTypesNext ==
    ASSUME Brief!ConstantsOK, BriefInv, Edited, BriefTypes, [Brief!Next]_(Brief!vars)
    PROVE  BriefTypes'
<1>0. /\ DOMAIN brief_pc = Brief!Writers /\ DOMAIN brief_read = Brief!Writers
      /\ DOMAIN brief_whom = Brief!Writers /\ DOMAIN brief_todos = Brief!Writers
      /\ DOMAIN brief_edit = OfBriefs.Clients /\ DOMAIN brief_brief = OfBriefs.People
      /\ Brief!Writers = OfBriefs.Steps \cup OfBriefs.Clients
      /\ OfBriefs.Steps \cap OfBriefs.Clients = {} /\ OfBriefs.Nobody \notin OfBriefs.Steps
      /\ BriefRows /\ BriefWork /\ BriefRest
  BY DEF BriefInv, RowsNoted, ReadsNoted, BriefTypes, BriefWork, Edited, Brief!Writers,
         Brief!ConstantsOK
<1>1. ASSUME NEW r \in OfBriefs.Steps, NEW S \in {{}, OfBriefs.Todos}, Brief!Start(r, S)
      PROVE  BriefTypes'
  <2>1. /\ brief_pc' = [brief_pc EXCEPT ![r] = "next"]
        /\ brief_todos' = [brief_todos EXCEPT ![r] = S]
        /\ UNCHANGED <<brief_brief, brief_done, brief_events, brief_whom, brief_read,
                       brief_edit, brief_lock, brief_held>>
    BY <1>1 DEF Brief!Start
  <2> QED
    BY <1>0, <2>1 DEF BriefTypes, BriefRows, BriefTyped, BriefWork, BriefRest
<1>2. ASSUME NEW r \in OfBriefs.Steps, NEW p \in OfBriefs.People, Brief!Select(r, p)
      PROVE  BriefTypes'
  <2>1. /\ \E s : brief_pc' = [brief_pc EXCEPT ![r] = s]
        /\ brief_whom' = [brief_whom EXCEPT ![r] = p]
        /\ brief_read' = [brief_read EXCEPT ![r] = brief_brief[p]]
        /\ UNCHANGED <<brief_brief, brief_done, brief_events, brief_todos,
                       brief_edit, brief_lock, brief_held>>
    BY <1>2 DEF Brief!Select
  <2>2. BriefRows'
    BY <1>0, <2>1 DEF BriefRows, BriefTyped, BriefWritten
  <2>3. BriefWork' /\ BriefRest'
    BY <1>0, <2>1 DEF BriefWork, BriefRest
  <2> QED
    BY <2>2, <2>3 DEF BriefTypes
<1>3. ASSUME NEW r \in OfBriefs.Steps, Brief!Insert(r) PROVE BriefTypes'
  <2>1. CASE brief_brief[brief_whom[r]] = Brief!NoBrief
    <3>1. /\ brief_pc[r] = "insert" /\ brief_lock' = r
          /\ brief_read' =
                 [brief_read EXCEPT ![r] = [version |-> 1, data |-> Brief!Blank]]
          /\ brief_pc' = [brief_pc EXCEPT ![r] = "update"]
          /\ UNCHANGED <<brief_brief, brief_done, brief_events, brief_todos, brief_whom,
                         brief_edit, brief_held>>
      BY <1>3, <2>1 DEF Brief!Insert
    <3>2. BriefTyped([version |-> 1, data |-> Brief!Blank])
      BY BlankTyped DEF BriefTyped
    <3>3. BriefRows'
      BY <1>0, <3>1, <3>2 DEF BriefRows
    <3>4. BriefWork' /\ BriefRest'
      BY <1>0, <3>1 DEF BriefWork, BriefRest
    <3> QED
      BY <3>3, <3>4 DEF BriefTypes
  <2>2. CASE brief_brief[brief_whom[r]] # Brief!NoBrief
    <3>1. /\ Brief!End(r, brief_brief)
          /\ UNCHANGED <<brief_done, brief_events, brief_edit>>
      BY <1>3, <2>2 DEF Brief!Insert
    <3> QED
      BY <1>0, <3>1, EndTyped DEF BriefRows
  <2> QED
    BY <2>1, <2>2
<1>4. ASSUME NEW r \in OfBriefs.Steps, Brief!Update(r) PROVE BriefTypes'
  <2> DEFINE p == brief_whom[r]
             data == Brief!FromEvent(p, brief_read[r].data, brief_todos[r])
             new == [version |-> brief_read[r].version + 1, data |-> data,
                     base |-> brief_read[r]]
  <2>1. /\ brief_held' = [q \in DOMAIN brief_held \cup {p} |->
               IF q # p THEN brief_held[q]
               ELSE [version |-> brief_read[r].version + 1,
                     data |-> Brief!FromEvent(q, brief_read[r].data, brief_todos[r]),
                     base |-> brief_read[r]]]
        /\ brief_pc[r] = "update" /\ brief_pc' = [brief_pc EXCEPT ![r] = "next"]
        /\ brief_lock' = r
        /\ UNCHANGED <<brief_brief, brief_done, brief_events, brief_todos, brief_whom,
                       brief_read, brief_edit>>
    BY <1>4 DEF Brief!Update
  <2>2. \A q \in DOMAIN brief_held' :
            brief_held'[q] = new \/ (q \in DOMAIN brief_held /\ brief_held'[q] = brief_held[q])
    BY <2>1
  <2>3. p \in OfBriefs.People /\ brief_todos[r] \in SUBSET OfBriefs.Todos
    BY <1>0, <2>1 DEF BriefWork
  <2>4. BriefData(brief_read[r].data) /\ BriefTyped(brief_read[r])
    BY <1>0, <2>1 DEF BriefRows, BriefTyped, BriefInv, ReadsNoted
  <2>5. BriefWritten(new.data) /\ BriefTyped(new.base)
    <3>1. BriefWritten(data)
      BY <1>0, <2>3, <2>4, EventTyped
    <3>2. new.data = data /\ new.base = brief_read[r]
      OBVIOUS
    <3> HIDE DEF data, new
    <3> QED
      BY <2>4, <3>1, <3>2
  <2> HIDE DEF new
  <2>6. BriefRows'
    BY <1>0, <2>1, <2>2, <2>5 DEF BriefRows
  <2>7. BriefWork' /\ BriefRest'
    BY <1>0, <2>1 DEF BriefWork, BriefRest
  <2> QED
    BY <2>6, <2>7 DEF BriefTypes
<1>5. ASSUME NEW r \in OfBriefs.Steps, Brief!Commit(r) PROVE BriefTypes'
  <2> DEFINE new == [p \in OfBriefs.People |->
                        IF brief_lock = r /\ p \in DOMAIN brief_held
                        THEN [version |-> brief_held[p].version,
                              data |-> brief_held[p].data]
                        ELSE brief_brief[p]]
  <2>1. Brief!End(r, new) /\ UNCHANGED <<brief_done, brief_events, brief_edit>>
    BY <1>5 DEF Brief!Commit
  <2>2. \A p \in OfBriefs.People : new[p].version # 0 => BriefWritten(new[p].data)
    BY <1>0 DEF BriefRows
  <2> HIDE DEF new
  <2> QED
    BY <1>0, <2>1, <2>2, EndTyped
<1>6. ASSUME NEW c \in OfBriefs.Clients, NEW e \in Brief!Edits, NEW v,
             Brief!Patch(c, e, v)
      PROVE  BriefTypes'
  <2>1. e.person \in OfBriefs.People /\ BriefGiven(e)
    <3>1. IsFiniteSet({}) /\ IsFiniteSet({"theirs"})
      BY FS_EmptySet, FS_Singleton
    <3>2. e.notes # <<>> => \E n \in {""} \cup OfBriefs.Notes : e.notes = <<n>>
      BY DEF Brief!Edits, Brief!MayGive
    <3>3. e.concerns # <<>> => \E k \in {{}, {"theirs"}} : e.concerns = <<k>>
      BY DEF Brief!Edits, Brief!MayGive
    <3>4. e.person \in OfBriefs.People
      BY DEF Brief!Edits
    <3>5. ASSUME e.notes # <<>> PROVE e.notes[1] \in {""} \cup OfBriefs.Notes
      <4>1. PICK n \in {""} \cup OfBriefs.Notes : e.notes = <<n>>
        BY <3>2, <3>5
      <4>2. \A x : <<x>>[1] = x
        OBVIOUS
      <4>3. e.notes[1] = n
        BY <4>1, <4>2, Zenon
      <4> QED
        BY <4>3, Zenon
    <3>6. ASSUME e.concerns # <<>> PROVE IsFiniteSet(e.concerns[1])
      <4>1. PICK k \in {{}, {"theirs"}} : e.concerns = <<k>>
        BY <3>3, <3>6
      <4> QED
        BY <3>1, <4>1
    <3> QED
      BY <3>4, <3>5, <3>6 DEF BriefGiven
  <2>2. /\ brief_pc' = [brief_pc EXCEPT ![c] = "update"]
        /\ brief_read' = [brief_read EXCEPT ![c] = brief_brief[e.person]]
        /\ brief_edit' = [brief_edit EXCEPT ![c] = e]
        /\ UNCHANGED <<brief_brief, brief_done, brief_events, brief_todos, brief_whom,
                       brief_lock, brief_held>>
    BY <1>6 DEF Brief!Patch
  <2>3. BriefRows'
    BY <1>0, <2>1, <2>2 DEF BriefRows, BriefTyped, BriefWritten
  <2>4. BriefWork' /\ BriefRest'
    BY <1>0, <2>1, <2>2 DEF BriefWork, BriefRest
  <2> QED
    BY <2>3, <2>4 DEF BriefTypes
<1>7. ASSUME NEW c \in OfBriefs.Clients, Brief!Save(c) PROVE BriefTypes'
  <2> DEFINE p == brief_edit[c].person
             data == Brief!FromEdit(p, brief_read[c].data, brief_edit[c])
             new == [version |-> brief_read[c].version + 1, data |-> data]
  <2>1. /\ brief_brief' = [brief_brief EXCEPT ![p] = new]
        /\ brief_pc[c] = "update" /\ brief_pc' = [brief_pc EXCEPT ![c] = "idle"]
        /\ brief_read' = [brief_read EXCEPT ![c] = Brief!NoBrief]
        /\ brief_edit' = [brief_edit EXCEPT ![c] = Brief!NoEdit]
        /\ UNCHANGED <<brief_done, brief_events, brief_todos, brief_whom, brief_lock,
                       brief_held>>
    BY <1>7 DEF Brief!Save
  <2>2. p \in OfBriefs.People /\ BriefGiven(brief_edit[c])
    BY <1>0, <2>1 DEF BriefWork
  <2>3. BriefData(brief_read[c].data)
    BY <1>0, <2>1 DEF BriefRows, BriefTyped, BriefInv, ReadsNoted
  <2>4. BriefWritten(data)
    BY <2>2, <2>3, EditTyped
  <2>5. new.data = data
    OBVIOUS
  <2> HIDE DEF p, data, new
  <2>6. BriefRows'
    BY <1>0, <2>1, <2>4, <2>5, BlankTyped DEF BriefRows
  <2>7. BriefGiven(Brief!NoEdit)
    BY DEF BriefGiven, Brief!NoEdit
  <2>8. BriefWork' /\ BriefRest'
    BY <1>0, <2>1, <2>7 DEF BriefWork, BriefRest
  <2> QED
    BY <2>6, <2>8 DEF BriefTypes
<1>8. CASE \/ \E d \in OfBriefs.Todos : Brief!Finish(d)
           \/ Brief!NewEvent \/ UNCHANGED Brief!vars
  <2>1. /\ UNCHANGED <<brief_brief, brief_pc, brief_todos, brief_whom, brief_read,
                       brief_edit, brief_lock, brief_held>>
        /\ brief_done' \subseteq OfBriefs.Todos
        /\ brief_events' \in 1 .. OfBriefs.MaxEvents
    BY <1>0, <1>8 DEF Brief!Finish, Brief!NewEvent, Brief!vars, BriefRest, Brief!ConstantsOK
  <2> QED
    BY <1>0, <2>1 DEF BriefTypes, BriefRows, BriefTyped, BriefWork, BriefRest
<1> QED
  BY <1>1, <1>2, <1>3, <1>4, <1>5, <1>6, <1>7, <1>8, Zenon DEF Brief!Next

LEMMA BriefTypeOK == ASSUME BriefInv, BriefTypes PROVE Brief!TypeOK
<1>1. \A d : BriefData(d) => /\ d.notes \in {""} \cup OfBriefs.Notes
                             /\ d.strength \in 0 .. 100 /\ Len(d.actions) <= 5
  BY Zenon DEF BriefData
<1>2. ASSUME NEW p \in OfBriefs.People, NEW b \in Brief!Rows(p), b.version # 0
      PROVE  BriefData(b.data)
  <2>1. CASE b = brief_brief[p]
    BY <1>2, <2>1 DEF BriefTypes, BriefRows, BriefWritten
  <2>2. CASE p \in DOMAIN brief_held /\ b \in {brief_held[p], brief_held[p].base}
    BY <1>2, <2>2 DEF BriefTypes, BriefRows, BriefWritten, BriefTyped
  <2> QED
    BY <2>1, <2>2 DEF Brief!Rows
<1>3. \A p \in OfBriefs.People :
          brief_brief[p].version # 0 => brief_brief[p].data.actions # <<>>
  BY DEF BriefTypes, BriefRows, BriefWritten
<1> QED
  BY <1>1, <1>2, <1>3 DEF BriefTypes, BriefRest, Brief!TypeOK

----------------------------------------------------------------------------
(* The whole *)

\* A step moves one part, or none.
LEMMA Parts ==
    ASSUME [Next]_vars
    PROVE  /\ [Token!Next]_(Token!vars)
           /\ [Model!Next]_(Model!vars)
           /\ [Promise!Next]_(Promise!vars)
           /\ [Brief!Next]_(Brief!vars)
           /\ [Rate!Next]_(Rate!vars)
           /\ [Reminder!Next]_(Reminder!vars)
BY Zenon DEF Next, vars, token, model, prom, brief, rate, rem,
   Token!vars, Token!token, Model!vars, Promise!vars, Brief!vars, Rate!vars, Reminder!vars

\* Every part keeps its invariant.
Inv == TokenInv /\ ModelInv /\ PromiseInv /\ BriefInv /\ Edited /\ RateInv /\ RemInv

LEMMA InvHolds == Spec => []Inv
<1>1. Init => Inv
  BY ConstantsOK, TokenInit, ModelInit, PromiseInit, BriefInit, EditedInit, RateInit, RemInit
  DEF Init, Inv, ConstantsOK
<1>2. Inv /\ [Next]_vars => Inv'
  <2> SUFFICES ASSUME Inv, [Next]_vars PROVE Inv'
    OBVIOUS
  <2>1. TokenInv' /\ ModelInv'
    BY Parts, ConstantsOK, TokenNext, ModelNext DEF Inv, ConstantsOK
  <2>2. PromiseInv' /\ BriefInv' /\ Edited'
    BY Parts, ConstantsOK, PromiseNext, BriefNext, EditedNext DEF Inv, ConstantsOK
  <2>3. RateInv' /\ RemInv'
    BY Parts, ConstantsOK, RateNext, RemNext DEF Inv, ConstantsOK
  <2> QED
    BY <2>1, <2>2, <2>3 DEF Inv
<1> QED
  BY <1>1, <1>2, PTL DEF Spec

\* And its types, with it.
Types == TokenTypes /\ ModelTypes /\ PromiseTypes /\ RemTypes /\ BriefTypes

LEMMA TypesHold == Spec => [](Inv /\ Types)
<1>1. Init => Inv /\ Types
  <2> SUFFICES ASSUME Init PROVE Inv /\ Types
    OBVIOUS
  <2>1. TokenTypes /\ ModelTypes /\ PromiseTypes
    BY ConstantsOK, TokenTypesInit, ModelTypesInit, PromiseTypesInit DEF Init, ConstantsOK
  <2>2. RemTypes /\ BriefTypes
    BY ConstantsOK, RemTypesInit, BriefTypesInit DEF Init, ConstantsOK
  <2>3. Inv
    BY ConstantsOK, TokenInit, ModelInit, PromiseInit, BriefInit, EditedInit, RateInit, RemInit
    DEF Init, Inv, ConstantsOK
  <2> QED
    BY <2>1, <2>2, <2>3 DEF Types
<1>2. Inv /\ Types /\ [Next]_vars => Types'
  <2> SUFFICES ASSUME Inv, Types, [Next]_vars PROVE Types'
    OBVIOUS
  <2>1. TokenTypes' /\ ModelTypes' /\ PromiseTypes'
    BY Parts, ConstantsOK, TokenTypesNext, ModelTypesNext, PromiseTypesNext
    DEF Inv, Types, ConstantsOK
  <2>2. RemTypes' /\ BriefTypes'
    BY Parts, ConstantsOK, RemTypesNext, BriefTypesNext DEF Inv, Types, ConstantsOK
  <2> QED
    BY <2>1, <2>2 DEF Types
<1> QED
  BY <1>1, <1>2, InvHolds, PTL DEF Spec

\* The part that moves is one of them, and always the same.
Focused == focus \in {"gen", "assoc", "prom", "rem", "brief", "token", "model", "rate"}
LEMMA FocusHolds == Spec => []Focused
<1>1. Init => Focused
  BY DEF Init, Focused
<1>2. Focused /\ [Next]_vars => Focused'
  BY Zenon DEF Next, vars, Focused
<1> QED
  BY <1>1, <1>2, PTL DEF Spec

----------------------------------------------------------------------------
(* Theorems *)

\* Every part keeps its types, whichever moves: in particular what is cached or
\* held is a value that was written, a list a sequence of what may be in it, and
\* a score within its range whatever is due or known (the columns of models/,
\* the caches of redis.py and rate_limiter.py).
THEOREM TypeCorrect == Spec => []TypeOK
<1>1. Inv /\ Types /\ GenInv /\ LinkInv /\ Focused => TypeOK
  <2> SUFFICES ASSUME Inv, Types, GenInv, LinkInv, Focused PROVE TypeOK
    OBVIOUS
  <2>1. Generation!TypeOK /\ Link!TypeOK
    BY GenTypeOK, LinkTypeOK
  <2>2. Token!TypeOK /\ Model!TypeOK /\ Rate!TypeOK
    BY ConstantsOK, SmallTypes DEF Inv, Types, ConstantsOK
  <2>3. Promise!TypeOK /\ Reminder!TypeOK /\ Brief!TypeOK
    BY PromiseTypeOK, RemTypeOK, BriefTypeOK DEF Inv, Types
  <2> QED
    BY <2>1, <2>2, <2>3, Zenon DEF TypeOK, Focused
<1> QED
  BY <1>1, TypesHold, FocusHolds, TodoInvHolds, LinkHolds, PTL

\* However many calls find the token due, it is renewed once for all of them,
\* and a caller is refused only where the gateway withdrew a token or rejected
\* the licence, never because the token has grown old (_ensure_token looks at
\* the token again under its lock; the 401 paths).
THEOREM TokensAreRenewedOnce == Spec => []TokensRenew
<1>1. Inv => TokensRenew
  BY DEF Inv, TokenInv, TokenFresh, TokensRenew, Token!RenewedOnce,
         Token!ExpiryIsInvisible
<1> QED
  BY <1>1, InvHolds, PTL

\* A model call returns content whatever is cached, and one that fails has made
\* all its attempts, the fallback model among them (_call_with_retry).
THEOREM CallsExhaust == Spec => []CallsAreExhaustive
<1>1. Inv => CallsAreExhaustive
  BY ConstantsOK DEF ConstantsOK, Model!ConstantsOK, Inv, ModelInv, Counted,
     CallsAreExhaustive, Model!CallsAreExhaustive, Model!At
<1> QED
  BY <1>1, InvHolds, PTL

\* Neither store lets more than the limit through within a window, so at most
\* twice the limit when Redis comes and goes; and a caller who waits as long as
\* the memory window tells him is let through (is_allowed of both windows).
THEOREM LimitsHold == Spec => []LimitHolds
<1>1. Inv => LimitHolds
  BY RateHolds DEF Inv, LimitHolds
<1> QED
  BY <1>1, InvHolds, PTL

\* No day has more reminders than the highest threshold the user had, unless two
\* lists were made at once, however buttons, deletions, changed preferences and
\* midnights come in between; and quiet hours are an interval of the clock
\* (get_daily_reminders counts first and logs later; _is_quiet_hours).
THEOREM RemindersStayLimited == Spec => []RemindersAreLimited
<1>1. Inv => RemindersAreLimited
  BY RemHolds, ConstantsOK DEF Inv, ConstantsOK, RemindersAreLimited
<1> QED
  BY <1>1, InvHolds, PTL

\* A run ends without overwriting an answer given by a correction meanwhile,
\* and without reopening a promise that it had read as open.
THEOREM AnswersAreKept == Spec => AnalysisKeepsAnswers
<1> DEFINE Keeps == \A d \in Promise!Rows :
          prom_at = "apply" /\ prom_at' = "idle" /\ prom_todo'[d].exists =>
          /\ prom_todo[d].fulfilment = "fulfilled"
             /\ prom_todo'[d].fulfilment = "pending"
                => prom_read[d].fulfilment # "pending"
          /\ prom_todo'[d].confirmation # prom_todo[d].confirmation
                => "correct" \notin prom_since[d]
<1>1. ASSUME Inv, [Next]_vars PROVE [Keeps]_(Promise!vars)
  BY <1>1, Parts, EndOfRun DEF Inv, PromiseKept
<1> QED
  BY <1>1, InvHolds, PTL DEF Spec, AnalysisKeepsAnswers, Promise!AnalysisKeepsAnswers

\* What the user noted is replaced or cleared by an edit of his, or by a writer that
\* had read the row before it came to what it is (_save_brief writes the whole
\* row by its primary key).
THEOREM NotesStay == Spec => NotesAreKept
<1> DEFINE Keeps == \A p \in OfBriefs.People :
          (brief_brief[p].version # 0
             /\ brief_brief'[p].data.notes # brief_brief[p].data.notes) =>
              \/ \E c \in OfBriefs.Clients :
                     /\ brief_edit[c].person = p /\ brief_edit'[c] = Brief!NoEdit
                     /\ brief_edit[c].notes # <<>> \/ brief_read[c] # brief_brief[p]
              \/ p \in DOMAIN brief_held /\ brief_held[p].base # brief_brief[p]
<1>1. ASSUME Inv, [Next]_vars PROVE Keeps
  BY <1>1, Parts, ConstantsOK, WhoReplaces DEF Inv, ConstantsOK
<1> HIDE DEF Keeps
<1>2. ASSUME Inv, [Next]_vars PROVE [Keeps]_(Brief!vars)
  BY <1>1, <1>2
<1> USE DEF Keeps
<1> QED
  BY <1>2, InvHolds, PTL DEF Spec, NotesAreKept, Brief!NotesAreKept
=============================================================================
