---------------------------- MODULE ServicesProofs ----------------------------
(***************************************************************************)
(* The parts that keep the program connected and on time, proved for any   *)
(* number of items, requests, licences and clients, any limit, delay and   *)
(* clock.  What ScheduledEventsProofs proves of the planned events holds   *)
(* here because the steps are the same; the relay's loop and the pairing   *)
(* have their inductive invariants below.                                  *)
(***************************************************************************)
EXTENDS Services, TLAPS

----------------------------------------------------------------------------
(* The relay's loop *)

\* A loop that runs has not given up, and is still allowed a rejection.  What it
\* counts covers the rejections since it last was connected.
RejectionsCount ==
    /\ link_fails \in Nat /\ link_denied \in Nat
    /\ link_denied <= link_fails /\ link_fails <= MaxAuth
    /\ Relay!Running => ~link_terminal /\ link_fails < MaxAuth
    /\ link_loop = "serve" => link_denied = 0

\* A loop that has ended was told to stop or has given up.
EndsForAReason == link_loop = "ended" => link_stop \/ link_terminal

RelayInv == Relay!TypeOK /\ RejectionsCount /\ EndsForAReason

LEMMA RelayInit == ASSUME Relay!ConstantsOK, Relay!Init PROVE RelayInv
<1>1. link_fails \in 0..MaxAuth /\ link_backoff \in 1..MaxBackoff
  BY DEF Relay!Init, Relay!ConstantsOK
<1>2. \A r \in Forwards : link_forward[r] = "new"
  BY DEF Relay!Init
<1>3. Relay!TypeOK
  BY <1>1, <1>2 DEF Relay!Init, Relay!TypeOK
<1> QED
  BY <1>3 DEF Relay!Init, RelayInv, RejectionsCount, EndsForAReason, Relay!Running,
     Relay!ConstantsOK

\* Steps of the loop, one by one; each leaves the counters as they are or raises
\* or clears both.
LEMMA RelayNext ==
    ASSUME Relay!ConstantsOK, RelayInv, [Relay!Next]_(Relay!vars)
    PROVE  RelayInv'
<1> USE DEF RelayInv, Relay!TypeOK, RejectionsCount, EndsForAReason, Relay!Running,
            Relay!ConstantsOK
<1>1. CASE Relay!Judge
  BY <1>1 DEF Relay!Judge, Relay!link
<1>2. CASE Relay!Deny
  <2>1. link_fails < MaxAuth /\ link_fails' = link_fails + 1
        /\ link_denied' = link_denied + 1
    BY <1>2 DEF Relay!Deny
  <2>2. link_fails' \in 0..MaxAuth /\ link_fails' \in Nat /\ link_denied' \in Nat
        /\ link_denied' <= link_fails' /\ link_fails' <= MaxAuth
    BY <2>1
  <2>3. CASE Relay!RejectedTooOften(link_fails + 1)
    <3>1. link_terminal' = TRUE /\ link_loop' = "ended"
      BY <1>2, <2>3, Zenon DEF Relay!Deny, Relay!Leave
    <3> QED
      BY <1>2, <2>2, <3>1 DEF Relay!Deny
  <2>4. CASE ~Relay!RejectedTooOften(link_fails + 1)
    <3>1. Relay!RejectedTooOften(link_fails + 1) = FALSE /\ link_fails' < MaxAuth
      BY <2>1, <2>4 DEF Relay!RejectedTooOften
    <3>2. link_terminal' = FALSE
          /\ link_loop' = IF link_stop THEN "ended" ELSE "backoff"
      BY <1>2, <3>1, Zenon DEF Relay!Deny, Relay!Leave
    <3> QED
      BY <1>2, <2>2, <3>1, <3>2 DEF Relay!Deny
  <2> QED
    BY <2>3, <2>4
<1>3. CASE Relay!AttemptFails
  BY <1>3 DEF Relay!AttemptFails, Relay!Leave
<1>4. CASE Relay!Open
  BY <1>4 DEF Relay!Open
<1>5. CASE Relay!Close
  <2>1. /\ link_fails' = 0 /\ link_backoff' = 1
        /\ UNCHANGED <<link_standing, link_fresh, link_stop, link_terminal, link_denied>>
        /\ link_loop' = IF link_stop THEN "ended" ELSE "backoff"
    BY <1>5 DEF Relay!Close, Relay!Leave
  <2>2. \A r \in Forwards : link_forward'[r] \in {"orphaned", link_forward[r]}
    BY <1>5 DEF Relay!Close, Relay!Orphan
  <2>3. link_fails' \in 0..MaxAuth /\ link_fails' < MaxAuth
        /\ link_backoff' \in 1..MaxBackoff
    BY <2>1
  <2>4. Relay!TypeOK'
    BY <2>1, <2>2, <2>3
  <2>5. RejectionsCount'
    BY <2>1, <2>3, <1>5 DEF Relay!Close
  <2>6. EndsForAReason'
    BY <2>1
  <2> QED
    BY <2>4, <2>5, <2>6
<1>6. CASE Relay!Break
  BY <1>6, SMTT(30) DEF Relay!Break, Relay!Leave, Relay!Orphan
<1>7. CASE Relay!Wake
  BY <1>7 DEF Relay!Wake, Relay!Lesser
<1>8. CASE Relay!AskToStop
  BY <1>8 DEF Relay!AskToStop
<1>9. CASE Relay!StopTakes
  BY <1>9, SMTT(30) DEF Relay!StopTakes, Relay!Orphan
<1>10. CASE Relay!Expire
  BY <1>10 DEF Relay!Expire
<1>11. ASSUME NEW r \in Forwards, Relay!Receive(r) PROVE RelayInv'
  BY <1>11 DEF Relay!Receive, Relay!link
<1>12. ASSUME NEW r \in Forwards, Relay!Answer(r) PROVE RelayInv'
  BY <1>12 DEF Relay!Answer, Relay!link
<1>13. CASE UNCHANGED Relay!vars
  BY <1>13 DEF Relay!vars, Relay!link
<1> QED
  BY <1>1, <1>2, <1>3, <1>4, <1>5, <1>6, <1>7, <1>8, <1>9, <1>10, <1>11, <1>12,
     <1>13 DEF Relay!Next

LEMMA StateInit == ASSUME Relay!Init PROVE Relay!Link!Init
  BY DEF Relay!Init, Relay!Link!Init

LEMMA StateNext ==
    ASSUME Relay!ConstantsOK, RelayInv, [Relay!Next]_(Relay!vars)
    PROVE  [Relay!Link!Next]_(Relay!Link!vars)
<1> USE DEF Relay!Link!vars
<1>1. UNCHANGED <<link_loop, link_terminal, link_stop>> => UNCHANGED Relay!Link!vars
  OBVIOUS
<1>2. CASE Relay!Judge \/ Relay!Expire \/ UNCHANGED Relay!vars
  BY <1>1, <1>2 DEF Relay!Judge, Relay!Expire, Relay!vars, Relay!link
<1>3. CASE Relay!Deny
  BY <1>3 DEF Relay!Deny, Relay!Leave, RelayInv, RejectionsCount, Relay!Running,
     Relay!Link!Next, Relay!Link!Move, Relay!Link!After, Relay!TypeOK
<1>4. CASE Relay!AttemptFails
  BY <1>4 DEF Relay!AttemptFails, Relay!Leave, RelayInv, RejectionsCount,
     Relay!Running, Relay!Link!Next, Relay!Link!Move, Relay!Link!After, Relay!TypeOK
<1>5. CASE Relay!Open
  BY <1>5 DEF Relay!Open, RelayInv, Relay!Link!Next, Relay!Link!Move, Relay!Link!After
<1>6. CASE Relay!Close \/ Relay!Break
  BY <1>6 DEF Relay!Close, Relay!Break, Relay!Leave, RelayInv, RejectionsCount,
     Relay!Running, Relay!Link!Next, Relay!Link!Move, Relay!Link!After, Relay!TypeOK
<1>7. CASE Relay!Wake
  BY <1>7 DEF Relay!Wake
<1>8. CASE Relay!AskToStop
  BY <1>8 DEF Relay!AskToStop, Relay!Link!Next, Relay!Link!Tell, RelayInv, Relay!TypeOK
<1>9. CASE Relay!StopTakes
  BY <1>9 DEF Relay!StopTakes, RelayInv, RejectionsCount, Relay!Running,
     Relay!Link!Next, Relay!Link!Move, Relay!Link!After, Relay!TypeOK
<1>10. CASE \E r \in Forwards : Relay!Receive(r) \/ Relay!Answer(r)
  BY <1>1, <1>10 DEF Relay!Receive, Relay!Answer, Relay!link
<1> QED
  BY <1>2, <1>3, <1>4, <1>5, <1>6, <1>7, <1>8, <1>9, <1>10 DEF Relay!Next

----------------------------------------------------------------------------
(* Pairing *)

Licence == Licences \cup {NoLicence}
RelayClients ==
    [licence : Licence, state : {"trying", "connected", "rejected", "stopped"},
     told : BOOLEAN, token : BOOLEAN]
Waits == [licence : Licences, old : Clients]

PairTypes ==
    /\ pair_good \subseteq Licences
    /\ pair_code \in {"none", "pending", "matched", "expired"}
    /\ pair_offer \in Licence /\ pair_env \in Licence
    /\ pair_client \in [Clients -> RelayClients]
    /\ pair_holder \in Clients \cup {NoClient}
    /\ pair_seen \in [Pair!Callers -> Licence]
    /\ pair_request \in [Pair!Callers -> Waits \cup {Pair!Idle}]
    /\ pair_poller \in {"off", "on", "post"}
    /\ pair_page \in {"start", "scan", "activate", "wait", "rejected", "activated",
                      "expired", "unconnected", "error"}
    /\ pair_crossed \in BOOLEAN

Waiting(w) == pair_request[w] # Pair!Idle

\* Activations that did not cross: one waits at most, for the client that is held,
\* which is to be replaced by one with the licence that is stored; and nothing but
\* what is held runs.
OneAtATime ==
    /\ \A c \in Clients : Pair!Live(c) => c = pair_holder
    /\ \A v, w \in Pair!Callers : Waiting(v) /\ Waiting(w) => v = w
    /\ \A w \in Pair!Callers : Waiting(w) =>
          /\ pair_request[w].old = pair_holder
          /\ pair_request[w].licence = pair_env

\* When none waits, what is held has the licence that is stored.
HeldIsStored ==
    (\A w \in Pair!Callers : ~Waiting(w)) /\ pair_env # NoLicence
        => pair_holder # NoClient /\ pair_client[pair_holder].licence = pair_env

PairInv == PairTypes /\ (pair_crossed = FALSE => OneAtATime /\ HeldIsStored)

LEMMA PairInit == ASSUME Pair!ConstantsOK, Pair!Init PROVE PairInv
<1>1. PairTypes
  BY DEF Pair!Init, PairTypes, Licence, RelayClients, Pair!Dead
<1>2. OneAtATime
  BY DEF Pair!Init, OneAtATime, Waiting, Pair!Live, Pair!Dead
<1>3. HeldIsStored
  BY DEF Pair!Init, HeldIsStored
<1> QED
  BY <1>1, <1>2, <1>3 DEF PairInv

\* What the link between activations depends on.
PairLink == <<pair_env, pair_client, pair_holder, pair_request, pair_crossed>>

LEMMA LinkKept ==
    ASSUME PairInv, UNCHANGED PairLink, PairTypes'
    PROVE  PairInv'
BY DEF PairInv, PairLink, OneAtATime, HeldIsStored, Waiting, Pair!Live, Pair!Idle

\* StartClient picks an object that is not in use and holds it.
LEMMA Started ==
    ASSUME NEW l \in Licences, Pair!StartClient(l), PairTypes
    PROVE  \E c \in Clients :
              /\ pair_holder' = c
              /\ pair_client' = [pair_client EXCEPT ![c] = Pair!Begun(l)]
<1>1. PICK c \in Pair!Unused : pair_holder' = c
          /\ pair_client' = [pair_client EXCEPT ![c] = Pair!Begun(l)]
  BY DEF Pair!StartClient
<1> QED
  BY <1>1 DEF Pair!Unused

LEMMA ActivateStep ==
    ASSUME Pair!ConstantsOK, PairInv, NEW w \in Pair!Callers, Pair!Activate(w),
           UNCHANGED <<pair_good, pair_code, pair_offer>>,
           pair_poller' \in {"off", "on", "post"},
           pair_page' \in {"start", "scan", "activate", "wait", "rejected", "activated",
                      "expired", "unconnected", "error"}
    PROVE  PairInv'
<1> DEFINE l == pair_seen[w]
<1>1. l \in Licences /\ ~Waiting(w)
  BY DEF Pair!Activate, PairInv, PairTypes, Licence, Waiting
<1>2. pair_env' = l /\ pair_seen' \in [Pair!Callers -> Licence] /\ pair_env' \in Licence
  BY <1>1 DEF Pair!Activate, PairInv, PairTypes, Licence
<1>3. pair_crossed' \in BOOLEAN
  BY DEF Pair!Activate
<1>4. pair_crossed' = FALSE => pair_crossed = FALSE
      /\ \A v \in Pair!Callers : ~Waiting(v)
  BY Zenon DEF Pair!Activate, PairInv, PairTypes, Waiting
<1>5. CASE pair_holder = NoClient /\ Pair!StartClient(l) /\ UNCHANGED pair_request
  <2>1. PICK c \in Clients : pair_holder' = c
            /\ pair_client' = [pair_client EXCEPT ![c] = Pair!Begun(l)]
    BY <1>1, <1>5, Started DEF PairInv
  <2>2. Pair!Begun(l) \in RelayClients
    BY <1>1 DEF Pair!Begun, RelayClients, Licence
  <2>3. PairTypes'
    BY <1>2, <1>3, <1>5, <2>1, <2>2 DEF PairInv, PairTypes, Pair!Idle
  <2>4. ASSUME pair_crossed' = FALSE PROVE OneAtATime' /\ HeldIsStored'
    <3>1. \A d \in Clients : ~Pair!Live(d)
      BY <1>4, <1>5, <2>4 DEF PairInv, OneAtATime, Pair!ConstantsOK
    <3>2. \A d \in Clients : Pair!Live(d)' => d = pair_holder'
      BY <2>1, <3>1 DEF Pair!Live, PairInv, PairTypes
    <3>3. \A v \in Pair!Callers : ~Waiting(v)'
      BY <1>4, <1>5, <2>4 DEF Waiting, Pair!Idle
    <3>4. pair_client'[pair_holder'].licence = pair_env' /\ pair_holder' # NoClient
      BY <1>2, <2>1 DEF PairInv, PairTypes, Pair!Begun, Pair!ConstantsOK
    <3> QED
      BY <3>2, <3>3, <3>4 DEF OneAtATime, HeldIsStored
  <2> QED
    BY <2>3, <2>4 DEF PairInv
<1>6. CASE /\ pair_holder # NoClient
           /\ pair_client' = [pair_client EXCEPT ![pair_holder].told = TRUE]
           /\ pair_request' = [pair_request EXCEPT
                 ![w] = [licence |-> l, old |-> pair_holder]]
           /\ UNCHANGED pair_holder
  <2>1. pair_holder \in Clients /\ [licence |-> l, old |-> pair_holder] \in Waits
    BY <1>1, <1>6 DEF PairInv, PairTypes, Waits
  <2>2. [licence |-> l, old |-> pair_holder] # Pair!Idle
    BY <1>1 DEF Pair!Idle, Pair!ConstantsOK
  <2>3. [pair_client[pair_holder] EXCEPT !.told = TRUE] \in RelayClients
    BY <2>1 DEF PairInv, PairTypes, RelayClients
  <2>4. pair_client' \in [Clients -> RelayClients]
    BY <1>6, <2>1, <2>3 DEF PairInv, PairTypes
  <2>5. pair_request' \in [Pair!Callers -> Waits \cup {Pair!Idle}]
    BY <1>6, <2>1 DEF PairInv, PairTypes
  <2>6. PairTypes'
    BY <1>2, <1>3, <1>6, <2>4, <2>5 DEF PairInv, PairTypes, Pair!Idle
  <2>7. ASSUME pair_crossed' = FALSE PROVE OneAtATime' /\ HeldIsStored'
    <3>1. \A d \in Clients : Pair!Live(d)' <=> Pair!Live(d)
      BY <1>6, <2>1 DEF Pair!Live, PairInv, PairTypes, RelayClients
    <3>2. \A v \in Pair!Callers : Waiting(v)' <=> v = w
      BY <1>4, <1>6, <2>2, <2>7 DEF Waiting, PairInv, PairTypes, Pair!Idle
    <3>3. pair_request'[w] = [licence |-> l, old |-> pair_holder]
      BY <1>6 DEF PairInv, PairTypes
    <3>4. OneAtATime'
      BY <1>2, <1>4, <1>6, <2>7, <3>1, <3>2, <3>3 DEF OneAtATime, PairInv
    <3> QED
      BY <3>2, <3>4 DEF HeldIsStored
  <2> QED
    BY <2>6, <2>7 DEF PairInv
<1>7. CASE pair_holder # NoClient /\ ~Pair!Stale(pair_holder, l)
           /\ UNCHANGED <<pair_client, pair_holder, pair_request>>
  <2>1. PairTypes'
    BY <1>2, <1>3, <1>7 DEF PairInv, PairTypes, Pair!Idle
  <2>2. ASSUME pair_crossed' = FALSE PROVE OneAtATime' /\ HeldIsStored'
    <3>1. \A v \in Pair!Callers : ~Waiting(v)'
      BY <1>4, <1>7, <2>2 DEF Waiting, Pair!Idle
    <3>2. pair_client'[pair_holder'].licence = pair_env'
      BY <1>2, <1>7 DEF Pair!Stale
    <3> QED
      BY <1>4, <1>7, <2>2, <3>1, <3>2 DEF OneAtATime, HeldIsStored, PairInv, Pair!Live
  <2> QED
    BY <2>1, <2>2 DEF PairInv
<1> QED
  BY <1>5, <1>6, <1>7, Zenon DEF Pair!Activate, Pair!relay

LEMMA ReplaceStep ==
    ASSUME Pair!ConstantsOK, PairInv, NEW w \in Pair!Callers, Pair!Replace(w)
    PROVE  PairInv'
<1> DEFINE l == pair_request[w].licence
<1>1. Waiting(w) /\ pair_request[w] \in Waits /\ l \in Licences
  BY DEF Pair!Replace, Waiting, PairInv, PairTypes, Waits
<1>2. PICK c \in Clients : pair_holder' = c
          /\ pair_client' = [pair_client EXCEPT ![c] = Pair!Begun(l)]
  BY <1>1, Started DEF Pair!Replace, PairInv
<1>3. Pair!Begun(l) \in RelayClients
  BY <1>1 DEF Pair!Begun, RelayClients, Licence
<1>4. pair_request' = [pair_request EXCEPT ![w] = Pair!Idle]
      /\ UNCHANGED <<pair_good, pair_code, pair_offer, pair_env, pair_seen, pair_poller,
                     pair_page, pair_crossed>>
  BY DEF Pair!Replace, Pair!gateway
<1>5. PairTypes'
  BY <1>2, <1>3, <1>4 DEF PairInv, PairTypes, Pair!Idle
<1>6. ASSUME pair_crossed' = FALSE PROVE OneAtATime' /\ HeldIsStored'
  <2>1. OneAtATime
    BY <1>4, <1>6 DEF PairInv
  <2>2. \A d \in Clients : ~Pair!Live(d)
    BY <1>1, <2>1 DEF OneAtATime, Pair!Replace, Pair!Live
  <2>3. \A d \in Clients : Pair!Live(d)' => d = pair_holder'
    BY <1>2, <2>2 DEF Pair!Live, PairInv, PairTypes
  <2>4. \A v \in Pair!Callers : ~Waiting(v)'
    BY <1>1, <1>4, <2>1 DEF OneAtATime, Waiting, Pair!Idle, PairInv, PairTypes
  <2>5. pair_client'[pair_holder'].licence = pair_env'
    BY <1>1, <1>2, <1>4, <2>1 DEF OneAtATime, PairInv, PairTypes, Pair!Begun
  <2> QED
    BY <1>2, <2>3, <2>4, <2>5 DEF OneAtATime, HeldIsStored, Pair!ConstantsOK
<1> QED
  BY <1>5, <1>6 DEF PairInv

LEMMA RestartStep == ASSUME Pair!ConstantsOK, PairInv, Pair!Restart PROVE PairInv'
<1>1. PICK first \in Clients :
        /\ pair_holder' = IF pair_env # NoLicence THEN first ELSE NoClient
        /\ pair_client' = [c \in Clients |-> IF pair_env # NoLicence /\ c = first
                                             THEN Pair!Begun(pair_env) ELSE Pair!Dead]
  BY DEF Pair!Restart, Pair!ConstantsOK
<1>2. pair_request' = [w \in Pair!Callers |-> Pair!Idle] /\ UNCHANGED pair_env
  BY DEF Pair!Restart
<1>3. Pair!Dead \in RelayClients /\ Pair!Begun(pair_env) \in RelayClients
  BY DEF Pair!Dead, Pair!Begun, RelayClients, Licence, PairInv, PairTypes
<1>4. PairTypes'
  <2>1. pair_client' \in [Clients -> RelayClients]
    BY <1>1, <1>3
  <2>2. pair_request' \in [Pair!Callers -> Waits \cup {Pair!Idle}]'
    BY <1>2 DEF Pair!Idle
  <2>3. pair_seen' \in [Pair!Callers -> Licence] /\ pair_crossed' \in BOOLEAN
    BY DEF Pair!Restart, PairInv, PairTypes, Licence
  <2>4. pair_poller' \in {"off", "on"} /\ pair_page' \in {"error", pair_page}
        /\ UNCHANGED <<pair_good, pair_code, pair_offer>>
    BY DEF Pair!Restart, Pair!gateway
  <2> QED
    BY <1>1, <1>2, <2>1, <2>2, <2>3, <2>4 DEF PairInv, PairTypes
<1>5. \A w \in Pair!Callers : ~Waiting(w)'
  BY <1>2 DEF Waiting, Pair!Idle
<1>6. OneAtATime'
  BY <1>1, <1>5 DEF OneAtATime, Pair!Live, Pair!Dead
<1>7. HeldIsStored'
  BY <1>1, <1>2 DEF HeldIsStored, Pair!Begun, Pair!ConstantsOK
<1> QED
  BY <1>4, <1>6, <1>7 DEF PairInv

\* A client moves on its own; it does not start to live again.
LEMMA RelayMovesStep ==
    ASSUME PairInv, NEW c \in Clients, Pair!RelayMoves(c)
    PROVE  PairInv'
<1>1. PICK s \in {"trying", "connected", "rejected", "stopped"} :
          pair_client' = [pair_client EXCEPT ![c].state = s,
                                             ![c].token = s \in {"connected", "trying"}]
  BY DEF Pair!RelayMoves, Pair!Relay!After
<1>2. Pair!Live(c) /\ UNCHANGED <<pair_good, pair_code, pair_offer, pair_env,
                                  pair_holder,
          pair_seen, pair_request, pair_poller, pair_page, pair_crossed>>
  BY DEF Pair!RelayMoves, Pair!gateway
<1>3. [pair_client[c] EXCEPT !.state = s, !.token = s \in {"connected", "trying"}]
          \in RelayClients
  <2>1. pair_client[c] \in RelayClients /\ (s \in {"connected", "trying"}) \in BOOLEAN
    BY DEF PairInv, PairTypes
  <2> QED
    BY <2>1 DEF RelayClients
<1>4. PairTypes'
  BY <1>1, <1>2, <1>3 DEF PairInv, PairTypes, Pair!Idle
<1>5. \A d \in Clients : (Pair!Live(d)' => Pair!Live(d))
                         /\ pair_client'[d].licence = pair_client[d].licence
  BY <1>1, <1>2 DEF Pair!Live, PairInv, PairTypes, RelayClients
<1>6. \A w \in Pair!Callers : Waiting(w)' <=> Waiting(w)
  BY <1>2 DEF Waiting, Pair!Idle
<1> QED
  BY <1>2, <1>4, <1>5, <1>6 DEF PairInv, OneAtATime, HeldIsStored, PairTypes

\* The pages, the phone and the gateway change neither clients nor requests.
LEMMA OtherStep ==
    ASSUME PairInv,
           \/ Pair!Match \/ Pair!Lapse \/ Pair!InitPair \/ Pair!PageLearns
           \/ Pair!PageSees \/ Pair!Open \/ Pair!PollerLearns \/ Pair!PollerEnds
           \/ \E l \in Licences : Pair!Judge(l)
    PROVE  PairInv'
<1> USE DEF PairInv, PairTypes, PairLink, Pair!relay, Pair!gateway, Licence, Pair!Idle
<1>1. CASE Pair!Match \/ Pair!Lapse \/ Pair!InitPair \/ \E l \in Licences : Pair!Judge(l)
  BY <1>1, LinkKept DEF Pair!Match, Pair!Lapse, Pair!InitPair, Pair!Judge
<1>2. CASE Pair!PageLearns
  BY <1>2, LinkKept DEF Pair!PageLearns, Pair!Status, Pair!Callers
<1>3. CASE Pair!PageSees \/ Pair!Open
  BY <1>3, LinkKept DEF Pair!PageSees, Pair!Status, Pair!Open, Pair!Callers
<1>4. CASE Pair!PollerLearns \/ Pair!PollerEnds
  BY <1>4, LinkKept DEF Pair!PollerLearns, Pair!PollerEnds, Pair!Callers
<1> QED
  BY <1>1, <1>2, <1>3, <1>4

LEMMA PairNext ==
    ASSUME Pair!ConstantsOK, PairInv, [Pair!Next]_(Pair!vars)
    PROVE  PairInv'
<1>1. CASE Pair!PageActivates \/ Pair!PollerActivates
  BY <1>1, ActivateStep DEF Pair!PageActivates, Pair!PollerActivates, Pair!Callers,
     Pair!gateway, PairInv, PairTypes
<1>2. CASE UNCHANGED Pair!vars
  BY <1>2, LinkKept DEF Pair!vars, Pair!gateway, Pair!relay, PairLink, PairInv,
     PairTypes, Pair!Idle
<1> QED
  BY <1>1, <1>2, OtherStep, RestartStep, RelayMovesStep, ReplaceStep DEF Pair!Next

\* At most one client runs, for what runs is held.
LEMMA LinkFollows == PairInv => Pair!LinkIsOfTheLicence
<1>1. OneAtATime => \A c, d \in Clients : Pair!Live(c) /\ Pair!Live(d) => c = d
  BY DEF OneAtATime
<1>2. HeldIsStored <=>
        ((\A w \in Pair!Callers : pair_request[w] = Pair!Idle) /\ pair_env # NoLicence
           => pair_holder # NoClient /\ pair_client[pair_holder].licence = pair_env)
  BY DEF HeldIsStored, Waiting
<1> QED
  BY <1>1, <1>2, Zenon DEF PairInv, PairTypes, Pair!LinkIsOfTheLicence

----------------------------------------------------------------------------
(* The parts together *)

Planned == INSTANCE ScheduledEventsProofs WITH
    now <- plan_now, row <- plan_row, event <- plan_event, call <- plan_call,
    job <- plan_job, stale <- plan_stale

LEMMA PlanInit == ASSUME Plan!Init PROVE Planned!Init
BY Zenon DEF Plan!Init, Planned!Init, Plan!Absent, Planned!Absent, Plan!Unused,
   Planned!Unused, Plan!Unread, Planned!Unread

\* The steps of the planned events are those of their proofs, name by name.
LEMMA PlanNext == ASSUME [Plan!Next]_(Plan!vars) PROVE [Planned!Next]_(Planned!vars)
BY Zenon DEF Plan!vars, Planned!vars, Plan!Next, Planned!Next, Plan!Job, Planned!Job,
   Plan!Tick, Planned!Tick, Plan!Stop, Planned!Stop, Plan!Create, Planned!Create,
   Plan!Read, Planned!Read, Plan!Update, Planned!Update, Plan!Delete, Planned!Delete,
   Plan!Cancel, Planned!Cancel, Plan!Record, Planned!Record, Plan!Link, Planned!Link,
   Plan!Fail, Planned!Fail, Plan!SelectDue, Planned!SelectDue, Plan!MarkOverdue,
   Planned!MarkOverdue, Plan!SelectOld, Planned!SelectOld, Plan!Clean, Planned!Clean,
   Plan!Exists, Planned!Exists, Plan!StatusAt, Planned!StatusAt, Plan!Save,
   Planned!Save, Plan!Missed, Planned!Missed, Plan!Goto, Planned!Goto, Plan!Return,
   Planned!Return, Plan!Over, Planned!Over, Plan!Unused, Planned!Unused, Plan!Absent,
   Planned!Absent, Plan!Unread, Planned!Unread, Plan!Recordable, Planned!Recordable,
   Plan!Due, Planned!Due, Plan!Old, Planned!Old, Plan!Work, Planned!Work, Plan!Open,
   Planned!Open, Plan!Ended, Planned!Ended, Plan!Status, Planned!Status, Plan!Times,
   Planned!Times, Plan!Ops, Planned!Ops

PlanInv == Planned!Inv

LEMMA PlanConstants == Planned!ConstantsOK
BY ConstantsOK, Zenon DEF Plan!ConstantsOK, Planned!ConstantsOK

LEMMA InvInit ==
    ASSUME Init
    PROVE  PlanInv /\ RelayInv /\ PairInv
<1>1. PlanInv
  BY PlanInit, PlanConstants, Planned!InvInit DEF Init, PlanInv
<1>2. RelayInv /\ PairInv
  BY ConstantsOK, RelayInit, PairInit DEF Init
<1> QED
  BY <1>1, <1>2

\* A step of the whole is a step of each part or leaves it alone.
LEMMA Parts ==
    ASSUME [Next]_vars
    PROVE  /\ [Plan!Next]_(Plan!vars)
           /\ [Relay!Next]_(Relay!vars)
           /\ [Pair!Next]_(Pair!vars)
BY Zenon DEF Next, vars, plan, relay, pair, Plan!vars, Relay!vars, Relay!link,
   Pair!vars, Pair!gateway, Pair!relay

\* Every part keeps its invariant.
Inv == PlanInv /\ RelayInv /\ PairInv

LEMMA EachStep ==
    ASSUME Inv, [Next]_vars
    PROVE  /\ Inv'
           /\ Planned!Honest \/ Planned!CleansOnlyOld
           /\ [Relay!Link!Next]_(Relay!Link!vars)
<1>1. PlanInv' /\ (Planned!Honest \/ Planned!CleansOnlyOld)
  BY Parts, PlanNext, PlanConstants, Planned!EachStep DEF Inv, PlanInv
<1>2. RelayInv' /\ [Relay!Link!Next]_(Relay!Link!vars)
  BY Parts, ConstantsOK, RelayNext, StateNext DEF Inv
<1>3. PairInv'
  BY Parts, ConstantsOK, PairNext DEF Inv
<1> QED
  BY <1>1, <1>2, <1>3 DEF Inv

LEMMA InvHolds == Spec => []Inv
<1>1. Init => Inv
  BY InvInit DEF Inv
<1>2. Inv /\ [Next]_vars => Inv'
  BY EachStep
<1> QED
  BY <1>1, <1>2, PTL DEF Spec

----------------------------------------------------------------------------
(* Theorems *)

\* Types of the state of every part: rows and requests of planned events, the
\* relay's loop, the clients and requests of the pairing.
THEOREM TypeCorrect == Spec => []TypeOK
<1>1. RelayInv => Relay!TypeOK
  BY DEF RelayInv
<1>2. PlanInv => Plan!TypeOK
  BY DEF PlanInv, Planned!Inv, Planned!Types, Planned!CallsHold, Planned!CallHolds,
     Plan!TypeOK, Planned!Rows, Planned!StoredEvents, Planned!Requests, Planned!Jobs,
     Planned!Places, Plan!Ops, Planned!Ops, Plan!Times, Planned!Times, Plan!Status,
     Planned!Status, Plan!Open, Planned!Open, Plan!Ended, Planned!Ended
<1>3. PairInv => Pair!TypeOK
  BY DEF PairInv, PairTypes, Pair!TypeOK, Licence, RelayClients, Waits, Pair!Idle
<1>4. Inv => TypeOK
  BY <1>1, <1>2, <1>3 DEF Inv, TypeOK
<1> QED
  BY <1>4, InvHolds, PTL

\* What is recorded has its event, a linked event has its run queued, and an
\* interaction is recorded twice only by a stale write (record_scheduled_event).
THEOREM RecordingIsSound == Spec => []RecordsAreSound
<1>1. Inv => RecordsAreSound
  BY DEF Inv, PlanInv, Planned!Inv, RecordsAreSound, Plan!RecordsAreSound,
     Plan!RecordedHasEvent, Planned!RecordedHasEvent, Plan!LinkedIsQueued,
     Planned!LinkedIsQueued, Plan!RecordedTwiceOnlyStale, Planned!RecordedTwiceOnlyStale
<1> QED
  BY <1>1, InvHolds, PTL

\* What is recorded or cancelled stays so, for the requests and for the job: only
\* a stale write reopens it, and only an old cancelled row disappears.
THEOREM EndedStays == Spec => EndedIsFinal
<1> DEFINE Final == \A i \in Items :
          plan_row[i].status \in Plan!Ended /\ plan_row'[i].status # plan_row[i].status
          => i \in plan_stale' \/ (plan_row'[i].status = "deleted" /\ Plan!Old(i))
<1>1. ASSUME Inv, [Next]_vars PROVE [Final]_(Plan!vars)
  BY <1>1, EachStep DEF Planned!Honest, Planned!CleansOnlyOld, Plan!Ended,
     Planned!Ended, Plan!Old, Planned!Old
<1> QED
  BY <1>1, InvHolds, PTL DEF Spec, EndedIsFinal, Plan!EndedIsFinal

\* A loop that nobody stopped ends by rejections alone, and at most MaxAuth of
\* them follow the last connection (RelayWSSClient._run_forever).
THEOREM RejectionsStayBounded == Spec => []RejectionsAreBounded
<1>1. Inv => RejectionsAreBounded
  BY DEF Inv, RelayInv, RejectionsCount, EndsForAReason, RejectionsAreBounded,
     Relay!RejectionsAreBounded
<1> QED
  BY <1>1, InvHolds, PTL

\* The loop implements RelayState: whoever looks at the client from outside sees
\* it try, connect, be rejected for good or stop, and nothing else.
THEOREM LinkImplementsState == Spec => IsRelayState
<1>1. Init => Relay!Link!Init
  BY StateInit DEF Init
<1> QED
  BY <1>1, InvHolds, EachStep, PTL DEF Spec, IsRelayState, Relay!IsRelayState

\* Whatever the page, the poller and restarts do, one client runs, with the
\* licence that is stored, unless two activations crossed (activate_pair).
THEOREM LinkStaysWithLicence == Spec => []LinkIsOfTheLicence
<1>1. Inv => LinkIsOfTheLicence
  BY LinkFollows DEF Inv, LinkIsOfTheLicence
<1> QED
  BY <1>1, InvHolds, PTL
=============================================================================
