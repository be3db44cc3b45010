------------------------------- MODULE Pairing -------------------------------
(***************************************************************************)
(* Pairing the desktop with an account.  The pairing page asks the gateway *)
(* for a code; the phone matches a licence to it; the page and a poller of *)
(* the server both watch the code and both activate the licence they find. *)
(* An activation stores the licence, replaces a relay client that is of no *)
(* use any more, and the page waits for what the relay client says.        *)
(*                                                                         *)
(* A relay client is what RelayState says of it (RelayLink implements it). *)
(* Handlers interleave at the awaits that hand over control: the gateway's *)
(* answer, and the up to five seconds in which an old client stops.        *)
(***************************************************************************)
EXTENDS Naturals

CONSTANTS
    Licences,
    Clients,   \* objects a process can hold at a time: a bound
    NoLicence, NoClient

\* The marks of an absence are no licence and no client.
ConstantsOK == NoLicence \notin Licences /\ NoClient \notin Clients /\ Clients # {}

VARIABLES
    good,      \* licences the gateway accepts
    code,      \* the latest pair code: none, pending, matched, expired
    offer,     \* the licence the phone matched to it
    env,       \* PRO_LICENSE_KEY, in .env and in the settings
    client,    \* relay clients: licence, RelayState, told to stop, has a token
    holder,    \* app.state.relay_wss_client
    seen,      \* the licence a caller has found and will activate next
    request,   \* POST /pair/activate that waits for an old client to stop
    poller,    \* _pair_auto_poll: off, on, or waiting for its request
    page,      \* what the pairing page does
    crossed    \* history: two activations were under way at once

gateway == <<good, code, offer>>
relay == <<client, holder>>
vars == <<gateway, env, relay, seen, request, poller, page, crossed>>

Callers == {"page", "poller"}
Idle == [licence |-> NoLicence, old |-> NoClient]
Dead == [licence |-> NoLicence, state |-> "stopped", told |-> TRUE, token |-> FALSE]
Begun(l) == [licence |-> l, state |-> "trying", told |-> FALSE, token |-> FALSE]
Live(c) == client[c].state \in {"trying", "connected"}

\* lifespan of a first start: no licence, so the poller runs.
Init ==
    /\ good \in SUBSET Licences
    /\ code = "none" /\ offer = NoLicence /\ env = NoLicence
    /\ client = [c \in Clients |-> Dead] /\ holder = NoClient
    /\ seen = [w \in Callers |-> NoLicence]
    /\ request = [w \in Callers |-> Idle]
    /\ poller = "on" /\ page = "start" /\ crossed = FALSE

\* The phone confirms the code with the account's licence.
Match ==
    /\ code = "pending"
    /\ code' = "matched"
    /\ \E l \in Licences : offer' = l
    /\ UNCHANGED <<good, env, relay, seen, request, poller, page, crossed>>

\* A code lives five minutes.
Lapse ==
    /\ code \in {"pending", "matched"}
    /\ code' = "expired" /\ offer' = NoLicence
    /\ UNCHANGED <<good, env, relay, seen, request, poller, page, crossed>>

\* The gateway changes its mind about a licence: the owner puts it in order, it
\* runs out, it is renewed.
Judge(l) ==
    /\ good' = IF l \in good THEN good \ {l} ELSE good \cup {l}
    /\ UNCHANGED <<code, offer, env, relay, seen, request, poller, page, crossed>>

Relay(c) == INSTANCE RelayState WITH
    state <- client[c].state, told <- client[c].told

\* A client that was connected may come back with its token before it has to
\* ask the gateway again.
RelayMoves(c) ==
    /\ Live(c)
    /\ \E s \in Relay(c)!After :
          /\ s = "rejected" => client[c].licence \notin good
          /\ s = "connected" => client[c].licence \in good \/ client[c].token
          /\ client' = [client EXCEPT ![c].state = s,
                                      ![c].token = s \in {"connected", "trying"}]
    /\ UNCHANGED <<gateway, env, holder, seen, request, poller, page, crossed>>

\* Mutant: a client is replaced only if it has given up.
StaleIfRejected(c, l) == client[c].state = "rejected"
\* A client that has given up, or that has another licence, must be replaced.
Stale(c, l) == client[c].state = "rejected" \/ client[c].licence # l

Unused == {c \in Clients : c # holder /\ ~Live(c)
                           /\ \A w \in Callers : request[w].old # c}

\* A new RelayWSSClient takes the place of the one that was held.
StartClient(l) ==
    LET c == CHOOSE c \in Unused : TRUE
    IN  /\ Unused # {}
        /\ client' = [client EXCEPT ![c] = Begun(l)]
        /\ holder' = c

\* activate_pair, up to the wait for the old client if there is one.
Activate(w) ==
    LET l == seen[w]
    IN  /\ l # NoLicence /\ request[w] = Idle
        /\ env' = l
        /\ seen' = [seen EXCEPT ![w] = NoLicence]
        /\ crossed' = (crossed \/ \E v \in Callers : request[v] # Idle)
        /\ \/ holder = NoClient /\ StartClient(l) /\ UNCHANGED request
           \/ /\ holder # NoClient /\ Stale(holder, l)
              /\ client' = [client EXCEPT ![holder].told = TRUE]
              /\ request' = [request EXCEPT
                    ![w] = [licence |-> l, old |-> holder]]
              /\ UNCHANGED holder
           \/ /\ holder # NoClient /\ ~Stale(holder, l)
              /\ UNCHANGED <<relay, request>>

\* The old client has ended.  What is held by now is not looked at again.
Replace(w) ==
    /\ request[w] # Idle
    /\ ~Live(request[w].old)
    /\ StartClient(request[w].licence)
    /\ request' = [request EXCEPT ![w] = Idle]
    /\ UNCHANGED <<gateway, env, seen, poller, page, crossed>>

\* Mutant: POST /pair/init leaves the poller as it is.
InitPairOnly ==
    /\ page \in {"start", "rejected", "expired", "unconnected"}
    /\ code' = "pending" /\ offer' = NoLicence
    /\ page' = "scan"
    /\ UNCHANGED <<good, env, relay, seen, request, poller, crossed>>
\* POST /pair/init: a new code, and a new window of ten minutes for the poller.
\* A request of the cancelled poller goes on in the server.
InitPair ==
    /\ page \in {"start", "rejected", "expired", "unconnected"}
    /\ code' = "pending" /\ offer' = NoLicence
    /\ poller' = "on"
    /\ page' = "scan"
    /\ UNCHANGED <<good, env, relay, seen, request, crossed>>

\* GET /pair/status: the local relay first, then the gateway.
Status ==
    IF holder # NoClient /\ client[holder].state = "rejected" THEN "rejected"
    ELSE IF holder # NoClient /\ client[holder].state = "connected"
    THEN "activated" ELSE code

\* startPolling: "activated" is not among what ends it.
PageLearns ==
    /\ page = "scan"
    /\ \/ Status \in {"rejected", "expired"} /\ page' = Status
                                              /\ UNCHANGED seen
       \/ /\ Status = "matched" /\ page' = "activate"
          /\ seen' = [seen EXCEPT !["page"] = offer]
    /\ UNCHANGED <<gateway, env, relay, request, poller, crossed>>

PageActivates ==
    /\ page = "activate"
    /\ Activate("page")
    /\ page' = "wait"
    /\ UNCHANGED <<gateway, poller>>

\* waitForRelayOutcome, for twenty seconds once the request is answered.
PageSees ==
    /\ page = "wait" /\ request["page"] = Idle
    /\ page' = IF Status \in {"rejected", "activated"} THEN Status
               ELSE "unconnected"
    /\ UNCHANGED <<gateway, env, relay, seen, request, poller, crossed>>

\* The user opens or reloads the page.
Open ==
    /\ page # "start"
    /\ page' = "start"
    /\ seen' = [seen EXCEPT !["page"] = NoLicence]
    /\ UNCHANGED <<gateway, env, relay, request, poller, crossed>>

PollerLearns ==
    /\ poller = "on" /\ env = NoLicence /\ code = "matched"
    /\ seen' = [seen EXCEPT !["poller"] = offer]
    /\ poller' = "post"
    /\ UNCHANGED <<gateway, env, relay, request, page, crossed>>

PollerActivates ==
    /\ poller = "post"
    /\ Activate("poller")
    /\ poller' = "off"
    /\ UNCHANGED <<gateway, page>>

\* A licence is set already, or the window is over, which outlasts a code.
PollerEnds ==
    /\ poller = "on"
    /\ env # NoLicence \/ code \in {"none", "expired"}
    /\ poller' = "off"
    /\ UNCHANGED <<gateway, env, relay, seen, request, page, crossed>>

\* The server stops and starts: the relay for a stored licence, else the poller.
Restart ==
    LET first == CHOOSE c \in Clients : TRUE
        paired == env # NoLicence
    IN  /\ holder' = IF paired THEN first ELSE NoClient
        /\ client' = [c \in Clients |->
              IF paired /\ c = first THEN Begun(env) ELSE Dead]
        /\ poller' = IF paired THEN "off" ELSE "on"
        /\ request' = [w \in Callers |-> Idle]
        /\ seen' = [seen EXCEPT !["poller"] = NoLicence]
        /\ page' = IF page = "wait" /\ request["page"] # Idle THEN "error"
                   ELSE page
        /\ crossed' = FALSE
        /\ UNCHANGED <<gateway, env>>

Next ==
    \/ Match \/ Lapse \/ InitPair \/ PageLearns \/ PageActivates \/ PageSees
    \/ Open \/ PollerLearns \/ PollerActivates \/ PollerEnds \/ Restart
    \/ \E l \in Licences : Judge(l)
    \/ \E c \in Clients : RelayMoves(c)
    \/ \E w \in Callers : Replace(w)

Spec == Init /\ [][Next]_vars

\* The poller's timer, the page's timer while it is open, and the wait for an
\* old client go on; a lost answer of the gateway is asked for again.  The
\* server is not for ever restarted between two rounds of the poller or the page.
FairSpec ==
    /\ Spec
    /\ SF_vars(PollerLearns) /\ SF_vars(PollerActivates)
    /\ SF_vars(PageLearns) /\ WF_vars(PageActivates) /\ WF_vars(PageSees)
    /\ \A w \in Callers : WF_vars(Replace(w))
    /\ \A c \in Clients : WF_vars(RelayMoves(c))

----------------------------------------------------------------------------
(* Properties *)

TypeOK ==
    /\ good \subseteq Licences
    /\ code \in {"none", "pending", "matched", "expired"}
    /\ {offer, env} \subseteq Licences \cup {NoLicence}
    /\ \A c \in Clients :
          /\ client[c].licence \in Licences \cup {NoLicence}
          /\ client[c].state \in {"trying", "connected", "rejected", "stopped"}
    /\ holder \in Clients \cup {NoClient}
    /\ \A w \in Callers : request[w].old \in Clients \cup {NoClient}
    /\ poller \in {"off", "on", "post"}
    /\ page \in {"start", "scan", "activate", "wait", "rejected", "activated",
                 "expired", "unconnected", "error"}

\* Unless two activations cross, one client runs at most, and once an activation
\* is through it is the one that is held, with the licence that is stored: the
\* phone reaches the desktop of the licence that was paired last.
LinkIsOfTheLicence ==
    ~crossed =>
        /\ \A c, d \in Clients : Live(c) /\ Live(d) => c = d
        /\ (\A w \in Callers : request[w] = Idle) /\ env # NoLicence
              => holder # NoClient /\ client[holder].licence = env

\* A licence the phone matches to the code of an unpaired desktop is activated
\* while the code lives, whether or not the page stays open.
MatchedIsActivated ==
    code = "matched" /\ env = NoLicence
        ~> env # NoLicence \/ code # "matched"
=============================================================================
