------------------------------- MODULE Services -------------------------------
(***************************************************************************)
(* The parts that keep the program connected and on time, each beside its  *)
(* own environment: planned events and their job, the relay link, pairing. *)
(* They share no state, so a behaviour of one of them, with the others at  *)
(* rest, stands for all: focus names the one that moves.                   *)
(***************************************************************************)
EXTENDS Naturals

CONSTANTS   \* of the planned events
    Items, Calls, Horizon, Keep, NoCall, NoItem

CONSTANTS   \* of the relay link
    MaxAuth, MaxBackoff, Forwards

CONSTANTS   \* of the pairing
    Licences, Clients, NoLicence, NoClient

VARIABLES
    focus,
    plan_now, plan_row, plan_event, plan_call, plan_job, plan_stale,
    link_standing, link_loop, link_fresh, link_stop, link_terminal, link_fails,
    link_backoff, link_forward, link_denied,
    pair_good, pair_code, pair_offer, pair_env, pair_client, pair_holder,
    pair_seen, pair_request, pair_poller, pair_page, pair_crossed

Plan == INSTANCE ScheduledEvents WITH
    now <- plan_now, row <- plan_row, event <- plan_event, call <- plan_call,
    job <- plan_job, stale <- plan_stale

Relay == INSTANCE RelayLink WITH
    standing <- link_standing, loop <- link_loop, fresh <- link_fresh,
    stop <- link_stop, terminal <- link_terminal, fails <- link_fails,
    backoff <- link_backoff, forward <- link_forward, denied <- link_denied

Pair == INSTANCE Pairing WITH
    good <- pair_good, code <- pair_code, offer <- pair_offer, env <- pair_env,
    client <- pair_client, holder <- pair_holder, seen <- pair_seen,
    request <- pair_request, poller <- pair_poller, page <- pair_page,
    crossed <- pair_crossed

ASSUME ConstantsOK ==
    Plan!ConstantsOK /\ Relay!ConstantsOK /\ Pair!ConstantsOK

plan == <<plan_now, plan_row, plan_event, plan_call, plan_job, plan_stale>>
relay == <<link_standing, link_loop, link_fresh, link_stop, link_terminal,
    link_fails, link_backoff, link_forward, link_denied>>
pair == <<pair_good, pair_code, pair_offer, pair_env, pair_client,
    pair_holder, pair_seen, pair_request, pair_poller, pair_page,
    pair_crossed>>
vars == <<focus, plan, relay, pair>>

\* A part at rest waits in one of its initial states.
Init ==
    /\ focus \in {"plan", "relay", "pair"}
    /\ Plan!Init /\ Relay!Init /\ Pair!Init
    /\ focus # "relay" => link_standing = "good"
    /\ focus # "pair" => pair_good = {}

Next ==
    \/ /\ focus = "plan" /\ Plan!Next
       /\ UNCHANGED <<focus, relay, pair>>
    \/ /\ focus = "relay" /\ Relay!Next
       /\ UNCHANGED <<focus, plan, pair>>
    \/ /\ focus = "pair" /\ Pair!Next
       /\ UNCHANGED <<focus, plan, relay>>

\* The fairness of each part, for the behaviours in which it moves.
Spec ==
    /\ Init /\ [][Next]_vars
    /\ WF_plan(focus = "plan" /\ Plan!Job)
    /\ WF_relay(focus = "relay" /\ Relay!Wake)
    /\ WF_relay(focus = "relay" /\ Relay!StopTakes)
    /\ WF_relay(focus = "relay" /\ Relay!Expire)
    /\ SF_relay(focus = "relay" /\ Relay!Deny)
    /\ SF_relay(focus = "relay" /\ Relay!Open)
    /\ \A r \in Forwards : WF_relay(focus = "relay" /\ Relay!Answer(r))
    /\ SF_pair(focus = "pair" /\ Pair!PollerLearns)
    /\ SF_pair(focus = "pair" /\ Pair!PollerActivates)
    /\ SF_pair(focus = "pair" /\ Pair!PageLearns)
    /\ WF_pair(focus = "pair" /\ Pair!PageActivates)
    /\ WF_pair(focus = "pair" /\ Pair!PageSees)
    /\ \A w \in Pair!Callers : WF_pair(focus = "pair" /\ Pair!Replace(w))
    /\ \A c \in Clients : WF_pair(focus = "pair" /\ Pair!RelayMoves(c))

----------------------------------------------------------------------------
(* Properties *)

\* Types of the state of every part.
TypeOK ==
    /\ Plan!TypeOK /\ Relay!TypeOK /\ Pair!TypeOK

\* Recording a planned event: a row that says recorded has an event, whichever
\* commit failed, and a row names an event only when its pipeline run is queued, and
\* an interaction is recorded twice only by a stale write (record_scheduled_event).
RecordsAreSound == Plan!RecordsAreSound

\* A recorded or cancelled row is reopened by none but a stale write, and only
\* an old cancelled one disappears (the maintenance job beside the requests).
EndedIsFinal == Plan!EndedIsFinal

\* What is due is marked although a row deleted under the job fails a whole
\* round of it (mark_overdue_scheduled_events).
DueIsMarked == Plan!DueIsMarked

\* The relay's loop ends by itself only by rejections, of which it counts at
\* least those since it last was connected (RelayWSSClient._run_forever).
RejectionsAreBounded == Relay!RejectionsAreBounded

\* A rejected licence is not tried for ever; one that stays good is connected
\* again and again; and what a connection brought is answered while it stands.
LinkServes ==
    focus = "relay" =>
        /\ Relay!RejectedComesToRest /\ Relay!GoodIsServed
        /\ Relay!RequestsAreAnswered

\* The loop implements RelayState, the client as the pairing sees it.
IsRelayState == Relay!IsRelayState

\* Unless two activations cross, one relay client runs, with the licence that
\* is stored (activate_pair beside the poller and the page).
LinkIsOfTheLicence == Pair!LinkIsOfTheLicence

\* A licence matched to an unpaired desktop is activated while the code lives,
\* with or without the page (_pair_auto_poll).
MatchedIsActivated == Pair!MatchedIsActivated
=============================================================================
