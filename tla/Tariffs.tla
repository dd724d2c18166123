------------------------------ MODULE Tariffs ------------------------------
(***************************************************************************)
(* The Pricing function set: refresh_tariffs (client/discovery.py) walks   *)
(* the tariff tree again, TariffProcessor (events/tariff.py) acknowledges  *)
(* each interval and relays the price of the one in effect to the          *)
(* connectors.  The scheduled poll and a notification's handler both run   *)
(* the pair (_do_poll_tariff), and may overlap: a step ends where the code *)
(* may give up control.                                                    *)
(*                                                                         *)
(* One tariff profile with one rate component.  Windows are those after    *)
(* randomization, and one clock stands for the profile's.                  *)
(***************************************************************************)
EXTENDS Naturals, FiniteSets

CONSTANTS
    Intervals,   \* mRID -> [start, end, created, acked]: acked is responseRequired bit 0
    Pollers,     \* the activities that run _do_poll_tariff
    None,
    MaxTime,     \* bound: the server's clock
    MaxFails,    \* bound: requests that fail, attempts of a POST included
    MaxPolls,    \* bound: polls that notifications start
    MaxChanges   \* bound: changes of what the server serves

Mrids == DOMAIN Intervals
Scheduled == "poll"  \* the poller that never stops
Nothing == [all |-> {}, off |-> {}]

VARIABLES
    served,  \* what the server lists: all, and those cancelled or superseded (off)
    now,
    tree,    \* state.tariff_profiles: None, or what the profile's lists held
    run,     \* poller -> its poll: where it waits, what it walked, acks to do and under way, its `now`
    sent,    \* ResponseTracker._sent
    claims,  \* mRID -> the poller that has reserved its response
    active,  \* _active
    told,    \* what the connectors were last told is in effect
    acks,    \* history, per mRID: responses the server got, and those the client saw fail
    missed,  \* history: mRIDs withdrawn, or lost to a walk that failed
    fails, polls, changes

server == <<served, now, changes>>
relay == <<active, told>>
vars == <<server, tree, run, sent, claims, relay, acks, missed, fails, polls>>

Idle == [pc |-> "idle", seen |-> Nothing, todo |-> {}, posting |-> None, at |-> 0]

Receipts == [got : Nat, unproved : Nat]
TypeOK ==
    /\ served.off \subseteq served.all /\ served.all \subseteq Mrids /\ now \in 0..MaxTime
    /\ tree # None => tree.off \subseteq tree.all /\ tree.all \subseteq Mrids
    /\ \A p \in Pollers :
           /\ run[p].pc \in {"idle", "list", "subtree", "ack", "post", "price"}
           /\ run[p].todo \subseteq run[p].seen.all /\ run[p].at \in 0..now
    /\ sent \subseteq Mrids /\ claims \in [Mrids -> Pollers \cup {None}]
    /\ active \in Mrids \cup {None} /\ told \in Mrids \cup {None}
    /\ acks \in [Mrids -> Receipts] /\ missed \subseteq Mrids
    /\ fails \in 0..MaxFails /\ polls \in 0..MaxPolls /\ changes \in 0..MaxChanges

(* Nothing walked yet. *)
Init ==
    /\ served = [all |-> Mrids, off |-> {}] /\ now = 0 /\ changes = 0 /\ tree = None
    /\ run = [p \in Pollers |-> Idle] /\ sent = {} /\ claims = [m \in Mrids |-> None]
    /\ active = None /\ told = None /\ missed = {}
    /\ acks = [m \in Mrids |-> [got |-> 0, unproved |-> 0]]
    /\ fails = 0 /\ polls = 0

-----------------------------------------------------------------------------
(* active_interval: its window holds t, it is not cancelled, and of        *)
(* several the newest wins.                                                *)
InEffect(ls, t) == {m \in ls.all \ ls.off : Intervals[m].start <= t /\ t < Intervals[m].end}
ActiveInterval(ls, t) ==
    IF InEffect(ls, t) = {} THEN None
    ELSE CHOOSE m \in InEffect(ls, t) :
             \A o \in InEffect(ls, t) : Intervals[o].created <= Intervals[m].created

Fails == fails < MaxFails /\ fails' = fails + 1
To(p, r) == run' = [run EXCEPT ![p] = r]

(* refresh_tariffs empties the tree and asks for the profile list. *)
Begin(p) ==
    /\ run[p].pc = "idle" /\ tree' = None
    /\ polls' = IF p = Scheduled THEN polls ELSE polls + 1
    /\ polls' <= MaxPolls
    /\ To(p, [Idle EXCEPT !.pc = "list"])
    /\ UNCHANGED <<server, sent, claims, relay, acks, missed, fails>>

(* process_tariffs over the tree tr.  Without a profile it ends at once,   *)
(* and forgets the responses and the rate component.                       *)
Process(p, tr) ==
    IF tr = None
    THEN sent' = {} /\ active' = None /\ To(p, Idle)
    ELSE /\ To(p, [pc |-> "ack", seen |-> tr, todo |-> {m \in tr.all : Intervals[m].acked},
                   posting |-> None, at |-> now])
         /\ UNCHANGED <<sent, active>>

(* _discover_tariffs_for_fsa.  A profile that another walk has put there   *)
(* is not walked again.  A fault between pages or an unusable body leaves  *)
(* the tree as it is; another error ends the poll.                         *)
ListRead(p) ==
    /\ run[p].pc = "list" /\ UNCHANGED fails
    /\ IF tree = None THEN To(p, [run[p] EXCEPT !.pc = "subtree"]) /\ UNCHANGED <<sent, active>>
       ELSE Process(p, tree)
    /\ UNCHANGED <<server, tree, claims, told, acks, missed, polls>>
ListFails(p, raises) ==
    /\ run[p].pc = "list" /\ Fails /\ missed' = missed \cup served.all
    /\ IF raises THEN To(p, Idle) /\ UNCHANGED <<sent, active>> ELSE Process(p, tree)
    /\ UNCHANGED <<server, tree, claims, told, acks, polls>>

(* _discover_tariff_profile, _discover_rate_component: the intervals, or   *)
(* none where a list of the subtree could not be read.                     *)
Subtree(p, ok) ==
    /\ run[p].pc = "subtree"
    /\ tree' = IF ok THEN served ELSE Nothing
    /\ IF ok THEN UNCHANGED <<fails, missed>> ELSE Fails /\ missed' = missed \cup served.all
    /\ Process(p, tree')
    /\ UNCHANGED <<server, claims, told, acks, polls>>

-----------------------------------------------------------------------------
(* Mutant: a response being sent by the other poll does not count. *)
NotSentYet(m) == m \notin sent

(* ResponseTracker.reserve: neither sent nor reserved. *)
Reservable(m) == m \notin sent /\ claims[m] = None

(* _ack_received for one interval, post_price_response. *)
Ack(p) ==
    /\ run[p].pc = "ack"
    /\ \E m \in run[p].todo :
           /\ Reservable(m) /\ claims' = [claims EXCEPT ![m] = p]
           /\ To(p, [run[p] EXCEPT !.pc = "post", !.posting = m, !.todo = {m} \cup (@ \ sent)])
    /\ UNCHANGED <<server, tree, sent, relay, acks, missed, fails, polls>>

(* An attempt without an answer, or with an error for one: the server may  *)
(* have taken the response in all the same.                                *)
Unanswered(m) ==
    /\ Fails
    /\ acks' \in {acks, [acks EXCEPT ![m] = [got |-> @.got + 1, unproved |-> @.unproved + 1]]}

(* with_retry makes another attempt of the same POST. *)
AttemptLost(p) ==
    /\ run[p].pc = "post" /\ Unanswered(run[p].posting)
    /\ UNCHANGED <<server, tree, run, sent, claims, relay, missed, polls>>

(* http.post() returned, or raised after its last attempt. *)
Posted(p, ok) ==
    /\ run[p].pc = "post"
    /\ LET m == run[p].posting IN
           /\ claims' = [claims EXCEPT ![m] = None]
           /\ IF ok THEN sent' = sent \cup {m} /\ acks' = [acks EXCEPT ![m].got = @ + 1]
                         /\ UNCHANGED fails
              ELSE Unanswered(m) /\ UNCHANGED sent
           /\ To(p, [run[p] EXCEPT !.pc = "ack", !.todo = @ \ {m}, !.posting = None])
    /\ UNCHANGED <<server, tree, relay, missed, polls>>

(* The end of process_tariffs: retain_mrids, and _active kept.  Had the    *)
(* tree been emptied meanwhile, the iteration over it raises.              *)
Finish(p) ==
    /\ sent' = IF tree = None THEN sent ELSE sent \cap run[p].seen.all
    /\ To(p, Idle)

(* Mutant: the transition is recorded before its price is fetched. *)
RecordsFirst(current) == active' = current

(* _relay_if_changed waits for the price with nothing recorded. *)
AwaitsPrice(current) == UNCHANGED active

(* _relay_if_changed, once every interval is acknowledged. *)
RelayIfChanged(p) ==
    LET current == ActiveInterval(run[p].seen, run[p].at) IN
    /\ run[p].pc = "ack" /\ run[p].todo \subseteq sent
    /\ CASE current = active -> Finish(p) /\ UNCHANGED active
         [] current # active /\ current = None -> Finish(p) /\ active' = None
         [] OTHER -> /\ To(p, [run[p] EXCEPT !.pc = "price"])
                     /\ AwaitsPrice(current) /\ UNCHANGED sent
    /\ UNCHANGED <<server, tree, claims, told, acks, missed, fails, polls>>

(* _fetch_prices answered: recorded and relayed, or left to the next poll. *)
Price(p, ok) ==
    LET current == ActiveInterval(run[p].seen, run[p].at) IN
    /\ run[p].pc = "price" /\ Finish(p)
    /\ IF ok THEN active' = current /\ told' = current /\ UNCHANGED fails
       ELSE Fails /\ UNCHANGED relay
    /\ UNCHANGED <<server, tree, claims, acks, missed, polls>>

-----------------------------------------------------------------------------
Tick == now < MaxTime /\ now' = now + 1
        /\ UNCHANGED <<served, changes, tree, run, sent, claims, relay, acks, missed, fails, polls>>

(* The server adds, withdraws or cancels an interval. *)
ServerChanges(m) ==
    /\ changes < MaxChanges /\ changes' = changes + 1
    /\ served' \in {[all |-> served.all \ {m}, off |-> served.off \ {m}],
                    [served EXCEPT !.all = @ \cup {m}],
                    [served EXCEPT !.off = @ \cup ({m} \cap served.all)]} \ {served}
    /\ missed' = missed \cup (served.all \ served'.all)
    /\ UNCHANGED <<now, tree, run, sent, claims, relay, acks, fails, polls>>

PollStep(p) ==
    \/ Begin(p) \/ ListRead(p) \/ Ack(p) \/ AttemptLost(p) \/ RelayIfChanged(p)
    \/ \E ok \in BOOLEAN : ListFails(p, ok) \/ Subtree(p, ok) \/ Posted(p, ok) \/ Price(p, ok)
Next == Tick \/ (\E m \in Mrids : ServerChanges(m)) \/ \E p \in Pollers : PollStep(p)

(* The poll loop runs for as long as the client does; requests end.        *)
Spec == Init /\ [][Next]_vars /\ \A p \in Pollers : WF_vars(PollStep(p))

-----------------------------------------------------------------------------
(* The server receives one response per interval, and one more for each    *)
(* attempt it took in and the client saw fail, though two polls overlap    *)
(* and a response that was not posted is tried again by the next           *)
(* (_ack_received, ResponseTracker.reserve, retain_mrids).  Again only     *)
(* after the interval was withdrawn, or a walk of the tree failed and the  *)
(* client took it for withdrawn.                                           *)
AckedOnce == \A m \in Mrids \ missed : acks[m].got <= 1 + acks[m].unproved

(* Its inductive strengthening.  Of an interval never missed, the server,  *)
(* the tree and every poll's walk have it, so no end of a poll forgets its *)
(* response, and _sent says whether a POST of it succeeded; and a response *)
(* is in flight only under its own poll's claim and before it is in _sent. *)
Lists == [all : SUBSET Mrids, off : SUBSET Mrids]
Runs == [pc : {"idle", "list", "subtree", "ack", "post", "price"}, seen : Lists,
         todo : SUBSET Mrids, posting : Mrids \cup {None}, at : Nat]
Shape ==
    /\ served \in Lists /\ tree \in Lists \cup {None} /\ now \in Nat /\ run \in [Pollers -> Runs]
    /\ claims \in [Mrids -> Pollers \cup {None}] /\ acks \in [Mrids -> Receipts]
    /\ \A p \in Pollers : run[p].pc = "post" => run[p].posting \in Mrids
Everywhere(m) ==
    /\ m \in served.all /\ (tree # None => m \in tree.all)
    /\ \A p \in Pollers : run[p].pc \in {"ack", "post", "price"} => m \in run[p].seen.all
Counted(m) == acks[m].got = acks[m].unproved + IF m \in sent THEN 1 ELSE 0
Claimed(p) ==
    run[p].pc = "post" => claims[run[p].posting] = p /\ run[p].posting \notin sent
IInv ==
    /\ Shape /\ \A m \in Mrids \ missed : Everywhere(m) /\ Counted(m)
    /\ \A p \in Pollers : Claimed(p)

(* The connectors learn the price in effect: once the schedule stands      *)
(* still, they are told of its interval, whatever polls overlapped, came   *)
(* late with an older one, or failed (_relay_if_changed, _active).         *)
CurrentTold ==
    LET current == ActiveInterval(served, now) IN current = None \/ told = current
PriceTold == []<>CurrentTold
=============================================================================
