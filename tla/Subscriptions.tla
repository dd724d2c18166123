--------------------------- MODULE Subscriptions ---------------------------
(***************************************************************************)
(* SubscriptionManager (subscription/manager.py) under CsipClient's use of *)
(* it: subscribing after a rediscovery and after a short outage, the       *)
(* reconcile poll, renewal, the notification handlers, and the polls that  *)
(* an active subscription suppresses.  The awaits interleave: a            *)
(* subscription is looked for, then POSTed, then recorded.                 *)
(*                                                                         *)
(* A subscription's URI is the resource and how many subscriptions the     *)
(* server has made for it; the server answers a POST for a resource it     *)
(* holds one for with that one (Annex C.9, external).                      *)
(***************************************************************************)
EXTENDS Naturals, FiniteSets, FiniteSetsExt, Functions

CONSTANTS
    DeviceLists, FsaLists, ControlLists, \* subscribable resources, by type
    MaxEvents,  \* bound: changes, cancellations and losses at the server
    MaxFaults   \* bound: requests that fail, and outages

Resources == DeviceLists \cup FsaLists \cup ControlLists

(* _RESOURCE_TYPE_TO_POLL_KEY, without the tariffs' key. *)
PollKey == [r \in Resources |-> IF r \in DeviceLists THEN "edev"
                                ELSE IF r \in FsaLists THEN "fsa" ELSE "derp"]

VARIABLES
    subs,     \* _subscriptions
    known,    \* _compute_desired_subscriptions of the discovered state
    mute,     \* _resubscribe_suppressed
    keys,     \* the scheduler's suppressed poll keys
    recent,   \* _dedup_cache: resources inside the 5 s window
    task,     \* the tasks that issue requests, where they are and with what
    wanted,   \* a rediscovery has been asked for
    holds,    \* resources the server holds a subscription for (external)
    gen,      \* subscriptions the server has made for a resource (external)
    offered,  \* resources the server offers to subscribe to (external)
    unseen,   \* resources that changed since the client last read them
    inbox,    \* notifications under way
    undone,   \* history: a cancelled resource was subscribed to again
    events, faults

vars == <<subs, known, mute, keys, recent, task, wanted, holds, gen, offered, unseen, inbox,
          undone, events, faults>>

Tasks == {"rediscovery", "contact", "reconcile"}
Structural(r) == PollKey[r] \in {"edev", "fsa"}  \* _STRUCTURAL_RESOURCE_TYPES
Idle == [pc |-> "idle", todo |-> {}, posts |-> {}, page |-> {}]
Status == {"changed", "cancelled", "moved", "definition"}  \* moved: deleted too

(* An entry of _subscriptions, by what tells two apart. *)
Sub(r, g) == [res |-> r, gen |-> g, status |-> "active"]
Active == {s \in subs : s.status = "active"}
ActiveFor(r) == \E s \in Active : s.res = r
Without(set, gone) == {s \in set : \A x \in gone : s.res # x.res \/ s.gen # x.gen}

TypeOK ==
    /\ \A s \in subs : s.res \in Resources /\ s.gen \in Nat /\ s.status \in {"active", "cancelled"}
    /\ known \subseteq Resources /\ mute \subseteq Resources /\ recent \subseteq Resources
    /\ keys \subseteq Range(PollKey)
    /\ \A t \in Tasks : task[t].todo \subseteq Resources /\ task[t].posts \subseteq Resources
    /\ holds \subseteq Resources /\ offered \subseteq Resources /\ unseen \subseteq Resources
    /\ \A n \in inbox : n.status \in Status /\ n.res \in Resources
    /\ wanted \in BOOLEAN /\ undone \in BOOLEAN
    /\ events \in 0..MaxEvents /\ faults \in 0..MaxFaults

(* connect: everything offered was subscribed to, and the polls it covers  *)
(* are suppressed.                                                         *)
Init ==
    /\ known = Resources /\ offered = Resources /\ holds = Resources
    /\ gen = [r \in Resources |-> 1] /\ subs = {Sub(r, 1) : r \in Resources}
    /\ mute = {} /\ keys = Range(PollKey) /\ recent = {} /\ unseen = {} /\ inbox = {}
    /\ task = [t \in Tasks |-> Idle] /\ wanted = FALSE /\ undone = FALSE
    /\ events = 0 /\ faults = 0

-----------------------------------------------------------------------------
(* Between two of its POSTs a task awaits nothing, so no other runs. *)
Running(t) == task[t].pc \in {"auto", "repost"} /\ task[t].posts = {}
Awaiting == \A t \in Tasks : ~Running(t)

Busy == task["rediscovery"].pc # "idle"  \* _rediscovery_lock is held
Fault == faults < MaxFaults /\ faults' = faults + 1
Event == events < MaxEvents /\ events' = events + 1
external == <<holds, gen, offered>>
view == <<known, mute, recent, unseen, inbox>>

(* _update_poll_suppression: a key is suppressed by any active subscription*)
(* it covers, but "fsa" only when every known FSA list is subscribed to.   *)
SuppressedBy(now) ==
    LET live == {s.res : s \in {x \in now : x.status = "active"}}
        open == \E r \in known : PollKey[r] = "fsa" /\ r \notin live
    IN  {PollKey[r] : r \in live} \ (IF open THEN {"fsa"} ELSE {})

(* The answer to a Subscription POST: made, or the one held already. *)
Made(r) == holds' = holds \cup {r} /\ gen' = [gen EXCEPT ![r] = IF r \in holds THEN @ ELSE @ + 1]

(* subscribe: nothing for a resource with an active entry, else a POST by  *)
(* the task; the answer is recorded later, whatever happened meanwhile.    *)
BeginSubscribe(t, r, now) ==
    task' = [task EXCEPT ![t].todo = @ \ {r},
                 ![t].posts = IF \E s \in now : s.res = r /\ s.status = "active" THEN @
                              ELSE @ \cup {r}]

Subscribed(t, r) ==
    /\ Awaiting /\ r \in task[t].posts /\ Made(r)
    /\ subs' = Without(subs, {Sub(r, gen'[r])}) \cup {Sub(r, gen'[r])}
    /\ task' = [task EXCEPT ![t].posts = @ \ {r}]
    /\ UNCHANGED <<view, keys, undone, wanted, offered, events, faults>>

(* Refused, or lost with or without having reached the server. The         *)
(* reconcile poll puts back the entry it removed.                          *)
SubscribeFails(t, r) ==
    /\ Awaiting /\ r \in task[t].posts /\ Fault
    /\ Made(r) \/ UNCHANGED <<holds, gen>>
    /\ subs' = IF t = "reconcile" THEN subs \cup {s \in task[t].page : s.res = r} ELSE subs
    /\ task' = [task EXCEPT ![t].posts = @ \ {r}]
    /\ UNCHANGED <<view, keys, undone, wanted, offered, events>>

-----------------------------------------------------------------------------
(* trigger_rediscovery: it cancels the polls, and with them the tasks that *)
(* run in them, and the renewal task; the new scheduler suppresses nothing.*)
Rediscover ==
    /\ Awaiting /\ wanted /\ ~Busy
    /\ wanted' = FALSE /\ keys' = {}
    /\ task' = [t \in Tasks |-> IF t = "rediscovery" THEN [Idle EXCEPT !.pc = "walk"] ELSE Idle]
    /\ UNCHANGED <<view, external, subs, undone, events, faults>>

(* discover failed: the polls start again, none suppressed. *)
RediscoverFails ==
    /\ Awaiting /\ task["rediscovery"].pc = "walk" /\ Fault
    /\ task' = [task EXCEPT !["rediscovery"] = Idle]
    /\ UNCHANGED <<view, external, subs, keys, undone, wanted, events>>

(* _compute_desired_subscriptions, over the tree just discovered. *)
Desired == offered

(* The DELETEs of subscriptions; one that fails leaves it at the server. *)
CancelOne(gone) ==
    \/ holds' = holds \ {s.res : s \in {x \in gone : x.gen = gen[x.res]}} /\ UNCHANGED faults
    \/ gone # {} /\ Fault /\ UNCHANGED holds

(* discover and reconcile(renew_kept=False): entries that are not active   *)
(* go, active ones no longer desired are DELETEd and go whatever the       *)
(* answer, and every desired resource left without one is subscribed to,   *)
(* the suppressed ones too.  With nothing desired, cancel_all.             *)
Reconcile ==
    /\ Awaiting /\ task["rediscovery"].pc = "walk"
    /\ known' = Desired /\ unseen' = {}
    /\ subs' = {s \in Active : s.res \in Desired}
    /\ CancelOne({s \in Active : s.res \notin Desired})
    /\ task' = [task EXCEPT !["rediscovery"] =
                    [Idle EXCEPT !.pc = IF Desired = {} THEN "auto" ELSE "create",
                                 !.posts = {r \in Desired : ~ActiveFor(r)}]]
    /\ undone' = (undone \/ \E r \in mute \cap Desired : ~ActiveFor(r))
    /\ UNCHANGED <<mute, recent, inbox, keys, wanted, gen, offered, events>>

(* The SubscriptionList is read, then applied: reconcile_with_server.  The *)
(* rediscovery adopts URIs and drops what a populated list omits; the poll *)
(* removes what the list omits and POSTs it again, one by one.             *)
Listed == {Sub(r, gen[r]) : r \in holds}

ReadList(t) ==
    /\ Awaiting
    /\ \/ t = "rediscovery" /\ task[t].pc = "create" /\ task[t].posts = {}
       \/ t = "reconcile" /\ task[t].pc = "idle" /\ Active # {}
          /\ ~Busy
    /\ task' = [task EXCEPT ![t].pc = "list", ![t].page = Listed]
    /\ UNCHANGED <<view, external, subs, keys, undone, wanted, events, faults>>

KeepsOwnUri(s, page) == s  \* Mutant: a drifted URI is not adopted

Adopt(s, page) == CHOOSE x \in page : x.res = s.res

Absent(page) == {s \in Active : s.res \notin {x.res : x \in page}}
Adopted(page) ==
    LET mine == Absent(page) \cup {Adopt(s, page) : s \in Active \ Absent(page)}
    IN  Without(subs \ Active, mine) \cup mine

ApplyListRediscovery ==
    LET t == "rediscovery"
        new == IF task[t].page = {} THEN subs ELSE Adopted(task[t].page) \ Absent(task[t].page)
    IN  /\ Awaiting /\ task[t].pc = "list"
        /\ subs' = new /\ keys' = SuppressedBy(new)
        /\ task' = [task EXCEPT ![t] = [Idle EXCEPT !.pc = "auto", !.todo = known \ mute]]
        /\ UNCHANGED <<view, external, undone, wanted, events, faults>>

ApplyListPoll ==
    LET t == "reconcile"
    IN  /\ Awaiting /\ task[t].pc = "list"
        /\ subs' = Adopted(task[t].page)
        /\ LET absent == Absent(task[t].page)
           IN  task' = [task EXCEPT ![t] =
                   IF absent = {} THEN Idle
                   ELSE [Idle EXCEPT !.pc = "repost", !.page = absent,
                                     !.todo = {s.res : s \in absent}]]
        /\ UNCHANGED <<view, external, keys, undone, wanted, events, faults>>

(* The GET of the list failed: the next poll tries again, and a            *)
(* rediscovery goes on.                                                    *)
ListFails(t) ==
    /\ Awaiting /\ task[t].pc = "list" /\ Fault
    /\ IF t = "rediscovery"
       THEN /\ keys' = SuppressedBy(subs)
            /\ task' = [task EXCEPT ![t] = [Idle EXCEPT !.pc = "auto", !.todo = known \ mute]]
       ELSE task' = [task EXCEPT ![t] = Idle] /\ keys' = keys
    /\ UNCHANGED <<view, external, subs, undone, wanted, events>>

(* One POST at a time: _auto_subscribe, and the poll's, which removes the  *)
(* entry first so that subscribe POSTs.                                    *)
NextPost(t) ==
    /\ Running(t)
    /\ \E r \in task[t].todo :
         LET now == Without(subs, {s \in task[t].page : s.res = r})
         IN  /\ subs' = now /\ BeginSubscribe(t, r, now)
             /\ undone' = (undone \/ r \in mute \cap task'[t].posts)
    /\ UNCHANGED <<view, external, keys, wanted, events, faults>>

(* After _auto_subscribe a rediscovery suppresses again what is covered    *)
(* and reads the controls; the recovery of a short outage and the poll do  *)
(* not.  It holds its lock while the controls are processed.               *)
TaskDone(t) ==
    /\ Running(t) /\ task[t].todo = {}
    /\ task' = [task EXCEPT ![t] = IF t = "rediscovery" THEN [Idle EXCEPT !.pc = "process"]
                                   ELSE Idle]
    /\ keys' = IF t = "rediscovery" THEN SuppressedBy(subs) ELSE keys
    /\ unseen' = IF t = "rediscovery" THEN {r \in unseen : Structural(r)} ELSE unseen
    /\ UNCHANGED <<known, mute, recent, inbox, external, subs, undone, wanted, events, faults>>

RediscoveryDone ==
    /\ Awaiting /\ task["rediscovery"].pc = "process"
    /\ task' = [task EXCEPT !["rediscovery"] = Idle]
    /\ UNCHANGED <<view, external, subs, keys, undone, wanted, events, faults>>

(* _note_successful_contact after fewer failures than mean a restart.      *)
ContactRecovers ==
    /\ Awaiting /\ task["contact"].pc = "idle" /\ ~Busy /\ Fault
    /\ task' = [task EXCEPT !["contact"] = [Idle EXCEPT !.pc = "auto", !.todo = known \ mute]]
    /\ UNCHANGED <<view, external, subs, keys, undone, wanted, events>>

(* ... and after more: the server restarted without its subscriptions, the *)
(* cancellations no longer count, and a rediscovery follows.               *)
Reconnects ==
    /\ Awaiting /\ ~Busy /\ Fault
    /\ mute' = {} /\ wanted' = TRUE /\ holds' = {}
    /\ UNCHANGED <<known, recent, unseen, inbox, subs, keys, undone, task, gen, offered, events>>

-----------------------------------------------------------------------------
(* start_renewal_task: each active subscription is PUT to its URI, or      *)
(* POSTed again where the server no longer knows that URI: both leave the  *)
(* server with one, whose URI the entry takes (renew).                     *)
Renew(s) ==
    /\ Awaiting /\ ~Busy /\ Made(s.res)
    /\ LET new == Sub(s.res, gen'[s.res])
       IN  new # s /\ subs' = Without(subs, {s, new}) \cup {new}
    /\ UNCHANGED <<view, keys, undone, task, wanted, offered, events, faults>>

(* Refused: 401 and 404 ask for a rediscovery, other answers for nothing.  *)
RenewRejected(s) ==
    /\ Awaiting /\ ~Busy /\ Fault /\ wanted' = TRUE
    /\ UNCHANGED <<view, external, subs, keys, undone, task, events>>

(* Unanswered, but carried out by the server under a new URI: only reading *)
(* its list will tell.  One carried out under the old URI, or not at all,  *)
(* changes nothing here.                                                   *)
RenewUnanswered(s) ==
    /\ Awaiting /\ ~Busy /\ Fault
    /\ holds' = holds \cup {s.res} /\ gen' = [gen EXCEPT ![s.res] = @ + 1]
    /\ UNCHANGED <<view, subs, keys, undone, task, wanted, offered, events>>

-----------------------------------------------------------------------------
(* _handle_notification.  A change: dropped inside the dedup window unless *)
(* it is a control's; structural ones ask for a rediscovery, or another    *)
(* pass of the one running; the others are read at once, or left to the    *)
(* rediscovery that runs.  One whose read fails is as one that was lost.   *)
TargetedRefresh(r) == unseen' = unseen \ {r}

Changed(n) ==
    LET duplicate == Structural(n.res) /\ n.res \in recent
    IN  /\ Awaiting /\ n.status = "changed" /\ inbox' = inbox \ {n}
        /\ recent' = IF Structural(n.res) THEN recent \cup {n.res} ELSE recent
        /\ wanted' = (wanted \/ (Structural(n.res) /\ (duplicate => Busy)))
        /\ IF Structural(n.res) \/ Busy THEN UNCHANGED unseen ELSE TargetedRefresh(n.res)
        /\ UNCHANGED <<known, mute, external, subs, keys, undone, task, events, faults>>

(* The server ended the subscription: it is no longer active and its polls *)
(* resume.  A plain cancellation is honoured by not subscribing again; a   *)
(* moved or deleted resource asks for a rediscovery.                       *)
StaysSuppressed(now) == keys  \* Mutant: the polls a subscription covered stay suppressed

Resumed(now) == SuppressedBy(now)

Ended(n) ==
    LET now == {IF s.res = n.res /\ s.gen = n.gen THEN [s EXCEPT !.status = "cancelled"] ELSE s :
                   s \in subs}
    IN  /\ Awaiting /\ n.status # "changed" /\ inbox' = inbox \ {n}
        /\ subs' = now /\ keys' = Resumed(now)
        /\ mute' = IF n.status = "cancelled" THEN mute \cup {n.res} ELSE mute
        /\ wanted' = (wanted \/ n.status = "moved")
        /\ UNCHANGED <<known, recent, unseen, external, undone, task, events, faults>>

WindowPasses ==
    /\ Awaiting /\ recent # {} /\ recent' = {}
    /\ UNCHANGED <<known, mute, unseen, inbox, external, subs, keys, undone, task, wanted, events, faults>>

-----------------------------------------------------------------------------
(* The server: a resource changes, with a notification that may be lost; a *)
(* subscription ends, with one or without; what is offered changes.        *)
ServerChanges(r) ==
    /\ Awaiting /\ Event /\ unseen' = unseen \cup {r}
    /\ inbox' \in {inbox} \cup {inbox \cup {[status |-> "changed", res |-> r, gen |-> gen[r]]} :
                                 x \in holds \cap {r}}
    /\ UNCHANGED <<known, mute, recent, external, subs, keys, undone, task, wanted, faults>>

ServerEnds(r) ==
    /\ Awaiting /\ r \in holds /\ Event /\ holds' = holds \ {r}
    /\ \E st \in Status \ {"changed"} :
         inbox' \in {inbox, inbox \cup {[status |-> st, res |-> r, gen |-> gen[r]]}}
    /\ UNCHANGED <<known, mute, recent, unseen, gen, offered, subs, keys, undone, task, wanted, faults>>

ServerOffers(r) ==
    /\ Awaiting /\ Event /\ offered' = IF r \in offered THEN offered \ {r} ELSE offered \cup {r}
    /\ UNCHANGED <<view, holds, gen, subs, keys, undone, task, wanted, faults>>

(* A poll loop's turn: a suppressed key is polled when its heartbeat is    *)
(* due.  The fsa poll skips the lists that are subscribed to.              *)
NoHeartbeat(k) == k \notin keys  \* Mutant: a suppressed key is never polled

PollDue(k) == TRUE

Poll(k) ==
    /\ Awaiting /\ ~Busy /\ PollDue(k)
    /\ LET read == {r \in known : PollKey[r] = k /\ ~(k = "fsa" /\ ActiveFor(r))}
       IN  read \cap unseen # {} /\ unseen' = unseen \ read
    /\ UNCHANGED <<known, mute, recent, inbox, external, subs, keys, undone, task, wanted, events, faults>>

-----------------------------------------------------------------------------
TaskStep(t) == NextPost(t) \/ TaskDone(t) \/ \E r \in Resources : Subscribed(t, r)
RediscoveryStep ==
    \/ Rediscover \/ Reconcile \/ ReadList("rediscovery") \/ ApplyListRediscovery
    \/ RediscoveryDone \/ TaskStep("rediscovery")
PollStep == ReadList("reconcile") \/ ApplyListPoll \/ TaskStep("reconcile")
Handle == \E n \in inbox : Changed(n) \/ Ended(n)

Next ==
    \/ RediscoveryStep \/ RediscoverFails \/ PollStep \/ TaskStep("contact")
    \/ ContactRecovers \/ Reconnects \/ Handle \/ WindowPasses
    \/ \E t \in {"rediscovery", "reconcile"} : ListFails(t)
    \/ \E t \in Tasks, r \in Resources : SubscribeFails(t, r)
    \/ \E s \in Active : Renew(s) \/ RenewRejected(s) \/ RenewUnanswered(s)
    \/ \E r \in Resources : ServerChanges(r) \/ ServerEnds(r) \/ ServerOffers(r)
    \/ \E k \in Range(PollKey) : Poll(k)

(* Tasks go on, requests end, polls and the reconcile poll come round;     *)
(* nothing relies on the daily renewal.                                    *)
Spec ==
    /\ Init /\ [][Next]_vars
    /\ WF_vars(RediscoveryStep) /\ WF_vars(PollStep) /\ WF_vars(TaskStep("contact"))
    /\ WF_vars(Handle) /\ WF_vars(WindowPasses)
    /\ \A k \in Range(PollKey) : WF_vars(Poll(k))

-----------------------------------------------------------------------------
(* When faults cease, every subscription the client takes for active is    *)
(* one the server holds, under that URI, whatever was lost, renumbered or  *)
(* subscribed to twice (reconcile_with_server, renew, subscribe).          *)
NoDeadSubscription ==
    <>[](\A s \in Active : s.res \in holds /\ s.gen = gen[s.res])

(* A change of a control or program list is read in the end although its   *)
(* notification was lost, dropped as a duplicate or met a rediscovery      *)
(* (_heartbeat_due, _update_poll_suppression).                             *)
ChangeObserved ==
    \A r \in Resources : ~Structural(r) => (r \in unseen ~> (r \notin unseen \/ r \notin known))

(* The same of every resource, FSA lists included: what the comment on     *)
(* _HEARTBEAT_CEILING_S says of every key a subscription suppresses.       *)
EveryChangeObserved ==
    \A r \in Resources : r \in unseen ~> (r \notin unseen \/ r \notin known)

(* A cancellation (status 1) is honoured until a genuine reconnect: the    *)
(* resource is not subscribed to again (suppress_resubscribe).             *)
CancellationHonoured == ~undone
=============================================================================
