------------------------------ MODULE Shutdown ------------------------------
(***************************************************************************)
(* CsipClient.shutdown against what runs beside it: the polls, the         *)
(* rediscoveries that notifications and the management API ask for, and    *)
(* the HTTP session, which any request opens anew (_get_session).  Every   *)
(* await of the shutdown lets the others run.                              *)
(***************************************************************************)
EXTENDS Naturals, FiniteSets, Sequences

CONSTANTS
    Notes,     \* structural notifications the server sends
    Calls,     \* rediscoveries called for by the host or the API
    None,
    MaxPasses  \* _MAX_REDISCOVERY_PASSES

Tasks == Notes \cup Calls

VARIABLES
    stage,     \* how far shutdown has come: 0 before, then ShutdownOrder
    waiting,   \* it awaits what that stage began
    listener,  \* the notification server's site is open
    tracked,   \* _background_tasks
    pc,        \* task -> where it is
    lock,      \* _rediscovery_lock's holder
    pending, passes,
    sched,     \* the PollScheduler in use, by number
    armed,     \* the schedulers whose polls run
    session,   \* the HTTP session is open
    late       \* history: a call overlapped the shutdown, or a notification came as it stopped

redis == <<pc, lock, pending, passes, sched>>
vars == <<stage, waiting, listener, tracked, redis, armed, session, late>>

(* Mutant: polling is stopped while notifications still come in. *)
PollsFirst == <<"subscriptions", "polls", "listener", "processors", "http">>
ShutdownOrder == <<"subscriptions", "listener", "processors", "polls", "http">>

Step == IF stage \in 1..Len(ShutdownOrder) THEN ShutdownOrder[stage] ELSE "no"
Returned == stage > Len(ShutdownOrder)

TypeOK ==
    /\ stage \in 0..Len(ShutdownOrder) + 1 /\ waiting \in BOOLEAN /\ listener \in BOOLEAN
    /\ tracked \subseteq Notes /\ pc \in [Tasks -> {"off", "begin", "reset", "walk", "done"}]
    /\ lock \in Tasks \cup {None} /\ pending \in BOOLEAN /\ passes \in 0..MaxPasses
    /\ armed \subseteq 0..sched /\ session \in BOOLEAN /\ late \in BOOLEAN

Init ==
    /\ stage = 0 /\ waiting = FALSE /\ listener = TRUE /\ tracked = {} /\ pc = [t \in Tasks |-> "off"]
    /\ lock = None /\ pending = FALSE /\ passes = 0 /\ sched = 0 /\ armed = {0} /\ session = TRUE
    /\ late = FALSE

-----------------------------------------------------------------------------
Alive(t) == pc[t] \notin {"off", "done"}

(* _handle_notification: the handler is a task of its own. *)
Notified(n) ==
    /\ listener /\ pc[n] = "off" /\ pc' = [pc EXCEPT ![n] = "begin"] /\ tracked' = tracked \cup {n}
    /\ late' = (late \/ (Step = "listener" /\ waiting))
    /\ UNCHANGED <<stage, waiting, listener, lock, pending, passes, sched, armed, session>>
Called(c) ==
    /\ pc[c] = "off" /\ ~Returned /\ pc' = [pc EXCEPT ![c] = "begin"]
    /\ late' = (late \/ stage > 0)
    /\ UNCHANGED <<stage, waiting, listener, tracked, lock, pending, passes, sched, armed, session>>

(* trigger_rediscovery: a running one takes the request over. *)
Ended(t) == pc' = [pc EXCEPT ![t] = "done"] /\ tracked' = tracked \ {t}
Enter(t) ==
    /\ pc[t] = "begin"
    /\ IF lock # None THEN pending' = TRUE /\ Ended(t) /\ UNCHANGED <<lock, passes, armed>>
       ELSE /\ lock' = t /\ pc' = [pc EXCEPT ![t] = "reset"] /\ armed' = armed \ {sched}
            /\ pending' = FALSE /\ passes' = 1 /\ UNCHANGED tracked
    /\ UNCHANGED <<stage, waiting, listener, sched, session, late>>
(* The polls are cancelled; a new scheduler, and discover's GETs. *)
Reset(t) ==
    /\ pc[t] = "reset" /\ pc' = [pc EXCEPT ![t] = "walk"] /\ sched' = sched + 1 /\ session' = TRUE
    /\ UNCHANGED <<stage, waiting, listener, tracked, lock, pending, passes, armed, late>>
(* The polls start, whether discovery failed or not; after a pass that     *)
(* did not, another while one is pending.                                  *)
Arms(t, ok) ==
    /\ pc[t] = "walk"
    /\ IF ok /\ pending /\ passes < MaxPasses
       THEN /\ pc' = [pc EXCEPT ![t] = "reset"] /\ pending' = FALSE /\ passes' = passes + 1
            /\ UNCHANGED <<lock, tracked, armed>>
       ELSE /\ Ended(t) /\ lock' = None /\ armed' = armed \cup {sched}
            /\ pending' = (pending /\ ~ok) /\ UNCHANGED passes
    /\ UNCHANGED <<stage, waiting, listener, sched, session, late>>

(* A poll's request. *)
Poll(g) ==
    /\ g \in armed /\ ~session /\ session' = TRUE
    /\ UNCHANGED <<stage, waiting, listener, tracked, redis, armed, late>>

-----------------------------------------------------------------------------
Begin ==
    /\ stage = 0 /\ stage' = 1 /\ waiting' = FALSE /\ late' = \E c \in Calls : Alive(c)
    /\ UNCHANGED <<listener, tracked, redis, armed, session>>
Finish == stage' = stage + 1 /\ waiting' = FALSE
Awaits == ~waiting /\ waiting' = TRUE /\ UNCHANGED stage

(* cancel_all of the subscriptions: their DELETEs; and the processors'     *)
(* shutdowns, which end timers and relays.                                 *)
CancelSubscriptions ==
    /\ Step = "subscriptions" /\ Finish /\ session' = TRUE
    /\ UNCHANGED <<listener, tracked, redis, armed, late>>
CloseProcessors ==
    /\ Step = "processors" /\ Finish /\ UNCHANGED <<listener, tracked, redis, armed, session, late>>

(* NotificationServer.stop: the handlers are cancelled and waited for,     *)
(* then the site closes.                                                   *)
StopHandlers ==
    /\ Step = "listener" /\ Awaits
    /\ pc' = [t \in Tasks |-> IF t \in tracked THEN "done" ELSE pc[t]]
    /\ lock' = IF lock \in tracked THEN None ELSE lock
    /\ tracked' = {} /\ UNCHANGED <<listener, pending, passes, sched, armed, session, late>>
StopSite ==
    /\ Step = "listener" /\ waiting /\ Finish /\ listener' = FALSE /\ tracked' = {}
    /\ UNCHANGED <<redis, armed, session, late>>

(* PollScheduler.cancel_all, of the scheduler in use when it is called. *)
CancelPolls ==
    /\ Step = "polls" /\ Awaits /\ armed' = armed \ {sched}
    /\ UNCHANGED <<listener, tracked, redis, session, late>>
PollsCancelled ==
    /\ Step = "polls" /\ waiting /\ Finish /\ UNCHANGED <<listener, tracked, redis, armed, session, late>>

(* Sep2Client.close. *)
CloseSession ==
    /\ Step = "http" /\ Finish /\ session' = FALSE
    /\ UNCHANGED <<listener, tracked, redis, armed, late>>

Next == \/ Begin \/ CancelSubscriptions \/ CloseProcessors \/ StopHandlers \/ StopSite
        \/ CancelPolls \/ PollsCancelled \/ CloseSession
        \/ \E n \in Notes : Notified(n) \/ \E c \in Calls : Called(c)
        \/ \E t \in Tasks : Enter(t) \/ Reset(t) \/ \E ok \in BOOLEAN : Arms(t, ok)
        \/ \E g \in 0..sched : Poll(g)
Spec == Init /\ [][Next]_vars

-----------------------------------------------------------------------------
(* Once shutdown has returned nothing of the client is left: no poll runs, *)
(* no request can open the session again, no handler works on; whatever    *)
(* notifications came in and rediscoveries ran while it stopped.  Not      *)
(* against a rediscovery called for by the host meanwhile, nor for a       *)
(* notification accepted as the listener closes, whose handler nobody      *)
(* tracks (shutdown, NotificationServer.stop).                             *)
NothingRuns == armed = {} /\ ~session /\ ~listener /\ \A t \in Tasks : ~Alive(t)
StoppedForGood == Returned /\ ~late => NothingRuns

(* shutdown's docstring: "Gracefully stop polling, event timers, and close *)
(* the HTTP session."                                                      *)
ShutdownStopsPolling == Returned => armed = {} /\ ~session

-----------------------------------------------------------------------------
Shape ==
    /\ stage \in Nat /\ tracked \subseteq Notes /\ lock \in Tasks \cup {None} /\ sched \in Nat
    /\ pc \in [Tasks -> {"off", "begin", "reset", "walk", "done"}] /\ armed \subseteq {sched}

(* The rediscovery under way holds the lock, and no poll runs. *)
LockHeld ==
    /\ \A t \in Tasks : pc[t] \in {"reset", "walk"} <=> lock = t
    /\ lock # None => armed = {}

(* Who can still act: before the shutdown a call or a tracked handler, in  *)
(* it tracked handlers only, unless a late one came.                       *)
HandlersTracked ==
    \A t \in Tasks : Alive(t) =>
        t \in tracked \/ (IF stage = 0 THEN t \in Calls ELSE late)

(* How far it has come, and what is over by then. *)
Past(n) == stage > n \/ (stage = n /\ waiting)
Stopped ==
    /\ stage > 2 => ~listener
    /\ Past(2) /\ ~late => tracked = {}
    /\ Past(4) /\ ~late => armed = {}
    /\ stage > 5 /\ ~late => ~session

(* The inductive invariant StoppedForGood follows from. *)
IInv == Shape /\ LockHeld /\ HandlersTracked /\ Stopped
=============================================================================
