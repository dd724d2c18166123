----------------------------- MODULE Rediscovery -----------------------------
(***************************************************************************)
(* CsipClient.trigger_rediscovery, the tasks of the PollScheduler it tears *)
(* down and re-arms, and the loss-of-communications probe that recovers    *)
(* through it (client/csip_client.py, client/polling.py).                  *)
(*                                                                         *)
(* A step is the code between two awaits of one asyncio loop.  The         *)
(* scheduled tasks are the resource polls, the connectivity heartbeat and  *)
(* the probe; Others are the tasks of notification handlers, subscription  *)
(* renewal and operator calls.  PollScheduler.cancel_all cancels every     *)
(* task of the scheduler, also the one that called it: such a caller gets  *)
(* its CancelledError at the await inside cancel_all.                      *)
(***************************************************************************)
EXTENDS Integers, FiniteSets

CONSTANTS
    Polls,          \* keys of the polls run by _poll_with_404_recovery
    Beat, Probe,    \* the connectivity and comms_loss keys
    Others,         \* tasks outside the scheduler
    NoTask,
    Detects,        \* comms_loss_seconds > 0
    MaxPasses,      \* _MAX_REDISCOVERY_PASSES
    Threshold,      \* _SERVER_RESTART_DETECTION_THRESHOLD
    Moves,          \* bound: a poll may be answered 404 or redirected
    MaxFailures,    \* bound: failed polls
    MaxChanges,     \* bound: structural changes on the server
    Bursts,         \* bound: changes may follow within the dedup window
    MaxOutages      \* bound: times the server goes away

Probes    == {Beat} \cup (IF Detects THEN {Probe} ELSE {})
Scheduled == Polls \cup Probes
Tasks     == Scheduled \cup Others

ASSUME ConstantsAssumption ==
    /\ Beat # Probe /\ {Beat, Probe} \cap (Polls \cup Others) = {}
    /\ Polls \cap Others = {} /\ NoTask \notin Tasks
    /\ Detects \in BOOLEAN /\ Moves \in BOOLEAN
    /\ Bursts \in BOOLEAN /\ MaxPasses \in Nat \ {0} /\ Threshold \in Nat \ {0}
    /\ MaxFailures \in Nat /\ MaxChanges \in Nat /\ MaxOutages \in Nat

VARIABLES
    up,         \* the server answers
    server,     \* version of the server's resource tree
    seen,       \* version ResourceState was built from, Cleared when empty
    read,       \* the server's version when the running pass cleared it
    ready,      \* _state_ready
    rated,      \* the resource polls with a rate in ResourceState.poll_rates
    pc,         \* where each task is
    lock,       \* the task in _rediscovery_lock
    pending,    \* _rediscovery_pending
    passes,     \* passes of the running trigger_rediscovery
    recovering, \* the tasks inside _recover_from_comms_loss
    probeLock,  \* holder of the current scheduler's comms_loss lock
    failures,   \* _poll_failure_count
    failed,     \* bound: poll failures so far
    silent,     \* no contact for comms_loss_seconds
    lost,       \* CommsLossState.active
    reported,   \* diagnostic of the last rediscovery: "none", "failed", "max_passes"
    outages,    \* bound: outages so far
    recent,     \* a change of the resource was notified within _DEDUP_WINDOW
    cutShort    \* history: the last rediscovery was cancelled by its own cancel_all

serverVars == <<up, server, outages, recent>>
stateVars  == <<seen, read, ready, rated>>
redisVars  == <<lock, pending, passes, reported, cutShort>>
lossVars   == <<recovering, probeLock, silent, lost>>
countVars  == <<failures, failed>>
vars == <<serverVars, stateVars, pc, redisVars, lossVars, countVars>>

Cleared == -1

(* "off": no such task; "wait": a poll between two ticks. *)
Places == {"off", "wait", "poll", "reregister", "cancelling", "discover",
           "rebuild", "listener"}

TypeOK ==
    /\ up \in BOOLEAN /\ server \in 0..MaxChanges /\ outages \in 0..MaxOutages
    /\ recent \in BOOLEAN /\ cutShort \in BOOLEAN
    /\ seen \in {Cleared} \cup 0..server /\ read \in 0..server
    /\ ready \in BOOLEAN /\ rated \subseteq Polls
    /\ pc \in [Tasks -> Places]
    /\ lock \in Tasks \cup {NoTask} /\ pending \in BOOLEAN
    /\ passes \in 0..MaxPasses /\ reported \in {"none", "failed", "max_passes"}
    /\ recovering \subseteq Tasks /\ probeLock \in Tasks \cup {NoTask}
    /\ silent \in BOOLEAN /\ lost \in BOOLEAN
    /\ failures \in 0..MaxFailures /\ failed \in 0..MaxFailures

(* run(): discovery has succeeded and the polls are started. *)
Init ==
    /\ up = TRUE /\ server = 0 /\ outages = 0 /\ recent = FALSE
    /\ seen = 0 /\ read = 0 /\ ready = TRUE /\ rated = Polls
    /\ pc = [t \in Tasks |-> IF t \in Scheduled THEN "wait" ELSE "off"]
    /\ lock = NoTask /\ pending = FALSE /\ passes = 0 /\ reported = "none"
    /\ cutShort = FALSE
    /\ recovering = {} /\ probeLock = NoTask /\ silent = FALSE /\ lost = FALSE
    /\ failures = 0 /\ failed = 0

-----------------------------------------------------------------------------
(* Where a task rests once its work is done. *)
Rest(t) == IF t \in Scheduled THEN "wait" ELSE "off"

(* t leaves the recovery it was in, if any, and the probe's lock with it. *)
LeavesRecovery(t) ==
    /\ recovering' = recovering \ {t}
    /\ probeLock' = IF probeLock = t THEN NoTask ELSE probeLock

(* Mutant: the count of passes starts over in the loop. *)
BeginPassUncounted(t, n) ==
    /\ pending' = FALSE /\ passes' = 1
    /\ pc' = [u \in Tasks |-> IF u = t THEN "cancelling"
                              ELSE IF u \in Scheduled THEN "off" ELSE pc[u]]
    /\ recovering' = recovering \ (Scheduled \ {t})
    /\ probeLock' = IF probeLock \in Scheduled \ {t} THEN NoTask ELSE probeLock

(* One turn of the loop of trigger_rediscovery up to the await in          *)
(* cancel_all: every scheduled task is cancelled at its await, t included. *)
BeginPass(t, n) ==
    /\ pending' = FALSE /\ passes' = n
    /\ pc' = [u \in Tasks |-> IF u = t THEN "cancelling"
                              ELSE IF u \in Scheduled THEN "off" ELSE pc[u]]
    /\ recovering' = recovering \ (Scheduled \ {t})
    /\ probeLock' = IF probeLock \in Scheduled \ {t} THEN NoTask ELSE probeLock

(* trigger_rediscovery by t: it coalesces into a running one or starts.    *)
Trigger(t) ==
    \/ /\ lock # NoTask
       /\ pending' = TRUE
       /\ pc' = [pc EXCEPT ![t] = Rest(t)]
       /\ LeavesRecovery(t)
       /\ UNCHANGED <<lock, passes, reported, cutShort>>
    \/ /\ lock = NoTask
       /\ lock' = t
       /\ BeginPass(t, 1)
       /\ UNCHANGED <<reported, cutShort>>

(* Mutant: the state is cleared before the polls are cancelled. *)
AbortedAfterClear(t) ==
    /\ pc[t] = "cancelling" /\ t \in Scheduled
    /\ pc' = [pc EXCEPT ![t] = "off"]
    /\ lock' = NoTask /\ cutShort' = TRUE
    /\ LeavesRecovery(t)
    /\ seen' = Cleared
    /\ UNCHANGED <<serverVars, read, ready, rated, pending, passes, reported,
                   silent, lost, countVars>>

(* cancel_all in a task of the scheduler: CancelledError ends the task and *)
(* releases the locks; the scheduler stays shut down.                      *)
Aborted(t) ==
    /\ pc[t] = "cancelling" /\ t \in Scheduled
    /\ pc' = [pc EXCEPT ![t] = "off"]
    /\ lock' = NoTask /\ cutShort' = TRUE
    /\ LeavesRecovery(t)
    /\ UNCHANGED <<serverVars, stateVars, pending, passes, reported, silent,
                   lost, countVars>>

(* The old scheduler is gone: a new empty one, and the state is cleared.   *)
ClearState(t) ==
    /\ pc[t] = "cancelling" /\ t \notin Scheduled
    /\ pc' = [pc EXCEPT ![t] = "discover"]
    /\ probeLock' = NoTask
    /\ ready' = FALSE /\ seen' = Cleared /\ read' = server /\ rated' = {}
    /\ UNCHANGED <<serverVars, redisVars, recovering, silent, lost, countVars>>

(* discover() succeeded.  What changed while it ran it may have read or    *)
(* missed.                                                                 *)
Discovered(t) ==
    /\ pc[t] = "discover" /\ up
    /\ seen' \in read..server
    /\ ready' = TRUE /\ rated' = Polls
    /\ silent' = FALSE
    /\ pc' = [pc EXCEPT ![t] = "rebuild"]
    /\ UNCHANGED <<serverVars, read, redisVars, recovering, probeLock, lost, countVars>>

(* _start_polls for the keys with a rate. *)
Started(keys, t, place) ==
    [u \in Tasks |-> IF u = t THEN place
                     ELSE IF u \in keys \cup Probes THEN "wait" ELSE pc[u]]

(* Mutant: the gate is not opened after a failure. *)
DiscoverFailsGateShut(t) ==
    /\ pc[t] = "discover" /\ ~up
    /\ rated' \in SUBSET Polls
    /\ pc' = Started(rated', t, Rest(t))
    /\ lock' = NoTask /\ reported' = "failed" /\ cutShort' = FALSE
    /\ LeavesRecovery(t)
    /\ UNCHANGED <<serverVars, seen, read, ready, pending, passes, silent, lost, countVars>>

(* discover() raised: the gate opens, and the polls it got a rate for      *)
(* before it raised are armed again.                                       *)
DiscoverFails(t) ==
    /\ pc[t] = "discover" /\ ~up
    /\ ready' = TRUE
    /\ rated' \in SUBSET Polls
    /\ pc' = Started(rated', t, Rest(t))
    /\ lock' = NoTask /\ reported' = "failed" /\ cutShort' = FALSE
    /\ LeavesRecovery(t)
    /\ UNCHANGED <<serverVars, seen, read, pending, passes, silent, lost, countVars>>

(* Mutant: the polls are not armed again after a failure. *)
RebuildFailsUnarmed(t) ==
    /\ pc[t] = "rebuild" /\ ~up
    /\ pc' = [pc EXCEPT ![t] = Rest(t)]
    /\ lock' = NoTask /\ reported' = "failed" /\ cutShort' = FALSE
    /\ LeavesRecovery(t)
    /\ UNCHANGED <<serverVars, stateVars, pending, passes, silent, lost, countVars>>

(* A request of the reconciliation or the refreshes raised. *)
RebuildFails(t) ==
    /\ pc[t] = "rebuild" /\ ~up
    /\ pc' = Started(rated, t, Rest(t))
    /\ lock' = NoTask /\ reported' = "failed" /\ cutShort' = FALSE
    /\ LeavesRecovery(t)
    /\ UNCHANGED <<serverVars, stateVars, pending, passes, silent, lost, countVars>>

(* Mutant: a loop without its cap. *)
AgainUncapped == pending

(* Another pass is due. *)
Again == pending /\ passes < MaxPasses

(* t's call returns True; a recovery then leaves the mode. *)
Returns(t) ==
    /\ lost' = (lost /\ t \notin recovering)
    /\ LeavesRecovery(t)

(* The refreshes succeeded and the polls were started: the loop goes       *)
(* around if a trigger came in meanwhile, up to its cap; at its end the    *)
(* on_rediscovered callback is awaited, if one is set.                     *)
Rebuilt(t) ==
    /\ pc[t] = "rebuild" /\ up
    /\ seen' \in seen..server
    /\ silent' = FALSE
    /\ \/ /\ Again
          /\ BeginPass(t, passes + 1)
          /\ UNCHANGED <<lock, reported, cutShort, lost>>
       \/ /\ ~Again
          /\ pending' = FALSE
          /\ lock' = NoTask /\ cutShort' = FALSE
          /\ reported' = IF pending THEN "max_passes" ELSE "none"
          /\ UNCHANGED passes
          /\ \/ /\ pc' = Started(rated, t, "listener")
                /\ UNCHANGED <<recovering, probeLock, lost>>
             \/ /\ pc' = Started(rated, t, Rest(t))
                /\ Returns(t)
    /\ UNCHANGED <<serverVars, read, ready, rated, countVars>>

(* The on_rediscovered callback returned. *)
ListenerDone(t) ==
    /\ pc[t] = "listener"
    /\ pc' = [pc EXCEPT ![t] = Rest(t)]
    /\ Returns(t)
    /\ UNCHANGED <<serverVars, stateVars, redisVars, silent, countVars>>

-----------------------------------------------------------------------------
(* The scheduled tasks.                                                    *)

(* A tick of a resource poll: the requests of its callback go out. *)
StartPoll(t) ==
    /\ t \in Polls /\ pc[t] = "wait"
    /\ pc' = [pc EXCEPT ![t] = "poll"]
    /\ UNCHANGED <<serverVars, stateVars, redisVars, lossVars, countVars>>

(* They succeeded: _note_successful_contact, which rediscovers after a     *)
(* streak of failures.                                                     *)
PollOk(t) ==
    /\ t \in Polls /\ pc[t] = "poll" /\ up
    /\ failures' = 0 /\ silent' = FALSE
    /\ \/ /\ failures >= Threshold
          /\ Trigger(t)
       \/ /\ failures < Threshold
          /\ pc' = [pc EXCEPT ![t] = Rest(t)]
          /\ UNCHANGED <<redisVars, recovering, probeLock>>
    /\ UNCHANGED <<serverVars, stateVars, lost, failed>>

PollFails(t) ==
    /\ t \in Polls /\ pc[t] = "poll" /\ ~up /\ failed < MaxFailures
    /\ failures' = failures + 1 /\ failed' = failed + 1
    /\ pc' = [pc EXCEPT ![t] = Rest(t)]
    /\ UNCHANGED <<serverVars, stateVars, redisVars, lossVars>>

(* 404 or a redirect: rediscover. *)
PollMoved(t) ==
    /\ t \in Polls /\ pc[t] = "poll" /\ up /\ Moves
    /\ failures' = 0 /\ silent' = FALSE
    /\ Trigger(t)
    /\ UNCHANGED <<serverVars, stateVars, lost, failed>>

(* _connectivity_probe reached the server. *)
Heartbeat ==
    /\ pc[Beat] = "wait" /\ up /\ silent
    /\ silent' = FALSE
    /\ UNCHANGED <<serverVars, stateVars, pc, redisVars, recovering, probeLock,
                   lost, countVars>>

(* _comms_loss_probe, while nobody holds its lock. *)
ProbeEnters ==
    /\ Detects /\ pc[Probe] = "wait" /\ probeLock = NoTask
    /\ ~lost /\ silent
    /\ lost' = TRUE
    /\ UNCHANGED <<serverVars, stateVars, pc, redisVars, recovering, probeLock,
                   silent, countVars>>

ProbeRecovers ==
    /\ Detects /\ pc[Probe] = "wait" /\ probeLock = NoTask
    /\ lost /\ ~silent
    /\ pc' = [pc EXCEPT ![Probe] = "reregister"]
    /\ recovering' = recovering \cup {Probe} /\ probeLock' = Probe
    /\ UNCHANGED <<serverVars, stateVars, redisVars, silent, lost, countVars>>

(* recover_from_comms_loss_now: one call at a time, behind the same lock.  *)
RecoverNow(t) ==
    /\ t \in Others /\ pc[t] = "off" /\ lost
    /\ probeLock = NoTask /\ recovering \cap Others = {}
    /\ pc' = [pc EXCEPT ![t] = "reregister"]
    /\ recovering' = recovering \cup {t} /\ probeLock' = t
    /\ UNCHANGED <<serverVars, stateVars, redisVars, silent, lost, countVars>>

(* The reregistration ended, well or not: rediscover. *)
Reregistered(t) ==
    /\ pc[t] = "reregister"
    /\ Trigger(t)
    /\ UNCHANGED <<serverVars, stateVars, silent, lost, countVars>>

-----------------------------------------------------------------------------
(* The server, its notifications and the operator.                         *)

(* Mutant: a duplicate is dropped also while rediscovery runs. *)
NotifyForgetful(t) ==
    /\ t \in Others /\ pc[t] = "off" /\ up /\ server < MaxChanges
    /\ server' = server + 1
    /\ \/ /\ ~recent /\ recent' = TRUE
          /\ Trigger(t)
       \/ /\ recent /\ (lock # NoTask \/ Bursts)
          /\ UNCHANGED <<recent, pc, redisVars, recovering, probeLock>>
    /\ UNCHANGED <<up, outages, stateVars, silent, lost, countVars>>

(* The structure changes and the notification arrives.  A second one for   *)
(* the resource within the window is taken for a duplicate, which a        *)
(* running rediscovery is told of and which is dropped otherwise.          *)
Notify(t) ==
    /\ t \in Others /\ pc[t] = "off" /\ up /\ server < MaxChanges
    /\ server' = server + 1
    /\ \/ /\ ~recent /\ recent' = TRUE
          /\ Trigger(t)
       \/ /\ recent /\ (lock # NoTask \/ Bursts)
          /\ pending' = (pending \/ lock # NoTask)
          /\ UNCHANGED <<recent, pc, lock, passes, reported, cutShort, recovering, probeLock>>
    /\ UNCHANGED <<up, outages, stateVars, silent, lost, countVars>>

WindowPasses ==
    /\ recent /\ recent' = FALSE
    /\ UNCHANGED <<up, server, outages, stateVars, pc, redisVars, lossVars, countVars>>

(* A notification about nothing new (an echo of a subscription write, or a *)
(* duplicate) or an operator's request.                                    *)
Ask(t) ==
    /\ t \in Others /\ pc[t] = "off"
    /\ Trigger(t)
    /\ UNCHANGED <<serverVars, stateVars, silent, lost, countVars>>

ServerDown ==
    /\ up /\ outages < MaxOutages
    /\ up' = FALSE /\ outages' = outages + 1
    /\ UNCHANGED <<server, recent, stateVars, pc, redisVars, lossVars, countVars>>

ServerUp ==
    /\ ~up /\ up' = TRUE
    /\ UNCHANGED <<server, outages, recent, stateVars, pc, redisVars, lossVars, countVars>>

SilencePasses ==
    /\ ~up /\ ~silent /\ silent' = TRUE
    /\ UNCHANGED <<serverVars, stateVars, pc, redisVars, recovering, probeLock,
                   lost, countVars>>

(* The steps of a rediscovery under way. *)
Pass(t) ==
    \/ Aborted(t) \/ ClearState(t)
    \/ Discovered(t) \/ DiscoverFails(t)
    \/ Rebuilt(t) \/ RebuildFails(t)
    \/ ListenerDone(t) \/ Reregistered(t)

Poll(t) == PollOk(t) \/ PollFails(t) \/ PollMoved(t)

Next ==
    \/ \E t \in Tasks : Pass(t) \/ StartPoll(t) \/ Poll(t)
    \/ Heartbeat \/ ProbeEnters \/ ProbeRecovers
    \/ \E t \in Others : RecoverNow(t) \/ Notify(t) \/ Ask(t)
    \/ WindowPasses \/ ServerDown \/ ServerUp \/ SilencePasses

Spec == Init /\ [][Next]_vars

(* Requests end (they time out), the loop runs the scheduled tasks, and an *)
(* outage ends.  Nobody has to notify or to ask.                           *)
Fairness ==
    /\ \A t \in Tasks : WF_vars(Pass(t)) /\ WF_vars(StartPoll(t)) /\ WF_vars(Poll(t))
    /\ WF_vars(Heartbeat) /\ WF_vars(ProbeEnters) /\ WF_vars(ProbeRecovers)
    /\ WF_vars(ServerUp)

FairSpec == Spec /\ Fairness

-----------------------------------------------------------------------------
(* PROPERTIES                                                              *)

(* Whenever no rediscovery is under way, the scheduler runs the heartbeat, *)
(* the probe and every poll it has a rate for ("otherwise no poll and no   *)
(* connectivity heartbeat fire").                                          *)
PollsArmed ==
    lock = NoTask => \A k \in rated \cup Probes : pc[k] # "off"

(* The same wherever the last rediscovery was not cancelled by itself:     *)
(* neither a failure at any request, a coalesced call, a recovery nor a    *)
(* race with the scheduler's own tasks leaves it shut down.                *)
PollsRearmed == ~cutShort => PollsArmed

(* The gate on the timer callbacks is closed only while discover() runs:   *)
(* neither a failure, a coalesced call nor a cancelled caller leaves an    *)
(* event's timers waiting.                                                 *)
GateOnlyDuringDiscovery ==
    ~ready => lock # NoTask /\ pc[lock] = "discover"

(* A structural change the client was notified of is in its state once     *)
(* rediscovery is over, unless the call reported that it failed or gave up *)
(* ("not silently dropped") or was cancelled by itself.                    *)
NoChangeMissed ==
    lock = NoTask /\ reported = "none" /\ ~cutShort => seen = server

(* The state is empty outside a rediscovery only after a failure that was  *)
(* reported: a rediscovery cut short never empties it.                     *)
EmptyOnlyIfReported ==
    lock = NoTask /\ seen = Cleared => reported = "failed"

(* Every rediscovery ends, even when a server echoes a notification at     *)
(* every pass.                                                             *)
RediscoveryEnds == lock # NoTask ~> lock = NoTask

(* Recoveries from loss of communications do not overlap: an operator's    *)
(* call and the probe take one lock.                                       *)
RecoveriesSerialized == Cardinality(recovering) <= 1

(* A state left empty by a failed rediscovery is rebuilt once the server   *)
(* answers again.                                                          *)
StateRebuilt == (seen = Cleared) ~> (seen # Cleared)
=============================================================================
