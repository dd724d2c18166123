---------------------------- MODULE EventLifecycle ----------------------------
(***************************************************************************)
(* EventProcessor with its EventStore, EventTimerManager, ActiveModeTracker *)
(* and DdercTracker (events/processor.py, state_machine.py, timers.py,     *)
(* supersession.py, active_modes.py, dderc.py): how a DERControl is taken  *)
(* in, started, superseded, cancelled, completed and reverted on devices.  *)
(*                                                                         *)
(* Everything runs as tasks of one asyncio loop.  A task is suspended at   *)
(* the awaits of a POST, a device write, a timer or the state-ready gate,  *)
(* and any other task may run there.  task[t].pc says what t does next and *)
(* task[t].run that it has not awaited since its last step: then no other  *)
(* task steps, so a handler is atomic between its awaits.                  *)
(*                                                                         *)
(* Data: every event sets the same control mode, with no randomization     *)
(* (EventRetention covers offsets); a setpoint is the event, or the        *)
(* program whose default was, last written.  POSTs land and are deduplicated (ResponseTracker covers  *)
(* failures).  Writes to one device reach it in the order they were made:  *)
(* the connector holds a FIFO lock per device.                             *)
(***************************************************************************)
EXTENDS Integers, Sequences, FiniteSets, SequencesExt

CONSTANTS
    Events, Programs, Devices,
    PollTasks,        \* tasks running process_controls that rediscovery cancels
    NotifyTasks,      \* tasks running it for a notification, not cancelled
    NoEvent,
    Prog,             \* program_href of each event
    DevicesOf,        \* program_to_devices once discovered
    Primacy,          \* primacy of each program, lower wins
    Created,          \* creationTime of each event
    Start, Duration,  \* effective interval of each event
    WindDown,         \* max(|randomizeStart|, |randomizeDuration|)
    Defaulting,       \* the programs with a DefaultDERControl
    StoreGrace,       \* grace of EventStore.prune_expired
    Outcomes,         \* bound: how a control's write ends, of "ok", "fail", "slow"
    DefaultsFail,     \* bound: a default's write may fail too
    MaxTime, MaxPasses, MaxRediscoveries, MaxRemovals, MaxOutages

Live     == {"SCHEDULED", "ACTIVE"}
Terminal == {"COMPLETED", "CANCELLED", "SUPERSEDED"}
Codes    == {"ACKNOWLEDGED", "ACTIVE", "COMPLETED", "CANCELLED", "SUPERSEDED",
             "EXPIRED", "REJECTED"}
End(e)   == Start[e] + Duration[e]

ASSUME ConstantsAssumption ==
    /\ NoEvent \notin Events
    /\ Prog \in [Events -> Programs]
    /\ DevicesOf \in [Programs -> SUBSET Devices]
    /\ Primacy \in [Programs -> Nat] /\ Created \in [Events -> Nat]
    /\ Start \in [Events -> Nat] /\ Duration \in [Events -> Nat]
    /\ WindDown \in [Events -> Nat]
    /\ Defaulting \subseteq Programs /\ DefaultsFail \in BOOLEAN
    /\ Outcomes \subseteq {"ok", "fail", "slow"}
    /\ StoreGrace \in Nat /\ MaxTime \in Nat

(* Tasks: the passes of process_controls, three timers per event, and the  *)
(* one that enters loss-of-communications mode.                            *)
PassTasks  == {"pass"} \X (PollTasks \cup NotifyTasks)
Act(e)     == <<"act", e>>
Comp(e)    == <<"comp", e>>
Wind(e)    == <<"wind", e>>
TimersOf(e) == {Act(e), Comp(e), Wind(e)}
Outage     == <<"outage", NoEvent>>
Tasks      == PassTasks \cup {Outage} \cup UNION {TimersOf(e) : e \in Events}

VARIABLES
    now,
    ready,      \* _state_ready
    mapped,     \* the programs with devices in ResourceState.device_mapping
    discovered, \* ResourceState.end_devices holds the devices and their LFDIs
    served,     \* the client's copy of each event in its DERControlList
    complete,   \* der_controls_complete of each program
    rec,        \* the EventRecord of each event, st = "none" before it exists
    stored,     \* the keys of EventStore._events
    pend,       \* the events with an entry in EventTimerManager._tasks
    task,
    modes,      \* ActiveModeTracker: events registered on each device
    defaulted,  \* DdercTracker: the <<program, device>> on record as applied
    wq,         \* writes to each device that have not landed
    setp,       \* what each device was last set to
    posted,     \* the responses sent for each event and device, in order
    lost,       \* CommsLossState.active
    resumeAfter,\* CommsLossState.resume_after_epoch, 0 for None
    used        \* bounds: passes, rediscoveries, removals and outages so far

vars == <<now, ready, mapped, discovered, served, complete, rec, stored, pend, task,
          modes, defaulted, wq, setp, posted, lost, resumeAfter, used>>

(* EventRecord: state, superseded_devices, the keys of superseded_modes,   *)
(* rejected_devices, applied_devices and opted_out.                        *)
Fresh(s) == [st |-> s, sup |-> {}, supm |-> {}, rej |-> {}, app |-> {},
             opted |-> FALSE]

(* run: t holds the event loop; ev: the event t handles; todo, cx: events  *)
(* of the pass still to look at, those the fetched list marks cancelled;   *)
(* work, map, loser: supersession results, the mapping they were computed  *)
(* from, the one being applied; devs: devices awaited; defs: the defaults  *)
(* being written to them; ret, back: where supersession or cancellation,   *)
(* and a fallback, return to; at: a timer's target, or the now of a pass.  *)
Idle == [pc |-> "idle", run |-> FALSE, ev |-> NoEvent, todo |-> {}, cx |-> {}, prog |-> NoEvent,
         work |-> {}, map |-> {}, loser |-> NoEvent, devs |-> {}, defs |-> {},
         ret |-> "idle", back |-> "idle", at |-> 0]

-----------------------------------------------------------------------------
(* What the handlers read.                                                 *)

DevsIn(map, e) == IF Prog[e] \in map THEN DevicesOf[Prog[e]] ELSE {}
Devs(e) == DevsIn(mapped, e)

ActiveEvents == {e \in stored : rec[e].st = "ACTIVE" /\ ~rec[e].opted}

(* _device_has_other_active *)
HasOtherActive(d, e) ==
    \E x \in ActiveEvents \ {e} :
        d \in Devs(x) /\ d \notin rec[x].sup /\ d \notin rec[x].rej

(* _modes_running_in, for a write that lands on d alone. *)
HeldByRunning(d, reg) == \E x \in ActiveEvents : d \in Devs(x) /\ x \in reg[d]

(* The programs whose default may be given to d, and the one of them that  *)
(* _best_dderc_program_for_device picks.                                   *)
DefaultsFor(d) == {g \in mapped \cap Defaulting : d \in DevicesOf[g]}
BestDefault(d) ==
    CHOOSE g \in DefaultsFor(d) : \A h \in DefaultsFor(d) : Primacy[g] <= Primacy[h]

(* DdercTracker.should_apply_initial: the default of g is not on record    *)
(* for d, and no preferred program's is.                                   *)
ShouldApplyInitial(g, d) ==
    /\ <<g, d>> \notin defaulted
    /\ ~\E h \in Programs : <<h, d>> \in defaulted /\ Primacy[h] < Primacy[g]

Overlaps(a, b) == Start[a] < End(b) /\ Start[b] < End(a)

(* compute_supersession: a beats b.  Ties go to the event met first, which *)
(* is either; creation times of one program's events differ.               *)
Beats(a, b) ==
    \/ Primacy[Prog[a]] < Primacy[Prog[b]]
    \/ Primacy[Prog[a]] = Primacy[Prog[b]] /\ Created[a] > Created[b]

SupersessionResults ==
    {p \in stored \X stored :
        /\ p[1] # p[2]
        /\ rec[p[1]].st \in Live /\ rec[p[2]].st \in Live
        /\ Overlaps(p[1], p[2])
        /\ Devs(p[1]) \cap Devs(p[2]) # {}
        /\ Beats(p[1], p[2])}

(* A response needs the device's LFDI, which ResourceState holds. *)
Reachable(D) == IF discovered THEN D ELSE {}

(* Who _post_response reports e for: the devices of its program, or any    *)
(* one device when the program has none mapped and none is excluded.       *)
Audience(e, excluded) ==
    Reachable(IF Devs(e) # {} THEN Devs(e) \ excluded
              ELSE IF excluded = {} THEN {CHOOSE d \in Devices : TRUE}
              ELSE {})

(* Mutant: the audience by subtraction, which forgets the rejections. *)
AudienceBySubtraction(e) == Audience(e, rec[e].sup)

(* Who hears how an event ended (_post_started_device_lifecycle). *)
StartedAudience(e) ==
    IF rec[e].app \cup rec[e].rej = {} THEN Audience(e, rec[e].sup)
    ELSE Reachable(rec[e].app \ rec[e].sup)

(* post_der_response for a set of devices; a repeated code is deduplicated. *)
PostedAfter(e, code, D) ==
    [posted EXCEPT ![e] = [d \in Devices |->
        IF d \in D /\ ~Contains(@[d], code)
        THEN Append(@[d], code) ELSE @[d]]]

(* Mutant: a responder without memory. *)
HasRespondedNever(e) == FALSE

HasResponded(e) == \E d \in Devices : posted[e][d] # <<>>

-----------------------------------------------------------------------------
Init ==
    /\ now = 0
    /\ ready = TRUE
    /\ mapped = Programs
    /\ discovered = TRUE
    /\ served = [e \in Events |-> "unseen"]
    /\ complete = [g \in Programs |-> FALSE]
    /\ rec = [e \in Events |-> Fresh("none")]
    /\ stored = {}
    /\ pend = {}
    /\ task = [t \in Tasks |-> Idle]
    /\ modes = [d \in Devices |-> {}]
    /\ defaulted = {}
    /\ wq = [d \in Devices |-> <<>>]
    /\ setp = [d \in Devices |-> "off"]
    /\ posted = [e \in Events |-> [d \in Devices |-> <<>>]]
    /\ lost = FALSE
    /\ resumeAfter = 0
    /\ used = [passes |-> 0, rediscoveries |-> 0, removals |-> 0, outages |-> 0]

controlVars == <<ready, mapped, discovered, served, complete, lost, resumeAfter, used>>
deviceVars  == <<modes, defaulted, wq, setp>>
envVars     == <<now, controlVars>>

(* t goes on as new; suspended when the POSTs or writes to D await. *)
Suspended(new, D) == [new EXCEPT !.run = (D = {})]
Goto(t, new) == task' = [task EXCEPT ![t] = new]
At(t, pc)    == [task[t] EXCEPT !.pc = pc, !.run = TRUE]

(* A timer has reached its target. *)
Fires(t) == task[t].pc = "timer" /\ now >= task[t].at

(* EventTimerManager.cancel(e), run by task t: every tracked timer of e but *)
(* t itself is cancelled and untracked.                                     *)
CancelTimers(t, new, e) ==
    /\ task' = [u \in Tasks |-> IF u = t THEN new
                                ELSE IF u \in TimersOf(e) /\ e \in pend THEN Idle
                                ELSE task[u]]
    /\ pend' = pend \ {e}

-----------------------------------------------------------------------------
(* Device writes.                                                          *)

WriteLands(d) ==
    /\ wq[d] # <<>>
    /\ setp' = [setp EXCEPT ![d] = Head(wq[d])]
    /\ wq' = [wq EXCEPT ![d] = Tail(@)]
    /\ UNCHANGED <<now, controlVars, rec, stored, pend, task, modes, defaulted, posted>>

(* Mutant: the control goes to every device of the program. *)
TargetsAll(e) == Devs(e)

(* The devices a control goes to: none that another event took over. *)
Targets(e) == Devs(e) \ rec[e].sup

(* _apply_control_to_devices: register the modes of the targets, start     *)
(* their writes.  With no target, _apply_and_respond announces ACTIVE.     *)
Apply(t) ==
    LET e        == task[t].ev
        targets  == Targets(e)
        announce == IF targets = {} THEN Audience(e, rec[e].sup) ELSE {}
    IN /\ task[t].pc = "apply"
       /\ modes' = [d \in Devices |->
                        IF d \in targets THEN modes[d] \cup {e} ELSE modes[d]]
       /\ wq' = [d \in Devices |->
                        IF d \in targets THEN Append(wq[d], e) ELSE wq[d]]
       /\ posted' = PostedAfter(e, "ACTIVE", announce)
       /\ Goto(t, Suspended([At(t, "dispatch") EXCEPT !.devs = targets],
                            targets \cup announce))
       /\ UNCHANGED <<envVars, rec, stored, pend, defaulted, setp>>

(* The device's write returned: it started the event. *)
DispatchOk(t, d) ==
    LET e == task[t].ev
    IN /\ task[t].pc = "dispatch" /\ d \in task[t].devs
       /\ "ok" \in Outcomes
       /\ ~Contains(wq[d], e)
       /\ rec' = [rec EXCEPT ![e].app = @ \cup {d}]
       /\ posted' = PostedAfter(e, "ACTIVE", Reachable({d}))
       /\ Goto(t, [task[t] EXCEPT !.devs = @ \ {d}])
       /\ UNCHANGED <<envVars, stored, pend, deviceVars>>

(* ActiveModeTracker.unregister *)
Unregister(d, e) == [modes EXCEPT ![d] = @ \ {e}]

(* The write raised, or outran ACTIVATION_DISPATCH_DEADLINE and is left    *)
(* running: a rejection is reported and the registration released.         *)
DispatchRejected(t, d, how) ==
    LET e == task[t].ev
    IN /\ task[t].pc = "dispatch" /\ d \in task[t].devs
       /\ how \in Outcomes
       /\ Contains(wq[d], e)
       /\ \/ how = "slow" /\ UNCHANGED wq
          \/ how = "fail" /\ Head(wq[d]) = e /\ wq' = [wq EXCEPT ![d] = Tail(@)]
       /\ rec' = [rec EXCEPT ![e].rej = @ \cup {d}]
       /\ modes' = Unregister(d, e)
       /\ posted' = PostedAfter(e, "REJECTED", Reachable({d}))
       /\ Goto(t, [task[t] EXCEPT !.devs = @ \ {d}])
       /\ UNCHANGED <<envVars, stored, pend, defaulted, setp>>

(* Mutant: a timer callback that returns into the loop of a pass. *)
AfterDispatchLoops(t) == At(t, "loop")

(* Where the caller of the dispatch goes on. *)
AfterDispatch(t) == IF t \in PassTasks THEN At(t, "loop") ELSE Idle

(* Mutant: no completion timer for an event every device rejected. *)
DispatchDoneUnlessRejected(t) ==
    LET e == task[t].ev
    IN /\ task[t].pc = "dispatch" /\ task[t].devs = {}
       /\ \/ /\ rec[e].app # {}
             /\ task' = [task EXCEPT ![t] = AfterDispatch(t),
                   ![Comp(e)] = [Idle EXCEPT !.pc = "timer", !.ev = e, !.at = End(e)]]
          \/ /\ rec[e].app = {}
             /\ task' = [task EXCEPT ![t] = AfterDispatch(t)]
       /\ pend' = pend \cup {e}
       /\ UNCHANGED <<envVars, rec, stored, deviceVars, posted>>

(* All devices settled: schedule_completion. *)
DispatchDone(t) ==
    LET e == task[t].ev
    IN /\ task[t].pc = "dispatch" /\ task[t].devs = {}
       /\ task' = [task EXCEPT
             ![t] = AfterDispatch(t),
             ![Comp(e)] = [Idle EXCEPT !.pc = "timer", !.ev = e, !.at = End(e)]]
       /\ pend' = pend \cup {e}
       /\ UNCHANGED <<envVars, rec, stored, deviceVars, posted>>

-----------------------------------------------------------------------------
(* Mutant: the registrations on devices another event took over stay. *)
ReleasedUnlessSuperseded(e) ==
    [d \in Devices |-> IF d \in Devs(e) \ rec[e].sup THEN modes[d] \ {e} ELSE modes[d]]

(* The registrations once e has given up its modes on all its devices. *)
Released(e) == [d \in Devices |-> IF d \in Devs(e) THEN modes[d] \ {e} ELSE modes[d]]

(* _apply_dderc_fallback(e), run by t, which then continues at back with   *)
(* the rest of its state as in self.                                       *)
Fallback(t, self, e, clear, back) ==
    LET reg      == Released(e)
        released == {d \in Devs(e) : e \in modes[d] /\ reg[d] = {}}
        taken    == {d \in Devs(e) : /\ d \in rec[e].sup /\ d \in rec[e].supm
                                     /\ HasOtherActive(d, e)}
        needs    == {d \in Devs(e) \ taken : d \in released \/ ~HasOtherActive(d, e)}
        default  == {d \in needs : DefaultsFor(d) # {} /\ ~HeldByRunning(d, reg)}
        off      == {d \in needs : DefaultsFor(d) = {} /\ (clear \/ d \in released)}
    IN /\ modes' = reg
       /\ wq' = [d \in Devices |-> IF d \in default THEN Append(wq[d], BestDefault(d))
                                   ELSE IF d \in off THEN Append(wq[d], "off")
                                   ELSE wq[d]]
       /\ Goto(t, Suspended([self EXCEPT !.pc = "reverting", !.devs = default \cup off,
                                 !.defs = {<<BestDefault(d), d>> : d \in default},
                                 !.back = back], default \cup off))
       /\ UNCHANGED <<envVars, rec, stored, pend, defaulted, setp, posted>>

(* A write of the fallback raised: logged, and no default is recorded. *)
RevertFails(t, d) ==
    /\ task[t].pc = "reverting" /\ d \in task[t].devs /\ DefaultsFail
    /\ wq[d] # <<>> /\ Head(wq[d]) \in Programs \cup {"off"}
    /\ wq' = [wq EXCEPT ![d] = Tail(@)]
    /\ Goto(t, [task[t] EXCEPT !.devs = @ \ {d},
                               !.defs = {p \in @ : p[2] # d}])
    /\ UNCHANGED <<envVars, rec, stored, pend, modes, defaulted, setp, posted>>

(* The writes of the fallback returned: record_application. *)
Reverted(t) ==
    /\ task[t].pc = "reverting"
    /\ \A d \in task[t].devs : ToSet(wq[d]) \cap (Programs \cup {"off"}) = {}
    /\ defaulted' = defaulted \cup task[t].defs
    /\ Goto(t, IF task[t].back = "idle" THEN Idle
               ELSE [At(t, task[t].back) EXCEPT !.devs = {}, !.defs = {}])
    /\ UNCHANGED <<envVars, rec, stored, pend, modes, wq, setp, posted>>

-----------------------------------------------------------------------------
(* _run_supersession.  t.work holds the results still to be applied; at    *)
(* the end t goes on to t.ret.                                             *)
Superseding(t, ret) ==
    [At(t, "supersede") EXCEPT !.work = SupersessionResults,
                    !.map = mapped, !.ret = ret]

(* A result that is skipped: nothing left to supersede, or the winner has  *)
(* not started and the loser runs on until it does.                        *)
Skipped(winner, loser) ==
    \/ loser \notin stored \/ winner \notin stored
    \/ rec[loser].st \in Terminal
    \/ rec[winner].st = "SCHEDULED" /\ rec[loser].st = "ACTIVE"

Supersede(t, winner, loser) ==
    LET affected == DevsIn(task[t].map, winner) \cap DevsIn(task[t].map, loser)
        announce == Reachable((affected \ rec[loser].sup) \ rec[loser].rej)
    IN /\ task[t].pc = "supersede" /\ <<winner, loser>> \in task[t].work
       /\ ~Skipped(winner, loser)
       /\ rec' = [rec EXCEPT ![loser].sup = @ \cup affected]
       /\ posted' = PostedAfter(loser, "SUPERSEDED", announce)
       /\ Goto(t, Suspended([At(t, "superseding") EXCEPT
                      !.work = @ \ {<<winner, loser>>},
                      !.loser = loser, !.devs = affected], announce))
       /\ UNCHANGED <<envVars, stored, pend, deviceVars>>

(* After the SUPERSEDED POSTs: a loser with every device taken over is     *)
(* superseded, its timers cancelled and its devices reverted if it ran.    *)
SupersedePosted(t) ==
    LET loser == task[t].loser
        group == DevsIn(task[t].map, loser)
        fully == group # {} /\ group \subseteq rec[loser].sup
        next  == [At(t, IF fully /\ rec[loser].st = "ACTIVE"
                        THEN "supersedeRevert" ELSE "supersede") EXCEPT !.devs = {}]
    IN /\ task[t].pc = "superseding"
       /\ loser \in stored
       /\ rec' = [rec EXCEPT ![loser].supm = @ \cup task[t].devs,
                             ![loser].st = IF fully THEN "SUPERSEDED" ELSE @]
       /\ IF fully THEN CancelTimers(t, next, loser)
          ELSE Goto(t, next) /\ UNCHANGED pend
       /\ UNCHANGED <<envVars, stored, deviceVars, posted>>

SupersedeRevert(t) ==
    /\ task[t].pc = "supersedeRevert"
    /\ Fallback(t, task[t], task[t].loser, FALSE, "supersede")

SupersedeDone(t) ==
    /\ task[t].pc = "supersede"
    /\ \A p \in task[t].work : Skipped(p[1], p[2])
    /\ Goto(t, [At(t, task[t].ret) EXCEPT !.work = {}, !.map = {},
                                          !.loser = NoEvent, !.ret = "idle"])
    /\ UNCHANGED <<envVars, rec, stored, pend, deviceVars, posted>>

-----------------------------------------------------------------------------
(* _handle_cancellation(e) by pass t, which continues at ret. *)
Cancel(t, e, ret) ==
    /\ rec' = [rec EXCEPT ![e].st = "CANCELLED"]
    /\ posted' = PostedAfter(e, "CANCELLED", StartedAudience(e))
    /\ CancelTimers(t, Suspended([At(t, IF rec[e].st = "ACTIVE" THEN "unwind" ELSE ret)
                           EXCEPT !.todo = @ \ {e}, !.ev = e, !.ret = ret],
                           StartedAudience(e)), e)
    /\ UNCHANGED <<envVars, stored, deviceVars>>

(* Mutant: a cancelled event's devices keep its control. *)
UnwindWithoutRevert(t) ==
    /\ task[t].pc = "unwind"
    /\ Goto(t, At(t, task[t].ret))
    /\ UNCHANGED <<envVars, rec, stored, pend, deviceVars, posted>>

(* The CANCELLED POSTs of an event that was active returned. *)
Unwind(t) ==
    LET e == task[t].ev
    IN /\ task[t].pc = "unwind"
       /\ \/ /\ WindDown[e] > 0
             /\ task' = [task EXCEPT ![t] = At(t, task[t].ret),
                   ![Wind(e)] = [Idle EXCEPT !.pc = "timer", !.ev = e,
                                             !.at = now + WindDown[e]]]
             /\ pend' = pend \cup {e}
             /\ UNCHANGED <<envVars, rec, stored, deviceVars, posted>>
          \/ /\ WindDown[e] = 0
             /\ Fallback(t, task[t], e, FALSE, task[t].ret)

(* cancel_program(g): the program left the function set assignment. *)
CancelProgram(g) ==
    LET gone == {e \in stored : Prog[e] = g /\ rec[e].st \in Live}
    IN /\ g \in mapped /\ ready
       /\ used.removals < MaxRemovals
       /\ used' = [used EXCEPT !.removals = @ + 1]
       /\ mapped' = mapped \ {g}
       /\ rec' = [e \in Events |-> IF e \in gone
                    THEN [rec[e] EXCEPT !.st = "CANCELLED"] ELSE rec[e]]
       /\ task' = [t \in Tasks |-> IF \E e \in gone \cap pend : t \in TimersOf(e)
                                   THEN Idle ELSE task[t]]
       /\ pend' = pend \ gone
       /\ UNCHANGED <<now, ready, discovered, served, complete, stored, deviceVars,
                      posted, lost, resumeAfter>>

-----------------------------------------------------------------------------
(* process_controls(g) by pass t.                                          *)

(* What a refresh may find: the server adds an event, sets its             *)
(* currentStatus to cancelled, or drops it from the list.                  *)
NextServed(x) == CASE x = "unseen"    -> {"unseen", "listed", "cancelled"}
                   [] x = "listed"    -> {"listed", "cancelled", "gone"}
                   [] x = "cancelled" -> {"cancelled", "gone"}
                   [] x = "gone"      -> {"gone"}

(* The DERControlList was fetched, or the fetch failed, and the pass over  *)
(* it begins; now is read once.  A timer already overdue fired while the   *)
(* fetch awaited.                                                          *)
StartPass(t, g, ok) ==
    LET list == {e \in Events : Prog[e] = g /\ served'[e] \in {"listed", "cancelled"}}
    IN /\ task[t].pc = "idle"
       /\ ready /\ g \in mapped
       /\ \A u \in Tasks : Fires(u) => task[u].at = now
       /\ used.passes < MaxPasses
       /\ used' = [used EXCEPT !.passes = @ + 1]
       /\ served' \in [Events -> {"unseen", "listed", "cancelled", "gone"}]
       /\ \A e \in Events : IF ok /\ Prog[e] = g
                            THEN served'[e] \in NextServed(served[e])
                            ELSE served'[e] = served[e]
       /\ complete' = [complete EXCEPT ![g] = ok]
       /\ Goto(t, [Idle EXCEPT !.pc = "loop", !.run = TRUE, !.prog = g, !.at = now,
                      !.todo = IF ok THEN list ELSE {},
                      !.cx = {e \in list : ok /\ served'[e] = "cancelled"}])
       /\ UNCHANGED <<now, ready, mapped, discovered, rec, stored, pend, deviceVars, posted,
                      lost, resumeAfter>>

InLoop(t, e) == task[t].pc = "loop" /\ e \in task[t].todo
Looked(t, e, pc) == [At(t, pc) EXCEPT !.todo = @ \ {e}, !.ev = e]

(* Mutant: an event that already ended is cancelled as well. *)
ServerCancelsAny(t, e) == e \in task[t].cx /\ rec[e].st # "CANCELLED"

ServerCancels(t, e) == e \in task[t].cx /\ rec[e].st \in Live

(* Already tracked: cancelled by the server, or only refreshed. *)
SeeKnown(t, e) ==
    /\ InLoop(t, e) /\ e \in stored
    /\ \/ /\ ServerCancels(t, e)
          /\ Cancel(t, e, "loop")
       \/ /\ ~ServerCancels(t, e)
          /\ Goto(t, Looked(t, e, "loop"))
          /\ UNCHANGED <<envVars, rec, stored, pend, deviceVars, posted>>

IsNew(t, e) == InLoop(t, e) /\ e \notin stored
InOptedOutWindow(e) == resumeAfter # 0 /\ Start[e] <= resumeAfter

(* Not stored: in the opted-out window, or over when first received. *)
SeeUnstored(t, e) ==
    /\ IsNew(t, e)
    /\ InOptedOutWindow(e) \/ task[t].at > End(e)
    /\ posted' = IF InOptedOutWindow(e) \/ HasResponded(e) THEN posted
                 ELSE PostedAfter(e, "EXPIRED", Audience(e, {}))
    /\ Goto(t, Suspended(Looked(t, e, "loop"),
                         IF posted' = posted THEN {} ELSE Audience(e, {})))
    /\ UNCHANGED <<envVars, rec, stored, pend, deviceVars>>

IsTaken(t, e) == IsNew(t, e) /\ ~InOptedOutWindow(e) /\ task[t].at <= End(e)

SeePreCancelled(t, e) ==
    /\ IsTaken(t, e) /\ e \in task[t].cx
    /\ rec' = [rec EXCEPT ![e] = Fresh("CANCELLED")]
    /\ stored' = stored \cup {e}
    /\ posted' = PostedAfter(e, "CANCELLED", Audience(e, {}))
    /\ Goto(t, Suspended(Looked(t, e, "loop"), Audience(e, {})))
    /\ UNCHANGED <<envVars, pend, deviceVars>>

(* A new event: stored, the defaults of its devices forgotten, and ACK     *)
(* posted; in loss-of-communications mode an event already running is      *)
(* opted out without a response.                                           *)
SeeNew(t, e) ==
    LET running == task[t].at >= Start[e]
    IN /\ IsTaken(t, e) /\ e \notin task[t].cx
       /\ stored' = stored \cup {e}
       /\ defaulted' = {p \in defaulted : p[2] \notin Devs(e)}
       /\ rec' = [rec EXCEPT ![e] = [Fresh(IF running THEN "ACTIVE" ELSE "SCHEDULED")
                                       EXCEPT !.opted = running /\ lost]]
       /\ \/ /\ ~(running /\ lost)
             /\ posted' = PostedAfter(e, "ACKNOWLEDGED", Audience(e, {}))
             /\ Goto(t, Suspended(Looked(t, e, IF running THEN "ackLate" ELSE "ackScheduled"),
                                  Audience(e, {})))
             /\ UNCHANGED <<pend, resumeAfter>>
          \/ /\ running /\ lost
             /\ resumeAfter' = IF End(e) > resumeAfter THEN End(e) ELSE resumeAfter
             /\ CancelTimers(t, Looked(t, e, "optOut"), e)
             /\ UNCHANGED posted
       /\ UNCHANGED <<now, ready, mapped, discovered, served, complete, lost, used,
                      modes, wq, setp>>

(* _handle_new_scheduled after its ACK: schedule_activation. *)
ScheduleActivation(t) ==
    LET e == task[t].ev
    IN /\ task[t].pc = "ackScheduled"
       /\ task' = [task EXCEPT ![t] = At(t, "loop"),
             ![Act(e)] = [Idle EXCEPT !.pc = "timer", !.ev = e, !.at = Start[e]]]
       /\ pend' = pend \cup {e}
       /\ UNCHANGED <<envVars, rec, stored, deviceVars, posted>>

(* _handle_late_discovery after its ACK: supersession, then the dispatch.  *)
LateDiscovery(t) ==
    /\ task[t].pc = "ackLate"
    /\ Goto(t, Superseding(t, "apply"))
    /\ UNCHANGED <<envVars, rec, stored, pend, deviceVars, posted>>

(* Mutant: a store that forgets an event at its end, without grace. *)
KeptToEnd(at) == {e \in stored : End(e) > at}

(* EventStore.prune_expired *)
Kept(at) == {e \in stored : End(e) + StoreGrace >= at}

(* The end of the list.  Rule p: a live event of the program the complete  *)
(* list no longer serves, before its end as of the pass's now, is          *)
(* cancelled; the set is read once.                                        *)
FindRemoved(t) ==
    LET g == task[t].prog
    IN /\ task[t].pc = "loop" /\ task[t].todo = {}
       /\ Goto(t, [At(t, "removed") EXCEPT !.ev = NoEvent, !.cx = {}, !.todo =
             {e \in stored : /\ complete[g] /\ Prog[e] = g /\ rec[e].st \in Live
                             /\ served[e] \notin {"listed", "cancelled"}
                             /\ task[t].at < End(e)}])
       /\ UNCHANGED <<envVars, rec, stored, pend, deviceVars, posted>>

(* A record another pass has pruned meanwhile raises KeyError, which ends  *)
(* this pass.                                                              *)
CancelRemoved(t, e) ==
    /\ task[t].pc = "removed" /\ e \in task[t].todo
    /\ IF e \in stored THEN Cancel(t, e, "removed")
       ELSE Goto(t, Idle) /\ UNCHANGED <<envVars, rec, stored, pend, deviceVars, posted>>

SupersedeAll(t) ==
    /\ task[t].pc = "removed" /\ task[t].todo = {}
    /\ Goto(t, [Superseding(t, "prune") EXCEPT !.ev = NoEvent])
    /\ UNCHANGED <<envVars, rec, stored, pend, deviceVars, posted>>

(* prune_expired as of the pass's now, then _apply_initial_dderc: devices  *)
(* no event runs on get the program's default unless it is on record.      *)
PruneAndDefault(t) ==
    LET g       == task[t].prog
        kept    == Kept(task[t].at)
        active  == {e \in kept : rec[e].st = "ACTIVE" /\ ~rec[e].opted}
        running == {d \in Devices : \E e \in active :
                       d \in Devs(e) /\ d \notin rec[e].sup /\ d \notin rec[e].rej}
        winding == \E e \in kept \cap pend : Prog[e] = g /\ rec[e].st = "CANCELLED"
        idle    == {d \in Devices \ running : g \in DefaultsFor(d) /\ ShouldApplyInitial(g, d)}
        held    == \E d \in idle, e \in active : d \in Devs(e) /\ e \in modes[d]
        targets == IF ~winding /\ ~held THEN idle ELSE {}
    IN /\ task[t].pc = "prune"
       /\ stored' = kept
       /\ wq' = [d \in Devices |-> IF d \in targets THEN Append(wq[d], g)
                                   ELSE wq[d]]
       /\ Goto(t, Suspended([Idle EXCEPT !.pc = "reverting", !.devs = targets,
                                         !.defs = {g} \X targets], targets))
       /\ UNCHANGED <<envVars, rec, pend, modes, defaulted, setp, posted>>

-----------------------------------------------------------------------------
(* Timer callbacks.  A callback waits for _state_ready before it looks.    *)

(* _on_activation *)
Activate(e) ==
    LET t == Act(e)
    IN /\ Fires(t) /\ ready
       /\ rec[e].st = "SCHEDULED" /\ e \in stored
       /\ rec' = [rec EXCEPT ![e].st = "ACTIVE", ![e].opted = lost]
       /\ \/ /\ ~lost
             /\ Goto(t, Superseding(t, "apply"))
             /\ UNCHANGED <<pend, resumeAfter>>
          \/ /\ lost
             /\ resumeAfter' = IF End(e) > resumeAfter THEN End(e) ELSE resumeAfter
             /\ CancelTimers(t, At(t, "optOut"), e)
       /\ UNCHANGED <<now, ready, mapped, discovered, served, complete, lost, used, stored,
                      deviceVars, posted>>

(* _on_completion *)
Complete(e) ==
    LET t == Comp(e)
    IN /\ Fires(t) /\ ready
       /\ rec[e].st = "ACTIVE" /\ e \in stored
       /\ rec' = [rec EXCEPT ![e].st = "COMPLETED"]
       /\ posted' = PostedAfter(e, "COMPLETED", StartedAudience(e))
       /\ Goto(t, Suspended(At(t, "completed"), StartedAudience(e)))
       /\ UNCHANGED <<envVars, stored, pend, deviceVars>>

(* The timer finds its event elsewhere in its life, or (KeyError, logged)  *)
(* out of the store.                                                       *)
TimerSkips(t) ==
    LET e == task[t].ev
    IN /\ Fires(t)
       /\ \/ rec[e].st \in Terminal
          \/ ready /\ e \notin stored
          \/ ready /\ t = Act(e) /\ rec[e].st = "ACTIVE"
       /\ Goto(t, Idle)
       /\ UNCHANGED <<envVars, rec, stored, pend, deviceVars, posted>>

(* The fallback at the end of _on_completion, and the one of an opt-out.   *)
Revert(t) ==
    /\ task[t].pc \in {"completed", "optOut"}
    /\ Fallback(t, task[t], task[t].ev, task[t].pc = "optOut",
                IF t \in PassTasks THEN "loop" ELSE "idle")

-----------------------------------------------------------------------------
(* trigger_rediscovery: the poll tasks are cancelled at whatever await     *)
(* they are in, the resource state is cleared; discover() rebuilds it or   *)
(* raises, and the gate opens either way.                                  *)
ClearState ==
    /\ ready' = FALSE /\ mapped' = {} /\ discovered' = FALSE
    /\ UNCHANGED <<now, served, complete, rec, stored, pend, deviceVars, posted,
                   lost, resumeAfter>>

PollsCancelled == [t \in Tasks |-> IF t \in {"pass"} \X PollTasks THEN Idle
                                   ELSE task[t]]

BeginRediscovery ==
    /\ ready /\ used.rediscoveries < MaxRediscoveries
    /\ used' = [used EXCEPT !.rediscoveries = @ + 1]
    /\ task' = PollsCancelled
    /\ ClearState

(* A recovery from loss of communications goes on if its rediscovery       *)
(* succeeded, and is tried again later if not.                             *)
EndRediscovery(ok) ==
    /\ ~ready
    /\ ready' = TRUE
    /\ mapped' = (IF ok THEN Programs ELSE {})
    /\ discovered' = ok
    /\ task' = [task EXCEPT ![Outage].pc =
                    IF @ = "recovering" THEN IF ok THEN "recovered" ELSE "idle" ELSE @]
    /\ UNCHANGED <<now, served, complete, rec, stored, pend, deviceVars,
                   posted, lost, resumeAfter, used>>

(* enter_comms_loss: all active events opted out and untimed first, then   *)
(* reverted one by one.                                                    *)
EnterCommsLoss ==
    LET active == ActiveEvents
        ends   == {End(e) : e \in active} \cup {resumeAfter}
    IN /\ ~lost /\ used.outages < MaxOutages
       /\ used' = [used EXCEPT !.outages = @ + 1]
       /\ lost' = TRUE
       /\ resumeAfter' = CHOOSE x \in ends : \A y \in ends : y <= x
       /\ rec' = [e \in Events |-> IF e \in active
                    THEN [rec[e] EXCEPT !.opted = TRUE] ELSE rec[e]]
       /\ task' = [t \in Tasks |->
             IF t = Outage THEN [Idle EXCEPT !.pc = "outage", !.run = TRUE, !.todo = active]
             ELSE IF \E e \in active \cap pend : t \in TimersOf(e) THEN Idle
             ELSE task[t]]
       /\ pend' = pend \ active
       /\ UNCHANGED <<now, ready, mapped, discovered, served, complete, stored, deviceVars, posted>>

OutageReverts(e) ==
    /\ task[Outage].pc = "outage" /\ e \in task[Outage].todo
    /\ Fallback(Outage, [task[Outage] EXCEPT !.todo = @ \ {e}], e, TRUE, "outage")

OutageReverted ==
    /\ task[Outage].pc = "outage" /\ task[Outage].todo = {}
    /\ Goto(Outage, Idle)
    /\ UNCHANGED <<envVars, rec, stored, pend, deviceVars, posted>>

(* _recover_from_comms_loss: a rediscovery, then the mode is cleared; the  *)
(* boundary stays while ahead, and the probe clears it once passed.        *)
BeginRecovery ==
    /\ lost /\ ready /\ task[Outage].pc = "idle"
    /\ task' = [PollsCancelled EXCEPT ![Outage] = [Idle EXCEPT !.pc = "recovering"]]
    /\ ClearState
    /\ UNCHANGED used

LeaveCommsLoss ==
    /\ task[Outage].pc = "recovered"
    /\ lost' = FALSE
    /\ resumeAfter' = IF now > resumeAfter THEN 0 ELSE resumeAfter
    /\ Goto(Outage, Idle)
    /\ UNCHANGED <<now, ready, mapped, discovered, served, complete, rec, stored,
                   pend, deviceVars, posted, used>>

DropBoundary ==
    /\ ~lost /\ resumeAfter # 0 /\ now > resumeAfter
    /\ resumeAfter' = 0
    /\ UNCHANGED <<now, ready, mapped, discovered, served, complete, rec, stored,
                   pend, task, deviceVars, posted, lost, used>>

(* A due timer is at most one adaptive sleep late, far less than a unit of *)
(* this clock, unless its callback waits for _state_ready.  POSTs, writes  *)
(* and rediscoveries take any time, but (an assumption the code does not   *)
(* enforce) none about an event lasts until the store may forget it.       *)
Tick ==
    /\ now < MaxTime
    /\ \A t \in Tasks : Fires(t) => ~ready
    /\ \A t \in Tasks, e \in stored :
          /\ task[t].pc # "idle" /\ (e = task[t].loser \/ e = task[t].ev)
          => now < End(e) + StoreGrace
    /\ now' = now + 1
    /\ UNCHANGED <<controlVars, rec, stored, pend, task, deviceVars, posted>>

PassStep(t) ==
    \/ \E e \in Events : \/ SeeKnown(t, e) \/ SeeUnstored(t, e)
                         \/ SeePreCancelled(t, e) \/ SeeNew(t, e)
                         \/ CancelRemoved(t, e)
    \/ ScheduleActivation(t) \/ LateDiscovery(t) \/ FindRemoved(t)
    \/ SupersedeAll(t) \/ PruneAndDefault(t) \/ Unwind(t)

TimerStep(t) ==
    \/ \E e \in Events : t = Act(e) /\ Activate(e)
    \/ \E e \in Events : t = Comp(e) /\ Complete(e)
    \/ TimerSkips(t)

OutageStep ==
    \/ \E e \in Events : OutageReverts(e)
    \/ OutageReverted

(* The code several kinds of task run. *)
SharedStep(t) ==
    \/ \E a, b \in Events : Supersede(t, a, b)
    \/ SupersedePosted(t) \/ SupersedeRevert(t) \/ SupersedeDone(t)
    \/ Apply(t) \/ DispatchDone(t)
    \/ \E d \in Devices : \/ DispatchOk(t, d)
                          \/ \E how \in {"fail", "slow"} : DispatchRejected(t, d, how)
    \/ Revert(t) \/ Reverted(t) \/ \E d \in Devices : RevertFails(t, d)

TaskStep(t) ==
    /\ \A u \in Tasks \ {t} : ~task[u].run
    /\ \/ t \in PassTasks /\ PassStep(t)
       \/ TimerStep(t)
       \/ t = Outage /\ OutageStep
       \/ SharedStep(t)

(* What happens between the steps of the tasks. *)
Environment ==
    /\ \A u \in Tasks : ~task[u].run
    /\ \/ \E d \in Devices : WriteLands(d)
       \/ \E t \in PassTasks, g \in Programs, ok \in BOOLEAN : StartPass(t, g, ok)
       \/ \E g \in Programs : CancelProgram(g)
       \/ BeginRediscovery
       \/ \E ok \in BOOLEAN : EndRediscovery(ok)
       \/ EnterCommsLoss
       \/ BeginRecovery
       \/ LeaveCommsLoss
       \/ DropBoundary
       \/ Tick

Next == (\E t \in Tasks : TaskStep(t)) \/ Environment

Spec == Init /\ [][Next]_vars

(* The loop runs every task that can go on, POSTs and writes end (they     *)
(* time out), a rediscovery ends, and time passes.  Nothing obliges the    *)
(* server to change or a poll to run.                                      *)
Fairness ==
    /\ \A t \in Tasks : WF_vars(TaskStep(t))
    /\ \A d \in Devices : WF_vars(~(\E u \in Tasks : task[u].run) /\ WriteLands(d))
    /\ WF_vars(~(\E u \in Tasks : task[u].run) /\ EndRediscovery(TRUE))
    /\ WF_vars(~(\E u \in Tasks : task[u].run) /\ Tick)

FairSpec == Spec /\ Fairness

-----------------------------------------------------------------------------
(* PROPERTIES                                                              *)

Pcs == {"idle", "timer", "loop", "ackScheduled", "ackLate", "unwind", "removed",
        "prune", "supersede", "superseding", "supersedeRevert", "apply",
        "dispatch", "completed", "optOut", "reverting", "outage", "recovering",
        "recovered"}

PassPcs == {"loop", "ackScheduled", "ackLate", "unwind", "removed", "prune"}

(* The values an EventRecord and a task's local state may have. *)
EventRecords ==
    [st : {"none"} \cup Live \cup Terminal, sup : SUBSET Devices, supm : SUBSET Devices,
     rej : SUBSET Devices, app : SUBSET Devices, opted : BOOLEAN]
TaskRecords ==
    [pc : Pcs, run : BOOLEAN, ev : Events \cup {NoEvent}, todo : SUBSET Events,
     cx : SUBSET Events, prog : Programs \cup {NoEvent}, work : SUBSET (Events \X Events),
     map : SUBSET Programs, loser : Events \cup {NoEvent}, devs : SUBSET Devices,
     defs : SUBSET (Programs \X Devices), ret : Pcs, back : Pcs, at : Nat]

TypeOK ==
    /\ now \in 0..MaxTime /\ ready \in BOOLEAN /\ discovered \in BOOLEAN
    /\ mapped \subseteq Programs
    /\ served \in [Events -> {"unseen", "listed", "cancelled", "gone"}]
    /\ complete \in [Programs -> BOOLEAN]
    /\ rec \in [Events -> EventRecords]
    /\ stored \subseteq Events /\ pend \subseteq Events
    /\ task \in [Tasks -> TaskRecords]
    /\ \A t \in Tasks \ PassTasks : task[t].pc \notin PassPcs
    /\ modes \in [Devices -> SUBSET Events]
    /\ defaulted \subseteq Defaulting \X Devices
    /\ wq \in [Devices -> Seq(Events \cup Programs \cup {"off"})]
    /\ setp \in [Devices -> Events \cup Programs \cup {"off"}]
    /\ posted \in [Events -> [Devices -> Seq(Codes)]]
    /\ lost \in BOOLEAN /\ resumeAfter \in Nat

Posted(e, d, code) == Contains(posted[e][d], code)
Before(e, d, x, y) ==
    \E i, j \in 1..Len(posted[e][d]) :
        i < j /\ posted[e][d][i] = x /\ posted[e][d][j] = y

(* Nothing is under way: no write is pending, no wind-down is awaited and  *)
(* every other timer is ahead.                                             *)
Quiescent ==
    /\ ready
    /\ \A d \in Devices : wq[d] = <<>>
    /\ \A t \in Tasks : \/ task[t].pc = "idle"
                        \/ /\ task[t].pc = "timer" /\ task[t].at > now
                           /\ t[1] # "wind"
                        \/ t = Outage /\ task[t].pc = "recovered"

(* Every live event has somebody that will move it: a scheduled one its    *)
(* activation timer, an active one its completion timer, or the task that  *)
(* is about to set that timer (_handle_new_scheduled, _on_activation,      *)
(* _handle_late_discovery set it after their awaits).                      *)
LiveEventHasDriver ==
    \A e \in stored :
        /\ rec[e].st = "SCHEDULED" =>
              \/ task[Act(e)].pc = "timer"
              \/ \E t \in PassTasks : task[t].pc = "ackScheduled" /\ task[t].ev = e
        /\ rec[e].st = "ACTIVE" /\ ~rec[e].opted =>
              \/ task[Comp(e)].pc = "timer"
              \/ task[Act(e)].pc # "idle"
              \/ \E t \in PassTasks : task[t].pc # "idle" /\ task[t].ev = e

(* The next pass over some program of d gives d its default: the tracker   *)
(* allows it and no cancelled event of the program has a timer.            *)
RevertPending(d) ==
    \E g \in DefaultsFor(d) :
        /\ ShouldApplyInitial(g, d)
        /\ ~\E e \in stored \cap pend : Prog[e] = g /\ rec[e].st = "CANCELLED"

(* When nothing is under way, no device with a default runs the control of *)
(* an event that completed, was cancelled, superseded or opted out, except *)
(* where the next pass reverts it (the winner of a supersession was        *)
(* rejected): the DdercTracker never believes a default that is not in     *)
(* force.  Without a default the code takes no action after a rejection.   *)
NoControlLeftBehind ==
    Quiescent => \A d \in Devices :
        DefaultsFor(d) # {} /\ setp[d] \in Events \ ActiveEvents => RevertPending(d)

(* When nothing is under way, a device that was told an event is ACTIVE    *)
(* and was not taken over runs it: no default, no late write and no lower  *)
(* priority event has overwritten it.                                      *)
RunningEventInForce ==
    Quiescent => \A e \in ActiveEvents, d \in Devices :
        d \in rec[e].app \ rec[e].sup => setp[d] = e

(* When nothing is under way, the mode tracker names running events only;  *)
(* a registration left behind would make the next event's end look         *)
(* covered.                                                                *)
NoLeakedRegistration ==
    Quiescent => \A d \in Devices : modes[d] \subseteq ActiveEvents

(* A device is told COMPLETED only after it was told ACTIVE, and never     *)
(* when it was told the event was rejected or superseded there.            *)
CompletedOnlyWhereItRan ==
    \A e \in Events, d \in Devices : Posted(e, d, "COMPLETED") =>
        /\ Before(e, d, "ACTIVE", "COMPLETED")
        /\ ~Posted(e, d, "REJECTED") /\ ~Posted(e, d, "SUPERSEDED")

(* An event that ran its course is not reported cancelled as well. *)
CompletedNotCancelled ==
    \A e \in Events, d \in Devices :
        ~(Posted(e, d, "COMPLETED") /\ Posted(e, d, "CANCELLED"))

(* EXPIRED is for events never handled: no device hears it after another   *)
(* response.                                                               *)
ExpiredOnlyWhenFirstReceived ==
    \A e \in Events : (\E d \in Devices : Posted(e, d, "EXPIRED")) =>
        \A d \in Devices : Len(posted[e][d]) <= 1

(* After an outage, and until the boundary has passed, no event that       *)
(* starts in the window the client opted out of is run.                    *)
ResumeAfterBoundary ==
    ~lost /\ resumeAfter # 0 => \A e \in ActiveEvents : Start[e] > resumeAfter

(* Every event the client took on comes to an end, whatever is superseded, *)
(* cancelled or rejected on the way.                                       *)
EveryEventEnds ==
    \A e \in Events : rec[e].st \in Live ~> rec[e].st \in Terminal

(* An event that came to an end is never taken on again, also when it is   *)
(* still listed after the store dropped it (EventStore's grace).           *)
EndedStaysEnded ==
    [][\A e \in Events : rec[e].st \in Terminal => rec'[e].st \notin Live]_vars
=============================================================================
