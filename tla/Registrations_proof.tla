------------------------ MODULE Registrations_proof ------------------------
(***************************************************************************)
(* Proofs about the registrations ActiveModeTracker keeps: an event that   *)
(* is over has left the devices, whoever ended it.  The module builds on   *)
(* StartInv of EventLifecycle_proof: one task has the turn of an event.    *)
(***************************************************************************)
EXTENDS EventLifecycle_proof

(* No rediscovery, removal of a program or outage is in progress: each of  *)
(* them takes away what a handler needs to find the devices of its event.  *)
Steady == ready /\ discovered /\ mapped = Programs /\ ~lost

(* The devices of e while they are mapped. *)
Group(e) == DevicesOf[Prog[e]]
TakenOver(e) == Group(e) \subseteq rec[e].sup
Running(e) == e \in stored /\ rec[e].st = "ACTIVE"

(* t is about to give up the registrations of e: it posts that e completed *)
(* or was cancelled, or has just superseded it.                            *)
Releases(t, e) ==
    \/ t = Comp(e) /\ task[t].pc = "completed"
    \/ t \in PassTasks /\ task[t].pc = "unwind" /\ task[t].ev = e
    \/ task[t].pc = "supersedeRevert" /\ task[t].loser = e

-----------------------------------------------------------------------------
(* The invariant, event by event. *)

(* A registration is of a running event, or will be released. *)
RegistrationOwned(e) ==
    \A d \in Devices : e \in modes[d] =>
        d \in Group(e) /\ (Running(e) \/ \E t \in Tasks : Releases(t, e))

(* A control goes out for a running event only, or to no device. *)
PreparedRuns(e) == \A t \in Tasks : Preparing(t, e) => Running(e) \/ TakenOver(e)

(* Whoever cancels e stops the timer that would start it. *)
TurnTracked(e) == HasTurn(Act(e), e) => e \in pend \/ TakenOver(e)
TurnOwner(e) == \A t \in Tasks : HasTurn(t, e) => t \in PassTasks \/ t = Act(e)

(* Somebody moves a live event on, before the store may forget it. *)
Driven(e) ==
    /\ e \in stored /\ rec[e].st = "SCHEDULED" => \E t \in Tasks : Scheduling(t, e)
    /\ Running(e) => Timed(e) \/ \E t \in Tasks : Preparing(t, e) \/ Dispatching(t, e)
InTime(e) == e \in stored /\ rec[e].st \in Live => now <= End(e) + StoreGrace

(* While the POSTs of its completion are awaited, nobody supersedes e.  *)
Completing(e) ==
    /\ task[Comp(e)].pc \in {"timer", "completed"} => task[Comp(e)].ev = e
    /\ task[Comp(e)].pc = "completed" =>
          /\ rec[e].st = "COMPLETED" /\ \A t \in Tasks : ~HasTurn(t, e)
          /\ task[Comp(e)].run \/ Group(e) = {} \/ ~TakenOver(e)
ReleasedAtEnd(e) == \A t \in Tasks : Releases(t, e) => rec[e].st \in Terminal

(* Only devices of e start it. *)
StartedInGroup(e) ==
    /\ rec[e].opted = FALSE /\ rec[e].app \subseteq Group(e)
    /\ \A t \in Tasks : Dispatching(t, e) => task[t].devs \subseteq Group(e)

Accounted(e) ==
    /\ RegistrationOwned(e) /\ PreparedRuns(e) /\ TurnTracked(e) /\ TurnOwner(e)
    /\ Driven(e) /\ InTime(e) /\ Completing(e) /\ ReleasedAtEnd(e) /\ StartedInGroup(e)

(* The tasks: none opts out or recovers, a supersession works on the whole *)
(* mapping and reverts the loser in one go, and an event is prepared or    *)
(* unwound.                                                                *)
SteadyAs(t, r) ==
    /\ r.pc # "optOut" /\ (t = Outage => r.pc = "idle")
    /\ r.pc = "supersedeRevert" => r.run
    /\ InSupersession(r) => r.map = Programs
    /\ Prepares(r, r.ev) \/ r.pc = "unwind" => r.ev \in Events
SteadyTask(t) == SteadyAs(t, task[t])

RegInv ==
    /\ modes \in [Devices -> SUBSET Events]
    /\ \A e \in Events : Accounted(e)
    /\ \A t \in Tasks : SteadyTask(t)

-----------------------------------------------------------------------------
(* What a step leaves alone of an event. *)

(* Task u takes up nothing about e, and goes on with what it does. *)
TakesUpNone(u, e) ==
    /\ Preparing(u, e)' => Preparing(u, e)
    /\ Dispatching(u, e)' => Dispatching(u, e) /\ task'[u].devs \subseteq task[u].devs
    /\ Scheduling(u, e)' => Scheduling(u, e)
    /\ Releases(u, e)' => Releases(u, e)
    /\ u = Comp(e) /\ task'[u].pc \in {"timer", "completed"} => task'[u] = task[u]
GoesOn(u, e) ==
    /\ Preparing(u, e) => Preparing(u, e)'
    /\ Dispatching(u, e) => Dispatching(u, e)'
    /\ Scheduling(u, e) => Scheduling(u, e)'
    /\ u = Comp(e) /\ task[u].pc = "timer" => task'[u].pc = "timer"
Leaves(u, e) == TakesUpNone(u, e) /\ GoesOn(u, e)

(* Its record, and its places in the trackers. *)
RecordLeft(e) ==
    /\ rec'[e].st = rec[e].st /\ rec'[e].opted = rec[e].opted
    /\ rec'[e].app \subseteq rec[e].app \cup Group(e)
    /\ rec[e].sup \subseteq rec'[e].sup
    /\ rec[e].st \in Terminal => rec'[e].sup = rec[e].sup
    /\ e \in stored' => e \in stored
    /\ e \in stored /\ rec[e].st \in Live => e \in stored'
    /\ e \in pend => e \in pend'
    /\ \A d \in Devices : e \in modes'[d] => e \in modes[d]
    /\ now' = now

(* Nobody who was to release e stops before it is released. *)
StillReleased(u, e) == Releases(u, e) => Releases(u, e)' \/ \A d \in Devices : e \notin modes'[d]

LEMMA AccountShrinks ==
    ASSUME NEW e \in Events, Accounted(e), RecordLeft(e), Driven(e)',
           \A u \in Tasks : TakesUpNone(u, e) /\ StillReleased(u, e)
    PROVE  Accounted(e)'
  <1>0. /\ RegistrationOwned(e) /\ PreparedRuns(e) /\ TurnTracked(e) /\ TurnOwner(e)
        /\ Driven(e) /\ InTime(e) /\ Completing(e) /\ ReleasedAtEnd(e) /\ StartedInGroup(e)
        /\ Act(e) \in Tasks /\ Comp(e) \in Tasks
    BY TaskSets, TimersDiffer DEF Accounted
  <1>1. /\ rec'[e].st = rec[e].st /\ rec'[e].opted = rec[e].opted
        /\ rec'[e].app \subseteq rec[e].app \cup Group(e)
        /\ rec[e].sup \subseteq rec'[e].sup
        /\ rec[e].st \in Terminal => rec'[e].sup = rec[e].sup
        /\ e \in stored' => e \in stored
        /\ e \in stored /\ rec[e].st \in Live => e \in stored'
        /\ e \in pend => e \in pend'
        /\ \A d \in Devices : e \in modes'[d] => e \in modes[d]
        /\ now' = now
    BY DEF RecordLeft
  <1>2. \A u \in Tasks :
          /\ Preparing(u, e)' => Preparing(u, e)
          /\ Dispatching(u, e)' => Dispatching(u, e) /\ task'[u].devs \subseteq task[u].devs
          /\ Releases(u, e)' => Releases(u, e)
          /\ HasTurn(u, e)' => HasTurn(u, e)
    BY DEF TakesUpNone, HasTurn
  <1>3. TakenOver(e) => TakenOver(e)'
    BY <1>1 DEF TakenOver
  <1>4. Running(e)' <=> Running(e)
    BY <1>1 DEF Running, Live
  <1>5. RegistrationOwned(e)'
    <2> SUFFICES ASSUME NEW d \in Devices, e \in modes'[d]
                 PROVE  d \in Group(e) /\ (Running(e)' \/ \E t \in Tasks : Releases(t, e)')
      BY DEF RegistrationOwned, Group
    <2>1. d \in Group(e) /\ (Running(e) \/ \E t \in Tasks : Releases(t, e))
      BY <1>0, <1>1 DEF RegistrationOwned
    <2>2. \A t \in Tasks : Releases(t, e) => Releases(t, e)'
      BY DEF StillReleased
    <2> QED BY <1>4, <2>1, <2>2
  <1>6. PreparedRuns(e)'
    BY <1>0, <1>2, <1>3, <1>4 DEF PreparedRuns
  <1>7. TurnTracked(e)' /\ TurnOwner(e)'
    BY <1>0, <1>1, <1>2, <1>3 DEF TurnTracked, TurnOwner
  <1>9. InTime(e)'
    BY <1>0, <1>1 DEF InTime, End
  <1>10. Completing(e)'
    <2>1. task'[Comp(e)].pc \in {"timer", "completed"} => task'[Comp(e)] = task[Comp(e)]
      BY <1>0 DEF TakesUpNone
    <2>2. rec[e].st = "COMPLETED" => (TakenOver(e)' => TakenOver(e))
      BY <1>1 DEF TakenOver, Terminal, Group
    <2>3. Group(e)' = Group(e)
      BY DEF Group
    <2>4. CASE task'[Comp(e)].pc \in {"timer", "completed"}
      BY <1>0, <1>1, <1>2, <2>1, <2>2, <2>3, <2>4 DEF Completing
    <2>5. CASE task'[Comp(e)].pc \notin {"timer", "completed"}
      BY <2>5 DEF Completing
    <2> QED BY <2>4, <2>5
  <1>11. ReleasedAtEnd(e)'
    BY <1>0, <1>1, <1>2 DEF ReleasedAtEnd
  <1>12. StartedInGroup(e)'
    BY <1>0, <1>1, <1>2 DEF StartedInGroup, Group
  <1> QED BY <1>5, <1>6, <1>7, <1>9, <1>10, <1>11, <1>12 DEF Accounted

LEMMA AccountKept ==
    ASSUME NEW e \in Events, Accounted(e), RecordLeft(e),
           \A u \in Tasks : Leaves(u, e) /\ StillReleased(u, e)
    PROVE  Accounted(e)'
  <1>1. Driven(e) /\ Comp(e) \in Tasks
    BY TaskSets, TimersDiffer DEF Accounted
  <1>2. Timed(e) => Timed(e)'
    BY <1>1 DEF Timed, Leaves, GoesOn
  <1>3. rec'[e].st = rec[e].st /\ (e \in stored' => e \in stored) /\ (Running(e)' => Running(e))
    BY DEF RecordLeft, Running
  <1>4. Driven(e)'
    BY <1>1, <1>2, <1>3 DEF Driven, Leaves, GoesOn
  <1> QED BY <1>4, AccountShrinks DEF Leaves

-----------------------------------------------------------------------------
(* A step of t that sets or cancels timers of x, and of no other event. *)
Alone(t, x) ==
    /\ \A u \in Tasks : u # t => ~task[u].run
    /\ \A u \in Tasks : u # t =>
          \/ task'[u] = task[u]
          \/ u \in TimersOf(x) /\ task'[u].pc \in {"idle", "timer"}

LEMMA SameLeaves ==
    ASSUME NEW u, NEW e, task'[u] = task[u] PROVE Leaves(u, e) /\ StillReleased(u, e)
  <1>1. /\ Preparing(u, e)' <=> Preparing(u, e)
        /\ Dispatching(u, e)' <=> Dispatching(u, e)
        /\ Scheduling(u, e)' <=> Scheduling(u, e)
        /\ Releases(u, e)' <=> Releases(u, e)
    BY DEF Preparing, Dispatching, Scheduling, Releases
  <1> QED BY <1>1 DEF Leaves, TakesUpNone, GoesOn, StillReleased

(* The timers of x do not handle another event. *)
LEMMA OtherTimers ==
    ASSUME RegInv, NEW e \in Events, NEW x, x # e, NEW u \in Tasks, u \in TimersOf(x), ~task[u].run,
           task'[u].pc \in {"idle", "timer"}
    PROVE  Leaves(u, e) /\ StillReleased(u, e)
  <1>1. u \notin PassTasks /\ u # Act(e) /\ u # Comp(e)
    BY TaskSets, TimersDiffer DEF TimersOf
  <1>2. ~HasTurn(u, e)
    BY <1>1 DEF RegInv, Accounted, TurnOwner
  <1>3. task[u].pc # "supersedeRevert"
    BY DEF RegInv, SteadyTask, SteadyAs
  <1>4. ~Releases(u, e)
    BY <1>1, <1>3 DEF Releases
  <1>5. ~Preparing(u, e)' /\ ~Dispatching(u, e)' /\ ~Scheduling(u, e)' /\ ~Releases(u, e)'
    BY <1>1 DEF Preparing, Prepares, InSupersession, Dispatching, Scheduling, Releases
  <1> QED BY <1>1, <1>2, <1>4, <1>5 DEF Leaves, TakesUpNone, GoesOn, StillReleased, HasTurn

LEMMA EventLeft ==
    ASSUME RegInv, NEW t \in Tasks, NEW x, Alone(t, x), NEW e \in Events, e # x,
           RecordLeft(e), Leaves(t, e), StillReleased(t, e)
    PROVE  Accounted(e)'
  <1>1. ASSUME NEW u \in Tasks PROVE Leaves(u, e) /\ StillReleased(u, e)
    <2>1. CASE u = t
      BY <2>1
    <2>2. CASE u # t
      BY <2>2, SameLeaves, OtherTimers DEF Alone
    <2> QED BY <2>1, <2>2
  <1> QED BY <1>1, AccountKept DEF RegInv

(* Where a task neither has a turn nor releases an event. *)
Aside(r) ==
    /\ r.pc \notin {"timer", "ackScheduled", "ackLate", "apply", "dispatch", "completed", "unwind",
                    "supersedeRevert"}
    /\ ~(InSupersession(r) /\ r.ret = "apply")

LEMMA AsideLeaves ==
    ASSUME NEW t, Aside(task[t]), Aside(task'[t]), NEW e
    PROVE  Leaves(t, e) /\ StillReleased(t, e)
  BY DEF Aside, Leaves, TakesUpNone, GoesOn, StillReleased, Preparing, Prepares, Dispatching, Scheduling, Releases

(* A task that prepares an event goes on with it. *)
PreparesSame(r, q) ==
    /\ r.ev = q.ev
    /\ {r.pc, q.pc} \cap {"timer", "ackScheduled", "dispatch", "completed", "unwind"} = {}
    /\ q.pc # "supersedeRevert"
    /\ \A e : Prepares(r, e) <=> Prepares(q, e)

LEMMA PreparingLeaves ==
    ASSUME NEW t, PreparesSame(task[t], task'[t]), NEW e,
           task[t].pc = "supersedeRevert" /\ task[t].loser = e => \A d \in Devices : e \notin modes'[d]
    PROVE  Leaves(t, e) /\ StillReleased(t, e)
  <1>1. Preparing(t, e)' <=> Preparing(t, e)
    BY DEF PreparesSame, Preparing
  <1>2. /\ ~Dispatching(t, e) /\ ~Dispatching(t, e)' /\ ~Scheduling(t, e) /\ ~Scheduling(t, e)'
        /\ ~Releases(t, e)'
        /\ Releases(t, e) => task[t].pc = "supersedeRevert" /\ task[t].loser = e
        /\ task[t].pc # "timer" /\ task'[t].pc \notin {"timer", "completed"}
    BY DEF PreparesSame, Dispatching, Scheduling, Releases
  <1> QED BY <1>1, <1>2 DEF Leaves, TakesUpNone, GoesOn, StillReleased

LEMMA RecordStill ==
    ASSUME NEW e, rec' = rec, stored' = stored, e \in pend => e \in pend', now' = now,
           \A d \in Devices : e \in modes'[d] => e \in modes[d]
    PROVE  RecordLeft(e)
  BY DEF RecordLeft

(* The step of t, and what it makes of t. *)
LEMMA GoingAloneNow ==
    ASSUME Shape, NEW t \in Tasks, \A u \in Tasks \ {t} : ~task[u].run, NEW r, Goto(t, r)
    PROVE  Alone(t, NoEvent) /\ task'[t] = r
  BY DEF Shape, Goto, Alone

LEMMA CancellingTimers ==
    ASSUME Shape, NEW t \in Tasks, \A u \in Tasks \ {t} : ~task[u].run, NEW r, NEW x, CancelTimers(t, r, x)
    PROVE  /\ Alone(t, x) /\ task'[t] = r
           /\ x \in pend => \A u \in TimersOf(x) : u \in Tasks /\ u # t => task'[u].pc = "idle"
           /\ \A e : e # x /\ e \in pend => e \in pend'
  BY IdleRecord DEF CancelTimers, Alone

LEMMA TasksSteady ==
    ASSUME RegInv, NEW t \in Tasks, NEW x, Alone(t, x), SteadyTask(t)'
    PROVE  \A u \in Tasks : SteadyTask(u)'
  <1> SUFFICES ASSUME NEW u \in Tasks, u # t PROVE SteadyTask(u)'
    OBVIOUS
  <1>1. SteadyTask(u)
    BY DEF RegInv
  <1>2. CASE task'[u] = task[u]
    BY <1>1, <1>2 DEF SteadyTask
  <1>3. CASE u \in TimersOf(x) /\ task'[u].pc \in {"idle", "timer"}
    BY <1>3, TaskSets DEF SteadyTask, SteadyAs, Prepares, InSupersession
  <1> QED BY <1>2, <1>3 DEF Alone

-----------------------------------------------------------------------------
(* The steps that move no event on. *)
LEMMA StillStep ==
    ASSUME Shape, RegInv, NEW t \in Tasks, \A u \in Tasks \ {t} : ~task[u].run, NEW r, Goto(t, r),
           SteadyAs(t, r), modes' \in [Devices -> SUBSET Events],
           \A e \in Events : RecordLeft(e),
           \/ Aside(task[t]) /\ Aside(r)
           \/ /\ PreparesSame(task[t], r)
              /\ \A e \in Events : task[t].pc = "supersedeRevert" /\ task[t].loser = e =>
                    \A d \in Devices : e \notin modes'[d]
    PROVE  RegInv'
  <1>1. Alone(t, NoEvent) /\ task'[t] = r
    BY GoingAloneNow
  <1>2. \A u \in Tasks : SteadyTask(u)'
    BY <1>1, TasksSteady DEF SteadyTask
  <1>3. ASSUME NEW e \in Events PROVE Accounted(e)'
    <2>1. Leaves(t, e) /\ StillReleased(t, e)
      <3>1. CASE Aside(task[t]) /\ Aside(r)
        BY <1>1, <3>1, AsideLeaves
      <3>2. CASE ~(Aside(task[t]) /\ Aside(r))
        <4>1. PreparesSame(task[t], task'[t])
          BY <1>1, <3>2
        <4>2. task[t].pc = "supersedeRevert" /\ task[t].loser = e => \A d \in Devices : e \notin modes'[d]
          BY <3>2
        <4> QED BY <4>1, <4>2, PreparingLeaves
      <3> QED BY <3>1, <3>2
    <2>2. e # NoEvent
      BY ConstantsAssumption
    <2> QED BY <1>1, <2>1, <2>2, EventLeft
  <1> QED BY <1>2, <1>3 DEF RegInv

(* Between places of a pass. *)
LEMMA PlainMove ==
    ASSUME Shape, RegInv, NEW t \in PassTasks, \A u \in Tasks \ {t} : ~task[u].run, NEW r, Goto(t, r),
           task[t].pc \in {"idle", "loop", "removed", "prune"},
           r.pc \in {"idle", "loop", "removed", "prune"},
           rec' = rec, stored' = stored, pend' = pend, now' = now, modes' = modes
    PROVE  RegInv'
  <1>1. t \in Tasks /\ t # Outage
    BY TaskSets
  <1>2. Aside(task[t]) /\ Aside(r) /\ SteadyAs(t, r)
    BY <1>1 DEF Aside, SteadyAs, Prepares, InSupersession
  <1>3. \A e \in Events : RecordLeft(e)
    BY RecordStill
  <1>4. modes' \in [Devices -> SUBSET Events]
    BY DEF RegInv
  <1> QED BY <1>1, <1>2, <1>3, <1>4, StillStep

LEMMA AtFields ==
    ASSUME Shape, NEW t \in Tasks, NEW pc
    PROVE  /\ At(t, pc).pc = pc /\ At(t, pc).run = TRUE /\ At(t, pc).ev = task[t].ev
           /\ At(t, pc).ret = task[t].ret /\ At(t, pc).back = task[t].back
           /\ At(t, pc).map = task[t].map /\ At(t, pc).loser = task[t].loser
           /\ At(t, pc).devs = task[t].devs
  <1>1. task[t] \in TaskRecords
    BY DEF Shape
  <1> QED BY <1>1 DEF At, TaskRecords

LEMMA LookedFields ==
    ASSUME Shape, NEW t \in Tasks, NEW e, NEW pc, NEW D
    PROVE  /\ Looked(t, e, pc).pc = pc /\ Looked(t, e, pc).ev = e
           /\ Suspended(Looked(t, e, pc), D).pc = pc /\ Suspended(Looked(t, e, pc), D).ev = e
  <1>1. task[t] \in TaskRecords
    BY DEF Shape
  <1>2. Looked(t, e, pc).pc = pc /\ Looked(t, e, pc).ev = e
    BY <1>1 DEF Looked, At, TaskRecords
  <1>3. Suspended(Looked(t, e, pc), D).pc = pc /\ Suspended(Looked(t, e, pc), D).ev = e
    BY <1>1 DEF Looked, At, TaskRecords, Suspended
  <1> QED BY <1>2, <1>3

(* The looks of a pass at an event it does not take, cancel or start, and  *)
(* the set of rule p.                                                      *)
LEMMA LooksOn ==
    ASSUME Shape, RegInv, NEW t \in PassTasks, \A u \in Tasks \ {t} : ~task[u].run, NEW e \in Events,
           \/ SeeUnstored(t, e)
           \/ SeeKnown(t, e) /\ ~ServerCancels(t, e)
           \/ FindRemoved(t)
           \/ CancelRemoved(t, e) /\ e \notin stored
    PROVE  RegInv'
  <1>0. t \in Tasks
    BY TaskSets
  <1>1. /\ rec' = rec /\ stored' = stored /\ pend' = pend /\ now' = now /\ modes' = modes
        /\ task[t].pc \in {"loop", "removed"}
    BY DEF SeeUnstored, SeeKnown, FindRemoved, CancelRemoved, IsNew, InLoop, envVars, deviceVars
  <1>2. PICK r : Goto(t, r) /\ r.pc \in {"idle", "loop", "removed"}
    <2>1. CASE SeeUnstored(t, e)
      BY <1>0, <2>1, LookedFields DEF SeeUnstored
    <2>2. CASE SeeKnown(t, e) /\ ~ServerCancels(t, e)
      BY <1>0, <2>2, LookedFields DEF SeeKnown
    <2>3. CASE FindRemoved(t)
      <3>1. PICK S : Goto(t, [At(t, "removed") EXCEPT !.ev = NoEvent, !.cx = {}, !.todo = S])
        BY <2>3 DEF FindRemoved
      <3>2. [At(t, "removed") EXCEPT !.ev = NoEvent, !.cx = {}, !.todo = S].pc = "removed"
        BY <1>0 DEF Shape, TaskRecords, At
      <3> QED BY <3>1, <3>2
    <2>4. CASE CancelRemoved(t, e) /\ e \notin stored
      BY <2>4, IdleRecord DEF CancelRemoved
    <2> QED BY <2>1, <2>2, <2>3, <2>4
  <1> QED BY <1>1, <1>2, PlainMove

(* Into a supersession, and on in it. *)
LEMMA SupersedingFields ==
    ASSUME Shape, NEW t \in Tasks, NEW ret
    PROVE  /\ Superseding(t, ret).pc = "supersede" /\ Superseding(t, ret).ret = ret
           /\ Superseding(t, ret).map = mapped /\ Superseding(t, ret).ev = task[t].ev
           /\ [Superseding(t, ret) EXCEPT !.ev = NoEvent].pc = "supersede"
           /\ [Superseding(t, ret) EXCEPT !.ev = NoEvent].ret = ret
           /\ [Superseding(t, ret) EXCEPT !.ev = NoEvent].map = mapped
  <1>1. task[t] \in TaskRecords
    BY DEF Shape
  <1> QED BY <1>1 DEF Superseding, At, TaskRecords

LEMMA IntoSupersession ==
    ASSUME Shape, RegInv, mapped = Programs, NEW t \in PassTasks, \A u \in Tasks \ {t} : ~task[u].run,
           SupersedeAll(t) \/ LateDiscovery(t)
    PROVE  RegInv'
  <1>0. t \in Tasks /\ t # Outage /\ SteadyAs(t, task[t])
    BY TaskSets DEF RegInv, SteadyTask
  <1>1. /\ rec' = rec /\ stored' = stored /\ pend' = pend /\ now' = now /\ modes' = modes
    BY DEF SupersedeAll, LateDiscovery, envVars, deviceVars
  <1>2. modes' \in [Devices -> SUBSET Events] /\ \A e \in Events : RecordLeft(e)
    BY <1>1, RecordStill DEF RegInv
  <1>3. CASE SupersedeAll(t)
    <2> DEFINE r == [Superseding(t, "prune") EXCEPT !.ev = NoEvent]
    <2>1. Goto(t, r) /\ task[t].pc = "removed"
      BY <1>3 DEF SupersedeAll
    <2>2. r.pc = "supersede" /\ r.ret = "prune" /\ r.map = Programs
      BY <1>0, SupersedingFields
    <2> HIDE DEF r
    <2>3. Aside(task[t]) /\ Aside(r) /\ SteadyAs(t, r)
      BY <1>0, <2>1, <2>2 DEF Aside, SteadyAs, Prepares, InSupersession
    <2> QED BY <1>0, <1>2, <2>1, <2>3, StillStep
  <1>4. CASE LateDiscovery(t)
    <2> DEFINE r == Superseding(t, "apply")
    <2>1. Goto(t, r) /\ task[t].pc = "ackLate"
      BY <1>4 DEF LateDiscovery
    <2>2. r.pc = "supersede" /\ r.ret = "apply" /\ r.map = Programs /\ r.ev = task[t].ev
      BY <1>0, SupersedingFields
    <2> HIDE DEF r
    <2>3. PreparesSame(task[t], r) /\ SteadyAs(t, r)
      BY <1>0, <2>1, <2>2 DEF PreparesSame, Prepares, SteadyAs, InSupersession
    <2>4. task[t].pc # "supersedeRevert"
      BY <2>1
    <2> QED BY <1>0, <1>2, <2>1, <2>3, <2>4, StillStep
  <1> QED BY <1>3, <1>4

LEMMA SupersedeKeeps ==
    ASSUME Shape, RegInv, NEW t \in Tasks, \A u \in Tasks \ {t} : ~task[u].run,
           NEW a \in Events, NEW b \in Events, Supersede(t, a, b)
    PROVE  RegInv'
  <1> DEFINE affected == DevsIn(task[t].map, a) \cap DevsIn(task[t].map, b)
             announce == Reachable((affected \ rec[b].sup) \ rec[b].rej)
             q == [At(t, "superseding") EXCEPT !.work = @ \ {<<a, b>>}, !.loser = b, !.devs = affected]
             r == Suspended(q, announce)
             new == [rec[b] EXCEPT !.sup = @ \cup affected]
  <1>0. task[t] \in TaskRecords /\ SteadyAs(t, task[t])
    BY DEF Shape, RegInv, SteadyTask
  <1>1. /\ Goto(t, r) /\ task[t].pc = "supersede" /\ rec[b].st \notin Terminal
        /\ rec' = [rec EXCEPT ![b] = new]
        /\ stored' = stored /\ pend' = pend /\ now' = now /\ modes' = modes
    BY DEF Supersede, Skipped, envVars, deviceVars
  <1>2. /\ r.pc = "superseding" /\ r.ret = task[t].ret /\ r.ev = task[t].ev /\ r.map = task[t].map
    BY <1>0 DEF TaskRecords, At, Suspended
  <1>3. /\ new.app = rec[b].app /\ new.st = rec[b].st /\ new.opted = rec[b].opted
        /\ rec[b].sup \subseteq new.sup
    BY DEF Shape, EventRecords
  <1>4. \A e \in Events : rec'[e] = IF e = b THEN new ELSE rec[e]
    BY <1>1 DEF Shape
  <1> HIDE DEF r, new
  <1>5. ASSUME NEW e \in Events PROVE RecordLeft(e)
    <2>1. CASE e = b
      BY <1>1, <1>3, <1>4, <2>1 DEF RecordLeft
    <2>2. CASE e # b
      BY <1>1, <1>4, <2>2 DEF RecordLeft
    <2> QED BY <2>1, <2>2
  <1>6. PreparesSame(task[t], r) /\ SteadyAs(t, r)
    BY <1>0, <1>1, <1>2 DEF PreparesSame, Prepares, SteadyAs, InSupersession
  <1>7. modes' \in [Devices -> SUBSET Events] /\ task[t].pc # "supersedeRevert"
    BY <1>1 DEF RegInv
  <1> QED BY <1>1, <1>5, <1>6, <1>7, StillStep

LEMMA SupersedeDoneKeeps ==
    ASSUME Shape, RegInv, Returning, NEW t \in Tasks, \A u \in Tasks \ {t} : ~task[u].run, SupersedeDone(t)
    PROVE  RegInv'
  <1> DEFINE r == [At(t, task[t].ret) EXCEPT !.work = {}, !.map = {}, !.loser = NoEvent, !.ret = "idle"]
  <1>0. task[t] \in TaskRecords /\ SteadyAs(t, task[t]) /\ task[t].pc = "supersede"
    BY DEF Shape, RegInv, SteadyTask, SupersedeDone
  <1>1. task[t].ret \in {"prune", "apply"}
    BY <1>0 DEF Returning, Returns, InSupersession
  <1>2. /\ Goto(t, r) /\ rec' = rec /\ stored' = stored /\ pend' = pend /\ now' = now /\ modes' = modes
    BY DEF SupersedeDone, envVars, deviceVars
  <1>3. r.pc = task[t].ret /\ r.ev = task[t].ev
    BY <1>0 DEF TaskRecords, At
  <1> HIDE DEF r
  <1>4. PreparesSame(task[t], r) /\ SteadyAs(t, r)
    BY <1>0, <1>1, <1>3 DEF PreparesSame, Prepares, SteadyAs, InSupersession
  <1>5. modes' \in [Devices -> SUBSET Events] /\ task[t].pc # "supersedeRevert" /\ \A e \in Events : RecordLeft(e)
    BY <1>0, <1>2, RecordStill DEF RegInv
  <1> QED BY <1>2, <1>4, <1>5, StillStep

(* The writes of a fallback return or fail. *)
LEMMA RevertedKeeps ==
    ASSUME Shape, RegInv, Returning, NEW t \in Tasks, \A u \in Tasks \ {t} : ~task[u].run,
           Reverted(t) \/ \E d \in Devices : RevertFails(t, d)
    PROVE  RegInv'
  <1>0. /\ task[t] \in TaskRecords /\ SteadyAs(t, task[t]) /\ task[t].pc = "reverting"
        /\ rec' = rec /\ stored' = stored /\ pend' = pend /\ now' = now /\ modes' = modes
    BY DEF Shape, RegInv, SteadyTask, Reverted, RevertFails, envVars, deviceVars
  <1>1. /\ task[t].back \in {"idle", "loop", "removed", "outage", "supersede"}
        /\ task[t].back = "supersede" => task[t].ret \in {"prune", "apply"} /\ task[t].map = Programs
        /\ t # Outage
    BY <1>0 DEF Returning, Returns, InSupersession, Prepares, SteadyAs
  <1>5. modes' \in [Devices -> SUBSET Events] /\ task[t].pc # "supersedeRevert" /\ \A e \in Events : RecordLeft(e)
    BY <1>0, RecordStill DEF RegInv
  <1>2. PICK r : /\ Goto(t, r)
                 /\ \/ r.pc = "reverting" /\ r.back = task[t].back /\ r.ret = task[t].ret
                       /\ r.ev = task[t].ev /\ r.map = task[t].map
                    \/ r.pc = task[t].back /\ r.ret = task[t].ret /\ r.ev = task[t].ev /\ r.map = task[t].map
                    \/ r.pc = "idle" /\ task[t].back = "idle"
    <2>1. CASE Reverted(t)
      <3> DEFINE q == [At(t, task[t].back) EXCEPT !.devs = {}, !.defs = {}]
      <3>1. Goto(t, IF task[t].back = "idle" THEN Idle ELSE q)
        BY <2>1 DEF Reverted
      <3>2. q.pc = task[t].back /\ q.ret = task[t].ret /\ q.ev = task[t].ev /\ q.map = task[t].map
        BY <1>0 DEF TaskRecords, At
      <3> HIDE DEF q
      <3> QED BY <3>1, <3>2, IdleRecord
    <2>2. ASSUME NEW d \in Devices, RevertFails(t, d)
          PROVE  \E r : /\ Goto(t, r)
                        /\ r.pc = "reverting" /\ r.back = task[t].back /\ r.ret = task[t].ret
                        /\ r.ev = task[t].ev /\ r.map = task[t].map
      <3> DEFINE q == [task[t] EXCEPT !.devs = @ \ {d}, !.defs = {p \in @ : p[2] # d}]
      <3>1. Goto(t, q)
        BY <2>2 DEF RevertFails
      <3>2. q.pc = "reverting" /\ q.back = task[t].back /\ q.ret = task[t].ret /\ q.ev = task[t].ev /\ q.map = task[t].map
        BY <1>0 DEF TaskRecords
      <3> HIDE DEF q
      <3> QED BY <3>1, <3>2
    <2> QED BY <2>1, <2>2
  <1>3. SteadyAs(t, r)
    BY <1>0, <1>1, <1>2 DEF SteadyAs, Prepares, InSupersession
  <1>4. CASE task[t].back = "supersede"
    <2>1. PreparesSame(task[t], r)
      BY <1>0, <1>1, <1>2, <1>4 DEF PreparesSame, Prepares, InSupersession
    <2> QED BY <1>2, <1>3, <1>5, <2>1, StillStep
  <1>6. CASE task[t].back # "supersede"
    <2>1. Aside(task[t]) /\ Aside(r)
      BY <1>0, <1>1, <1>2, <1>6 DEF Aside, InSupersession
    <2> QED BY <1>2, <1>3, <1>5, <2>1, StillStep
  <1> QED BY <1>4, <1>6

(* _apply_dderc_fallback gives up every registration of its event. *)
LEMMA FallbackReleases ==
    ASSUME Shape, RegInv, mapped = Programs, NEW t \in Tasks, NEW self \in TaskRecords, NEW e, NEW clear, NEW back,
           Fallback(t, self, e, clear, back)
    PROVE  /\ modes' \in [Devices -> SUBSET Events]
           /\ \A x \in Events : RecordLeft(x)
           /\ e \in Events => \A d \in Devices : e \notin modes'[d]
           /\ \E r : /\ Goto(t, r) /\ r.pc = "reverting" /\ r.back = back /\ r.ev = self.ev
                     /\ r.ret = self.ret /\ r.map = self.map
  <1>1. /\ modes' = Released(e) /\ rec' = rec /\ stored' = stored /\ pend' = pend /\ now' = now
    BY DEF Fallback, envVars
  <1>2. modes' \in [Devices -> SUBSET Events] /\ \A d \in Devices : modes'[d] \subseteq modes[d]
    BY <1>1 DEF Released, RegInv
  <1>3. \A x \in Events : RecordLeft(x)
    BY <1>1, <1>2, RecordStill
  <1>4. ASSUME e \in Events, NEW d \in Devices PROVE e \notin modes'[d]
    <2>1. Devs(e) = Group(e)
      BY <1>4, ConstantsAssumption DEF Devs, DevsIn, Group
    <2>2. e \in modes[d] => d \in Group(e)
      BY <1>4 DEF RegInv, Accounted, RegistrationOwned
    <2>3. modes'[d] = IF d \in Devs(e) THEN modes[d] \ {e} ELSE modes[d]
      BY <1>1, <1>4 DEF Released
    <2> QED BY <2>1, <2>2, <2>3
  <1>5. PICK D, P, A : Goto(t, Suspended([self EXCEPT !.pc = "reverting", !.devs = D,
                                                    !.defs = P, !.back = back], A))
    BY DEF Fallback
  <1> DEFINE q == [self EXCEPT !.pc = "reverting", !.devs = D, !.defs = P, !.back = back]
             r == Suspended(q, A)
  <1>6. q.pc = "reverting" /\ q.back = back /\ q.ev = self.ev /\ q.ret = self.ret /\ q.map = self.map
    BY DEF TaskRecords
  <1>7. r.pc = q.pc /\ r.back = q.back /\ r.ev = q.ev /\ r.ret = q.ret /\ r.map = q.map
    BY DEF TaskRecords, Suspended
  <1> HIDE DEF q
  <1>8. Goto(t, r) /\ r.pc = "reverting" /\ r.back = back /\ r.ev = self.ev /\ r.ret = self.ret /\ r.map = self.map
    BY <1>5, <1>6, <1>7 DEF q
  <1> HIDE DEF r
  <1> QED BY <1>2, <1>3, <1>4, <1>8

LEMMA SupersedeRevertKeeps ==
    ASSUME Shape, RegInv, mapped = Programs, NEW t \in Tasks, \A u \in Tasks \ {t} : ~task[u].run,
           SupersedeRevert(t)
    PROVE  RegInv'
  <1>0. task[t] \in TaskRecords /\ SteadyAs(t, task[t]) /\ task[t].pc = "supersedeRevert"
    BY DEF Shape, RegInv, SteadyTask, SupersedeRevert
  <1>1. PICK clear : Fallback(t, task[t], task[t].loser, clear, "supersede")
    BY DEF SupersedeRevert
  <1>2. /\ modes' \in [Devices -> SUBSET Events] /\ \A e \in Events : RecordLeft(e)
        /\ task[t].loser \in Events => \A d \in Devices : task[t].loser \notin modes'[d]
    BY <1>0, <1>1, FallbackReleases
  <1>3. PICK r : /\ Goto(t, r) /\ r.pc = "reverting" /\ r.back = "supersede" /\ r.ev = task[t].ev
                 /\ r.ret = task[t].ret /\ r.map = task[t].map
    BY <1>0, <1>1, FallbackReleases
  <1>4. PreparesSame(task[t], r) /\ SteadyAs(t, r)
    BY <1>0, <1>3 DEF PreparesSame, Prepares, SteadyAs, InSupersession
  <1> QED BY <1>2, <1>3, <1>4, StillStep

(* The fallback after the POSTs of a completion or a cancellation. *)
LEMMA ReleaseKeeps ==
    ASSUME Shape, RegInv, Returning, mapped = Programs, NEW t \in Tasks, \A u \in Tasks \ {t} : ~task[u].run,
           NEW clear, NEW back, back \in {"idle", "loop", "removed"},
           task[t].pc \in {"completed", "unwind"}, t \in PassTasks \/ task[t].pc = "completed",
           Fallback(t, task[t], task[t].ev, clear, back)
    PROVE  RegInv'
  <1>0. task[t] \in TaskRecords /\ SteadyAs(t, task[t]) /\ t # Outage
    BY DEF Shape, RegInv, SteadyTask, SteadyAs
  <1>1. /\ modes' \in [Devices -> SUBSET Events] /\ \A e \in Events : RecordLeft(e)
        /\ task[t].ev \in Events => \A d \in Devices : task[t].ev \notin modes'[d]
    BY <1>0, FallbackReleases
  <1>2. PICK r : Goto(t, r) /\ r.pc = "reverting" /\ r.back = back
    BY <1>0, FallbackReleases
  <1>3. SteadyAs(t, r)
    BY <1>0, <1>2 DEF SteadyAs, Prepares, InSupersession
  <1>4. Alone(t, NoEvent) /\ task'[t] = r
    BY <1>2, GoingAloneNow
  <1>5. \A u \in Tasks : SteadyTask(u)'
    BY <1>3, <1>4, TasksSteady DEF SteadyTask
  <1>6. ASSUME NEW e \in Events PROVE Accounted(e)'
    <2>1. Releases(t, e) => task[t].ev = e
      <3>1. Completing(e)
        BY DEF RegInv, Accounted
      <3> QED BY <3>1 DEF Completing, Releases
    <2>2. StillReleased(t, e)
      BY <1>1, <2>1 DEF StillReleased
    <2>3. Leaves(t, e)
      BY <1>2, <1>4 DEF Leaves, TakesUpNone, GoesOn, Preparing, Prepares, InSupersession, Dispatching, Scheduling, Releases
    <2>4. e # NoEvent
      BY ConstantsAssumption
    <2> QED BY <1>1, <1>4, <2>2, <2>3, <2>4, EventLeft
  <1> QED BY <1>1, <1>5, <1>6 DEF RegInv

(* A device settles. *)
LEMMA SettlingKeeps ==
    ASSUME Shape, RegInv, NEW t \in Tasks, \A u \in Tasks \ {t} : ~task[u].run, NEW d \in Devices,
           DispatchOk(t, d) \/ \E how \in {"fail", "slow"} : DispatchRejected(t, d, how)
    PROVE  RegInv'
  <1> DEFINE e == task[t].ev
             r == [task[t] EXCEPT !.devs = @ \ {d}]
  <1>0. task[t] \in TaskRecords /\ SteadyAs(t, task[t]) /\ rec \in [Events -> EventRecords]
    BY DEF Shape, RegInv, SteadyTask
  <1>1. /\ Goto(t, r) /\ task[t].pc = "dispatch" /\ d \in task[t].devs
        /\ stored' = stored /\ pend' = pend /\ now' = now
    BY DEF DispatchOk, DispatchRejected, envVars
  <1>2. \A x \in Events : /\ rec'[x].st = rec[x].st /\ rec'[x].opted = rec[x].opted
                          /\ rec'[x].sup = rec[x].sup
                          /\ rec'[x].app \subseteq rec[x].app \cup (IF x = e THEN {d} ELSE {})
    <2>1. CASE DispatchOk(t, d)
      BY <1>0, <2>1 DEF DispatchOk, EventRecords
    <2>2. CASE \E how \in {"fail", "slow"} : DispatchRejected(t, d, how)
      BY <1>0, <2>2 DEF DispatchRejected, EventRecords
    <2> QED BY <2>1, <2>2
  <1>3. modes' \in [Devices -> SUBSET Events] /\ \A x \in Devices : modes'[x] \subseteq modes[x]
    BY DEF DispatchOk, DispatchRejected, Unregister, deviceVars, RegInv
  <1>4. \A x \in Events : x = e => d \in Group(x)
    BY <1>1 DEF RegInv, Accounted, StartedInGroup, Dispatching
  <1>5. \A x \in Events : RecordLeft(x)
    BY <1>1, <1>2, <1>3, <1>4 DEF RecordLeft
  <1>6. r.pc = "dispatch" /\ r.ev = task[t].ev /\ r.devs \subseteq task[t].devs
    BY <1>0, <1>1 DEF TaskRecords
  <1> HIDE DEF r
  <1>7. Alone(t, NoEvent) /\ task'[t] = r
    BY <1>1, GoingAloneNow
  <1>8. SteadyTask(t)'
    BY <1>0, <1>1, <1>6, <1>7 DEF SteadyTask, SteadyAs, Prepares, InSupersession
  <1>9. ASSUME NEW x \in Events PROVE Accounted(x)'
    <2>1. Leaves(t, x) /\ StillReleased(t, x)
      BY <1>1, <1>6, <1>7 DEF Leaves, TakesUpNone, GoesOn, StillReleased, Preparing, Prepares,
                              InSupersession, Dispatching, Scheduling, Releases
    <2>2. x # NoEvent
      BY ConstantsAssumption
    <2> QED BY <1>5, <1>7, <2>1, <2>2, EventLeft
  <1> QED BY <1>3, <1>7, <1>8, <1>9, TasksSteady DEF RegInv

(* prune_expired forgets no live event. *)
LEMMA PruneKeeps ==
    ASSUME IInv, RegInv, NEW t \in PassTasks, \A u \in Tasks \ {t} : ~task[u].run, PruneAndDefault(t)
    PROVE  RegInv'
  <1>0. Shape /\ t \in Tasks /\ t # Outage /\ task[t].at \in Nat /\ now \in Nat /\ task[t].at <= now
    BY TaskSets DEF IInv, Shape, PassClock, TaskRecords
  <1>1. /\ task[t].pc = "prune" /\ stored' = Kept(task[t].at)
        /\ rec' = rec /\ pend' = pend /\ now' = now /\ modes' = modes
    BY DEF PruneAndDefault, envVars
  <1>2. PICK D, P : Goto(t, Suspended([Idle EXCEPT !.pc = "reverting", !.devs = D, !.defs = P], D))
    BY DEF PruneAndDefault
  <1> DEFINE r == Suspended([Idle EXCEPT !.pc = "reverting", !.devs = D, !.defs = P], D)
  <1>3. r.pc = "reverting" /\ r.back = "idle"
    BY DEF Idle, Suspended
  <1> HIDE DEF r
  <1>4. Aside(task[t]) /\ Aside(r) /\ SteadyAs(t, r)
    BY <1>0, <1>1, <1>3 DEF Aside, SteadyAs, Prepares, InSupersession
  <1>5. ASSUME NEW e \in Events PROVE RecordLeft(e)
    <2>1. e \in stored' => e \in stored
      BY <1>1 DEF Kept
    <2>2. e \in stored /\ rec[e].st \in Live => e \in stored'
      <3>1. e \in stored /\ rec[e].st \in Live => now <= End(e) + StoreGrace
        BY DEF RegInv, Accounted, InTime
      <3>2. End(e) \in Nat /\ StoreGrace \in Nat
        BY EndType, ConstantsAssumption
      <3> QED BY <1>0, <1>1, <3>1, <3>2 DEF Kept
    <2> QED BY <1>1, <2>1, <2>2 DEF RecordLeft
  <1>6. modes' \in [Devices -> SUBSET Events] /\ Goto(t, r)
    BY <1>1, <1>2 DEF RegInv, r
  <1> QED BY <1>0, <1>4, <1>5, <1>6, StillStep

(* A timer that finds its event elsewhere in its life. *)
LEMMA TimerSkipsKeeps ==
    ASSUME Shape, RegInv, TimerEvent, NEW t \in Tasks, \A u \in Tasks \ {t} : ~task[u].run, TimerSkips(t)
    PROVE  RegInv'
  <1>0. /\ Goto(t, Idle) /\ task[t].pc = "timer"
        /\ rec' = rec /\ stored' = stored /\ pend' = pend /\ now' = now /\ modes' = modes
    BY DEF TimerSkips, Fires, envVars, deviceVars
  <1>1. Alone(t, NoEvent) /\ task'[t] = Idle /\ Idle.pc = "idle"
    BY <1>0, GoingAloneNow, IdleRecord
  <1>2. modes' \in [Devices -> SUBSET Events] /\ \A e \in Events : RecordLeft(e)
    BY <1>0, RecordStill DEF RegInv
  <1>3. SteadyTask(t)'
    BY <1>1 DEF SteadyTask, SteadyAs, Prepares, InSupersession
  <1>4. ASSUME NEW e \in Events PROVE Accounted(e)'
    <2>0. e # NoEvent /\ Accounted(e) /\ Act(e) \in Tasks /\ Comp(e) \in Tasks /\ Act(e) # Comp(e)
      BY TaskSets, TimersDiffer, ConstantsAssumption DEF RegInv
    <2>1. CASE t # Act(e) /\ t # Comp(e)
      <3>1. Leaves(t, e) /\ StillReleased(t, e)
        BY <1>0, <1>1, <2>1 DEF Leaves, TakesUpNone, GoesOn, StillReleased, Preparing, Prepares,
                                InSupersession, Dispatching, Scheduling, Releases
      <3> QED BY <1>1, <1>2, <2>0, <3>1, EventLeft
    <2>2. CASE t = Act(e) \/ t = Comp(e)
      <3>1. task[t].ev = e
        BY <1>0, <2>0, <2>2 DEF TimerEvent, Accounted, Completing
      <3>2. \/ rec[e].st \in Terminal
            \/ e \notin stored
            \/ t = Act(e) /\ rec[e].st = "ACTIVE"
        BY <3>1 DEF TimerSkips
      <3>3. \A u \in Tasks : u # t => task'[u] = task[u]
        BY <1>0 DEF Goto, Shape
      <3>4. \A u \in Tasks : TakesUpNone(u, e) /\ StillReleased(u, e)
        <4>1. TakesUpNone(t, e) /\ StillReleased(t, e)
          BY <1>0, <1>1 DEF TakesUpNone, StillReleased, Preparing, Prepares,
                            InSupersession, Dispatching, Scheduling, Releases
        <4> QED BY <3>3, <4>1, SameLeaves DEF Leaves
      <3>5. Driven(e)'
        <4>1. ~(e \in stored' /\ rec'[e].st = "SCHEDULED")
          BY <1>0, <3>2 DEF Terminal
        <4>2. ASSUME Running(e)' PROVE Timed(e)' \/ \E u \in Tasks : Preparing(u, e)' \/ Dispatching(u, e)'
          <5>1. Running(e) /\ t = Act(e)
            BY <1>0, <3>2, <4>2 DEF Running, Terminal
          <5>2. Timed(e) \/ \E u \in Tasks : Preparing(u, e) \/ Dispatching(u, e)
            BY <2>0, <5>1 DEF Accounted, Driven
          <5>3. ~Preparing(t, e) /\ ~Dispatching(t, e)
            BY <1>0 DEF Preparing, Prepares, InSupersession, Dispatching
          <5>4. Timed(e) => Timed(e)'
            BY <2>0, <3>3, <5>1 DEF Timed
          <5>5. \A u \in Tasks : u # t => (Preparing(u, e) => Preparing(u, e)') /\ (Dispatching(u, e) => Dispatching(u, e)')
            BY <3>3 DEF Preparing, Dispatching
          <5> QED BY <5>2, <5>3, <5>4, <5>5
        <4> QED BY <4>1, <4>2 DEF Driven
      <3> QED BY <1>2, <2>0, <3>4, <3>5, AccountShrinks
    <2> QED BY <2>1, <2>2
  <1> QED BY <1>1, <1>2, <1>3, <1>4, TasksSteady DEF RegInv

-----------------------------------------------------------------------------
(* What happens between the steps of the tasks. *)
LEMMA NothingMoves ==
    ASSUME RegInv, task' = task, rec' = rec, stored' = stored, pend' = pend, modes' = modes, now' = now
    PROVE  RegInv'
  <1>1. ASSUME NEW e \in Events PROVE Accounted(e)'
    <2>1. \A u \in Tasks : Leaves(u, e) /\ StillReleased(u, e)
      BY SameLeaves
    <2>2. RecordLeft(e) /\ Accounted(e)
      BY RecordStill DEF RegInv
    <2> QED BY <2>1, <2>2, AccountKept
  <1>2. \A t \in Tasks : SteadyTask(t)'
    BY DEF RegInv, SteadyTask
  <1> QED BY <1>1, <1>2 DEF RegInv

(* Time does not reach the point where a live event may be forgotten. *)
LEMMA TickKeeps ==
    ASSUME Shape, RegInv, TimerEvent, Tick PROVE RegInv'
  <1>0. /\ task' = task /\ rec' = rec /\ stored' = stored /\ pend' = pend /\ modes' = modes
        /\ now' = now + 1 /\ now \in Nat
    BY DEF Tick, deviceVars, Shape
  <1>1. \A t \in Tasks, e \in stored : task[t].pc # "idle" /\ e = task[t].ev => now < End(e) + StoreGrace
    BY DEF Tick
  <1>2. ASSUME NEW e \in Events PROVE InTime(e)'
    <2> SUFFICES ASSUME e \in stored, rec[e].st \in Live PROVE now + 1 <= End(e) + StoreGrace
      BY <1>0 DEF InTime, End
    <2>0. /\ Driven(e) /\ Completing(e) /\ Act(e) \in Tasks /\ Comp(e) \in Tasks /\ PassTasks \subseteq Tasks
          /\ End(e) \in Nat /\ StoreGrace \in Nat
      BY TaskSets, TimersDiffer, EndType, ConstantsAssumption DEF RegInv, Accounted
    <2>1. PICK u \in Tasks : task[u].pc # "idle" /\ e = task[u].ev
      <3>1. CASE rec[e].st = "SCHEDULED"
        <4>1. PICK u \in Tasks : Scheduling(u, e)
          BY <2>0, <3>1 DEF Driven
        <4> QED BY <4>1 DEF Scheduling, TimerEvent
      <3>2. CASE rec[e].st = "ACTIVE"
        <4>1. Timed(e) \/ \E u \in Tasks : Preparing(u, e) \/ Dispatching(u, e)
          BY <2>0, <3>2 DEF Driven, Running
        <4>2. CASE Timed(e)
          BY <2>0, <4>2 DEF Timed, Completing
        <4>3. ASSUME NEW u \in Tasks, Preparing(u, e) \/ Dispatching(u, e)
              PROVE  task[u].pc # "idle" /\ e = task[u].ev
          BY <4>3 DEF Preparing, Prepares, InSupersession, Dispatching
        <4> QED BY <4>1, <4>2, <4>3
      <3> QED BY <3>1, <3>2 DEF Live
    <2>2. now < End(e) + StoreGrace
      BY <1>1, <2>1
    <2> QED BY <1>0, <2>0, <2>2
  <1>3. ASSUME NEW e \in Events PROVE Accounted(e)'
    <2>1. /\ RegistrationOwned(e) /\ PreparedRuns(e) /\ TurnTracked(e) /\ TurnOwner(e)
          /\ Driven(e) /\ Completing(e) /\ ReleasedAtEnd(e) /\ StartedInGroup(e)
      BY DEF RegInv, Accounted
    <2>2. /\ \A t \in Tasks : /\ Preparing(t, e)' <=> Preparing(t, e)
                              /\ Dispatching(t, e)' <=> Dispatching(t, e)
                              /\ Scheduling(t, e)' <=> Scheduling(t, e)
                              /\ Releases(t, e)' <=> Releases(t, e)
                              /\ HasTurn(t, e)' <=> HasTurn(t, e)
          /\ HasTurn(Act(e), e)' <=> HasTurn(Act(e), e)
          /\ Running(e)' <=> Running(e)
          /\ Timed(e)' <=> Timed(e)
          /\ TakenOver(e)' <=> TakenOver(e)
          /\ Group(e)' = Group(e)
      BY <1>0 DEF HasTurn, Preparing, Dispatching, Scheduling, Releases, Running, Timed, TakenOver, Group
    <2>3. RegistrationOwned(e)' /\ PreparedRuns(e)'
      BY <1>0, <2>1, <2>2 DEF RegistrationOwned, PreparedRuns
    <2>4. TurnTracked(e)' /\ TurnOwner(e)' /\ Driven(e)'
      BY <1>0, <2>1, <2>2 DEF TurnTracked, TurnOwner, Driven
    <2>5. Completing(e)' /\ ReleasedAtEnd(e)' /\ StartedInGroup(e)'
      BY <1>0, <2>1, <2>2 DEF Completing, ReleasedAtEnd, StartedInGroup
    <2> QED BY <1>2, <2>3, <2>4, <2>5 DEF Accounted
  <1>4. \A t \in Tasks : SteadyTask(t)'
    BY <1>0 DEF RegInv, SteadyTask
  <1> QED BY <1>0, <1>3, <1>4 DEF RegInv

LEMMA EnvironmentKept ==
    ASSUME Shape, RegInv, TimerEvent, Steady, Steady', Environment
    PROVE  RegInv'
  <1>0. \A u \in Tasks : ~task[u].run
    BY DEF Environment
  <1>1. CASE Tick
    BY <1>1, TickKeeps
  <1>2. CASE (\E d \in Devices : WriteLands(d)) \/ DropBoundary
    <2>1. task' = task /\ rec' = rec /\ stored' = stored /\ pend' = pend /\ modes' = modes /\ now' = now
      BY <1>2 DEF WriteLands, DropBoundary, deviceVars
    <2> QED BY <2>1, NothingMoves
  <1>3. ASSUME NEW t \in PassTasks, NEW g \in Programs, NEW ok \in BOOLEAN, StartPass(t, g, ok)
        PROVE  RegInv'
    <2>1. PICK S, X : Goto(t, [Idle EXCEPT !.pc = "loop", !.run = TRUE, !.prog = g, !.at = now,
                                           !.todo = S, !.cx = X])
      BY <1>3 DEF StartPass
    <2> DEFINE r == [Idle EXCEPT !.pc = "loop", !.run = TRUE, !.prog = g, !.at = now, !.todo = S, !.cx = X]
    <2>2. r.pc = "loop"
      BY DEF Idle
    <2>3. task[t].pc = "idle" /\ rec' = rec /\ stored' = stored /\ pend' = pend /\ now' = now /\ modes' = modes
      BY <1>3 DEF StartPass, deviceVars
    <2>4. Goto(t, r)
      BY <2>1
    <2> HIDE DEF r
    <2> QED BY <1>0, <2>2, <2>3, <2>4, PlainMove
  <1>4. ~BeginRediscovery /\ ~BeginRecovery /\ ~EnterCommsLoss
    BY DEF Steady, BeginRediscovery, BeginRecovery, ClearState, EnterCommsLoss
  <1>5. ASSUME NEW g \in Programs PROVE ~CancelProgram(g)
    BY DEF Steady, CancelProgram
  <1>6. \A ok \in BOOLEAN : ~EndRediscovery(ok)
    BY DEF Steady, EndRediscovery
  <1>7. ~LeaveCommsLoss
    BY TaskSets DEF LeaveCommsLoss, RegInv, SteadyTask, SteadyAs
  <1> QED BY <1>1, <1>2, <1>3, <1>4, <1>5, <1>6, <1>7 DEF Environment

-----------------------------------------------------------------------------
(* The steps that move one event, x, on. *)
LEMMA MovesOne ==
    ASSUME RegInv, NEW t \in Tasks, NEW x, Alone(t, x), SteadyTask(t)', modes' \in [Devices -> SUBSET Events],
           \A e \in Events : e # x => RecordLeft(e) /\ Leaves(t, e) /\ StillReleased(t, e),
           x \in Events => Accounted(x)'
    PROVE  RegInv'
  <1>1. \A e \in Events : Accounted(e)'
    BY EventLeft
  <1> QED BY <1>1, TasksSteady DEF RegInv

LEMMA OthersLeft ==
    ASSUME Shape, NEW x, NEW r, rec' = [rec EXCEPT ![x] = r] \/ rec' = rec,
           NEW e \in Events, e # x, e \in stored' <=> e \in stored, e \in pend => e \in pend', now' = now,
           \A d \in Devices : e \in modes'[d] => e \in modes[d]
    PROVE  RecordLeft(e)
  <1>1. rec'[e] = rec[e]
    BY DEF Shape
  <1> QED BY <1>1 DEF RecordLeft

(* _handle_cancellation: the pass that cancels e will release it. *)
LEMMA CancelKeeps ==
    ASSUME Shape, RegInv, NEW t \in PassTasks, \A u \in Tasks \ {t} : ~task[u].run,
           \A u \in PassTasks : u = t,
           NEW e \in Events, NEW ret \in {"loop", "removed"}, task[t].pc \in {"loop", "removed"},
           e \in stored, rec[e].st \in Live, Cancel(t, e, ret)
    PROVE  RegInv'
  <1> DEFINE D == StartedAudience(e)
             pc == IF rec[e].st = "ACTIVE" THEN "unwind" ELSE ret
             q == [At(t, pc) EXCEPT !.todo = @ \ {e}, !.ev = e, !.ret = ret]
             r == Suspended(q, D)
             new == [rec[e] EXCEPT !.st = "CANCELLED"]
  <1>0. /\ t \in Tasks /\ t # Outage /\ task[t] \in TaskRecords /\ rec \in [Events -> EventRecords]
        /\ Act(e) \in Tasks /\ Comp(e) \in Tasks /\ Act(e) # t /\ Comp(e) # t
        /\ Act(e) \in TimersOf(e)
    BY TaskSets, TimersDiffer DEF Shape
  <1>1. /\ CancelTimers(t, r, e) /\ rec' = [rec EXCEPT ![e] = new]
        /\ stored' = stored /\ now' = now /\ modes' = modes
    BY DEF Cancel, envVars, deviceVars
  <1>2. r.pc = pc /\ r.ev = e
    BY <1>0 DEF TaskRecords, At, Suspended
  <1>3. new.st = "CANCELLED" /\ new.sup = rec[e].sup /\ new.app = rec[e].app /\ new.opted = rec[e].opted
        /\ rec'[e] = new
    BY <1>0, <1>1 DEF EventRecords
  <1> HIDE DEF r, new
  <1>4. /\ Alone(t, e) /\ task'[t] = r
        /\ e \in pend => task'[Act(e)].pc = "idle"
        /\ \A x : x # e /\ x \in pend => x \in pend'
        /\ \A u \in Tasks : u # t => task'[u] = task[u] \/ task'[u].pc = "idle"
    BY <1>0, <1>1, CancellingTimers, IdleRecord DEF CancelTimers
  <1>5. SteadyTask(t)'
    BY <1>0, <1>2, <1>4 DEF SteadyTask, SteadyAs, Prepares, InSupersession
  <1>6. ASSUME NEW x \in Events, x # e PROVE RecordLeft(x) /\ Leaves(t, x) /\ StillReleased(t, x)
    <2>1. RecordLeft(x)
      BY <1>1, <1>4, <1>6, OthersLeft
    <2>2. Leaves(t, x) /\ StillReleased(t, x)
      BY <1>2, <1>4, <1>6 DEF Leaves, TakesUpNone, GoesOn, StillReleased, Preparing, Prepares,
                              InSupersession, Dispatching, Scheduling, Releases
    <2> QED BY <2>1, <2>2
  <1>7. Accounted(e)'
    <2>0. /\ RegistrationOwned(e) /\ PreparedRuns(e) /\ TurnTracked(e) /\ TurnOwner(e)
          /\ Completing(e) /\ ReleasedAtEnd(e) /\ StartedInGroup(e)
      BY DEF RegInv, Accounted
    <2>1. ~HasTurn(t, e)' /\ ~Preparing(t, e)' /\ ~Dispatching(t, e)'
      BY <1>2, <1>4, TaskSets DEF HasTurn, Preparing, Prepares, InSupersession, Dispatching, Scheduling
    <2>2. \A u \in Tasks : u # t /\ HasTurn(u, e)' => HasTurn(u, e) /\ task'[u] = task[u]
      BY <1>4 DEF HasTurn, Preparing, Prepares, InSupersession, Dispatching, Scheduling
    <2>3. \A u \in Tasks : HasTurn(u, e)' => u = Act(e) /\ TakenOver(e)
      BY <1>0, <1>4, <2>0, <2>1, <2>2
         DEF TurnOwner, TurnTracked, HasTurn, Preparing, Prepares, InSupersession, Dispatching, Scheduling
    <2>4. TakenOver(e) => TakenOver(e)'
      BY <1>3 DEF TakenOver, Group
    <2>5. RegistrationOwned(e)'
      <3> SUFFICES ASSUME NEW d \in Devices, e \in modes[d]
                   PROVE  d \in Group(e) /\ Releases(t, e)'
        BY <1>0, <1>1 DEF RegistrationOwned, Group
      <3>1. d \in Group(e) /\ (Running(e) \/ \E u \in Tasks : Releases(u, e))
        BY <2>0 DEF RegistrationOwned
      <3>2. rec[e].st = "ACTIVE"
        BY <2>0, <3>1 DEF Running, ReleasedAtEnd, Terminal, Live
      <3> QED BY <1>2, <1>4, <3>1, <3>2 DEF Releases
    <2>6. PreparedRuns(e)' /\ TurnTracked(e)' /\ TurnOwner(e)'
      BY <1>0, <2>3, <2>4 DEF PreparedRuns, TurnTracked, TurnOwner, HasTurn
    <2>7. Driven(e)' /\ InTime(e)' /\ ReleasedAtEnd(e)'
      BY <1>3 DEF Driven, Running, InTime, Live, Terminal, ReleasedAtEnd
    <2>8. Completing(e)'
      <3>1. task'[Comp(e)] = task[Comp(e)] \/ task'[Comp(e)].pc = "idle"
        BY <1>0, <1>4
      <3>2. task[Comp(e)].pc # "completed"
        BY <2>0 DEF Completing, Live
      <3> QED BY <2>0, <3>1, <3>2 DEF Completing
    <2>9. StartedInGroup(e)'
      BY <1>3, <2>0, <2>1, <2>2 DEF StartedInGroup, HasTurn, Dispatching, Group
    <2> QED BY <2>5, <2>6, <2>7, <2>8, <2>9 DEF Accounted
  <1>8. modes' \in [Devices -> SUBSET Events]
    BY <1>1 DEF RegInv
  <1> QED BY <1>0, <1>4, <1>5, <1>6, <1>7, <1>8, MovesOne

(* After the SUPERSEDED POSTs: the loser that ran is released next, and    *)
(* one whose completion is being posted still has a device.                *)
LEMMA SupersedePostedKeeps ==
    ASSUME Shape, RegInv, NEW t \in Tasks, \A u \in Tasks \ {t} : ~task[u].run, SupersedePosted(t)
    PROVE  RegInv'
  <1>1. PICK e : e = task[t].loser
    OBVIOUS
  <1> DEFINE group == DevsIn(task[t].map, e)
             fully == group # {} /\ group \subseteq rec[e].sup
             pc    == IF fully /\ rec[e].st = "ACTIVE" THEN "supersedeRevert" ELSE "supersede"
             r     == [At(t, pc) EXCEPT !.devs = {}]
             st    == IF fully THEN "SUPERSEDED" ELSE rec[e].st
             new   == [rec[e] EXCEPT !.supm = @ \cup task[t].devs, !.st = st]
  <1>0. /\ task[t] \in TaskRecords /\ rec \in [Events -> EventRecords] /\ e \in stored /\ e \in Events
        /\ task[t].pc = "superseding" /\ SteadyAs(t, task[t]) /\ Prog[e] \in Programs
    BY <1>1, ConstantsAssumption DEF Shape, RegInv, SteadyTask, SupersedePosted
  <1>2. /\ IF fully THEN CancelTimers(t, r, e) ELSE Goto(t, r) /\ UNCHANGED pend
        /\ rec' = [rec EXCEPT ![e] = new]
        /\ stored' = stored /\ now' = now /\ modes' = modes
    BY <1>0, <1>1 DEF SupersedePosted, EventRecords, envVars, deviceVars
  <1>3. /\ r.pc = pc /\ r.ev = task[t].ev /\ r.ret = task[t].ret /\ r.map = task[t].map
        /\ r.loser = e /\ r.run = TRUE
    BY <1>0, <1>1 DEF TaskRecords, At
  <1>4. new.st = st /\ new.sup = rec[e].sup /\ new.app = rec[e].app /\ new.opted = rec[e].opted
        /\ rec'[e] = new
    <2> HIDE DEF st
    <2> QED BY <1>0, <1>2 DEF EventRecords
  <1>5. group = Group(e)
    BY <1>0 DEF SteadyAs, InSupersession, DevsIn, Group
  <1> HIDE DEF r, new, group
  <1>6. SteadyAs(t, r)
    BY <1>0, <1>3 DEF SteadyAs, Prepares, InSupersession
  <1>7. modes' \in [Devices -> SUBSET Events]
    BY <1>2 DEF RegInv
  <1>8. CASE ~fully
    <2>1. Goto(t, r) /\ pend' = pend
      BY <1>2, <1>8
    <2>2. PreparesSame(task[t], r)
      BY <1>0, <1>3, <1>8 DEF PreparesSame, Prepares, InSupersession
    <2>3. ASSUME NEW x \in Events PROVE RecordLeft(x)
      <3>1. CASE x = e
        BY <1>2, <1>4, <1>8, <2>1, <3>1 DEF RecordLeft
      <3>2. CASE x # e
        BY <1>2, <2>1, <3>2, OthersLeft
      <3> QED BY <3>1, <3>2
    <2>4. task[t].pc # "supersedeRevert"
      BY <1>0
    <2> QED BY <1>6, <1>7, <2>1, <2>2, <2>3, <2>4, StillStep
  <1>9. CASE fully
    <2>1. CancelTimers(t, r, e)
      BY <1>2, <1>9
    <2>2. /\ Alone(t, e) /\ task'[t] = r
          /\ \A x : x # e /\ x \in pend => x \in pend'
          /\ \A u \in Tasks : u # t => task'[u] = task[u] \/ (u \in TimersOf(e) /\ task'[u].pc = "idle")
      <3>1. Alone(t, e) /\ task'[t] = r /\ \A x : x # e /\ x \in pend => x \in pend'
        BY <2>1, CancellingTimers
      <3>2. \A u \in Tasks : u # t => task'[u] = task[u] \/ (u \in TimersOf(e) /\ task'[u].pc = "idle")
        BY <2>1, IdleRecord DEF CancelTimers
      <3> QED BY <3>1, <3>2
    <2>3. SteadyTask(t)'
      BY <1>6, <2>2 DEF SteadyTask
    <2>4. ASSUME NEW x \in Events, x # e PROVE RecordLeft(x) /\ Leaves(t, x) /\ StillReleased(t, x)
      <3>1. RecordLeft(x)
        BY <1>2, <2>2, <2>4, OthersLeft
      <3>2. Leaves(t, x) /\ StillReleased(t, x)
        BY <1>0, <1>3, <2>2, <2>4
           DEF Leaves, TakesUpNone, GoesOn, StillReleased, Preparing, Prepares, InSupersession,
               Dispatching, Scheduling, Releases
      <3> QED BY <3>1, <3>2
    <2>5. Accounted(e)'
      <3>0. /\ RegistrationOwned(e) /\ TurnOwner(e) /\ Completing(e) /\ StartedInGroup(e)
            /\ Comp(e) \in Tasks /\ Act(e) \in Tasks
        BY <1>0, TaskSets, TimersDiffer DEF RegInv, Accounted
      <3>1. TakenOver(e) /\ TakenOver(e)' /\ Group(e) # {} /\ rec'[e].st = "SUPERSEDED"
        BY <1>4, <1>5, <1>9 DEF TakenOver, Group
      <3>2. task[Comp(e)].pc # "completed"
        <4>1. task[Comp(e)].pc = "completed" => task[Comp(e)].run
          BY <3>0, <3>1 DEF Completing
        <4> QED BY <1>0, <3>0, <4>1
      <3>3. RegistrationOwned(e)'
        <4> SUFFICES ASSUME NEW d \in Devices, e \in modes[d]
                     PROVE  d \in Group(e) /\ \E u \in Tasks : Releases(u, e)'
          BY <1>0, <1>2 DEF RegistrationOwned, Group
        <4>1. d \in Group(e) /\ (Running(e) \/ \E u \in Tasks : Releases(u, e))
          BY <3>0 DEF RegistrationOwned
        <4>2. CASE Running(e)
          <5>1. r.pc = "supersedeRevert"
            BY <1>3, <1>9, <4>2 DEF Running
          <5>2. Releases(t, e)'
            BY <1>3, <2>2, <5>1 DEF Releases
          <5> QED BY <4>1, <5>2
        <4>3. ASSUME NEW u \in Tasks, Releases(u, e) PROVE Releases(u, e)'
          <5>1. u # t
            BY <1>0, <4>3 DEF Releases
          <5>2. task[u].pc = "supersedeRevert" => task[u].run
            BY DEF RegInv, SteadyTask, SteadyAs
          <5>3. u \in PassTasks /\ task[u].pc = "unwind" /\ task[u].ev = e
            BY <3>2, <4>3, <5>1, <5>2 DEF Releases
          <5>4. task'[u] = task[u]
            BY <2>2, <5>1, <5>3, TaskSets
          <5> QED BY <5>3, <5>4 DEF Releases
        <4> QED BY <4>1, <4>2, <4>3
      <3>4. PreparedRuns(e)' /\ TurnTracked(e)'
        BY <3>1 DEF PreparedRuns, TurnTracked
      <3>5. \A u \in Tasks : HasTurn(u, e)' => HasTurn(u, e)
        BY <1>0, <1>3, <2>2 DEF HasTurn, Preparing, Prepares, InSupersession, Dispatching, Scheduling
      <3>6. TurnOwner(e)'
        BY <3>0, <3>5 DEF TurnOwner
      <3>7. Driven(e)' /\ InTime(e)' /\ ReleasedAtEnd(e)'
        BY <3>1 DEF Driven, Running, InTime, Live, Terminal, ReleasedAtEnd
      <3>8. Completing(e)'
        <4>1. task'[Comp(e)].pc \in {"timer", "completed"} => task'[Comp(e)] = task[Comp(e)]
          <5>1. Comp(e) = t => task'[Comp(e)].pc \in {"supersede", "supersedeRevert"}
            BY <1>3, <2>2
          <5> QED BY <2>2, <3>0, <5>1
        <4> QED BY <3>0, <3>2, <4>1 DEF Completing
      <3>9. StartedInGroup(e)'
        <4>1. \A u \in Tasks : Dispatching(u, e)' => Dispatching(u, e) /\ task'[u] = task[u]
          BY <1>3, <2>2 DEF Dispatching
        <4> QED BY <1>4, <3>0, <4>1 DEF StartedInGroup, Group
      <3> QED BY <3>3, <3>4, <3>6, <3>7, <3>8, <3>9 DEF Accounted
    <2> QED BY <1>0, <1>7, <2>2, <2>3, <2>4, <2>5, MovesOne
  <1> QED BY <1>8, <1>9

(* schedule_activation and schedule_completion: the timer takes over from  *)
(* the task that sets it.                                                  *)
LEMMA TimerSetKeeps ==
    ASSUME Shape, RegInv, OneTurn, TurnFirst, NEW t \in Tasks, \A u \in Tasks \ {t} : ~task[u].run,
           NEW e, NEW w, NEW timer, NEW q, SetsTimer(t, e, w, timer, q),
           rec' = rec, stored' = stored, now' = now, modes' = modes, pend' = pend \cup {e}
    PROVE  RegInv'
  <1>0. /\ timer.pc = "timer" /\ timer.ev = e /\ q.pc \in {"loop", "idle"} /\ HasTurn(t, e)
        /\ \/ w = Act(e) /\ t \in PassTasks /\ task[t].pc = "ackScheduled" /\ task[t].ev = e
           \/ w = Comp(e) /\ Dispatching(t, e)
    BY DEF SetsTimer, HasTurn, Scheduling
  <1>1. /\ \A v \in Tasks : v # w /\ v # t => task'[v] = task[v]
        /\ w \in Tasks => task'[w] = timer
        /\ t # w => task'[t] = q
    BY DEF SetsTimer
  <1>2. t # w /\ w \notin PassTasks /\ w \in TimersOf(e)
    <2>1. w \in TimersOf(e) /\ w \notin PassTasks
      BY <1>0, TaskSets, TimersDiffer
    <2>2. CASE w = Act(e)
      BY <1>0, <2>1, <2>2, TimersDiffer
    <2>3. CASE w = Comp(e) /\ Dispatching(t, e)
      <3>1. ASSUME t = w PROVE FALSE
        <4>1. e \in Events
          BY <2>3, <3>1, TimerTask
        <4>2. TurnOwner(e)
          BY <4>1 DEF RegInv, Accounted
        <4> QED BY <1>0, <2>1, <2>3, <3>1, <4>2, TimersDiffer DEF TurnOwner
      <3> QED BY <2>1, <3>1
    <2> QED BY <1>0, <2>1, <2>2, <2>3
  <1>3. Alone(t, e) /\ task'[t] = q
    <2>1. \A u \in Tasks : u # t => task'[u] = task[u] \/ (u = w /\ task'[u].pc = "timer")
      BY <1>0, <1>1
    <2> QED BY <1>1, <1>2, <2>1 DEF Alone
  <1>4. t # Outage /\ task[t].pc \in {"ackScheduled", "dispatch"}
    BY <1>0 DEF Dispatching, RegInv, SteadyTask, SteadyAs
  <1>5. SteadyTask(t)'
    BY <1>0, <1>3, <1>4 DEF SteadyTask, SteadyAs, Prepares, InSupersession
  <1>6. ASSUME NEW x \in Events, x # e PROVE RecordLeft(x) /\ Leaves(t, x) /\ StillReleased(t, x)
    <2>1. RecordLeft(x)
      BY RecordStill
    <2>3. task[t].ev = e
      BY <1>0 DEF Dispatching
    <2>4. Leaves(t, x) /\ StillReleased(t, x)
      BY <1>0, <1>3, <1>4, <1>6, <2>3
         DEF Leaves, TakesUpNone, GoesOn, StillReleased, Preparing, Prepares, InSupersession,
             Dispatching, Scheduling, Releases
    <2> QED BY <2>1, <2>4
  <1>7. ASSUME e \in Events PROVE Accounted(e)'
    <2>0. /\ RegistrationOwned(e) /\ TurnOwner(e) /\ Driven(e) /\ InTime(e) /\ Completing(e)
          /\ ReleasedAtEnd(e) /\ StartedInGroup(e)
          /\ Comp(e) \in Tasks /\ Act(e) \in Tasks /\ w \in Tasks
      BY <1>0, <1>7, TaskSets, TimersDiffer DEF RegInv, Accounted
    <2>1. \A u \in Tasks : HasTurn(u, e) => u = t
      BY <1>0, <1>7 DEF OneTurn
    <2>2. ~Timed(e) /\ task[Comp(e)].pc # "completed"
      BY <1>0, <1>7, <2>0 DEF TurnFirst, Completing
    <2>3. task'[w] = timer
      BY <1>1, <2>0
    <2>4. \A u \in Tasks : u # w => ~HasTurn(u, e)'
      <3> SUFFICES ASSUME NEW u \in Tasks, u # w PROVE ~HasTurn(u, e)'
        OBVIOUS
      <3>1. CASE u = t
        BY <1>0, <1>3, <3>1 DEF HasTurn, Preparing, Prepares, InSupersession, Dispatching, Scheduling
      <3>2. CASE u # t
        <4>1. task'[u] = task[u] /\ ~HasTurn(u, e)
          BY <1>1, <2>1, <3>2
        <4> QED BY <4>1 DEF HasTurn, Preparing, Prepares, InSupersession, Dispatching, Scheduling
      <3> QED BY <3>1, <3>2
    <2>5. ~Preparing(w, e)' /\ ~Dispatching(w, e)' /\ (Scheduling(w, e)' => w = Act(e)) /\ ~Releases(w, e)'
      BY <1>0, <1>2, <2>3 DEF Preparing, Prepares, InSupersession, Dispatching, Scheduling, Releases
    <2>6. ~Releases(w, e)
      <3>1. task[w].pc # "supersedeRevert"
        BY <1>2, <2>0 DEF RegInv, SteadyTask, SteadyAs
      <3> QED BY <1>2, <2>2, <3>1 DEF Releases
    <2>7. ~Releases(t, e) /\ ~Releases(t, e)'
      BY <1>0, <1>3, <1>4 DEF Releases
    <2>8. \A u \in Tasks : Releases(u, e)' <=> Releases(u, e)
      <3> SUFFICES ASSUME NEW u \in Tasks, u # w, u # t PROVE Releases(u, e)' <=> Releases(u, e)
        BY <2>5, <2>6, <2>7
      <3>1. task'[u] = task[u]
        BY <1>1
      <3> QED BY <3>1 DEF Releases
    <2>9. RegistrationOwned(e)' /\ ReleasedAtEnd(e)'
      BY <2>0, <2>8 DEF RegistrationOwned, ReleasedAtEnd, Running, Group
    <2>10. PreparedRuns(e)' /\ TurnTracked(e)' /\ TurnOwner(e)'
      BY <2>4, <2>5 DEF PreparedRuns, TurnTracked, TurnOwner, HasTurn
    <2>11. InTime(e)'
      BY <2>0 DEF InTime, End
    <2>12. StartedInGroup(e)'
      BY <2>0, <2>4, <2>5 DEF StartedInGroup, HasTurn, Group
    <2>13. Driven(e)'
      <3>1. CASE w = Act(e) /\ task[t].pc = "ackScheduled"
        <4>1. ~Running(e)
          BY <2>0, <2>1, <2>2, <3>1 DEF Driven, HasTurn, Preparing, Prepares, InSupersession, Dispatching
        <4>2. Scheduling(w, e)'
          BY <1>0, <2>3, <3>1 DEF Scheduling
        <4> QED BY <2>0, <4>1, <4>2 DEF Driven, Running
      <3>2. CASE w = Comp(e) /\ Dispatching(t, e)
        <4>1. ~(e \in stored /\ rec[e].st = "SCHEDULED")
          <5>1. ASSUME NEW u \in Tasks, Scheduling(u, e) PROVE FALSE
            <6>1. u = t
              BY <2>1, <5>1 DEF HasTurn
            <6> QED BY <3>2, <5>1, <6>1 DEF Scheduling, Dispatching
          <5> QED BY <2>0, <5>1 DEF Driven
        <4>2. Timed(e)'
          BY <1>0, <2>3, <3>2 DEF Timed
        <4> QED BY <4>1, <4>2 DEF Driven
      <3> QED BY <1>0, <3>1, <3>2
    <2>14. Completing(e)'
      <3>1. CASE w = Comp(e)
        BY <1>0, <2>3, <3>1 DEF Completing
      <3>2. CASE w = Act(e)
        <4>1. task'[Comp(e)] = task[Comp(e)]
          BY <1>0, <1>1, <2>0, <3>2, TimersDiffer, TaskSets
        <4> QED BY <2>0, <2>2, <4>1 DEF Completing
      <3> QED BY <1>0, <3>1, <3>2
    <2> QED BY <2>9, <2>10, <2>11, <2>12, <2>13, <2>14 DEF Accounted
  <1>8. modes' \in [Devices -> SUBSET Events]
    BY DEF RegInv
  <1> QED BY <1>3, <1>5, <1>6, <1>7, <1>8, MovesOne

LEMMA TimerSetStepsKeep ==
    ASSUME Shape, RegInv, OneTurn, TurnFirst, NEW t \in Tasks, \A u \in Tasks \ {t} : ~task[u].run,
           DispatchDone(t) \/ (t \in PassTasks /\ ScheduleActivation(t))
    PROVE  RegInv'
  <1>e. PICK e : e = task[t].ev
    OBVIOUS
  <1>0. task[t] \in TaskRecords
    BY DEF Shape
  <1>1. CASE DispatchDone(t)
    <2> DEFINE q == AfterDispatch(t)
               timer == [Idle EXCEPT !.pc = "timer", !.ev = e, !.at = End(e)]
    <2>1. /\ task[t].pc = "dispatch" /\ task[t].devs = {}
          /\ task' = [task EXCEPT ![t] = q, ![Comp(e)] = timer]
          /\ rec' = rec /\ stored' = stored /\ now' = now /\ modes' = modes /\ pend' = pend \cup {e}
      BY <1>e, <1>1 DEF DispatchDone, envVars, deviceVars
    <2>2. q.pc \in {"loop", "idle"}
      BY <1>0, IdleRecord DEF AfterDispatch, At, TaskRecords
    <2>3. timer.pc = "timer" /\ timer.ev = e
      BY DEF Idle
    <2>4. Dispatching(t, e)
      BY <1>e, <2>1 DEF Dispatching
    <2>5. PICK w : w = Comp(e)
      OBVIOUS
    <2> HIDE DEF q, timer
    <2>6. \A v \in Tasks : task'[v] = IF v = w THEN timer ELSE IF v = t THEN q ELSE task[v]
      BY <2>1, <2>5 DEF Shape
    <2>7. SetsTimer(t, e, w, timer, q)
      BY <2>1, <2>2, <2>3, <2>4, <2>5, <2>6 DEF SetsTimer
    <2> QED BY <2>1, <2>7, TimerSetKeeps
  <1>2. CASE t \in PassTasks /\ ScheduleActivation(t)
    <2> DEFINE q == At(t, "loop")
               timer == [Idle EXCEPT !.pc = "timer", !.ev = e, !.at = Start[e]]
    <2>1. /\ task[t].pc = "ackScheduled"
          /\ task' = [task EXCEPT ![t] = q, ![Act(e)] = timer]
          /\ rec' = rec /\ stored' = stored /\ now' = now /\ modes' = modes /\ pend' = pend \cup {e}
      BY <1>e, <1>2 DEF ScheduleActivation, envVars, deviceVars
    <2>2. q.pc = "loop"
      BY <1>0 DEF At, TaskRecords
    <2>3. timer.pc = "timer" /\ timer.ev = e
      BY DEF Idle
    <2>4. Scheduling(t, e)
      BY <1>e, <1>2, <2>1 DEF Scheduling
    <2>5. PICK w : w = Act(e) /\ t # w
      BY <1>2, TaskSets, TimersDiffer
    <2> HIDE DEF q, timer
    <2>6. \A v \in Tasks : task'[v] = IF v = w THEN timer ELSE IF v = t THEN q ELSE task[v]
      BY <2>1, <2>5 DEF Shape
    <2>7. SetsTimer(t, e, w, timer, q)
      BY <2>2, <2>3, <2>4, <2>5, <2>6 DEF SetsTimer
    <2> QED BY <2>1, <2>7, TimerSetKeeps
  <1> QED BY <1>1, <1>2

(* A new event is taken on: nothing of it is registered yet. *)
Takes(t, e, r, s) ==
    /\ Goto(t, r) /\ task[t].pc = "loop" /\ r.ev = e
    /\ rec' = [rec EXCEPT ![e] = s] /\ stored' = stored \cup {e}
    /\ pend' = pend /\ modes' = modes /\ now' = now
    /\ s.sup = {} /\ s.app = {} /\ s.opted = FALSE
    /\ \/ r.pc = "loop" /\ s.st = "CANCELLED"
       \/ r.pc = "ackLate" /\ s.st = "ACTIVE"
       \/ r.pc = "ackScheduled" /\ s.st = "SCHEDULED"

LEMMA TakingKeeps ==
    ASSUME Shape, RegInv, TurnFirst, NEW t \in PassTasks, \A u \in Tasks \ {t} : ~task[u].run,
           NEW e \in Events, rec[e].st = "none", e \notin stored,
           NEW r, NEW s, Takes(t, e, r, s), s.st \in Live => now <= End(e) + StoreGrace
    PROVE  RegInv'
  <1>0. /\ t \in Tasks /\ t # Outage /\ Act(e) \in Tasks /\ Comp(e) \in Tasks
        /\ t # Act(e) /\ t # Comp(e) /\ rec \in [Events -> EventRecords]
    BY TaskSets, TimersDiffer DEF Shape
  <1>1. /\ Goto(t, r) /\ task[t].pc = "loop" /\ r.ev = e
        /\ rec' = [rec EXCEPT ![e] = s] /\ stored' = stored \cup {e}
        /\ pend' = pend /\ modes' = modes /\ now' = now
    BY DEF Takes
  <1>2. /\ s.sup = {} /\ s.app = {} /\ s.opted = FALSE
        /\ \/ r.pc = "loop" /\ s.st = "CANCELLED"
           \/ r.pc = "ackLate" /\ s.st = "ACTIVE"
           \/ r.pc = "ackScheduled" /\ s.st = "SCHEDULED"
    BY DEF Takes
  <1>3. rec'[e] = s
    BY <1>0, <1>1
  <1>4. task'[t] = r /\ Alone(t, e) /\ \A u \in Tasks : u # t => task'[u] = task[u]
    BY <1>0, <1>1 DEF Goto, Alone, Shape
  <1>5. SteadyTask(t)'
    BY <1>0, <1>1, <1>2, <1>4 DEF SteadyTask, SteadyAs, Prepares, InSupersession
  <1>6. ASSUME NEW x \in Events, x # e PROVE RecordLeft(x) /\ Leaves(t, x) /\ StillReleased(t, x)
    <2>1. RecordLeft(x)
      BY <1>1, <1>6, OthersLeft
    <2>2. Leaves(t, x) /\ StillReleased(t, x)
      BY <1>0, <1>1, <1>2, <1>4, <1>6
         DEF Leaves, TakesUpNone, GoesOn, StillReleased, Preparing, Prepares, InSupersession,
             Dispatching, Scheduling, Releases
    <2> QED BY <2>1, <2>2
  <1>7. Accounted(e)'
    <2>0. RegistrationOwned(e) /\ Completing(e) /\ ReleasedAtEnd(e)
      BY DEF RegInv, Accounted
    <2>1. \A u \in Tasks : ~HasTurn(u, e) /\ ~Releases(u, e)
      BY <2>0 DEF TurnFirst, ReleasedAtEnd, Terminal
    <2>2. \A u \in Tasks : u # t => ~HasTurn(u, e)' /\ ~Releases(u, e)'
      BY <1>4, <2>1 DEF HasTurn, Preparing, Prepares, InSupersession, Dispatching, Scheduling, Releases
    <2>3. ~Releases(t, e)' /\ ~Dispatching(t, e)'
      BY <1>0, <1>2, <1>4 DEF Releases, Dispatching
    <2>4. \A d \in Devices : e \notin modes'[d]
      BY <1>1, <2>0, <2>1 DEF RegistrationOwned, Running
    <2>5. RegistrationOwned(e)' /\ ReleasedAtEnd(e)'
      BY <2>2, <2>3, <2>4 DEF RegistrationOwned, ReleasedAtEnd
    <2>6. Preparing(t, e)' => Running(e)'
      BY <1>1, <1>2, <1>3, <1>4 DEF Preparing, Prepares, InSupersession, Running
    <2>7. PreparedRuns(e)' /\ TurnTracked(e)' /\ TurnOwner(e)'
      BY <1>0, <2>2, <2>6 DEF PreparedRuns, TurnTracked, TurnOwner, HasTurn
    <2>8. /\ s.st = "SCHEDULED" => Scheduling(t, e)'
          /\ s.st = "ACTIVE" => Preparing(t, e)'
      BY <1>1, <1>2, <1>4 DEF Scheduling, Preparing, Prepares
    <2>9. Driven(e)'
      BY <1>0, <1>3, <2>8 DEF Driven, Running
    <2>10. InTime(e)'
      BY <1>1, <1>3 DEF InTime, End
    <2>11. Completing(e)'
      <3>1. task'[Comp(e)] = task[Comp(e)] /\ task[Comp(e)].pc # "completed"
        BY <1>0, <1>4, <2>0 DEF Completing
      <3> QED BY <2>0, <3>1 DEF Completing
    <2>12. StartedInGroup(e)'
      BY <1>2, <1>3, <2>2, <2>3 DEF StartedInGroup, HasTurn
    <2> QED BY <2>5, <2>7, <2>9, <2>10, <2>11, <2>12 DEF Accounted
  <1>8. modes' \in [Devices -> SUBSET Events]
    BY <1>1 DEF RegInv
  <1> QED BY <1>0, <1>4, <1>5, <1>6, <1>7, <1>8, MovesOne

(* A pass takes an event on while its store would keep it. *)
TakenInTime ==
    \A t \in PassTasks : task[t].pc = "loop" /\ task[t].todo # {} => now <= task[t].at + StoreGrace

LEMMA TakingStepsKeep ==
    ASSUME IInv, RegInv, TurnFirst, TakenInTime, ~lost, NEW t \in PassTasks, \A u \in Tasks \ {t} : ~task[u].run,
           NEW e \in Events, SeePreCancelled(t, e) \/ SeeNew(t, e)
    PROVE  RegInv'
  <1>0. /\ Shape /\ t \in Tasks /\ task[t].at \in Nat /\ now \in Nat /\ StoreGrace \in Nat /\ End(e) \in Nat
    BY TaskSets, EndType, ConstantsAssumption DEF IInv, Shape, TaskRecords
  <1>1. IsTaken(t, e)
    BY DEF SeePreCancelled, SeeNew
  <1>2. /\ rec[e].st = "none" /\ e \notin stored /\ task[t].pc = "loop" /\ task[t].todo # {}
        /\ task[t].at <= End(e)
    BY <1>1, TakenOnce DEF IsTaken, IsNew, InLoop
  <1>3. now <= End(e) + StoreGrace
    <2>1. now <= task[t].at + StoreGrace
      BY <1>2 DEF TakenInTime
    <2> QED BY <1>0, <1>2, <2>1
  <1>4. CASE SeePreCancelled(t, e)
    <2> DEFINE r == Suspended(Looked(t, e, "loop"), Audience(e, {}))
               s == Fresh("CANCELLED")
    <2>1. /\ Goto(t, r) /\ rec' = [rec EXCEPT ![e] = s] /\ stored' = stored \cup {e}
          /\ pend' = pend /\ modes' = modes /\ now' = now
      BY <1>4 DEF SeePreCancelled, envVars, deviceVars
    <2>2. r.pc = "loop" /\ r.ev = e
      BY <1>0, LookedFields
    <2>3. s.st = "CANCELLED" /\ s.sup = {} /\ s.app = {} /\ s.opted = FALSE
      BY DEF Fresh
    <2> HIDE DEF r, s
    <2>4. Takes(t, e, r, s)
      BY <1>2, <2>1, <2>2, <2>3 DEF Takes
    <2> QED BY <1>0, <1>2, <1>3, <2>4, TakingKeeps
  <1>5. CASE SeeNew(t, e)
    <2> DEFINE running == task[t].at >= Start[e]
               st == IF running THEN "ACTIVE" ELSE "SCHEDULED"
               pc == IF running THEN "ackLate" ELSE "ackScheduled"
               r == Suspended(Looked(t, e, pc), Audience(e, {}))
               s == [Fresh(st) EXCEPT !.opted = running /\ lost]
    <2>1. /\ Goto(t, r) /\ rec' = [rec EXCEPT ![e] = s] /\ stored' = stored \cup {e}
          /\ pend' = pend /\ modes' = modes /\ now' = now
      BY <1>5 DEF SeeNew
    <2>2. r.pc = pc /\ r.ev = e
      BY <1>0, LookedFields
    <2>3. s.st = st /\ s.sup = {} /\ s.app = {} /\ s.opted = (running /\ lost)
      <3> HIDE DEF st, running
      <3> QED BY DEF Fresh
    <2>5. s.opted = FALSE
      <3> HIDE DEF s, running
      <3> QED BY <2>3
    <2> HIDE DEF r, s
    <2>4. Takes(t, e, r, s)
      BY <1>2, <2>1, <2>2, <2>3, <2>5 DEF Takes
    <2> QED BY <1>0, <1>2, <1>3, <2>4, TakingKeeps
  <1> QED BY <1>4, <1>5

(* _on_activation: the event runs, and its timer prepares it. *)
LEMMA ActivateKeeps ==
    ASSUME Shape, RegInv, OneTurn, TimerEvent, mapped = Programs, ~lost, NEW e \in Events,
           \A u \in Tasks \ {Act(e)} : ~task[u].run, Activate(e)
    PROVE  RegInv'
  <1>1. PICK t \in Tasks : t = Act(e)
    BY TaskSets, TimersDiffer
  <1> DEFINE r == Superseding(t, "apply")
             s == [rec[e] EXCEPT !.st = "ACTIVE", !.opted = lost]
  <1>0. /\ rec \in [Events -> EventRecords] /\ Comp(e) \in Tasks /\ t # Comp(e) /\ t # Outage /\ t \notin PassTasks
        /\ \A x : x # e => t # Act(x)
        /\ \A x : t # Comp(x)
    BY <1>1, TaskSets, TimersDiffer DEF Shape
  <1>2. /\ task[t].pc = "timer" /\ rec[e].st = "SCHEDULED" /\ e \in stored
        /\ Goto(t, r) /\ rec' = [rec EXCEPT ![e] = s]
        /\ stored' = stored /\ pend' = pend /\ now' = now /\ modes' = modes
    BY <1>0, <1>1 DEF Activate, Fires, deviceVars
  <1>3. r.pc = "supersede" /\ r.ret = "apply" /\ r.map = Programs /\ r.ev = e
    BY <1>1, <1>2, SupersedingFields DEF TimerEvent
  <1>4. s.st = "ACTIVE" /\ s.sup = rec[e].sup /\ s.app = rec[e].app /\ s.opted = lost /\ rec'[e] = s
    BY <1>0, <1>2 DEF EventRecords
  <1> HIDE DEF r, s
  <1>5. task'[t] = r /\ Alone(t, e) /\ \A u \in Tasks : u # t => task'[u] = task[u]
    BY <1>1, <1>2 DEF Goto, Alone, Shape
  <1>6. SteadyTask(t)'
    BY <1>0, <1>3, <1>5 DEF SteadyTask, SteadyAs, Prepares, InSupersession
  <1>7. ASSUME NEW x \in Events, x # e PROVE RecordLeft(x) /\ Leaves(t, x) /\ StillReleased(t, x)
    <2>1. RecordLeft(x)
      BY <1>2, <1>7, OthersLeft
    <2>2. Leaves(t, x) /\ StillReleased(t, x)
      BY <1>0, <1>2, <1>3, <1>5, <1>7
         DEF Leaves, TakesUpNone, GoesOn, StillReleased, Preparing, Prepares, InSupersession,
             Dispatching, Scheduling, Releases
    <2> QED BY <2>1, <2>2
  <1>8. Accounted(e)'
    <2>0. /\ RegistrationOwned(e) /\ TurnTracked(e) /\ InTime(e) /\ Completing(e) /\ ReleasedAtEnd(e)
          /\ StartedInGroup(e)
      BY DEF RegInv, Accounted
    <2>1. HasTurn(t, e) /\ \A u \in Tasks : HasTurn(u, e) => u = t
      BY <1>1, <1>2 DEF HasTurn, Scheduling, OneTurn
    <2>2. \A u \in Tasks : ~Releases(u, e)
      BY <1>2, <2>0 DEF ReleasedAtEnd, Terminal
    <2>3. \A u \in Tasks : u # t => ~HasTurn(u, e)' /\ ~Releases(u, e)'
      BY <1>5, <2>1, <2>2 DEF HasTurn, Preparing, Prepares, InSupersession, Dispatching, Scheduling, Releases
    <2>4. Preparing(t, e)' /\ ~Dispatching(t, e)' /\ ~Releases(t, e)'
      BY <1>0, <1>3, <1>5 DEF Preparing, Prepares, InSupersession, Dispatching, Releases
    <2>5. \A d \in Devices : e \notin modes'[d]
      BY <1>2, <2>0, <2>2 DEF RegistrationOwned, Running
    <2>6. Running(e)'
      BY <1>2, <1>4 DEF Running
    <2>7. RegistrationOwned(e)' /\ ReleasedAtEnd(e)' /\ PreparedRuns(e)' /\ Driven(e)'
      BY <1>4, <2>3, <2>4, <2>5, <2>6 DEF RegistrationOwned, ReleasedAtEnd, PreparedRuns, Driven
    <2>8. TurnTracked(e)' /\ TurnOwner(e)'
      BY <1>1, <1>2, <1>4, <2>0, <2>1, <2>3 DEF TurnTracked, TurnOwner, TakenOver, Group
    <2>9. InTime(e)'
      BY <1>2, <2>0 DEF InTime, End, Live
    <2>10. Completing(e)'
      <3>1. task'[Comp(e)] = task[Comp(e)] /\ task[Comp(e)].pc # "completed"
        BY <1>0, <1>2, <1>5, <2>0 DEF Completing
      <3> QED BY <2>0, <3>1 DEF Completing
    <2>11. \A u \in Tasks : ~Dispatching(u, e)'
      BY <2>3, <2>4 DEF HasTurn
    <2>12. rec'[e].opted = FALSE
      BY <1>4
    <2>13. rec'[e].app \subseteq Group(e)
      BY <1>4, <2>0 DEF StartedInGroup
    <2>14. StartedInGroup(e)'
      BY <2>11, <2>12, <2>13 DEF StartedInGroup, Group
    <2> QED BY <2>7, <2>8, <2>9, <2>10, <2>14 DEF Accounted
  <1>9. modes' \in [Devices -> SUBSET Events]
    BY <1>2 DEF RegInv
  <1> QED BY <1>5, <1>6, <1>7, <1>8, <1>9, MovesOne

(* Who hears of the end of e is a device that nobody took over. *)
LEMMA AudienceRuns ==
    ASSUME mapped = Programs, NEW e \in Events, StartedInGroup(e), StartedAudience(e) # {}
    PROVE  Group(e) = {} \/ ~TakenOver(e)
  <1>1. Devs(e) = Group(e)
    BY ConstantsAssumption DEF Devs, DevsIn, Group
  <1>2. CASE rec[e].app \cup rec[e].rej = {}
    <2>1. Audience(e, rec[e].sup) # {}
      BY <1>2 DEF StartedAudience
    <2> QED BY <1>1, <2>1 DEF Audience, Reachable, TakenOver
  <1>3. CASE rec[e].app \cup rec[e].rej # {}
    <2>1. rec[e].app \ rec[e].sup # {}
      BY <1>3 DEF StartedAudience, Reachable
    <2> QED BY <2>1 DEF TakenOver, StartedInGroup
  <1> QED BY <1>2, <1>3

(* _on_completion: the timer releases e once the POSTs returned. *)
LEMMA CompleteKeeps ==
    ASSUME Shape, RegInv, TurnFirst, mapped = Programs, NEW e \in Events,
           \A u \in Tasks \ {Comp(e)} : ~task[u].run, Complete(e)
    PROVE  RegInv'
  <1>1. PICK t \in Tasks : t = Comp(e)
    BY TaskSets, TimersDiffer
  <1> DEFINE r == Suspended(At(t, "completed"), StartedAudience(e))
             s == [rec[e] EXCEPT !.st = "COMPLETED"]
  <1>0. /\ rec \in [Events -> EventRecords] /\ t # Outage /\ t \notin PassTasks
        /\ \A x : x # e => t # Comp(x)
        /\ \A x : t # Act(x)
    BY <1>1, TaskSets, TimersDiffer DEF Shape
  <1>2. /\ task[t].pc = "timer" /\ rec[e].st = "ACTIVE" /\ e \in stored
        /\ Goto(t, r) /\ rec' = [rec EXCEPT ![e] = s]
        /\ stored' = stored /\ pend' = pend /\ now' = now /\ modes' = modes
    BY <1>0, <1>1 DEF Complete, Fires, envVars, deviceVars
  <1>3. r.pc = "completed" /\ r.ev = task[t].ev /\ r.run = (StartedAudience(e) = {})
    <2>1. task[t] \in TaskRecords
      BY DEF Shape
    <2> QED BY <2>1 DEF Suspended, At, TaskRecords
  <1>4. s.st = "COMPLETED" /\ s.sup = rec[e].sup /\ s.app = rec[e].app /\ s.opted = rec[e].opted /\ rec'[e] = s
    BY <1>0, <1>2 DEF EventRecords
  <1> HIDE DEF r, s
  <1>5. task'[t] = r /\ Alone(t, e) /\ \A u \in Tasks : u # t => task'[u] = task[u]
    BY <1>1, <1>2 DEF Goto, Alone, Shape
  <1>10. r.ev = e
    BY <1>1, <1>2, <1>3 DEF RegInv, Accounted, Completing
  <1>6. SteadyTask(t)'
    BY <1>0, <1>3, <1>5 DEF SteadyTask, SteadyAs, Prepares, InSupersession
  <1>7. ASSUME NEW x \in Events, x # e PROVE RecordLeft(x) /\ Leaves(t, x) /\ StillReleased(t, x)
    <2>1. RecordLeft(x)
      BY <1>2, <1>7, OthersLeft
    <2>2. Leaves(t, x) /\ StillReleased(t, x)
      BY <1>0, <1>2, <1>3, <1>5, <1>7
         DEF Leaves, TakesUpNone, GoesOn, StillReleased, Preparing, Prepares, InSupersession,
             Dispatching, Scheduling, Releases
    <2> QED BY <2>1, <2>2
  <1>8. Accounted(e)'
    <2>0. RegistrationOwned(e) /\ StartedInGroup(e)
      BY DEF RegInv, Accounted
    <2>1. \A u \in Tasks : ~HasTurn(u, e)
      BY <1>1, <1>2 DEF TurnFirst, Timed
    <2>2. \A u \in Tasks : ~HasTurn(u, e)'
      <3>1. ~HasTurn(t, e)'
        BY <1>0, <1>3, <1>5 DEF HasTurn, Preparing, Prepares, InSupersession, Dispatching, Scheduling
      <3>2. \A u \in Tasks : u # t => ~HasTurn(u, e)'
        BY <1>5, <2>1 DEF HasTurn, Preparing, Prepares, InSupersession, Dispatching, Scheduling
      <3> QED BY <3>1, <3>2
    <2>3. Releases(t, e)'
      BY <1>1, <1>3, <1>5 DEF Releases
    <2>4. RegistrationOwned(e)' /\ ReleasedAtEnd(e)'
      BY <1>2, <1>4, <2>0, <2>3 DEF RegistrationOwned, ReleasedAtEnd, Terminal, Group
    <2>5. PreparedRuns(e)' /\ TurnTracked(e)' /\ TurnOwner(e)'
      BY <1>1, <2>2, TaskSets, TimersDiffer DEF PreparedRuns, TurnTracked, TurnOwner, HasTurn
    <2>6. Driven(e)' /\ InTime(e)'
      BY <1>4 DEF Driven, InTime, Running, Live
    <2>7. r.run \/ Group(e) = {} \/ ~TakenOver(e)
      BY <1>3, <2>0, AudienceRuns
    <2>8. TakenOver(e)' <=> TakenOver(e)
      BY <1>4 DEF TakenOver, Group
    <2>9. Completing(e)'
      <3>1. task'[Comp(e)].ev = e /\ (task'[Comp(e)].run \/ Group(e) = {} \/ ~TakenOver(e))
        BY <1>1, <1>5, <1>10, <2>7
      <3>2. Group(e)' = Group(e)
        BY DEF Group
      <3> QED BY <1>4, <2>2, <2>8, <3>1, <3>2 DEF Completing
    <2>10. \A u \in Tasks : ~Dispatching(u, e)'
      BY <2>2 DEF HasTurn
    <2>11. StartedInGroup(e)'
      BY <1>4, <2>0, <2>10 DEF StartedInGroup, Group
    <2> QED BY <2>4, <2>5, <2>6, <2>9, <2>11 DEF Accounted
  <1>9. modes' \in [Devices -> SUBSET Events]
    BY <1>2 DEF RegInv
  <1> QED BY <1>5, <1>6, <1>7, <1>8, <1>9, MovesOne

(* _apply_control_to_devices: only a running event has targets. *)
LEMMA ApplyKeeps ==
    ASSUME Shape, RegInv, mapped = Programs, NEW t \in Tasks, \A u \in Tasks \ {t} : ~task[u].run, Apply(t)
    PROVE  RegInv'
  <1>1. PICK e : e = task[t].ev
    OBVIOUS
  <1> DEFINE targets == Targets(e)
             announce == IF targets = {} THEN Audience(e, rec[e].sup) ELSE {}
             r == Suspended([At(t, "dispatch") EXCEPT !.devs = targets], targets \cup announce)
  <1>0. task[t] \in TaskRecords /\ SteadyAs(t, task[t]) /\ task[t].pc = "apply"
    BY DEF Shape, RegInv, SteadyTask, Apply
  <1>2. t # Outage /\ e \in Events /\ Preparing(t, e)
    BY <1>0, <1>1 DEF SteadyAs, Preparing, Prepares
  <1>3. /\ Goto(t, r) /\ rec' = rec /\ stored' = stored /\ pend' = pend /\ now' = now
        /\ modes' = [d \in Devices |-> IF d \in targets THEN modes[d] \cup {e} ELSE modes[d]]
    BY <1>1 DEF Apply, envVars
  <1>4. r.pc = "dispatch" /\ r.ev = e /\ r.devs = targets
    BY <1>0, <1>1 DEF Suspended, At, TaskRecords
  <1>5. targets = Group(e) \ rec[e].sup
    BY <1>2, ConstantsAssumption DEF Targets, Devs, DevsIn, Group
  <1> HIDE DEF r, targets
  <1>6. task'[t] = r /\ Alone(t, e) /\ \A u \in Tasks : u # t => task'[u] = task[u]
    BY <1>3 DEF Goto, Alone, Shape
  <1>7. SteadyTask(t)'
    BY <1>2, <1>4, <1>6 DEF SteadyTask, SteadyAs, Prepares, InSupersession
  <1>8. /\ modes' \in [Devices -> SUBSET Events]
        /\ \A d \in Devices : \A x : x # e => (x \in modes'[d] <=> x \in modes[d])
        /\ \A d \in Devices : e \in modes'[d] => e \in modes[d] \/ d \in targets
    BY <1>2, <1>3 DEF RegInv
  <1>9. ASSUME NEW x \in Events, x # e PROVE RecordLeft(x) /\ Leaves(t, x) /\ StillReleased(t, x)
    <2>1. RecordLeft(x)
      BY <1>3, <1>8, <1>9, RecordStill
    <2>2. Leaves(t, x) /\ StillReleased(t, x)
      BY <1>0, <1>1, <1>4, <1>6, <1>9
         DEF Leaves, TakesUpNone, GoesOn, StillReleased, Preparing, Prepares, InSupersession,
             Dispatching, Scheduling, Releases
    <2> QED BY <2>1, <2>2
  <1>10. Accounted(e)'
    <2>0. /\ RegistrationOwned(e) /\ PreparedRuns(e) /\ TurnTracked(e) /\ TurnOwner(e) /\ Driven(e)
          /\ InTime(e) /\ Completing(e) /\ ReleasedAtEnd(e) /\ StartedInGroup(e)
          /\ Comp(e) \in Tasks /\ Act(e) \in Tasks
      BY <1>2, TaskSets, TimersDiffer DEF RegInv, Accounted
    <2>1. /\ ~Releases(t, e) /\ ~Releases(t, e)' /\ ~Preparing(t, e)' /\ ~Scheduling(t, e) /\ Dispatching(t, e)'
          /\ HasTurn(t, e) /\ ~Scheduling(t, e)'
      BY <1>0, <1>2, <1>4, <1>6
         DEF Releases, Preparing, Prepares, InSupersession, Scheduling, Dispatching, HasTurn
    <2>2. \A u \in Tasks : u # t => /\ Releases(u, e)' <=> Releases(u, e)
                                    /\ Preparing(u, e)' <=> Preparing(u, e)
                                    /\ Dispatching(u, e)' <=> Dispatching(u, e)
                                    /\ Scheduling(u, e)' <=> Scheduling(u, e)
                                    /\ task'[u].devs = task[u].devs
      BY <1>6 DEF Releases, Preparing, Prepares, InSupersession, Scheduling, Dispatching
    <2>3. (Running(e)' <=> Running(e)) /\ (TakenOver(e)' <=> TakenOver(e)) /\ Group(e)' = Group(e)
      BY <1>3 DEF Running, TakenOver, Group
    <2>4. RegistrationOwned(e)'
      <3> SUFFICES ASSUME NEW d \in Devices, e \in modes'[d]
                   PROVE  d \in Group(e) /\ (Running(e)' \/ \E u \in Tasks : Releases(u, e)')
        BY <2>3 DEF RegistrationOwned
      <3>1. CASE d \in targets
        <4>1. d \in Group(e) /\ ~TakenOver(e)
          BY <1>5, <3>1 DEF TakenOver
        <4>2. Running(e)
          BY <1>2, <2>0, <4>1 DEF PreparedRuns
        <4> QED BY <2>3, <4>1, <4>2
      <3>2. CASE e \in modes[d]
        <4>1. d \in Group(e) /\ (Running(e) \/ \E u \in Tasks : Releases(u, e))
          BY <2>0, <3>2 DEF RegistrationOwned
        <4> QED BY <2>1, <2>2, <2>3, <4>1
      <3> QED BY <1>8, <3>1, <3>2
    <2>5. PreparedRuns(e)'
      BY <2>0, <2>1, <2>2, <2>3 DEF PreparedRuns
    <2>6. \A u \in Tasks : HasTurn(u, e)' => HasTurn(u, e)
      BY <2>1, <2>2 DEF HasTurn
    <2>7. TurnTracked(e)' /\ TurnOwner(e)'
      BY <1>3, <2>0, <2>3, <2>6 DEF TurnTracked, TurnOwner
    <2>8. Driven(e)'
      BY <1>3, <2>0, <2>1, <2>2 DEF Driven
    <2>9. InTime(e)'
      BY <1>3, <2>0 DEF InTime, End
    <2>10. Completing(e)' /\ ReleasedAtEnd(e)'
      <3>1. task[Comp(e)].pc # "completed"
        BY <2>0, <2>1 DEF Completing
      <3>2. task'[Comp(e)].pc \in {"timer", "completed"} => task'[Comp(e)] = task[Comp(e)]
        BY <1>4, <1>6, <2>0
      <3>3. Completing(e)'
        BY <2>0, <3>1, <3>2 DEF Completing
      <3> QED BY <1>3, <2>0, <2>1, <2>2, <3>3 DEF ReleasedAtEnd
    <2>11. StartedInGroup(e)'
      <3>1. \A u \in Tasks : Dispatching(u, e)' => task'[u].devs \subseteq Group(e)
        <4>1. task'[t].devs \subseteq Group(e)
          BY <1>4, <1>5, <1>6
        <4> QED BY <2>0, <2>2, <4>1 DEF StartedInGroup
      <3> QED BY <1>3, <2>0, <2>3, <3>1 DEF StartedInGroup
    <2> QED BY <2>4, <2>5, <2>7, <2>8, <2>9, <2>10, <2>11 DEF Accounted
  <1> QED BY <1>6, <1>7, <1>8, <1>9, <1>10, MovesOne

-----------------------------------------------------------------------------
(* Rule p cancels live events only. *)
RemovedLive ==
    \A t \in PassTasks : task[t].pc = "removed" => \A e \in task[t].todo : rec[e].st \in Live

LEMMA PassKeeps ==
    ASSUME StartInv, RegInv, Steady, TakenInTime, RemovedLive, \A e \in Events : WindDown[e] = 0,
           \A t, u \in PassTasks : t = u, NEW t \in PassTasks, \A u \in Tasks \ {t} : ~task[u].run, PassStep(t)
    PROVE  RegInv'
  <1>0. /\ Shape /\ IInv /\ Returning /\ OneTurn /\ TurnFirst /\ t \in Tasks /\ mapped = Programs /\ ~lost
        /\ \A u \in PassTasks : u = t
    BY TaskSets DEF StartInv, IInv, Steady
  <1>1. ASSUME NEW e \in Events,
               SeeUnstored(t, e) \/ SeeKnown(t, e) \/ CancelRemoved(t, e)
        PROVE  RegInv'
    <2>1. CASE SeeUnstored(t, e)
      BY <1>0, <2>1, LooksOn
    <2>2. CASE SeeKnown(t, e)
      <3>1. CASE ~ServerCancels(t, e)
        BY <1>0, <2>2, <3>1, LooksOn
      <3>2. CASE ServerCancels(t, e)
        <4>1. /\ Cancel(t, e, "loop") /\ e \in stored /\ rec[e].st \in Live /\ task[t].pc \in {"loop", "removed"}
          BY <2>2, <3>2 DEF SeeKnown, ServerCancels, InLoop
        <4> QED BY <1>0, <4>1, CancelKeeps
      <3> QED BY <3>1, <3>2
    <2>3. CASE CancelRemoved(t, e)
      <3>1. CASE e \notin stored
        BY <1>0, <2>3, <3>1, LooksOn
      <3>2. CASE e \in stored
        <4>1. /\ Cancel(t, e, "removed") /\ rec[e].st \in Live /\ task[t].pc \in {"loop", "removed"}
          BY <2>3, <3>2 DEF CancelRemoved, RemovedLive
        <4> QED BY <1>0, <3>2, <4>1, CancelKeeps
      <3> QED BY <3>1, <3>2
    <2> QED BY <1>1, <2>1, <2>2, <2>3
  <1>2. ASSUME NEW e \in Events, SeePreCancelled(t, e) \/ SeeNew(t, e) PROVE RegInv'
    BY <1>0, <1>2, TakingStepsKeep
  <1>3. CASE ScheduleActivation(t)
    BY <1>0, <1>3, TimerSetStepsKeep
  <1>4. CASE LateDiscovery(t) \/ SupersedeAll(t)
    BY <1>0, <1>4, IntoSupersession
  <1>5. CASE FindRemoved(t)
    <2>1. CASE Events = {}
      <3>1. /\ rec' = rec /\ stored' = stored /\ pend' = pend /\ now' = now /\ modes' = modes
            /\ task[t].pc = "loop"
        BY <1>5 DEF FindRemoved, envVars, deviceVars
      <3>2. PICK S : Goto(t, [At(t, "removed") EXCEPT !.ev = NoEvent, !.cx = {}, !.todo = S])
        BY <1>5 DEF FindRemoved
      <3>3. [At(t, "removed") EXCEPT !.ev = NoEvent, !.cx = {}, !.todo = S].pc = "removed"
        BY <1>0 DEF Shape, TaskRecords, At
      <3> QED BY <1>0, <3>1, <3>2, <3>3, PlainMove
    <2>2. CASE Events # {}
      <3>1. PICK e \in Events : TRUE
        BY <2>2
      <3> QED BY <1>0, <1>5, <3>1, LooksOn
    <2> QED BY <2>1, <2>2
  <1>6. CASE PruneAndDefault(t)
    BY <1>0, <1>6, PruneKeeps
  <1>7. CASE Unwind(t)
    <2>1. task[t].pc = "unwind" /\ task[t].ret \in {"loop", "removed"}
      BY <1>0, <1>7 DEF Unwind, Returning, Returns
    <2>2. task[t].ev \in Events
      BY <1>0, <2>1 DEF RegInv, SteadyTask, SteadyAs
    <2>3. WindDown[task[t].ev] = 0
      BY <2>2
    <2>4. PICK clear : Fallback(t, task[t], task[t].ev, clear, task[t].ret)
      <3>1. ~(WindDown[task[t].ev] > 0)
        BY <2>3
      <3>2. PICK no : no = FALSE
        OBVIOUS
      <3>3. Fallback(t, task[t], task[t].ev, no, task[t].ret)
        BY <1>7, <3>1, <3>2, Zenon DEF Unwind
      <3> QED BY <3>3
    <2> QED BY <1>0, <2>1, <2>4, ReleaseKeeps
  <1> QED BY <1>1, <1>2, <1>3, <1>4, <1>5, <1>6, <1>7 DEF PassStep

LEMMA TimerKeeps ==
    ASSUME StartInv, RegInv, Steady, NEW t \in Tasks, \A u \in Tasks \ {t} : ~task[u].run, TimerStep(t)
    PROVE  RegInv'
  <1>0. /\ Shape /\ IInv /\ OneTurn /\ TurnFirst /\ TimerEvent /\ mapped = Programs /\ ~lost
    BY DEF StartInv, IInv, Steady
  <1>1. ASSUME NEW e \in Events, t = Act(e), Activate(e) PROVE RegInv'
    BY <1>0, <1>1, ActivateKeeps
  <1>2. ASSUME NEW e \in Events, t = Comp(e), Complete(e) PROVE RegInv'
    BY <1>0, <1>2, CompleteKeeps
  <1>3. CASE TimerSkips(t)
    BY <1>0, <1>3, TimerSkipsKeeps
  <1> QED BY <1>1, <1>2, <1>3 DEF TimerStep

LEMMA SharedKeeps ==
    ASSUME StartInv, RegInv, Steady, NEW t \in Tasks, \A u \in Tasks \ {t} : ~task[u].run, SharedStep(t)
    PROVE  RegInv'
  <1>0. /\ Shape /\ IInv /\ Returning /\ OneTurn /\ TurnFirst /\ mapped = Programs
    BY DEF StartInv, IInv, Steady
  <1>1. CASE \E a, b \in Events : Supersede(t, a, b)
    BY <1>0, <1>1, SupersedeKeeps
  <1>2. CASE SupersedePosted(t)
    BY <1>0, <1>2, SupersedePostedKeeps
  <1>3. CASE SupersedeRevert(t)
    BY <1>0, <1>3, SupersedeRevertKeeps
  <1>4. CASE SupersedeDone(t)
    BY <1>0, <1>4, SupersedeDoneKeeps
  <1>5. CASE Apply(t)
    BY <1>0, <1>5, ApplyKeeps
  <1>6. CASE DispatchDone(t)
    BY <1>0, <1>6, TimerSetStepsKeep
  <1>7. CASE \E d \in Devices : DispatchOk(t, d) \/ \E how \in {"fail", "slow"} : DispatchRejected(t, d, how)
    BY <1>0, <1>7, SettlingKeeps
  <1>8. CASE Revert(t)
    <2>1. task[t].pc = "completed"
      BY <1>8 DEF Revert, RegInv, SteadyTask, SteadyAs
    <2>2. PICK clear, back : /\ back \in {"idle", "loop", "removed"}
                             /\ Fallback(t, task[t], task[t].ev, clear, back)
      BY <1>8 DEF Revert
    <2> QED BY <1>0, <2>1, <2>2, ReleaseKeeps
  <1>9. CASE Reverted(t) \/ \E d \in Devices : RevertFails(t, d)
    BY <1>0, <1>9, RevertedKeeps
  <1> QED BY <1>1, <1>2, <1>3, <1>4, <1>5, <1>6, <1>7, <1>8, <1>9 DEF SharedStep

LEMMA RegSteps ==
    ASSUME \A e \in Events : WindDown[e] = 0, \A t, u \in PassTasks : t = u,
           StartInv, RegInv, Steady, Steady', TakenInTime, RemovedLive, [Next]_vars
    PROVE  StartInv' /\ RegInv'
  <1>0. /\ Shape /\ TimerEvent /\ discovered /\ discovered' /\ ShortPasses
    BY DEF StartInv, IInv, Steady, ShortPasses
  <1>1. StartInv'
    BY <1>0, StartSteps
  <1>2. CASE UNCHANGED vars
    <2>1. task' = task /\ rec' = rec /\ stored' = stored /\ pend' = pend /\ modes' = modes /\ now' = now
      BY <1>2 DEF vars
    <2> QED BY <1>1, <2>1, NothingMoves
  <1>3. CASE Environment
    BY <1>0, <1>1, <1>3, EnvironmentKept
  <1>4. ASSUME NEW t \in Tasks, TaskStep(t) PROVE RegInv'
    <2>1. \A u \in Tasks \ {t} : ~task[u].run
      BY <1>4 DEF TaskStep
    <2>2. CASE t \in PassTasks /\ PassStep(t)
      BY <2>1, <2>2, PassKeeps
    <2>3. CASE TimerStep(t)
      BY <2>1, <2>3, TimerKeeps
    <2>4. CASE t = Outage /\ OutageStep
      BY <2>4 DEF OutageStep, OutageReverts, OutageReverted, RegInv, SteadyTask, SteadyAs
    <2>5. CASE SharedStep(t)
      BY <2>1, <2>5, SharedKeeps
    <2> QED BY <1>4, <2>2, <2>3, <2>4, <2>5 DEF TaskStep
  <1> QED BY <1>1, <1>2, <1>3, <1>4 DEF Next

LEMMA InitReg == ASSUME Init PROVE RegInv
  <1>1. \A t \in Tasks : task[t].pc = "idle"
    BY IdleRecord DEF Init
  <1>2. /\ \A e \in Events : rec[e].st = "none" /\ rec[e].app = {} /\ rec[e].opted = FALSE
        /\ stored = {} /\ modes = [d \in Devices |-> {}]
    BY DEF Init, Fresh
  <1>3. ASSUME NEW e \in Events PROVE Accounted(e)
    <2>1. Act(e) \in Tasks /\ Comp(e) \in Tasks
      BY TaskSets, TimersDiffer
    <2>2. \A t \in Tasks : /\ ~HasTurn(t, e) /\ ~Preparing(t, e) /\ ~Dispatching(t, e) /\ ~Releases(t, e)
      BY <1>1 DEF HasTurn, Preparing, Prepares, InSupersession, Dispatching, Scheduling, Releases
    <2>3. RegistrationOwned(e) /\ PreparedRuns(e) /\ TurnTracked(e) /\ TurnOwner(e)
      BY <1>2, <2>1, <2>2 DEF RegistrationOwned, PreparedRuns, TurnTracked, TurnOwner
    <2>4. Driven(e) /\ InTime(e) /\ Completing(e) /\ ReleasedAtEnd(e) /\ StartedInGroup(e)
      BY <1>1, <1>2, <2>1, <2>2 DEF Driven, Running, InTime, Completing, ReleasedAtEnd, StartedInGroup
    <2> QED BY <2>3, <2>4 DEF Accounted
  <1>4. \A t \in Tasks : SteadyTask(t)
    BY <1>1 DEF SteadyTask, SteadyAs, Prepares, InSupersession
  <1>5. modes \in [Devices -> SUBSET Events]
    BY <1>2
  <1> QED BY <1>3, <1>4, <1>5 DEF RegInv

(* Nobody is releasing an event when nothing is under way. *)
LEMMA QuietReleased == ASSUME RegInv PROVE NoLeakedRegistration
  <1> SUFFICES ASSUME Quiescent, NEW d \in Devices, NEW e, e \in modes[d] PROVE e \in ActiveEvents
    BY DEF NoLeakedRegistration
  <1>1. \A t \in Tasks : task[t].pc \in {"idle", "timer", "recovered"}
    BY DEF Quiescent
  <1>2. e \in Events
    BY DEF RegInv
  <1>3. RegistrationOwned(e) /\ rec[e].opted = FALSE
    BY <1>2 DEF RegInv, Accounted, StartedInGroup
  <1>4. \A t \in Tasks : ~Releases(t, e)
    BY <1>1 DEF Releases
  <1> QED BY <1>3, <1>4 DEF RegistrationOwned, Running, ActiveEvents

(* ActiveModeTracker: the end of an event, by completion, cancellation or  *)
(* supersession, takes its registrations off every device before the       *)
(* client is quiet again, however its handlers interleave with the pass,   *)
(* rejections and other events.  It needs the mapping and the devices to   *)
(* stay (a rediscovery, a removal or an outage clears them under a         *)
(* handler), one task running process_controls (a second may cancel what   *)
(* the first dispatches), a pass that keeps up with the clock (TakenInTime *)
(* and RemovedLive) and no wind-down, whose timer finds the event over and *)
(* leaves its registrations behind.                                        *)
THEOREM EndedEventsReleased ==
    ASSUME \A e \in Events : WindDown[e] = 0, \A t, u \in PassTasks : t = u
    PROVE  Spec /\ []Steady /\ []TakenInTime /\ []RemovedLive => []NoLeakedRegistration
  <1>1. /\ StartInv /\ RegInv /\ Steady /\ Steady' /\ TakenInTime /\ RemovedLive /\ [Next]_vars
        => StartInv' /\ RegInv'
    BY RegSteps
  <1>2. Init => StartInv /\ RegInv
    BY InitStart, InitReg
  <1>3. RegInv => NoLeakedRegistration
    BY QuietReleased
  <1> QED BY <1>1, <1>2, <1>3, PTL DEF Spec

=============================================================================
