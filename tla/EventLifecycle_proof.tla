------------------------ MODULE EventLifecycle_proof ------------------------
(***************************************************************************)
(* Proofs about EventLifecycle, for any events, programs, devices, tasks   *)
(* and times.                                                              *)
(***************************************************************************)
EXTENDS EventLifecycle, WellFoundedInduction, TLAPS

(* The part of TypeOK the proofs use. *)
Shape ==
    /\ now \in Nat /\ lost \in BOOLEAN /\ mapped \subseteq Programs
    /\ rec \in [Events -> EventRecords] /\ stored \subseteq Events
    /\ task \in [Tasks -> TaskRecords]
    /\ posted \in [Events -> [Devices -> Seq(Codes)]]

(* A pass reads the clock when it begins. *)
PassClock == \A t \in PassTasks : task[t].at <= now

(* The store forgets an event only after its end, also by the clock of     *)
(* every pass that has yet to look at it.                                  *)
Forgotten ==
    \A e \in Events : e \notin stored /\ rec[e].st # "none" =>
        /\ End(e) < now
        /\ \A t \in PassTasks : e \in task[t].todo => End(e) < task[t].at

(* A pass does not prune the store while another, more than the grace      *)
(* older, has events still to look at.  It holds by itself where one task  *)
(* runs process_controls.                                                  *)
ShortPasses ==
    \A t, u \in PassTasks :
        t # u /\ task[u].pc = "prune" /\ task[t].todo # {} =>
            task[u].at <= task[t].at + StoreGrace

-----------------------------------------------------------------------------
(* The tasks, and the local states they are given. *)
LEMMA TaskSets ==
    /\ PassTasks \subseteq Tasks /\ Outage \in Tasks /\ Outage \notin PassTasks
    /\ \A e \in Events : TimersOf(e) \subseteq Tasks
    /\ \A e : TimersOf(e) \cap PassTasks = {} /\ Outage \notin TimersOf(e)
  <1>1. PassTasks \subseteq Tasks
    BY DEF Tasks
  <1>5. Outage \in Tasks
    BY DEF Tasks
  <1>2. Outage \notin PassTasks
    BY DEF PassTasks, Outage
  <1>3. \A e \in Events : TimersOf(e) \subseteq Tasks
    BY DEF Tasks
  <1>4. \A e : TimersOf(e) \cap PassTasks = {} /\ Outage \notin TimersOf(e)
    BY DEF PassTasks, TimersOf, Outage, Act, Comp, Wind
  <1> QED BY <1>1, <1>2, <1>3, <1>4, <1>5

LEMMA TimersDiffer ==
    /\ \A e : Act(e) # Comp(e) /\ Act(e) # Wind(e) /\ Comp(e) # Wind(e)
    /\ \A e, x : Act(e) # Comp(x) /\ Act(e) # Wind(x) /\ Comp(e) # Wind(x)
    /\ \A e, x : e # x => Act(e) # Act(x) /\ Comp(e) # Comp(x) /\ Wind(e) # Wind(x)
    /\ \A e : Act(e) \in TimersOf(e) /\ Comp(e) \in TimersOf(e) /\ Wind(e) \in TimersOf(e)
  BY DEF TimersOf, Act, Comp, Wind

LEMMA TimerTask ==
    \A e : Act(e) \in Tasks \/ Comp(e) \in Tasks \/ Wind(e) \in Tasks => e \in Events
  BY DEF Tasks, PassTasks, Outage, TimersOf, Act, Comp, Wind

LEMMA IdleRecord ==
    /\ Idle \in TaskRecords
    /\ Idle.pc = "idle" /\ Idle.at = 0 /\ Idle.todo = {} /\ Idle.ret = "idle" /\ Idle.back = "idle"
  BY DEF Idle, TaskRecords, Pcs

LEMMA TimerRecord ==
    ASSUME NEW e \in Events, NEW at \in Nat
    PROVE  [Idle EXCEPT !.pc = "timer", !.ev = e, !.at = at] \in TaskRecords
  BY DEF Idle, TaskRecords, Pcs

(* At(t, pc) differs from task[t] in pc and run. *)
LEMMA AtRecord ==
    ASSUME Shape, NEW t \in Tasks, NEW pc \in Pcs
    PROVE  /\ At(t, pc) \in TaskRecords /\ task[t] \in TaskRecords
           /\ At(t, pc).pc = pc /\ At(t, pc).run = TRUE
           /\ At(t, pc).ev = task[t].ev /\ At(t, pc).todo = task[t].todo
           /\ At(t, pc).loser = task[t].loser /\ At(t, pc).ret = task[t].ret
           /\ At(t, pc).back = task[t].back /\ At(t, pc).at = task[t].at
           /\ At(t, pc).devs = task[t].devs
  <1>1. task[t] \in TaskRecords
    BY DEF Shape
  <1> QED BY <1>1 DEF At, TaskRecords

(* A step that awaits changes run alone. *)
LEMMA SuspendedRecord ==
    ASSUME NEW r \in TaskRecords, NEW D
    PROVE  /\ Suspended(r, D) \in TaskRecords
           /\ Suspended(r, D).pc = r.pc /\ Suspended(r, D).ev = r.ev
           /\ Suspended(r, D).todo = r.todo /\ Suspended(r, D).at = r.at
           /\ Suspended(r, D).ret = r.ret /\ Suspended(r, D).back = r.back
           /\ Suspended(r, D).devs = r.devs /\ Suspended(r, D).loser = r.loser
  <1> DEFINE b == (D = {})
  <1>1. b \in BOOLEAN
    OBVIOUS
  <1>2. Suspended(r, D) = [r EXCEPT !.run = b]
    BY DEF Suspended
  <1> HIDE DEF b
  <1> QED BY <1>1, <1>2 DEF TaskRecords

LEMMA EndType == \A e \in Events : End(e) \in Nat
  BY ConstantsAssumption DEF End

LEMMA DevsType ==
    ASSUME Shape
    PROVE  /\ \A e, map : map \subseteq Programs => DevsIn(map, e) \subseteq Devices
           /\ \A e : Devs(e) \subseteq Devices
  BY ConstantsAssumption DEF DevsIn, Devs, Shape

(* What PostedAfter adds, and that it adds nothing else. *)
LEMMA PostedType ==
    ASSUME Shape, NEW e, NEW code \in Codes, NEW D
    PROVE  PostedAfter(e, code, D) \in [Events -> [Devices -> Seq(Codes)]]
  <1> DEFINE f == [d \in Devices |-> IF d \in D /\ ~Contains(posted[e][d], code)
                                     THEN Append(posted[e][d], code) ELSE posted[e][d]]
  <1>1. PostedAfter(e, code, D) = [posted EXCEPT ![e] = f]
    BY DEF PostedAfter
  <1>2. e \in Events => f \in [Devices -> Seq(Codes)]
    BY DEF Shape
  <1> HIDE DEF f
  <1> QED BY <1>1, <1>2 DEF Shape

(* The least element of a set of numbers. *)
LEMMA LeastNat == ASSUME NEW S \in SUBSET Nat, S # {} PROVE \E x \in S : \A y \in S : x <= y
  <1> DEFINE R == OpToRel(<, Nat)
  <1>1. IsWellFoundedOn(R, Nat)
    BY NatLessThanWellFounded
  <1>2. \A x, y \in Nat : <<y, x>> \in R <=> y < x
    BY DEF OpToRel
  <1> HIDE DEF R
  <1>3. PICK x \in S : \A y \in S : ~ (<<y, x>> \in R)
    BY <1>1, WFMin
  <1>4. \A y \in S : ~(y < x)
    BY <1>2, <1>3
  <1> QED BY <1>4

(* _best_dderc_program_for_device finds one where there is one. *)
LEMMA BestDefaultIn ==
    ASSUME Shape, NEW d, DefaultsFor(d) # {}
    PROVE  BestDefault(d) \in Programs
  <1> DEFINE S == {Primacy[g] : g \in DefaultsFor(d)}
  <1>1. DefaultsFor(d) \subseteq Programs
    BY DEF Shape, DefaultsFor
  <1>2. S \in SUBSET Nat /\ S # {}
    BY <1>1, ConstantsAssumption
  <1>3. PICK x \in S : \A y \in S : x <= y
    <2> HIDE DEF S
    <2> QED BY <1>2, LeastNat
  <1>4. PICK g \in DefaultsFor(d) : Primacy[g] = x
    OBVIOUS
  <1>5. \A h \in DefaultsFor(d) : Primacy[g] <= Primacy[h]
    BY <1>3, <1>4
  <1> QED BY <1>1, <1>5 DEF BestDefault

-----------------------------------------------------------------------------
(* An event is taken on once.                                              *)
IInv == Shape /\ PassClock /\ Forgotten

(* A step keeps what has ended at its end. *)
EndsKept == \A e \in Events : rec[e].st \in Terminal => rec'[e].st \in Terminal

(* A pass t that goes on as r keeps its clock, or ends. *)
KeepsPass(t, r) ==
    \/ r.at = task[t].at /\ r.todo \subseteq task[t].todo \cup stored
    \/ r.at = 0 /\ r.todo = {}

Onward(t, r) == r \in TaskRecords /\ KeepsPass(t, r)

(* How a step changes the tasks: one goes on, and may set or cancel timers. *)
TasksKept == task' \in [Tasks -> TaskRecords] /\ \A u \in PassTasks : KeepsPass(u, task'[u])

(* What a step that takes on no event does to the records. *)
RecordsKept ==
    /\ rec' \in [Events -> EventRecords]
    /\ \A e \in Events : \/ rec'[e].st = rec[e].st
                         \/ e \in stored /\ (rec[e].st \in Terminal => rec'[e].st \in Terminal)

PostsTyped == posted' \in [Events -> [Devices -> Seq(Codes)]]

LEMMA Framed ==
    ASSUME IInv, Shape', now' >= now, stored \subseteq stored',
           \A e \in Events : e \notin stored' /\ rec'[e].st # "none" => rec[e].st # "none",
           \A t \in PassTasks : KeepsPass(t, task'[t])
    PROVE  IInv'
  <1> USE DEF IInv
  <1>1. PassClock'
    <2> SUFFICES ASSUME NEW t \in PassTasks PROVE task'[t].at <= now'
      BY DEF PassClock
    <2>1. task[t].at \in Nat /\ task[t].at <= now /\ now \in Nat /\ now' \in Nat
      BY TaskSets DEF Shape, TaskRecords, PassClock
    <2>2. task'[t].at = task[t].at \/ task'[t].at = 0
      BY DEF KeepsPass
    <2> QED BY <2>1, <2>2
  <1>2. Forgotten'
    <2> SUFFICES ASSUME NEW e \in Events, e \notin stored, rec[e].st # "none"
                 PROVE  /\ End(e) < now'
                        /\ \A t \in PassTasks : e \in task'[t].todo => End(e) < task'[t].at
      BY DEF Forgotten
    <2>1. End(e) < now' /\ \A t \in PassTasks : e \in task[t].todo => End(e) < task[t].at
      BY EndType DEF Forgotten, Shape
    <2> QED BY <2>1 DEF KeepsPass
  <1> QED BY <1>1, <1>2

LEMMA Going ==
    ASSUME Shape, NEW t \in Tasks, NEW r, Onward(t, r), Goto(t, r)
    PROVE  TasksKept
  <1>1. task' = [task EXCEPT ![t] = r] /\ task \in [Tasks -> TaskRecords]
    BY DEF Goto, Shape
  <1> QED BY <1>1, TaskSets DEF KeepsPass, TasksKept, Onward

LEMMA Timing ==
    ASSUME Shape, NEW t \in Tasks, NEW r, Onward(t, r),
           NEW u, u \notin PassTasks, NEW timer, u \in Tasks => timer \in TaskRecords,
           task' = [task EXCEPT ![t] = r, ![u] = timer]
    PROVE  TasksKept
  <1>1. task \in [Tasks -> TaskRecords]
    BY DEF Shape
  <1> QED BY <1>1, TaskSets DEF KeepsPass, TasksKept, Onward

LEMMA Cancelling ==
    ASSUME Shape, NEW t \in Tasks, NEW r, Onward(t, r), NEW e, CancelTimers(t, r, e)
    PROVE  TasksKept
  <1>1. task \in [Tasks -> TaskRecords] /\ Idle \in TaskRecords
    BY IdleRecord DEF Shape
  <1>2. task' \in [Tasks -> TaskRecords]
    BY <1>1 DEF CancelTimers, Onward
  <1>3. \A u \in PassTasks : task'[u] = IF u = t THEN r ELSE task[u]
    BY TaskSets DEF CancelTimers
  <1> QED BY <1>2, <1>3 DEF KeepsPass, TasksKept, Onward

(* A step of a task that leaves the store alone, and takes no event on. *)
LEMMA Stepping ==
    ASSUME IInv, TasksKept, RecordsKept, PostsTyped,
           now' = now, lost' = lost, mapped' = mapped, stored' = stored
    PROVE  IInv' /\ EndsKept
  <1>1. Shape'
    BY DEF IInv, Shape, TasksKept, RecordsKept, PostsTyped
  <1>2. now' >= now /\ stored \subseteq stored'
    BY DEF IInv, Shape
  <1>3. \A e \in Events : e \notin stored' /\ rec'[e].st # "none" => rec[e].st # "none"
    BY DEF RecordsKept
  <1>4. EndsKept
    BY DEF EndsKept, RecordsKept
  <1> QED BY <1>1, <1>2, <1>3, <1>4, Framed DEF TasksKept

(* The same when no record changes. *)
LEMMA Moving ==
    ASSUME IInv, TasksKept, PostsTyped, now' = now, lost' = lost, mapped' = mapped, stored' = stored, rec' = rec
    PROVE  IInv' /\ EndsKept
  <1>1. RecordsKept
    BY DEF IInv, Shape, RecordsKept
  <1> QED BY <1>1, Stepping

(* What a task goes on as. *)
LEMMA OnwardAt ==
    ASSUME Shape, NEW t \in Tasks, NEW pc \in Pcs
    PROVE  /\ Onward(t, At(t, pc)) /\ At(t, pc) \in TaskRecords
           /\ At(t, pc).at = task[t].at /\ At(t, pc).todo = task[t].todo
  BY AtRecord DEF Onward, KeepsPass

LEMMA OnwardSuspended ==
    ASSUME NEW t, NEW r, Onward(t, r), NEW D
    PROVE  Onward(t, Suspended(r, D))
  BY SuspendedRecord DEF Onward, KeepsPass

LEMMA OnwardIdle == \A t : Onward(t, Idle)
  BY IdleRecord DEF Onward, KeepsPass

LEMMA OnwardSame == ASSUME Shape, NEW t \in Tasks PROVE Onward(t, task[t])
  BY DEF Shape, Onward, KeepsPass

LEMMA Recorded ==
    ASSUME Shape, NEW e, NEW r, rec' = [rec EXCEPT ![e] = r],
           e \in Events => r \in EventRecords,
           \/ e \notin Events
           \/ r.st = rec[e].st
           \/ e \in stored /\ (rec[e].st \in Terminal => r.st \in Terminal)
    PROVE  RecordsKept
  <1>1. rec \in [Events -> EventRecords]
    BY DEF Shape
  <1>2. rec' \in [Events -> EventRecords]
    BY <1>1
  <1>3. \A x \in Events : rec'[x] = IF x = e THEN r ELSE rec[x]
    BY <1>1
  <1> HIDE DEF Terminal
  <1> QED BY <1>2, <1>3 DEF RecordsKept

(* The responses of a step have their type: every code posted is a code. *)
LEMMA CodeNames == {"ACKNOWLEDGED", "ACTIVE", "COMPLETED", "CANCELLED", "SUPERSEDED",
                    "EXPIRED", "REJECTED"} \subseteq Codes
  BY DEF Codes

LEMMA PostsKept ==
    ASSUME Shape, NEW e, NEW code \in Codes, NEW D,
           posted' = posted \/ posted' = PostedAfter(e, code, D)
    PROVE  PostsTyped
  <1>1. posted \in [Events -> [Devices -> Seq(Codes)]]
    BY DEF Shape
  <1>2. PostedAfter(e, code, D) \in [Events -> [Devices -> Seq(Codes)]]
    BY PostedType
  <1> QED BY <1>1, <1>2 DEF PostsTyped

-----------------------------------------------------------------------------
(* The code several kinds of task run. *)
LEMMA ApplyStep == ASSUME IInv, NEW t \in Tasks, Apply(t) PROVE IInv' /\ EndsKept
  <1> DEFINE e == task[t].ev
             announce == IF Targets(e) = {} THEN Audience(e, rec[e].sup) ELSE {}
             r == [At(t, "dispatch") EXCEPT !.devs = Targets(e)]
  <1>1. Shape /\ "dispatch" \in Pcs
    BY DEF IInv, Pcs
  <1>2. /\ Goto(t, Suspended(r, Targets(e) \cup announce))
        /\ posted' = PostedAfter(e, "ACTIVE", announce)
        /\ now' = now /\ lost' = lost /\ mapped' = mapped /\ rec' = rec /\ stored' = stored
    BY DEF Apply, envVars, controlVars
  <1>3. Targets(e) \subseteq Devices
    BY <1>1, DevsType DEF Targets
  <1>4. Onward(t, r)
    BY <1>1, <1>3, OnwardAt DEF TaskRecords, Onward, KeepsPass
  <1> HIDE DEF r, announce
  <1>5. TasksKept
    BY <1>1, <1>2, <1>4, OnwardSuspended, Going
  <1>6. PostsTyped
    BY <1>1, <1>2, PostsKept, CodeNames
  <1> QED BY <1>2, <1>5, <1>6, Moving

LEMMA DispatchOkStep ==
    ASSUME IInv, NEW t \in Tasks, NEW d \in Devices, DispatchOk(t, d) PROVE IInv' /\ EndsKept
  <1> DEFINE e == task[t].ev
             r == [task[t] EXCEPT !.devs = @ \ {d}]
             new == [rec[e] EXCEPT !.app = @ \cup {d}]
  <1>1. Shape
    BY DEF IInv
  <1>2. /\ Goto(t, r) /\ posted' = PostedAfter(e, "ACTIVE", Reachable({d}))
        /\ now' = now /\ lost' = lost /\ mapped' = mapped /\ stored' = stored
        /\ rec' = [rec EXCEPT ![e] = new]
    BY DEF DispatchOk, envVars, controlVars
  <1>3. RecordsKept
    <2>1. e \in Events => new \in EventRecords /\ new.st = rec[e].st
      BY <1>1 DEF Shape, EventRecords
    <2> HIDE DEF new
    <2> QED BY <1>1, <1>2, <2>1, Recorded
  <1>4. Onward(t, r)
    BY <1>1, OnwardSame DEF TaskRecords, Onward, KeepsPass
  <1> HIDE DEF r
  <1>5. TasksKept
    BY <1>1, <1>2, <1>4, Going
  <1>6. PostsTyped
    BY <1>1, <1>2, PostsKept, CodeNames
  <1> QED BY <1>2, <1>3, <1>5, <1>6, Stepping

LEMMA DispatchRejectedStep ==
    ASSUME IInv, NEW t \in Tasks, NEW d \in Devices, NEW how, DispatchRejected(t, d, how)
    PROVE  IInv' /\ EndsKept
  <1> DEFINE e == task[t].ev
             r == [task[t] EXCEPT !.devs = @ \ {d}]
             new == [rec[e] EXCEPT !.rej = @ \cup {d}]
  <1>1. Shape
    BY DEF IInv
  <1>2. /\ Goto(t, r) /\ posted' = PostedAfter(e, "REJECTED", Reachable({d}))
        /\ now' = now /\ lost' = lost /\ mapped' = mapped /\ stored' = stored
        /\ rec' = [rec EXCEPT ![e] = new]
    BY DEF DispatchRejected, envVars, controlVars
  <1>3. RecordsKept
    <2>1. e \in Events => new \in EventRecords /\ new.st = rec[e].st
      BY <1>1 DEF Shape, EventRecords
    <2> HIDE DEF new
    <2> QED BY <1>1, <1>2, <2>1, Recorded
  <1>4. Onward(t, r)
    BY <1>1, OnwardSame DEF TaskRecords, Onward, KeepsPass
  <1> HIDE DEF r
  <1>5. TasksKept
    BY <1>1, <1>2, <1>4, Going
  <1>6. PostsTyped
    BY <1>1, <1>2, PostsKept, CodeNames
  <1> QED BY <1>2, <1>3, <1>5, <1>6, Stepping

LEMMA DispatchDoneStep ==
    ASSUME IInv, NEW t \in Tasks, DispatchDone(t) PROVE IInv' /\ EndsKept
  <1> DEFINE e == task[t].ev
             timer == [Idle EXCEPT !.pc = "timer", !.ev = e, !.at = End(e)]
  <1>1. Shape /\ "loop" \in Pcs
    BY DEF IInv, Pcs
  <1>2. /\ task' = [task EXCEPT ![t] = AfterDispatch(t), ![Comp(e)] = timer]
        /\ now' = now /\ lost' = lost /\ mapped' = mapped /\ stored' = stored /\ rec' = rec /\ posted' = posted
    BY DEF DispatchDone, envVars, controlVars
  <1>3. Onward(t, AfterDispatch(t))
    BY <1>1, OnwardAt, OnwardIdle DEF AfterDispatch
  <1>4. Comp(e) \notin PassTasks /\ (Comp(e) \in Tasks => timer \in TaskRecords)
    <2>1. Comp(e) \in Tasks => e \in Events
      BY TimerTask
    <2> QED BY <2>1, TaskSets, TimersDiffer, EndType, TimerRecord
  <1> HIDE DEF timer
  <1>5. TasksKept
    BY <1>1, <1>2, <1>3, <1>4, Timing
  <1>6. PostsTyped
    BY <1>1, <1>2 DEF Shape, PostsTyped
  <1> QED BY <1>2, <1>5, <1>6, Moving

LEMMA FallbackStep ==
    ASSUME IInv, NEW t \in Tasks, NEW self, Onward(t, self), NEW e, NEW clear, NEW back \in Pcs,
           Fallback(t, self, e, clear, back)
    PROVE  IInv' /\ EndsKept
  <1> DEFINE reg      == Released(e)
             released == {d \in Devs(e) : e \in modes[d] /\ reg[d] = {}}
             taken    == {d \in Devs(e) : /\ d \in rec[e].sup /\ d \in rec[e].supm
                                          /\ HasOtherActive(d, e)}
             needs    == {d \in Devs(e) \ taken : d \in released \/ ~HasOtherActive(d, e)}
             default  == {d \in needs : DefaultsFor(d) # {} /\ ~HeldByRunning(d, reg)}
             off      == {d \in needs : DefaultsFor(d) = {} /\ (clear \/ d \in released)}
             defs     == {<<BestDefault(d), d>> : d \in default}
             r == [self EXCEPT !.pc = "reverting", !.devs = default \cup off,
                               !.defs = defs, !.back = back]
  <1>1. Shape
    BY DEF IInv
  <1>2. /\ Goto(t, Suspended(r, default \cup off))
        /\ now' = now /\ lost' = lost /\ mapped' = mapped /\ stored' = stored /\ rec' = rec /\ posted' = posted
    BY DEF Fallback, envVars, controlVars
  <1>3. default \cup off \in SUBSET Devices
    BY <1>1, DevsType
  <1>4. defs \in SUBSET (Programs \X Devices)
    BY <1>1, <1>3, BestDefaultIn
  <1>5. Onward(t, r)
    <2> HIDE DEF default, off, defs
    <2>1. "reverting" \in Pcs
      BY DEF Pcs
    <2> QED BY <1>3, <1>4, <2>1 DEF TaskRecords, Onward, KeepsPass
  <1> HIDE DEF r, default, off
  <1>6. TasksKept
    BY <1>1, <1>2, <1>5, OnwardSuspended, Going
  <1>7. PostsTyped
    BY <1>1, <1>2 DEF Shape, PostsTyped
  <1> QED BY <1>2, <1>6, <1>7, Moving

LEMMA RevertSteps ==
    ASSUME IInv, NEW t \in Tasks,
           Revert(t) \/ Reverted(t) \/ (\E d \in Devices : RevertFails(t, d)) \/ SupersedeRevert(t)
    PROVE  IInv' /\ EndsKept
  <1>1. Shape /\ {"loop", "idle", "supersede", "reverting"} \subseteq Pcs
    BY DEF IInv, Pcs
  <1>2. CASE Revert(t)
    <2>1. (IF t \in PassTasks THEN "loop" ELSE "idle") \in Pcs
      BY <1>1
    <2> QED BY <1>1, <1>2, <2>1, OnwardSame, FallbackStep DEF Revert
  <1>3. CASE SupersedeRevert(t)
    BY <1>1, <1>3, OnwardSame, FallbackStep DEF SupersedeRevert
  <1>4. CASE Reverted(t)
    <2> DEFINE back == task[t].back
               r == IF back = "idle" THEN Idle ELSE [At(t, back) EXCEPT !.devs = {}, !.defs = {}]
    <2>1. /\ Goto(t, r)
          /\ now' = now /\ lost' = lost /\ mapped' = mapped /\ stored' = stored /\ rec' = rec /\ posted' = posted
      BY <1>4 DEF Reverted, envVars, controlVars
    <2>2. back \in Pcs
      BY <1>1 DEF Shape, TaskRecords
    <2>3. Onward(t, At(t, back)) /\ At(t, back) \in TaskRecords
      BY <1>1, <2>2, OnwardAt
    <2>4. Onward(t, [At(t, back) EXCEPT !.devs = {}, !.defs = {}])
      BY <2>3 DEF Onward, KeepsPass, TaskRecords
    <2>5. Onward(t, r)
      BY <2>4, OnwardIdle
    <2> HIDE DEF r
    <2>6. TasksKept /\ PostsTyped
      BY <1>1, <2>1, <2>5, Going DEF Shape, PostsTyped
    <2> QED BY <2>1, <2>6, Moving
  <1>5. CASE \E d \in Devices : RevertFails(t, d)
    <2>1. PICK d \in Devices : RevertFails(t, d)
      BY <1>5
    <2> DEFINE defs == {p \in task[t].defs : p[2] # d}
               r == [task[t] EXCEPT !.devs = @ \ {d}, !.defs = defs]
    <2>2. /\ Goto(t, r)
          /\ now' = now /\ lost' = lost /\ mapped' = mapped /\ stored' = stored /\ rec' = rec /\ posted' = posted
      BY <2>1 DEF RevertFails, envVars, controlVars
    <2>3. task[t] \in TaskRecords /\ defs \in SUBSET (Programs \X Devices)
      BY <1>1 DEF Shape, TaskRecords
    <2>4. Onward(t, r)
      <3> HIDE DEF defs
      <3> QED BY <2>3 DEF Onward, KeepsPass, TaskRecords
    <2> HIDE DEF r
    <2>5. TasksKept /\ PostsTyped
      BY <1>1, <2>2, <2>4, Going DEF Shape, PostsTyped
    <2> QED BY <2>2, <2>5, Moving
  <1> QED BY <1>2, <1>3, <1>4, <1>5

(* compute_supersession relates stored events. *)
LEMMA SupersedingRecord ==
    ASSUME Shape, NEW t \in Tasks, NEW ret \in Pcs
    PROVE  /\ Onward(t, Superseding(t, ret)) /\ Superseding(t, ret) \in TaskRecords
           /\ Superseding(t, ret).at = task[t].at /\ Superseding(t, ret).todo = task[t].todo
  <1>1. "supersede" \in Pcs
    BY DEF Pcs
  <1>2. SupersessionResults \in SUBSET (Events \X Events) /\ mapped \in SUBSET Programs
    BY DEF SupersessionResults, Shape
  <1>3. /\ Onward(t, At(t, "supersede")) /\ At(t, "supersede") \in TaskRecords
        /\ At(t, "supersede").at = task[t].at /\ At(t, "supersede").todo = task[t].todo
    BY <1>1, OnwardAt
  <1> QED BY <1>2, <1>3 DEF Superseding, Onward, KeepsPass, TaskRecords

LEMMA SupersedeStep ==
    ASSUME IInv, NEW t \in Tasks, NEW winner \in Events, NEW loser \in Events,
           Supersede(t, winner, loser)
    PROVE  IInv' /\ EndsKept
  <1> DEFINE affected == DevsIn(task[t].map, winner) \cap DevsIn(task[t].map, loser)
             announce == Reachable((affected \ rec[loser].sup) \ rec[loser].rej)
             work == task[t].work \ {<<winner, loser>>}
             r == [At(t, "superseding") EXCEPT !.work = @ \ {<<winner, loser>>},
                                               !.loser = loser, !.devs = affected]
             new == [rec[loser] EXCEPT !.sup = @ \cup affected]
  <1>1. Shape /\ "superseding" \in Pcs
    BY DEF IInv, Pcs
  <1>2. /\ Goto(t, Suspended(r, announce))
        /\ posted' = PostedAfter(loser, "SUPERSEDED", announce)
        /\ now' = now /\ lost' = lost /\ mapped' = mapped /\ stored' = stored
        /\ rec' = [rec EXCEPT ![loser] = new]
    BY DEF Supersede, envVars, controlVars
  <1>3. affected \subseteq Devices
    <2>1. task[t].map \subseteq Programs
      BY <1>1 DEF Shape, TaskRecords
    <2> QED BY <1>1, <2>1, DevsType
  <1>4. RecordsKept
    <2>1. new \in EventRecords /\ new.st = rec[loser].st
      <3> HIDE DEF affected
      <3> QED BY <1>1, <1>3 DEF Shape, EventRecords
    <2> HIDE DEF new
    <2> QED BY <1>1, <1>2, <2>1, Recorded
  <1>5. Onward(t, r)
    <2> HIDE DEF affected
    <2>1. /\ Onward(t, At(t, "superseding")) /\ At(t, "superseding") \in TaskRecords
      BY <1>1, OnwardAt
    <2> QED BY <1>3, <2>1 DEF TaskRecords, Onward, KeepsPass
  <1> HIDE DEF r, announce
  <1>6. TasksKept
    BY <1>1, <1>2, <1>5, OnwardSuspended, Going
  <1>7. PostsTyped
    BY <1>1, <1>2, PostsKept, CodeNames
  <1> QED BY <1>2, <1>4, <1>6, <1>7, Stepping

LEMMA SupersedePostedStep ==
    ASSUME IInv, NEW t \in Tasks, SupersedePosted(t) PROVE IInv' /\ EndsKept
  <1> DEFINE loser == task[t].loser
             group == DevsIn(task[t].map, loser)
             fully == group # {} /\ group \subseteq rec[loser].sup
             pc    == IF fully /\ rec[loser].st = "ACTIVE" THEN "supersedeRevert" ELSE "supersede"
             r     == [At(t, pc) EXCEPT !.devs = {}]
             st    == IF fully THEN "SUPERSEDED" ELSE rec[loser].st
             new   == [rec[loser] EXCEPT !.supm = @ \cup task[t].devs, !.st = st]
  <1>1. Shape /\ pc \in Pcs
    BY DEF IInv, Pcs
  <1>2. loser \in stored /\ loser \in Events
    BY <1>1 DEF SupersedePosted, Shape
  <1>3. /\ CancelTimers(t, r, loser) \/ Goto(t, r)
        /\ now' = now /\ lost' = lost /\ mapped' = mapped /\ stored' = stored /\ posted' = posted
    BY DEF SupersedePosted, envVars, controlVars
  <1>4. rec' = [rec EXCEPT ![loser] = new]
    BY <1>1, <1>2 DEF SupersedePosted, Shape, EventRecords
  <1>5. RecordsKept
    <2>1. st \in {"none"} \cup Live \cup Terminal /\ (rec[loser].st \in Terminal => st \in Terminal)
      BY <1>1, <1>2 DEF Shape, EventRecords, Terminal
    <2>2. rec[loser] \in EventRecords /\ task[t].devs \subseteq Devices
      BY <1>1, <1>2 DEF Shape, TaskRecords
    <2>3. new \in EventRecords /\ new.st = st
      <3> HIDE DEF st
      <3> QED BY <2>1, <2>2 DEF EventRecords
    <2> HIDE DEF new, st
    <2> QED BY <1>1, <1>2, <1>4, <2>1, <2>3, Recorded
  <1>6. Onward(t, r)
    <2> HIDE DEF pc
    <2>1. Onward(t, At(t, pc)) /\ At(t, pc) \in TaskRecords
      BY <1>1, OnwardAt
    <2> QED BY <2>1 DEF TaskRecords, Onward, KeepsPass
  <1> HIDE DEF r
  <1>7. TasksKept
    BY <1>1, <1>3, <1>6, Cancelling, Going
  <1>8. PostsTyped
    BY <1>1, <1>3 DEF Shape, PostsTyped
  <1> QED BY <1>3, <1>5, <1>7, <1>8, Stepping

LEMMA SupersedeDoneStep ==
    ASSUME IInv, NEW t \in Tasks, SupersedeDone(t) PROVE IInv' /\ EndsKept
  <1> DEFINE ret == task[t].ret
             r == [At(t, ret) EXCEPT !.work = {}, !.map = {}, !.loser = NoEvent, !.ret = "idle"]
  <1>1. Shape /\ "idle" \in Pcs
    BY DEF IInv, Pcs
  <1>2. /\ Goto(t, r)
        /\ now' = now /\ lost' = lost /\ mapped' = mapped /\ stored' = stored /\ rec' = rec /\ posted' = posted
    BY DEF SupersedeDone, envVars, controlVars
  <1>3. ret \in Pcs
    BY <1>1 DEF Shape, TaskRecords
  <1>4. Onward(t, At(t, ret)) /\ At(t, ret) \in TaskRecords
    BY <1>1, <1>3, OnwardAt
  <1>5. Onward(t, r)
    BY <1>1, <1>4 DEF TaskRecords, Onward, KeepsPass
  <1> HIDE DEF r
  <1>6. TasksKept /\ PostsTyped
    BY <1>1, <1>2, <1>5, Going DEF Shape, PostsTyped
  <1> QED BY <1>2, <1>6, Moving

LEMMA SharedSteps == ASSUME IInv, NEW t \in Tasks, SharedStep(t) PROVE IInv' /\ EndsKept
  BY ApplyStep, DispatchOkStep, DispatchRejectedStep, DispatchDoneStep, RevertSteps,
     SupersedeStep, SupersedePostedStep, SupersedeDoneStep
     DEF SharedStep

-----------------------------------------------------------------------------
(* The timers, and the task that enters loss-of-communications mode. *)
LEMMA ActivateStep == ASSUME IInv, NEW e \in Events, Activate(e) PROVE IInv' /\ EndsKept
  <1> DEFINE t == Act(e)
             new == [rec[e] EXCEPT !.st = "ACTIVE", !.opted = lost]
  <1>1. Shape /\ "apply" \in Pcs /\ "optOut" \in Pcs
    BY DEF IInv, Pcs
  <1>2. t \in Tasks
    BY TaskSets, TimersDiffer
  <1>3. /\ Goto(t, Superseding(t, "apply")) \/ CancelTimers(t, At(t, "optOut"), e)
        /\ now' = now /\ lost' = lost /\ mapped' = mapped /\ stored' = stored /\ posted' = posted
        /\ rec[e].st = "SCHEDULED" /\ e \in stored
    BY DEF Activate
  <1>4. rec' = [rec EXCEPT ![e] = new]
    BY <1>1 DEF Activate, Shape, EventRecords
  <1>5. RecordsKept
    <2>1. new \in EventRecords
      BY <1>1 DEF Shape, EventRecords, Live
    <2> HIDE DEF new
    <2> QED BY <1>1, <1>3, <1>4, <2>1, Recorded DEF Terminal
  <1> HIDE DEF t
  <1>6. TasksKept
    BY <1>1, <1>2, <1>3, Cancelling, Going, SupersedingRecord, OnwardAt
  <1>7. PostsTyped
    BY <1>1, <1>3 DEF Shape, PostsTyped
  <1> QED BY <1>3, <1>5, <1>6, <1>7, Stepping

LEMMA CompleteStep == ASSUME IInv, NEW e \in Events, Complete(e) PROVE IInv' /\ EndsKept
  <1> DEFINE t == Comp(e)
             new == [rec[e] EXCEPT !.st = "COMPLETED"]
  <1>1. Shape /\ "completed" \in Pcs
    BY DEF IInv, Pcs
  <1>2. t \in Tasks
    BY TaskSets, TimersDiffer
  <1>3. /\ Goto(t, Suspended(At(t, "completed"), StartedAudience(e)))
        /\ now' = now /\ lost' = lost /\ mapped' = mapped /\ stored' = stored
        /\ posted' = PostedAfter(e, "COMPLETED", StartedAudience(e))
        /\ rec[e].st = "ACTIVE" /\ e \in stored
        /\ rec' = [rec EXCEPT ![e] = new]
    BY DEF Complete, envVars, controlVars
  <1>4. RecordsKept
    <2>1. new \in EventRecords
      BY <1>1 DEF Shape, EventRecords, Terminal
    <2> HIDE DEF new
    <2> QED BY <1>1, <1>3, <2>1, Recorded DEF Terminal
  <1> HIDE DEF t
  <1>5. TasksKept
    BY <1>1, <1>2, <1>3, Going, OnwardSuspended, OnwardAt
  <1>6. PostsTyped
    BY <1>1, <1>3, PostsKept, CodeNames
  <1> QED BY <1>3, <1>4, <1>5, <1>6, Stepping

LEMMA TimerSteps == ASSUME IInv, NEW t \in Tasks, TimerStep(t) PROVE IInv' /\ EndsKept
  <1>1. CASE TimerSkips(t)
    <2>1. /\ Goto(t, Idle)
          /\ now' = now /\ lost' = lost /\ mapped' = mapped /\ stored' = stored /\ rec' = rec
          /\ posted' = posted
      BY <1>1 DEF TimerSkips, envVars, controlVars
    <2>2. TasksKept /\ PostsTyped
      BY <2>1, Going, OnwardIdle DEF IInv, Shape, PostsTyped
    <2> QED BY <2>1, <2>2, Moving
  <1> QED BY <1>1, ActivateStep, CompleteStep DEF TimerStep

LEMMA OutageSteps == ASSUME IInv, OutageStep PROVE IInv' /\ EndsKept
  <1>1. Shape /\ Outage \in Tasks /\ "outage" \in Pcs
    BY TaskSets DEF IInv, Pcs
  <1>2. ASSUME NEW e \in Events, OutageReverts(e) PROVE IInv' /\ EndsKept
    <2>1. Onward(Outage, [task[Outage] EXCEPT !.todo = @ \ {e}])
      BY <1>1, OnwardSame DEF Onward, KeepsPass, TaskRecords
    <2> QED BY <1>1, <1>2, <2>1, FallbackStep DEF OutageReverts
  <1>3. CASE OutageReverted
    <2>1. /\ Goto(Outage, Idle)
          /\ now' = now /\ lost' = lost /\ mapped' = mapped /\ stored' = stored /\ rec' = rec
          /\ posted' = posted
      BY <1>3 DEF OutageReverted, envVars, controlVars
    <2>2. TasksKept /\ PostsTyped
      BY <1>1, <2>1, Going, OnwardIdle DEF Shape, PostsTyped
    <2> QED BY <2>1, <2>2, Moving
  <1> QED BY <1>2, <1>3 DEF OutageStep

-----------------------------------------------------------------------------
(* process_controls. *)
LEMMA LookedRecord ==
    ASSUME Shape, NEW t \in Tasks, NEW e \in Events, NEW pc \in Pcs
    PROVE  Onward(t, Looked(t, e, pc))
  <1>1. /\ Onward(t, At(t, pc)) /\ At(t, pc) \in TaskRecords
        /\ At(t, pc).at = task[t].at /\ At(t, pc).todo = task[t].todo
    BY OnwardAt
  <1> QED BY <1>1 DEF Looked, Onward, KeepsPass, TaskRecords

LEMMA CancelStep ==
    ASSUME IInv, NEW t \in Tasks, NEW e \in stored, NEW ret \in Pcs, Cancel(t, e, ret)
    PROVE  IInv' /\ EndsKept
  <1> DEFINE pc  == IF rec[e].st = "ACTIVE" THEN "unwind" ELSE ret
             r   == [At(t, pc) EXCEPT !.todo = @ \ {e}, !.ev = e, !.ret = ret]
             new == [rec[e] EXCEPT !.st = "CANCELLED"]
  <1>1. Shape /\ pc \in Pcs /\ e \in Events
    BY DEF IInv, Pcs, Shape
  <1>2. /\ CancelTimers(t, Suspended(r, StartedAudience(e)), e)
        /\ now' = now /\ lost' = lost /\ mapped' = mapped /\ stored' = stored
        /\ posted' = PostedAfter(e, "CANCELLED", StartedAudience(e))
        /\ rec' = [rec EXCEPT ![e] = new]
    BY DEF Cancel, envVars, controlVars
  <1>3. RecordsKept
    <2>1. new \in EventRecords /\ new.st \in Terminal
      BY <1>1 DEF Shape, EventRecords, Terminal
    <2> HIDE DEF new
    <2> QED BY <1>1, <1>2, <2>1, Recorded
  <1>4. Onward(t, r)
    <2> HIDE DEF pc
    <2>1. /\ Onward(t, At(t, pc)) /\ At(t, pc) \in TaskRecords
          /\ At(t, pc).at = task[t].at /\ At(t, pc).todo = task[t].todo
      BY <1>1, OnwardAt
    <2> QED BY <1>1, <2>1 DEF Onward, KeepsPass, TaskRecords
  <1> HIDE DEF r
  <1>5. TasksKept
    BY <1>1, <1>2, <1>4, Cancelling, OnwardSuspended
  <1>6. PostsTyped
    BY <1>1, <1>2, PostsKept, CodeNames
  <1> QED BY <1>2, <1>3, <1>5, <1>6, Stepping

LEMMA SeeKnownStep ==
    ASSUME IInv, NEW t \in Tasks, NEW e \in Events, SeeKnown(t, e) PROVE IInv' /\ EndsKept
  <1>1. Shape /\ "loop" \in Pcs
    BY DEF IInv, Pcs
  <1>2. CASE Cancel(t, e, "loop")
    BY <1>1, <1>2, CancelStep DEF SeeKnown
  <1>3. CASE ~Cancel(t, e, "loop")
    <2>1. /\ Goto(t, Looked(t, e, "loop"))
          /\ now' = now /\ lost' = lost /\ mapped' = mapped /\ stored' = stored /\ rec' = rec
          /\ posted' = posted
      BY <1>3 DEF SeeKnown, envVars, controlVars
    <2>2. TasksKept /\ PostsTyped
      BY <1>1, <2>1, Going, LookedRecord DEF Shape, PostsTyped
    <2> QED BY <2>1, <2>2, Moving
  <1> QED BY <1>2, <1>3

LEMMA SeeUnstoredStep ==
    ASSUME IInv, NEW t \in Tasks, NEW e \in Events, SeeUnstored(t, e) PROVE IInv' /\ EndsKept
  <1> DEFINE D == IF posted' = posted THEN {} ELSE Audience(e, {})
  <1>1. Shape /\ "loop" \in Pcs
    BY DEF IInv, Pcs
  <1>2. /\ Goto(t, Suspended(Looked(t, e, "loop"), D))
        /\ now' = now /\ lost' = lost /\ mapped' = mapped /\ stored' = stored /\ rec' = rec
        /\ posted' = posted \/ posted' = PostedAfter(e, "EXPIRED", Audience(e, {}))
    BY DEF SeeUnstored, envVars, controlVars
  <1> HIDE DEF D
  <1>3. TasksKept
    BY <1>1, <1>2, Going, LookedRecord, OnwardSuspended
  <1>4. PostsTyped
    BY <1>1, <1>2, PostsKept, CodeNames
  <1> QED BY <1>2, <1>3, <1>4, Moving

(* An event the store has forgotten is over for the passes still to see it. *)
LEMMA TakenOnce ==
    ASSUME IInv, NEW t \in PassTasks, NEW e \in Events, IsTaken(t, e)
    PROVE  rec[e].st = "none"
  <1>1. task[t].at \in Nat /\ End(e) \in Nat
    BY TaskSets, EndType DEF IInv, Shape, TaskRecords
  <1> QED BY <1>1 DEF IInv, Forgotten, IsTaken, IsNew, InLoop

(* A step that stores e. *)
LEMMA Storing ==
    ASSUME IInv, NEW e \in Events, NEW r \in EventRecords, rec' = [rec EXCEPT ![e] = r],
           rec[e].st = "none", stored' = stored \cup {e}, TasksKept, PostsTyped,
           now' = now, lost' = lost, mapped' = mapped
    PROVE  IInv' /\ EndsKept
  <1>1. rec \in [Events -> EventRecords] /\ stored \subseteq Events
    BY DEF IInv, Shape
  <1>2. rec' \in [Events -> EventRecords] /\ \A x \in Events : x # e => rec'[x] = rec[x]
    BY <1>1
  <1>3. Shape'
    BY <1>1, <1>2 DEF IInv, Shape, TasksKept, PostsTyped
  <1>4. EndsKept
    BY <1>2 DEF EndsKept, Terminal
  <1>5. now' >= now /\ stored \subseteq stored'
    BY DEF IInv, Shape
  <1>6. \A x \in Events : x \notin stored' /\ rec'[x].st # "none" => rec[x].st # "none"
    BY <1>2
  <1> QED BY <1>3, <1>4, <1>5, <1>6, Framed DEF TasksKept

LEMMA SeePreCancelledStep ==
    ASSUME IInv, NEW t \in PassTasks, NEW e \in Events, SeePreCancelled(t, e)
    PROVE  IInv' /\ EndsKept
  <1>1. Shape /\ "loop" \in Pcs /\ t \in Tasks
    BY TaskSets DEF IInv, Pcs
  <1>2. /\ Goto(t, Suspended(Looked(t, e, "loop"), Audience(e, {})))
        /\ now' = now /\ lost' = lost /\ mapped' = mapped /\ stored' = stored \cup {e}
        /\ rec' = [rec EXCEPT ![e] = Fresh("CANCELLED")]
        /\ posted' = PostedAfter(e, "CANCELLED", Audience(e, {}))
    BY DEF SeePreCancelled, envVars, controlVars
  <1>3. TasksKept
    BY <1>1, <1>2, Going, LookedRecord, OnwardSuspended
  <1>4. PostsTyped
    BY <1>1, <1>2, PostsKept, CodeNames
  <1>5. Fresh("CANCELLED") \in EventRecords
    BY DEF Fresh, EventRecords, Terminal
  <1>6. rec[e].st = "none"
    BY TakenOnce DEF SeePreCancelled
  <1> QED BY <1>2, <1>3, <1>4, <1>5, <1>6, Storing

LEMMA SeeNewStep ==
    ASSUME IInv, NEW t \in PassTasks, NEW e \in Events, SeeNew(t, e) PROVE IInv' /\ EndsKept
  <1> DEFINE running == task[t].at >= Start[e]
             st  == IF running THEN "ACTIVE" ELSE "SCHEDULED"
             opt == running /\ lost
             new == [Fresh(st) EXCEPT !.opted = opt]
             pc  == IF running THEN "ackLate" ELSE "ackScheduled"
  <1>1. Shape /\ pc \in Pcs /\ "optOut" \in Pcs /\ t \in Tasks
    BY TaskSets DEF IInv, Pcs
  <1>2. /\ now' = now /\ lost' = lost /\ mapped' = mapped /\ stored' = stored \cup {e}
        /\ rec' = [rec EXCEPT ![e] = new]
    BY DEF SeeNew
  <1>3. \/ /\ Goto(t, Suspended(Looked(t, e, pc), Audience(e, {})))
           /\ posted' = PostedAfter(e, "ACKNOWLEDGED", Audience(e, {}))
        \/ CancelTimers(t, Looked(t, e, "optOut"), e) /\ posted' = posted
    BY DEF SeeNew
  <1>4. new \in EventRecords
    <2>1. st \in Live
      BY DEF Live
    <2>2. opt \in BOOLEAN
      BY Zenon
    <2> HIDE DEF st, opt
    <2> QED BY <2>1, <2>2 DEF Fresh, EventRecords
  <1> HIDE DEF pc, new
  <1>5. TasksKept
    BY <1>1, <1>3, Going, Cancelling, LookedRecord, OnwardSuspended
  <1>6. PostsTyped
    BY <1>1, <1>3, PostsKept, CodeNames
  <1>7. rec[e].st = "none"
    BY TakenOnce DEF SeeNew
  <1> QED BY <1>2, <1>4, <1>5, <1>6, <1>7, Storing

LEMMA ScheduleActivationStep ==
    ASSUME IInv, NEW t \in Tasks, ScheduleActivation(t) PROVE IInv' /\ EndsKept
  <1> DEFINE e == task[t].ev
             timer == [Idle EXCEPT !.pc = "timer", !.ev = e, !.at = Start[e]]
  <1>1. Shape /\ "loop" \in Pcs
    BY DEF IInv, Pcs
  <1>2. /\ task' = [task EXCEPT ![t] = At(t, "loop"), ![Act(e)] = timer]
        /\ now' = now /\ lost' = lost /\ mapped' = mapped /\ stored' = stored /\ rec' = rec
        /\ posted' = posted
    BY DEF ScheduleActivation, envVars, controlVars
  <1>3. Onward(t, At(t, "loop"))
    BY <1>1, OnwardAt
  <1>4. Act(e) \notin PassTasks /\ (Act(e) \in Tasks => timer \in TaskRecords)
    <2>1. Act(e) \in Tasks => e \in Events /\ Start[e] \in Nat
      BY TimerTask, ConstantsAssumption
    <2> QED BY <2>1, TaskSets, TimersDiffer, TimerRecord
  <1> HIDE DEF timer
  <1>5. TasksKept
    BY <1>1, <1>2, <1>3, <1>4, Timing
  <1>6. PostsTyped
    BY <1>1, <1>2 DEF Shape, PostsTyped
  <1> QED BY <1>2, <1>5, <1>6, Moving

LEMMA UnwindStep == ASSUME IInv, NEW t \in Tasks, Unwind(t) PROVE IInv' /\ EndsKept
  <1> DEFINE e == task[t].ev
             ret == task[t].ret
             timer == [Idle EXCEPT !.pc = "timer", !.ev = e, !.at = now + WindDown[e]]
  <1>1. Shape /\ ret \in Pcs
    BY DEF IInv, Shape, TaskRecords
  <1>2. CASE WindDown[e] # 0
    <2>1. /\ task' = [task EXCEPT ![t] = At(t, ret), ![Wind(e)] = timer]
          /\ now' = now /\ lost' = lost /\ mapped' = mapped /\ stored' = stored /\ rec' = rec
          /\ posted' = posted
      BY <1>2 DEF Unwind, envVars, controlVars
    <2>2. Onward(t, At(t, ret))
      BY <1>1, OnwardAt
    <2>3. Wind(e) \notin PassTasks /\ (Wind(e) \in Tasks => timer \in TaskRecords)
      <3>1. Wind(e) \in Tasks => e \in Events /\ now + WindDown[e] \in Nat
        BY <1>1, TimerTask, ConstantsAssumption DEF Shape
      <3> QED BY <3>1, TaskSets, TimersDiffer, TimerRecord
    <2> HIDE DEF timer
    <2>4. TasksKept
      BY <1>1, <2>1, <2>2, <2>3, Timing
    <2>5. PostsTyped
      BY <1>1, <2>1 DEF Shape, PostsTyped
    <2> QED BY <2>1, <2>4, <2>5, Moving
  <1>3. CASE WindDown[e] = 0
    <2>2. ~(WindDown[e] > 0)
      BY <1>3
    <2>1. Fallback(t, task[t], e, FALSE, ret)
      BY <2>2, Zenon DEF Unwind
    <2> QED BY <1>1, <2>1, OnwardSame, FallbackStep
  <1> QED BY <1>2, <1>3

LEMMA CancelRemovedStep ==
    ASSUME IInv, NEW t \in Tasks, NEW e \in Events, CancelRemoved(t, e) PROVE IInv' /\ EndsKept
  <1>1. Shape /\ "removed" \in Pcs
    BY DEF IInv, Pcs
  <1>2. CASE e \in stored
    BY <1>1, <1>2, CancelStep DEF CancelRemoved
  <1>3. CASE e \notin stored
    <2>1. /\ Goto(t, Idle)
          /\ now' = now /\ lost' = lost /\ mapped' = mapped /\ stored' = stored /\ rec' = rec
          /\ posted' = posted
      BY <1>3 DEF CancelRemoved, envVars, controlVars
    <2>2. TasksKept /\ PostsTyped
      BY <1>1, <2>1, Going, OnwardIdle DEF Shape, PostsTyped
    <2> QED BY <2>1, <2>2, Moving
  <1> QED BY <1>2, <1>3

LEMMA PassMoves ==
    ASSUME IInv, NEW t \in Tasks, LateDiscovery(t) \/ FindRemoved(t) \/ SupersedeAll(t)
    PROVE  IInv' /\ EndsKept
  <1>1. Shape /\ {"apply", "removed", "prune"} \subseteq Pcs
    BY DEF IInv, Pcs
  <1>2. /\ now' = now /\ lost' = lost /\ mapped' = mapped /\ stored' = stored /\ rec' = rec
        /\ posted' = posted
    BY DEF LateDiscovery, FindRemoved, SupersedeAll, envVars, controlVars
  <1>3. TasksKept
    <2>1. CASE LateDiscovery(t)
      BY <1>1, <2>1, Going, SupersedingRecord DEF LateDiscovery
    <2>2. CASE FindRemoved(t)
      <3> DEFINE g == task[t].prog
                 S == {e \in stored : /\ complete[g] /\ Prog[e] = g /\ rec[e].st \in Live
                                      /\ served[e] \notin {"listed", "cancelled"}
                                      /\ task[t].at < End(e)}
                 r == [At(t, "removed") EXCEPT !.ev = NoEvent, !.cx = {}, !.todo = S]
      <3>1. Goto(t, r)
        BY <2>2 DEF FindRemoved
      <3>2. S \subseteq stored /\ S \subseteq Events
        BY <1>1 DEF Shape
      <3> HIDE DEF S
      <3>3. /\ At(t, "removed") \in TaskRecords /\ At(t, "removed").at = task[t].at
        BY <1>1, OnwardAt
      <3>4. Onward(t, r)
        BY <3>2, <3>3 DEF Onward, KeepsPass, TaskRecords
      <3> HIDE DEF r
      <3> QED BY <1>1, <3>1, <3>4, Going
    <2>3. CASE SupersedeAll(t)
      <3> DEFINE r == [Superseding(t, "prune") EXCEPT !.ev = NoEvent]
      <3>1. Goto(t, r)
        BY <2>3 DEF SupersedeAll
      <3>2. /\ Onward(t, Superseding(t, "prune")) /\ Superseding(t, "prune") \in TaskRecords
            /\ Superseding(t, "prune").at = task[t].at
            /\ Superseding(t, "prune").todo = task[t].todo
        BY <1>1, SupersedingRecord
      <3>3. Onward(t, r)
        BY <3>2 DEF Onward, KeepsPass, TaskRecords
      <3> HIDE DEF r
      <3> QED BY <1>1, <3>1, <3>3, Going
    <2> QED BY <2>1, <2>2, <2>3
  <1>4. PostsTyped
    BY <1>1, <1>2 DEF Shape, PostsTyped
  <1> QED BY <1>2, <1>3, <1>4, Moving

(* The pruning keeps what a pass no older than the grace may still meet. *)
LEMMA PruneStep ==
    ASSUME IInv, ShortPasses, NEW u \in PassTasks, PruneAndDefault(u) PROVE IInv' /\ EndsKept
  <1> DEFINE g       == task[u].prog
             kept    == Kept(task[u].at)
             active  == {e \in kept : rec[e].st = "ACTIVE" /\ ~rec[e].opted}
             running == {d \in Devices : \E e \in active :
                            d \in Devs(e) /\ d \notin rec[e].sup /\ d \notin rec[e].rej}
             winding == \E e \in kept \cap pend : Prog[e] = g /\ rec[e].st = "CANCELLED"
             idle    == {d \in Devices \ running : g \in DefaultsFor(d) /\ ShouldApplyInitial(g, d)}
             held    == \E d \in idle, e \in active : d \in Devs(e) /\ e \in modes[d]
             targets == IF ~winding /\ ~held THEN idle ELSE {}
             defs    == {g} \X targets
             r       == [Idle EXCEPT !.pc = "reverting", !.devs = targets, !.defs = defs]
  <1>1. Shape /\ "reverting" \in Pcs /\ u \in Tasks /\ "idle" \in Pcs
    BY TaskSets DEF IInv, Pcs
  <1>2. /\ Goto(u, Suspended(r, targets)) /\ stored' = kept /\ task[u].pc = "prune"
        /\ now' = now /\ lost' = lost /\ mapped' = mapped /\ rec' = rec /\ posted' = posted
    BY DEF PruneAndDefault, envVars, controlVars
  <1>3. targets \in SUBSET Devices /\ defs \in SUBSET (Programs \X Devices)
    <2>1. targets \subseteq idle
      OBVIOUS
    <2>2. idle \subseteq Devices /\ \A d \in idle : g \in Programs
      BY <1>1 DEF DefaultsFor, Shape
    <2> HIDE DEF targets, idle, g
    <2> QED BY <2>1, <2>2
  <1>4. Onward(u, r)
    <2> HIDE DEF targets, defs
    <2> QED BY <1>1, <1>3, IdleRecord DEF Onward, KeepsPass, TaskRecords
  <1> HIDE DEF r, targets
  <1>5. TasksKept
    BY <1>1, <1>2, <1>4, OnwardSuspended, Going
  <1>6. kept \subseteq stored /\ \A e \in stored : e \notin kept => ~(End(e) + StoreGrace >= task[u].at)
    BY DEF Kept
  <1> HIDE DEF kept
  <1>7. Shape'
    BY <1>1, <1>2, <1>5, <1>6 DEF Shape, TasksKept
  <1>8. \A t \in PassTasks : task[t].at \in Nat /\ task[t].at <= now
    BY <1>1, TaskSets DEF Shape, TaskRecords, IInv, PassClock
  <1>9. PassClock'
    <2> SUFFICES ASSUME NEW t \in PassTasks PROVE task'[t].at <= now'
      BY DEF PassClock
    <2>1. task'[t].at = task[t].at \/ task'[t].at = 0
      BY <1>5 DEF TasksKept, KeepsPass
    <2>2. now \in Nat
      BY <1>1 DEF Shape
    <2> QED BY <1>2, <1>8, <2>1, <2>2
  <1>10. \A t \in PassTasks : \/ task'[t] = task[t] /\ t # u
                              \/ task'[t].todo = {}
    <2>1. Suspended(r, targets).todo = {}
      <3>1. r \in TaskRecords /\ r.todo = {}
        BY <1>4, IdleRecord DEF Onward, r, TaskRecords
      <3> QED BY <3>1, SuspendedRecord
    <2> QED BY <1>1, <1>2, <2>1 DEF Goto, Shape
  <1>11. Forgotten'
    <2> SUFFICES ASSUME NEW e \in Events, e \notin kept, rec[e].st # "none"
                 PROVE  /\ End(e) < now
                        /\ \A t \in PassTasks : e \in task'[t].todo => End(e) < task'[t].at
      BY <1>2 DEF Forgotten
    <2>1. End(e) \in Nat /\ StoreGrace \in Nat /\ now \in Nat
      BY <1>1, EndType, ConstantsAssumption DEF Shape
    <2>2. CASE e \notin stored
      BY <1>10, <2>2 DEF IInv, Forgotten
    <2>3. CASE e \in stored
      <3>1. End(e) + StoreGrace < task[u].at
        BY <1>6, <1>8, <2>1, <2>3
      <3>2. End(e) < now
        BY <1>8, <2>1, <3>1
      <3>3. ASSUME NEW t \in PassTasks, e \in task'[t].todo PROVE End(e) < task'[t].at
        <4>1. task'[t] = task[t] /\ t # u
          BY <1>10, <3>3
        <4>2. task[u].at <= task[t].at + StoreGrace
          BY <1>2, <3>3, <4>1 DEF ShortPasses
        <4> QED BY <1>8, <2>1, <3>1, <4>1, <4>2
      <3> QED BY <3>2, <3>3
    <2> QED BY <2>2, <2>3
  <1> QED BY <1>2, <1>7, <1>9, <1>11 DEF IInv, EndsKept

LEMMA PassSteps ==
    ASSUME IInv, ShortPasses, NEW t \in PassTasks, PassStep(t) PROVE IInv' /\ EndsKept
  <1>1. t \in Tasks
    BY TaskSets
  <1> QED BY <1>1, SeeKnownStep, SeeUnstoredStep, SeePreCancelledStep, SeeNewStep,
             CancelRemovedStep, ScheduleActivationStep, PassMoves, PruneStep, UnwindStep
             DEF PassStep

-----------------------------------------------------------------------------
(* What happens between the steps of the tasks. *)

(* A step that changes none of the records. *)
LEMMA Outside ==
    ASSUME IInv, TasksKept, rec' = rec, stored' = stored, posted' = posted,
           now' \in Nat, now' >= now, lost' \in BOOLEAN, mapped' \subseteq Programs
    PROVE  IInv' /\ EndsKept
  <1>1. Shape'
    BY DEF IInv, Shape, TasksKept
  <1>2. stored \subseteq stored'
    OBVIOUS
  <1>3. \A e \in Events : e \notin stored' /\ rec'[e].st # "none" => rec[e].st # "none"
    OBVIOUS
  <1>4. EndsKept
    BY DEF EndsKept
  <1> QED BY <1>1, <1>2, <1>3, <1>4, Framed DEF TasksKept

(* A step that leaves the tasks, or ends some of them. *)
LEMMA Ending ==
    ASSUME Shape, NEW S, task' = [t \in Tasks |-> IF t \in S THEN Idle ELSE task[t]]
    PROVE  TasksKept
  <1>1. task \in [Tasks -> TaskRecords] /\ Idle \in TaskRecords
    BY IdleRecord DEF Shape
  <1>2. task' \in [Tasks -> TaskRecords]
    BY <1>1
  <1>3. \A u \in PassTasks : task'[u] = Idle \/ task'[u] = task[u]
    BY TaskSets
  <1> QED BY <1>2, <1>3, IdleRecord DEF TasksKept, KeepsPass

LEMMA Staying == ASSUME Shape, task' = task PROVE TasksKept
  BY DEF Shape, TasksKept, KeepsPass

LEMMA StartPassStep ==
    ASSUME IInv, NEW t \in PassTasks, NEW g \in Programs, NEW ok, StartPass(t, g, ok)
    PROVE  IInv' /\ EndsKept
  <1> DEFINE list == {e \in Events : Prog[e] = g /\ served'[e] \in {"listed", "cancelled"}}
             todo == IF ok THEN list ELSE {}
             cx   == {e \in list : ok /\ served'[e] = "cancelled"}
             r    == [Idle EXCEPT !.pc = "loop", !.run = TRUE, !.prog = g, !.at = now,
                                  !.todo = todo, !.cx = cx]
  <1>1. Shape /\ "loop" \in Pcs /\ t \in Tasks
    BY TaskSets DEF IInv, Pcs
  <1>2. /\ Goto(t, r)
        /\ now' = now /\ lost' = lost /\ mapped' = mapped /\ stored' = stored /\ rec' = rec
        /\ posted' = posted
    BY DEF StartPass
  <1>3. todo \in SUBSET Events /\ cx \in SUBSET Events
    OBVIOUS
  <1>4. r \in TaskRecords /\ r.at = now
    <2> HIDE DEF todo, cx
    <2>1. now \in Nat
      BY <1>1 DEF Shape
    <2> QED BY <1>1, <1>3, <2>1, IdleRecord DEF TaskRecords
  <1> HIDE DEF r
  <1>5. /\ task' \in [Tasks -> TaskRecords]
        /\ \A u \in PassTasks : task'[u] = IF u = t THEN r ELSE task[u]
    BY <1>1, <1>2, <1>4, TaskSets DEF Goto, Shape
  <1>6. Shape'
    BY <1>1, <1>2, <1>5 DEF Shape
  <1>7. PassClock'
    <2>1. now <= now
      BY <1>1 DEF Shape
    <2> QED BY <1>2, <1>4, <1>5, <2>1 DEF IInv, PassClock
  <1>8. Forgotten'
    BY <1>2, <1>4, <1>5 DEF IInv, Forgotten
  <1> QED BY <1>2, <1>6, <1>7, <1>8 DEF IInv, EndsKept

LEMMA CancelProgramStep ==
    ASSUME IInv, NEW g \in Programs, CancelProgram(g) PROVE IInv' /\ EndsKept
  <1> DEFINE gone == {e \in stored : Prog[e] = g /\ rec[e].st \in Live}
             S == {t \in Tasks : \E e \in gone \cap pend : t \in TimersOf(e)}
  <1>1. Shape
    BY DEF IInv
  <1>2. /\ now' = now /\ lost' = lost /\ mapped' = mapped \ {g} /\ stored' = stored
        /\ posted' = posted
        /\ rec' = [e \in Events |-> IF e \in gone THEN [rec[e] EXCEPT !.st = "CANCELLED"] ELSE rec[e]]
    BY DEF CancelProgram
  <1>3. task' = [t \in Tasks |-> IF t \in S THEN Idle ELSE task[t]]
    BY DEF CancelProgram
  <1>4. gone \subseteq stored
    OBVIOUS
  <1> HIDE DEF gone, S
  <1>5. TasksKept
    BY <1>1, <1>3, Ending
  <1>6. RecordsKept
    <2>1. \A e \in Events : rec[e] \in EventRecords
      BY <1>1 DEF Shape
    <2>2. \A e \in Events : /\ [rec[e] EXCEPT !.st = "CANCELLED"] \in EventRecords
                            /\ [rec[e] EXCEPT !.st = "CANCELLED"].st \in Terminal
      BY <2>1 DEF EventRecords, Terminal
    <2>3. rec' \in [Events -> EventRecords]
      BY <1>2, <2>1, <2>2
    <2>4. \A e \in Events : e \notin gone => rec'[e] = rec[e]
      BY <1>2
    <2>5. \A e \in Events : e \in gone => e \in stored /\ rec'[e].st \in Terminal
      <3> HIDE DEF Terminal
      <3> QED BY <1>2, <1>4, <2>2
    <2> QED BY <2>3, <2>4, <2>5 DEF RecordsKept
  <1>7. Shape'
    BY <1>1, <1>2, <1>5, <1>6 DEF Shape, TasksKept, RecordsKept
  <1>8. now' >= now /\ stored \subseteq stored'
    BY <1>1, <1>2 DEF Shape
  <1>9. \A e \in Events : e \notin stored' /\ rec'[e].st # "none" => rec[e].st # "none"
    BY <1>2, <1>6 DEF RecordsKept
  <1>10. EndsKept
    BY <1>6 DEF EndsKept, RecordsKept
  <1> QED BY <1>5, <1>7, <1>8, <1>9, <1>10, Framed DEF TasksKept

LEMMA EnterCommsLossStep == ASSUME IInv, EnterCommsLoss PROVE IInv' /\ EndsKept
  <1> DEFINE active == ActiveEvents
             S == {t \in Tasks : \E e \in active \cap pend : t \in TimersOf(e)}
             r == [Idle EXCEPT !.pc = "outage", !.run = TRUE, !.todo = active]
  <1>1. Shape /\ "outage" \in Pcs
    BY DEF IInv, Pcs
  <1>2. /\ now' = now /\ lost' = TRUE /\ mapped' = mapped /\ stored' = stored /\ posted' = posted
        /\ rec' = [e \in Events |-> IF e \in active THEN [rec[e] EXCEPT !.opted = TRUE] ELSE rec[e]]
        /\ task' = [t \in Tasks |-> IF t = Outage THEN r ELSE IF t \in S THEN Idle ELSE task[t]]
    BY DEF EnterCommsLoss
  <1>3. active \in SUBSET Events
    BY <1>1 DEF ActiveEvents, Shape
  <1>4. r \in TaskRecords
    <2> HIDE DEF active
    <2> QED BY <1>1, <1>3, IdleRecord DEF TaskRecords
  <1> HIDE DEF active, S, r
  <1>5. TasksKept
    <2>1. task \in [Tasks -> TaskRecords] /\ Idle \in TaskRecords
      BY <1>1, IdleRecord DEF Shape
    <2>2. task' \in [Tasks -> TaskRecords]
      BY <1>2, <1>4, <2>1
    <2>3. \A u \in PassTasks : task'[u] = Idle \/ task'[u] = task[u]
      BY <1>2, TaskSets
    <2> QED BY <2>2, <2>3, IdleRecord DEF TasksKept, KeepsPass
  <1>6. /\ rec' \in [Events -> EventRecords]
        /\ \A e \in Events : rec'[e].st = rec[e].st
    <2>1. \A e \in Events : rec[e] \in EventRecords
      BY <1>1 DEF Shape
    <2>2. \A e \in Events : /\ [rec[e] EXCEPT !.opted = TRUE] \in EventRecords
                            /\ [rec[e] EXCEPT !.opted = TRUE].st = rec[e].st
      BY <2>1 DEF EventRecords
    <2>3. \A e \in Events : rec'[e] = IF e \in active THEN [rec[e] EXCEPT !.opted = TRUE] ELSE rec[e]
      BY <1>2
    <2>4. \A e \in Events : rec'[e] \in EventRecords /\ rec'[e].st = rec[e].st
      BY <2>1, <2>2, <2>3
    <2>5. rec' = [e \in Events |-> rec'[e]]
      BY <1>2
    <2> QED BY <2>4, <2>5
  <1>7. Shape'
    BY <1>1, <1>2, <1>5, <1>6 DEF Shape, TasksKept
  <1>8. now' >= now /\ stored \subseteq stored'
    BY <1>1, <1>2 DEF Shape
  <1>9. \A e \in Events : e \notin stored' /\ rec'[e].st # "none" => rec[e].st # "none"
    BY <1>6
  <1>10. EndsKept
    BY <1>6 DEF EndsKept
  <1> QED BY <1>5, <1>7, <1>8, <1>9, <1>10, Framed DEF TasksKept

LEMMA RediscoverySteps ==
    ASSUME IInv, BeginRediscovery \/ (\E ok \in BOOLEAN : EndRediscovery(ok)) \/ BeginRecovery
    PROVE  IInv' /\ EndsKept
  <1>1. Shape /\ Outage \in Tasks /\ Outage \notin PassTasks
        /\ {"recovering", "recovered", "idle"} \subseteq Pcs
    BY TaskSets DEF IInv, Pcs
  <1>2. /\ now' = now /\ lost' = lost /\ stored' = stored /\ rec' = rec /\ posted' = posted
        /\ mapped' \subseteq Programs
    BY DEF BeginRediscovery, EndRediscovery, BeginRecovery, ClearState
  <1> DEFINE polls == [t \in Tasks |-> IF t \in {"pass"} \X PollTasks THEN Idle ELSE task[t]]
  <1>3. task \in [Tasks -> TaskRecords] /\ polls \in [Tasks -> TaskRecords]
        /\ \A u \in PassTasks : polls[u] = Idle \/ polls[u] = task[u]
    BY <1>1, IdleRecord, TaskSets DEF Shape
  <1>4. TasksKept
    <2>1. CASE BeginRediscovery
      <3>1. task' = polls
        BY <2>1 DEF BeginRediscovery, PollsCancelled
      <3> HIDE DEF polls
      <3> QED BY <1>3, <3>1, IdleRecord DEF TasksKept, KeepsPass
    <2>2. CASE BeginRecovery
      <3> DEFINE r == [Idle EXCEPT !.pc = "recovering"]
      <3>1. task' = [polls EXCEPT ![Outage] = r]
        BY <2>2 DEF BeginRecovery, PollsCancelled
      <3>2. r \in TaskRecords
        BY <1>1, IdleRecord DEF TaskRecords
      <3> HIDE DEF polls, r
      <3>3. /\ task' \in [Tasks -> TaskRecords]
            /\ \A u \in PassTasks : task'[u] = polls[u]
        BY <1>1, <1>3, <3>1, <3>2, TaskSets
      <3> QED BY <1>3, <3>3, IdleRecord DEF TasksKept, KeepsPass
    <2>3. ASSUME NEW ok \in BOOLEAN, EndRediscovery(ok) PROVE TasksKept
      <3> DEFINE pc == IF task[Outage].pc = "recovering" THEN IF ok THEN "recovered" ELSE "idle"
                       ELSE task[Outage].pc
                 r == [task[Outage] EXCEPT !.pc = pc]
      <3>1. task' = [task EXCEPT ![Outage] = r]
        BY <2>3 DEF EndRediscovery
      <3>2. pc \in Pcs
        BY <1>1, <1>3 DEF TaskRecords
      <3>3. r \in TaskRecords
        <4> HIDE DEF pc
        <4> QED BY <1>1, <1>3, <3>2 DEF TaskRecords
      <3> HIDE DEF r
      <3>4. /\ task' \in [Tasks -> TaskRecords]
            /\ \A u \in PassTasks : task'[u] = task[u]
        BY <1>1, <1>3, <3>1, <3>3, TaskSets
      <3> QED BY <3>4 DEF TasksKept, KeepsPass
    <2> QED BY <2>1, <2>2, <2>3
  <1>5. now' \in Nat /\ now' >= now /\ lost' \in BOOLEAN
    BY <1>1, <1>2 DEF Shape
  <1> QED BY <1>2, <1>4, <1>5, Outside

LEMMA OtherSteps ==
    ASSUME IInv, (\E d \in Devices : WriteLands(d)) \/ LeaveCommsLoss \/ DropBoundary \/ Tick
    PROVE  IInv' /\ EndsKept
  <1>1. Shape /\ Outage \in Tasks
    BY TaskSets DEF IInv
  <1>2. /\ mapped' = mapped /\ stored' = stored /\ rec' = rec /\ posted' = posted
        /\ now' = now \/ now' = now + 1
        /\ lost' = lost \/ lost' = FALSE
        /\ task' = task \/ Goto(Outage, Idle)
    BY DEF WriteLands, LeaveCommsLoss, DropBoundary, Tick, controlVars
  <1>3. TasksKept
    BY <1>1, <1>2, Staying, Going, OnwardIdle
  <1>4. now' \in Nat /\ now' >= now /\ mapped' \subseteq Programs
    BY <1>1, <1>2 DEF Shape
  <1>5. lost' \in BOOLEAN
    BY <1>1, <1>2 DEF Shape
  <1> QED BY <1>2, <1>3, <1>4, <1>5, Outside

LEMMA Steps == ASSUME IInv, ShortPasses, [Next]_vars PROVE IInv' /\ EndsKept
  <1>1. CASE UNCHANGED vars
    <2>1. TasksKept /\ PostsTyped
      BY <1>1, Staying DEF vars, IInv, Shape, PostsTyped
    <2> QED BY <1>1, <2>1, Moving DEF vars
  <1>2. ASSUME NEW t \in Tasks, TaskStep(t) PROVE IInv' /\ EndsKept
    BY <1>2, PassSteps, TimerSteps, OutageSteps, SharedSteps DEF TaskStep
  <1>3. CASE Environment
    BY <1>3, StartPassStep, CancelProgramStep, EnterCommsLossStep, RediscoverySteps, OtherSteps
       DEF Environment
  <1> QED BY <1>1, <1>2, <1>3 DEF Next

LEMMA InitIInv == ASSUME Init PROVE IInv
  <1>1. task \in [Tasks -> TaskRecords] /\ \A t \in Tasks : task[t] = Idle
    BY IdleRecord DEF Init
  <1>2. rec \in [Events -> EventRecords] /\ \A e \in Events : rec[e].st = "none"
    BY DEF Init, Fresh, EventRecords
  <1>3. posted \in [Events -> [Devices -> Seq(Codes)]]
    BY DEF Init
  <1>4. Shape
    BY <1>1, <1>2, <1>3 DEF Shape, Init
  <1>5. PassClock
    BY <1>1, IdleRecord, TaskSets DEF PassClock, Init
  <1>6. Forgotten
    BY <1>2 DEF Forgotten
  <1> QED BY <1>4, <1>5, <1>6 DEF IInv

(* process_controls and prune_expired: an event that ended is not taken on *)
(* again, also when the store has dropped it and a list still serves it,   *)
(* as long as no pass outlives another by more than the grace with events  *)
(* still to look at.                                                       *)
THEOREM EndedNotTakenAgain == Spec /\ []ShortPasses => EndedStaysEnded
  <1>1. IInv /\ ShortPasses /\ [Next]_vars => IInv'
    BY Steps
  <1>2. IInv /\ ShortPasses /\ [Next]_vars =>
          [\A e \in Events : rec[e].st \in Terminal => rec'[e].st \notin Live]_vars
    BY Steps DEF EndsKept, Terminal, Live
  <1> QED BY <1>1, <1>2, InitIInv, PTL DEF Spec, EndedStaysEnded

(* Where one task runs process_controls, no pass is outlived by another. *)
THEOREM EndedNotTakenAgainByOne ==
    ASSUME \A t, u \in PassTasks : t = u
    PROVE  Spec => EndedStaysEnded
  <1>1. ShortPasses
    BY DEF ShortPasses
  <1> QED BY <1>1, EndedNotTakenAgain, PTL

-----------------------------------------------------------------------------
(* The responses that close an event.                                      *)

(* What PostedAfter adds, and that it adds nothing else. *)
Adds(x, code, D) ==
    \A e \in Events, d \in Devices : \A c :
        Contains(posted'[e][d], c) <=> Contains(posted[e][d], c) \/ (e = x /\ d \in D /\ c = code)

LEMMA PostedExactly ==
    ASSUME Shape, NEW x, NEW code \in Codes, NEW D, posted' = PostedAfter(x, code, D)
    PROVE  Adds(x, code, D)
  <1> SUFFICES ASSUME NEW e \in Events, NEW d \in Devices, NEW c
               PROVE  Contains(PostedAfter(x, code, D)[e][d], c) <=>
                          Contains(posted[e][d], c) \/ (e = x /\ d \in D /\ c = code)
    BY DEF Adds
  <1> DEFINE s == posted[e][d]
             f == [dd \in Devices |-> IF dd \in D /\ ~Contains(posted[x][dd], code)
                                      THEN Append(posted[x][dd], code) ELSE posted[x][dd]]
  <1>1. s \in Seq(Codes) /\ posted \in [Events -> [Devices -> Seq(Codes)]]
    BY DEF Shape
  <1>2. PostedAfter(x, code, D) = [posted EXCEPT ![x] = f]
    BY DEF PostedAfter
  <1>3. CASE e # x
    <2>1. PostedAfter(x, code, D)[e] = posted[e]
      <3> HIDE DEF f
      <3> QED BY <1>1, <1>2, <1>3
    <2> QED BY <1>3, <2>1
  <1>4. CASE e = x
    <2>1. PostedAfter(x, code, D)[e][d] =
            IF d \in D /\ ~Contains(s, code) THEN Append(s, code) ELSE s
      BY <1>1, <1>2, <1>4
    <2>2. Contains(Append(s, code), c) <=> Contains(s, c) \/ c = code
      <3>1. Len(Append(s, code)) = Len(s) + 1 /\ Len(s) \in Nat
        BY <1>1
      <3>2. \A i \in 1..Len(s) : Append(s, code)[i] = s[i]
        BY <1>1
      <3>3. Append(s, code)[Len(s) + 1] = code
        BY <1>1
      <3>4. \A i : i \in 1..(Len(s) + 1) <=> i \in 1..Len(s) \/ i = Len(s) + 1
        BY <3>1
      <3> HIDE DEF s
      <3> QED BY <3>1, <3>2, <3>3, <3>4 DEF Contains
    <2>3. CASE d \in D /\ ~Contains(s, code)
      BY <1>4, <2>1, <2>2, <2>3
    <2>4. CASE d \in D /\ Contains(s, code)
      BY <1>4, <2>1, <2>4
    <2>5. CASE d \notin D
      BY <1>4, <2>1, <2>5
    <2> QED BY <2>3, <2>4, <2>5
  <1> QED BY <1>3, <1>4

(* COMPLETED is posted when a running event's time is over, CANCELLED for  *)
(* a live event or, by rule p, before the event's end.                     *)
LastCodes == {"COMPLETED", "CANCELLED"}
Deserved(e, c) ==
    \/ rec[e].st \notin Terminal /\ (c = "COMPLETED" => End(e) <= now)
    \/ c = "CANCELLED" /\ now < End(e)
LastWords ==
    \A e \in Events, d \in Devices : \A c \in LastCodes : Contains(posted'[e][d], c) =>
        Contains(posted[e][d], c) \/ (Deserved(e, c) /\ rec'[e].st = c)

(* The last word on an event is posted at its end, COMPLETED on time. *)
EndPosted ==
    \A e \in Events, d \in Devices :
        /\ \A c \in LastCodes : Contains(posted[e][d], c) => rec[e].st \in Terminal
        /\ Contains(posted[e][d], "COMPLETED") => End(e) <= now

LEMMA WordsKept ==
    ASSUME EndPosted, CompletedNotCancelled, EndsKept, LastWords,
           now \in Nat, now' \in Nat, now <= now'
    PROVE  EndPosted' /\ CompletedNotCancelled'
  <1>0. /\ "COMPLETED" \in LastCodes /\ "CANCELLED" \in LastCodes /\ "COMPLETED" # "CANCELLED"
        /\ \A c \in LastCodes : c \in Terminal
    BY DEF LastCodes, Terminal
  <1>1. EndPosted'
    <2> SUFFICES ASSUME NEW e \in Events, NEW d \in Devices
                 PROVE  /\ \A c \in LastCodes : Contains(posted'[e][d], c) => rec'[e].st \in Terminal
                        /\ Contains(posted'[e][d], "COMPLETED") => End(e) <= now'
      BY DEF EndPosted
    <2>1. ASSUME NEW c \in LastCodes, Contains(posted'[e][d], c) PROVE rec'[e].st \in Terminal
      BY <1>0, <2>1 DEF EndPosted, LastWords, EndsKept
    <2>2. ASSUME Contains(posted'[e][d], "COMPLETED") PROVE End(e) <= now'
      <3>1. End(e) <= now
        BY <1>0, <2>2 DEF EndPosted, LastWords, Deserved
      <3> QED BY <3>1, EndType
    <2> QED BY <2>1, <2>2
  <1>2. CompletedNotCancelled'
    <2> SUFFICES ASSUME NEW e \in Events, NEW d \in Devices,
                        Contains(posted'[e][d], "COMPLETED"), Contains(posted'[e][d], "CANCELLED")
                 PROVE  FALSE
      BY DEF CompletedNotCancelled, Posted
    <2>1. ~(Contains(posted[e][d], "COMPLETED") /\ Contains(posted[e][d], "CANCELLED"))
      BY DEF CompletedNotCancelled, Posted
    <2>2. /\ \A c \in LastCodes : Contains(posted[e][d], c) => rec[e].st \in Terminal
          /\ Contains(posted[e][d], "COMPLETED") => ~(now < End(e))
      BY EndType DEF EndPosted
    <2>3. \A c \in LastCodes : Contains(posted[e][d], c) \/ (Deserved(e, c) /\ rec'[e].st = c)
      BY <1>0 DEF LastWords, LastCodes
    <2>4. CASE Contains(posted[e][d], "COMPLETED")
      <3>1. Deserved(e, "CANCELLED") /\ rec[e].st \in Terminal /\ ~(now < End(e))
        BY <1>0, <2>1, <2>2, <2>3, <2>4
      <3> QED BY <1>0, <3>1 DEF Deserved
    <2>5. CASE ~Contains(posted[e][d], "COMPLETED")
      <3>1. Deserved(e, "COMPLETED") /\ rec'[e].st = "COMPLETED"
        BY <1>0, <2>3, <2>5
      <3>2. rec[e].st \notin Terminal
        BY <1>0, <3>1 DEF Deserved
      <3>3. ~Contains(posted[e][d], "CANCELLED")
        BY <1>0, <2>2, <3>2
      <3> QED BY <1>0, <2>3, <3>1, <3>3
    <2> QED BY <2>4, <2>5
  <1> QED BY <1>1, <1>2

LEMMA Silent ==
    ASSUME posted' = posted
    PROVE  LastWords
  BY DEF LastWords

LEMMA OtherWords ==
    ASSUME Shape, NEW x, NEW code \in Codes \ LastCodes, NEW D,
           posted' = posted \/ posted' = PostedAfter(x, code, D)
    PROVE  LastWords
  <1>1. CASE posted' = posted
    BY <1>1, Silent
  <1>2. CASE posted' = PostedAfter(x, code, D)
    <2>1. code \in Codes /\ \A c \in LastCodes : c # code
      OBVIOUS
    <2> HIDE DEF LastCodes, Codes
    <2>2. Adds(x, code, D)
      BY <1>2, <2>1, PostedExactly
    <2> QED BY <2>1, <2>2 DEF LastWords, Adds
  <1> QED BY <1>1, <1>2

LEMMA LastWord ==
    ASSUME Shape, NEW x \in Events, NEW code \in LastCodes, NEW D,
           posted' = PostedAfter(x, code, D), Deserved(x, code), rec'[x].st = code
    PROVE  LastWords
  <1>1. code \in Codes
    BY DEF LastCodes, Codes
  <1>2. Adds(x, code, D)
    BY <1>1, PostedExactly
  <1> QED BY <1>2 DEF LastWords, Adds

(* Where a task is in _run_supersession, its local state being r. *)
InSupersession(r) ==
    \/ r.pc \in {"supersede", "superseding", "supersedeRevert"}
    \/ r.pc = "reverting" /\ r.back = "supersede"

(* A handler returns to one of its callers. *)
Returns(r) ==
    /\ r.pc = "unwind" => r.ret \in {"loop", "removed"}
    /\ r.pc = "reverting" => r.back \in {"idle", "loop", "removed", "outage", "supersede"}
    /\ InSupersession(r) => r.ret \in {"prune", "apply"}

(* A completion timer is set for the end of its event. *)
TimedRight(t, r) == r.pc = "timer" => \A e \in Events : t = Comp(e) => r.at = End(e)
Returning == \A t \in Tasks : Returns(task[t]) /\ TimedRight(t, task[t])

(* Rule p reads the set of events to cancel once and awaits between them:  *)
(* the pass comes to each before its end.                                  *)
RemovesInTime ==
    \A t \in PassTasks : task[t].pc = "removed" => \A e \in task[t].todo : now < End(e)

LEMMA StepWords ==
    ASSUME IInv, Returning, RemovesInTime, [Next]_vars
    PROVE  LastWords
  <1>1. Shape /\ {"ACTIVE", "REJECTED", "SUPERSEDED", "EXPIRED", "ACKNOWLEDGED"} \subseteq Codes \ LastCodes
        /\ \A x \in Live : x \notin Terminal
    BY DEF IInv, Codes, LastCodes, Live, Terminal
  <1>2. ASSUME NEW t \in Tasks, NEW e \in Events, NEW ret, Cancel(t, e, ret),
               rec[e].st \in Live \/ now < End(e)
        PROVE  LastWords
    <2>1. posted' = PostedAfter(e, "CANCELLED", StartedAudience(e)) /\ rec'[e].st = "CANCELLED"
      BY <1>1, <1>2 DEF Cancel, Shape, EventRecords
    <2>2. Deserved(e, "CANCELLED")
      BY <1>1, <1>2 DEF Deserved
    <2> QED BY <1>1, <2>1, <2>2, LastWord DEF LastCodes
  <1>3. ASSUME NEW t \in Tasks, SharedStep(t) PROVE LastWords
    <2>1. ASSUME NEW a \in Events, NEW b \in Events, Supersede(t, a, b) PROVE LastWords
      BY <1>1, <2>1, OtherWords DEF Supersede
    <2>2. CASE Apply(t)
      BY <1>1, <2>2, OtherWords DEF Apply
    <2>3. ASSUME NEW d \in Devices, DispatchOk(t, d) PROVE LastWords
      BY <1>1, <2>3, OtherWords DEF DispatchOk
    <2>4. ASSUME NEW d \in Devices, NEW how, DispatchRejected(t, d, how) PROVE LastWords
      BY <1>1, <2>4, OtherWords DEF DispatchRejected
    <2>5. CASE SupersedePosted(t) \/ SupersedeRevert(t) \/ SupersedeDone(t) \/ DispatchDone(t)
               \/ Revert(t) \/ Reverted(t) \/ \E d \in Devices : RevertFails(t, d)
      <3>1. posted' = posted
        BY <2>5 DEF SupersedePosted, SupersedeRevert, SupersedeDone, DispatchDone, Revert,
                    Reverted, RevertFails, Fallback
      <3> QED BY <3>1, Silent
    <2> QED BY <1>3, <2>1, <2>2, <2>3, <2>4, <2>5 DEF SharedStep
  <1>4. ASSUME NEW t \in Tasks, TimerStep(t) PROVE LastWords
    <2>1. ASSUME NEW e \in Events, Complete(e) PROVE LastWords
      <3>1. posted' = PostedAfter(e, "COMPLETED", StartedAudience(e)) /\ rec'[e].st = "COMPLETED"
            /\ rec[e].st \in Live
        BY <1>1, <2>1 DEF Complete, Shape, EventRecords, Live
      <3>2. Comp(e) \in Tasks /\ task[Comp(e)].pc = "timer" /\ task[Comp(e)].at <= now
        BY <1>1, <2>1, TaskSets, TimersDiffer DEF Complete, Fires, Shape, TaskRecords
      <3>3. task[Comp(e)].at = End(e)
        BY <3>2 DEF Returning, TimedRight
      <3>4. Deserved(e, "COMPLETED")
        BY <1>1, <3>1, <3>2, <3>3 DEF Deserved
      <3> QED BY <1>1, <3>1, <3>4, LastWord DEF LastCodes
    <2>2. CASE TimerSkips(t) \/ \E e \in Events : Activate(e)
      <3>1. posted' = posted
        BY <2>2 DEF TimerSkips, Activate
      <3> QED BY <3>1, Silent
    <2> QED BY <1>4, <2>1, <2>2 DEF TimerStep
  <1>5. CASE OutageStep
    <2>1. posted' = posted
      BY <1>5 DEF OutageStep, OutageReverts, OutageReverted, Fallback
    <2> QED BY <2>1, Silent
  <1>6. ASSUME NEW t \in PassTasks, PassStep(t), \A u \in Tasks \ {t} : ~task[u].run PROVE LastWords
    <2>0. t \in Tasks
      BY TaskSets
    <2>1. ASSUME NEW e \in Events, SeeKnown(t, e) PROVE LastWords
      <3>1. CASE Cancel(t, e, "loop")
        <4>1. rec[e].st \in Live \/ posted' = posted
          BY <2>1 DEF SeeKnown, ServerCancels
        <4> QED BY <1>2, <2>0, <3>1, <4>1, Silent
      <3>2. CASE posted' = posted
        BY <3>2, Silent
      <3> QED BY <2>1, <3>1, <3>2 DEF SeeKnown
    <2>2. ASSUME NEW e \in Events, SeeUnstored(t, e) PROVE LastWords
      <3>1. posted' = posted \/ posted' = PostedAfter(e, "EXPIRED", Audience(e, {}))
        BY <2>2 DEF SeeUnstored
      <3> QED BY <1>1, <3>1, OtherWords
    <2>3. ASSUME NEW e \in Events, SeePreCancelled(t, e) PROVE LastWords
      <3>1. posted' = PostedAfter(e, "CANCELLED", Audience(e, {})) /\ rec'[e].st = "CANCELLED"
        BY <1>1, <2>3 DEF SeePreCancelled, Shape, Fresh
      <3>2. Deserved(e, "CANCELLED")
        BY <2>3, TakenOnce DEF SeePreCancelled, Terminal, Deserved
      <3> QED BY <1>1, <3>1, <3>2, LastWord DEF LastCodes
    <2>4. ASSUME NEW e \in Events, SeeNew(t, e) PROVE LastWords
      <3>1. posted' = posted \/ posted' = PostedAfter(e, "ACKNOWLEDGED", Audience(e, {}))
        BY <2>4 DEF SeeNew
      <3> QED BY <1>1, <3>1, OtherWords
    <2>5. ASSUME NEW e \in Events, CancelRemoved(t, e) PROVE LastWords
      <3>1. now < End(e)
        BY <1>6, <2>5 DEF CancelRemoved, RemovesInTime
      <3>2. CASE Cancel(t, e, "removed")
        BY <1>2, <2>0, <3>1, <3>2
      <3>3. CASE posted' = posted
        BY <3>3, Silent
      <3> QED BY <2>5, <3>2, <3>3 DEF CancelRemoved
    <2>6. CASE ScheduleActivation(t) \/ LateDiscovery(t) \/ FindRemoved(t) \/ SupersedeAll(t)
               \/ PruneAndDefault(t) \/ Unwind(t)
      <3>1. posted' = posted
        BY <2>6 DEF ScheduleActivation, LateDiscovery, FindRemoved, SupersedeAll, PruneAndDefault,
                    Unwind, Fallback
      <3> QED BY <3>1, Silent
    <2> QED BY <1>6, <2>1, <2>2, <2>3, <2>4, <2>5, <2>6 DEF PassStep
  <1>7. CASE Environment \/ UNCHANGED vars
    <2>1. posted' = posted
      BY <1>7 DEF Environment, vars, WriteLands, StartPass, CancelProgram, BeginRediscovery,
                  EndRediscovery, ClearState, EnterCommsLoss, BeginRecovery, LeaveCommsLoss,
                  DropBoundary, Tick
    <2> QED BY <2>1, Silent
  <1> QED BY <1>3, <1>4, <1>5, <1>6, <1>7 DEF Next, TaskStep

-----------------------------------------------------------------------------
(* A step of t may set and cancel timers. *)
OthersKept(t) ==
    \A u \in Tasks : u # t => \/ task'[u] = task[u]
                              \/ /\ u \notin PassTasks /\ task'[u].pc \in {"idle", "timer"}
                                 /\ TimedRight(u, task'[u])
Calm(t) == OthersKept(t) /\ Returns(task'[t]) /\ TimedRight(t, task'[t])

LEMMA TimerReturns == ASSUME NEW r, r.pc \in {"idle", "timer"} PROVE Returns(r)
  BY DEF Returns, InSupersession

LEMMA CalmKeeps ==
    ASSUME Returning, NEW t \in Tasks, Calm(t)
    PROVE  Returning'
  <1> SUFFICES ASSUME NEW u \in Tasks PROVE Returns(task'[u]) /\ TimedRight(u, task'[u])
    BY DEF Returning, TimedRight, End
  <1>1. CASE u = t
    BY <1>1 DEF Calm
  <1>2. CASE u # t
    BY <1>2, TimerReturns DEF Calm, OthersKept, Returning
  <1> QED BY <1>1, <1>2

LEMMA GoingAlone ==
    ASSUME Shape, NEW t \in Tasks, NEW r, Goto(t, r) PROVE OthersKept(t) /\ task'[t] = r
  BY DEF Shape, Goto, OthersKept

LEMMA CancellingAlone ==
    ASSUME Shape, NEW t \in Tasks, NEW r, NEW e, CancelTimers(t, r, e)
    PROVE  OthersKept(t) /\ task'[t] = r
  <1>1. \A u : TimedRight(u, Idle)
    BY IdleRecord DEF TimedRight
  <1> QED BY <1>1, TaskSets, IdleRecord DEF CancelTimers, OthersKept

LEMMA TimingAlone ==
    ASSUME Shape, NEW t \in Tasks, NEW r, NEW u, u \notin PassTasks, NEW timer, timer.pc = "timer",
           TimedRight(u, timer), task' = [task EXCEPT ![t] = r, ![u] = timer]
    PROVE  /\ OthersKept(t)
           /\ task'[t] = r \/ (t \notin PassTasks /\ task'[t] = timer /\ TimedRight(t, timer))
  <1>1. \A v \in Tasks : task'[v] = IF v = u THEN timer ELSE IF v = t THEN r ELSE task[v]
    BY DEF Shape
  <1>2. OthersKept(t)
    BY <1>1 DEF OthersKept
  <1>3. task'[t] = r \/ (t \notin PassTasks /\ task'[t] = timer /\ TimedRight(t, timer))
    <2>1. t = u => t \notin PassTasks /\ task'[t] = timer /\ TimedRight(t, timer)
      BY <1>1
    <2>2. t # u => task'[t] = r
      BY <1>1
    <2>3. CASE t = u
      BY <2>1, <2>3
    <2>4. CASE t # u
      BY <2>2, <2>4
    <2> QED BY <2>3, <2>4
  <1> QED BY <1>2, <1>3, Zenon

(* A task at a place where it neither supersedes, unwinds nor reverts. *)
LEMMA PlainCalm ==
    ASSUME NEW t, OthersKept(t),
           task'[t].pc \in Pcs \ {"timer", "unwind", "reverting", "removed", "supersede",
                                  "superseding", "supersedeRevert"}
    PROVE  Calm(t)
  BY DEF Calm, Returns, InSupersession, TimedRight

LEMMA FallbackCalm ==
    ASSUME Shape, NEW t \in Tasks, NEW self \in TaskRecords, NEW e, NEW clear, NEW back \in Pcs,
           back \in {"idle", "loop", "removed", "outage", "supersede"},
           back = "supersede" => self.ret \in {"prune", "apply"},
           Fallback(t, self, e, clear, back)
    PROVE  Calm(t)
  <1>1. PICK D, P, A : Goto(t, Suspended([self EXCEPT !.pc = "reverting", !.devs = D,
                                                    !.defs = P, !.back = back], A))
    BY DEF Fallback
  <1> DEFINE q == [self EXCEPT !.pc = "reverting", !.devs = D, !.defs = P, !.back = back]
             r == Suspended(q, A)
  <1>2. q.pc = "reverting" /\ q.back = back /\ q.ret = self.ret
    BY DEF TaskRecords
  <1>3. r.pc = q.pc /\ r.back = q.back /\ r.ret = q.ret
    BY DEF TaskRecords, Suspended
  <1>4. OthersKept(t) /\ task'[t] = r
    BY <1>1, GoingAlone
  <1> HIDE DEF q, r
  <1> QED BY <1>2, <1>3, <1>4 DEF Calm, Returns, InSupersession, TimedRight

LEMMA SharedCalm ==
    ASSUME Shape, Returning, NEW t \in Tasks, SharedStep(t) PROVE Calm(t)
  <1>0. task[t] \in TaskRecords /\ Returns(task[t])
    BY DEF Shape, Returning
  <1>1. ASSUME NEW a \in Events, NEW b \in Events, Supersede(t, a, b) PROVE Calm(t)
    <2>1. PICK D, A : Goto(t, Suspended([At(t, "superseding") EXCEPT !.work = @ \ {<<a, b>>},
                                              !.loser = b, !.devs = D], A))
      BY <1>1 DEF Supersede
    <2> DEFINE q == [At(t, "superseding") EXCEPT !.work = @ \ {<<a, b>>}, !.loser = b, !.devs = D]
    <2>2. q.pc = "superseding" /\ q.ret = task[t].ret
      BY <1>0 DEF TaskRecords, At
    <2>3. Suspended(q, A).pc = q.pc /\ Suspended(q, A).ret = q.ret
      BY <1>0 DEF TaskRecords, At, Suspended
    <2>4. OthersKept(t) /\ task'[t] = Suspended(q, A)
      BY <2>1, GoingAlone
    <2>5. task[t].ret \in {"prune", "apply"}
      BY <1>0, <1>1 DEF Supersede, Returns, InSupersession
    <2> HIDE DEF q
    <2> QED BY <2>2, <2>3, <2>4, <2>5 DEF Calm, Returns, InSupersession, TimedRight
  <1>2. CASE SupersedePosted(t)
    <2>1. PICK pc \in {"supersedeRevert", "supersede"} :
              \/ CancelTimers(t, [At(t, pc) EXCEPT !.devs = {}], task[t].loser)
              \/ Goto(t, [At(t, pc) EXCEPT !.devs = {}])
      BY <1>2 DEF SupersedePosted
    <2> DEFINE r == [At(t, pc) EXCEPT !.devs = {}]
    <2>2. r.pc = pc /\ r.ret = task[t].ret
      BY <1>0 DEF TaskRecords, At
    <2>3. OthersKept(t) /\ task'[t] = r
      BY <2>1, GoingAlone, CancellingAlone
    <2>4. task[t].ret \in {"prune", "apply"}
      BY <1>0, <1>2 DEF SupersedePosted, Returns, InSupersession
    <2> HIDE DEF r
    <2> QED BY <2>1, <2>2, <2>3, <2>4 DEF Calm, Returns, InSupersession, TimedRight
  <1>3. CASE SupersedeRevert(t)
    <2>1. task[t].ret \in {"prune", "apply"}
      BY <1>0, <1>3 DEF SupersedeRevert, Returns, InSupersession
    <2> QED BY <1>0, <1>3, <2>1, FallbackCalm DEF SupersedeRevert, Pcs
  <1>4. CASE SupersedeDone(t)
    <2> DEFINE r == [At(t, task[t].ret) EXCEPT !.work = {}, !.map = {},
                                               !.loser = NoEvent, !.ret = "idle"]
    <2>1. OthersKept(t) /\ task'[t] = r
      BY <1>4, GoingAlone DEF SupersedeDone
    <2>2. r.pc = task[t].ret
      BY <1>0 DEF TaskRecords, At
    <2>3. task[t].ret \in {"prune", "apply"}
      BY <1>0, <1>4 DEF SupersedeDone, Returns, InSupersession
    <2> HIDE DEF r
    <2> QED BY <2>1, <2>2, <2>3, PlainCalm DEF Pcs
  <1>5. CASE Apply(t)
    <2>1. PICK D, A : Goto(t, Suspended([At(t, "dispatch") EXCEPT !.devs = D], A))
      BY <1>5 DEF Apply
    <2> DEFINE r == Suspended([At(t, "dispatch") EXCEPT !.devs = D], A)
    <2>2. r.pc = "dispatch"
      BY <1>0 DEF TaskRecords, At, Suspended
    <2> HIDE DEF r
    <2>3. OthersKept(t) /\ task'[t] = r
      BY <2>1, GoingAlone DEF r
    <2> QED BY <2>2, <2>3, PlainCalm DEF Pcs
  <1>6. CASE DispatchDone(t)
    <2> DEFINE timer == [Idle EXCEPT !.pc = "timer", !.ev = task[t].ev, !.at = End(task[t].ev)]
    <2>1. task' = [task EXCEPT ![t] = AfterDispatch(t), ![Comp(task[t].ev)] = timer]
      BY <1>6 DEF DispatchDone
    <2>2. AfterDispatch(t).pc \in {"loop", "idle"}
      BY <1>0 DEF Idle, AfterDispatch, At, TaskRecords
    <2>3. timer.pc = "timer" /\ timer.at = End(task[t].ev)
      BY DEF Idle
    <2> HIDE DEF timer
    <2>4. OthersKept(t) /\ (task'[t] = AfterDispatch(t) \/ (task'[t] = timer /\ TimedRight(t, timer)))
      <3>1. PICK r, u : /\ r = AfterDispatch(t) /\ u = Comp(task[t].ev)
                        /\ task' = [task EXCEPT ![t] = r, ![u] = timer]
        BY <2>1
      <3>2. u \notin PassTasks
        BY <3>1, TaskSets, TimersDiffer
      <3>3. TimedRight(u, timer)
        BY <2>3, <3>1, TimersDiffer DEF TimedRight
      <3> QED BY <2>3, <3>1, <3>2, <3>3, TimingAlone
    <2>5. CASE task'[t] = AfterDispatch(t)
      BY <2>2, <2>4, <2>5, PlainCalm DEF Pcs
    <2>6. CASE task'[t] = timer /\ TimedRight(t, timer)
      BY <2>3, <2>4, <2>6, TimerReturns DEF Calm
    <2> QED BY <2>4, <2>5, <2>6
  <1>7. ASSUME NEW d \in Devices, DispatchOk(t, d) \/ \E how : DispatchRejected(t, d, how)
        PROVE  Calm(t)
    <2> DEFINE r == [task[t] EXCEPT !.devs = @ \ {d}]
    <2>1. Goto(t, r) /\ task[t].pc = "dispatch"
      BY <1>7 DEF DispatchOk, DispatchRejected
    <2>2. r.pc = "dispatch"
      BY <1>0, <2>1 DEF TaskRecords
    <2> HIDE DEF r
    <2> QED BY <2>1, <2>2, GoingAlone, PlainCalm DEF Pcs
  <1>8. CASE Revert(t)
    <2>1. (IF t \in PassTasks THEN "loop" ELSE "idle") \in {"loop", "idle"}
      OBVIOUS
    <2> QED BY <1>0, <1>8, <2>1, FallbackCalm DEF Revert, Pcs
  <1>9. CASE Reverted(t)
    <2> DEFINE back == task[t].back
               r == IF back = "idle" THEN Idle ELSE [At(t, back) EXCEPT !.devs = {}, !.defs = {}]
    <2>1. OthersKept(t) /\ task'[t] = r
      BY <1>9, GoingAlone DEF Reverted
    <2>2. r.pc = back /\ (r.ret = task[t].ret \/ r = Idle)
      BY <1>0 DEF TaskRecords, At, Idle
    <2>3. back \in {"idle", "loop", "removed", "outage", "supersede"}
          /\ (back = "supersede" => task[t].ret \in {"prune", "apply"})
      BY <1>0, <1>9 DEF Reverted, Returns, InSupersession
    <2> HIDE DEF r
    <2> QED BY <2>1, <2>2, <2>3, IdleRecord DEF Calm, Returns, InSupersession, TimedRight
  <1>10. ASSUME NEW d \in Devices, RevertFails(t, d) PROVE Calm(t)
    <2>1. PICK P : Goto(t, [task[t] EXCEPT !.devs = @ \ {d}, !.defs = P])
      BY <1>10 DEF RevertFails
    <2> DEFINE r == [task[t] EXCEPT !.devs = @ \ {d}, !.defs = P]
    <2>2. r.pc = task[t].pc /\ r.ret = task[t].ret /\ r.back = task[t].back
          /\ task[t].pc = "reverting"
      BY <1>0, <1>10 DEF TaskRecords, RevertFails
    <2>3. OthersKept(t) /\ task'[t] = r
      BY <2>1, GoingAlone
    <2> HIDE DEF r
    <2> QED BY <1>0, <2>2, <2>3 DEF Calm, Returns, InSupersession, TimedRight
  <1> QED BY <1>1, <1>2, <1>3, <1>4, <1>5, <1>6, <1>7, <1>8, <1>9, <1>10 DEF SharedStep

LEMMA TimerCalm == ASSUME Shape, NEW t \in Tasks, TimerStep(t) PROVE Calm(t)
  <1>0. task[t] \in TaskRecords
    BY DEF Shape
  <1>1. ASSUME NEW e \in Events, t = Act(e), Activate(e) PROVE Calm(t)
    <2>1. Goto(t, Superseding(t, "apply")) \/ CancelTimers(t, At(t, "optOut"), e)
      BY <1>1 DEF Activate
    <2>2. CASE Goto(t, Superseding(t, "apply"))
      <3>1. Superseding(t, "apply").pc = "supersede" /\ Superseding(t, "apply").ret = "apply"
        BY <1>0 DEF Superseding, At, TaskRecords
      <3> QED BY <2>2, <3>1, GoingAlone DEF Calm, Returns, InSupersession, TimedRight
    <2>3. CASE CancelTimers(t, At(t, "optOut"), e)
      <3>1. At(t, "optOut").pc = "optOut"
        BY <1>0 DEF At, TaskRecords
      <3> QED BY <2>3, <3>1, CancellingAlone, PlainCalm DEF Pcs
    <2> QED BY <2>1, <2>2, <2>3
  <1>2. ASSUME NEW e \in Events, t = Comp(e), Complete(e) PROVE Calm(t)
    <2> DEFINE r == Suspended(At(t, "completed"), StartedAudience(e))
    <2>1. OthersKept(t) /\ task'[t] = r
      BY <1>2, GoingAlone DEF Complete
    <2>2. r.pc = "completed"
      BY <1>0 DEF Suspended, At, TaskRecords
    <2> HIDE DEF r
    <2> QED BY <2>1, <2>2, PlainCalm DEF Pcs
  <1>3. CASE TimerSkips(t)
    <2>1. OthersKept(t) /\ task'[t] = Idle
      BY <1>3, GoingAlone DEF TimerSkips
    <2> QED BY <2>1, IdleRecord, PlainCalm DEF Pcs
  <1> QED BY <1>1, <1>2, <1>3 DEF TimerStep

LEMMA OutageCalm == ASSUME Shape, OutageStep PROVE Calm(Outage)
  <1>0. Outage \in Tasks /\ task[Outage] \in TaskRecords /\ Outage \notin PassTasks
    BY TaskSets DEF Shape
  <1>1. ASSUME NEW e \in Events, OutageReverts(e) PROVE Calm(Outage)
    <2> DEFINE self == [task[Outage] EXCEPT !.todo = @ \ {e}]
    <2>1. self \in TaskRecords
      BY <1>0 DEF TaskRecords
    <2>2. Fallback(Outage, self, e, TRUE, "outage") /\ "outage" \in Pcs
      BY <1>1 DEF OutageReverts, Pcs
    <2> HIDE DEF self
    <2> QED BY <1>0, <2>1, <2>2, FallbackCalm
  <1>2. CASE OutageReverted
    <2>1. OthersKept(Outage) /\ task'[Outage] = Idle
      BY <1>0, <1>2, GoingAlone DEF OutageReverted
    <2> QED BY <2>1, IdleRecord, PlainCalm DEF Pcs
  <1> QED BY <1>1, <1>2 DEF OutageStep

LEMMA CancelRecord ==
    ASSUME Shape, NEW t \in Tasks, NEW e, NEW ret, Cancel(t, e, ret)
    PROVE  OthersKept(t) /\ task'[t].ret = ret /\ task'[t].pc \in {"unwind", ret}
  <1>0. task[t] \in TaskRecords
    BY DEF Shape
  <1>1. PICK pc \in {"unwind", ret} : CancelTimers(t,
            Suspended([At(t, pc) EXCEPT !.todo = @ \ {e}, !.ev = e, !.ret = ret],
                      StartedAudience(e)), e)
    BY DEF Cancel
  <1> DEFINE q == [At(t, pc) EXCEPT !.todo = @ \ {e}, !.ev = e, !.ret = ret]
             r == Suspended(q, StartedAudience(e))
  <1>2. q.pc = pc /\ q.ret = ret
    BY <1>0 DEF At, TaskRecords
  <1>3. r.pc = q.pc /\ r.ret = q.ret
    BY <1>0 DEF At, TaskRecords, Suspended
  <1>4. OthersKept(t) /\ task'[t] = r
    BY <1>1, CancellingAlone
  <1> HIDE DEF q, r
  <1> QED BY <1>1, <1>2, <1>3, <1>4

LEMMA LookedCalm ==
    ASSUME Shape, NEW t \in Tasks, NEW e, NEW pc \in {"loop", "ackLate", "ackScheduled", "optOut"},
           NEW D, \/ Goto(t, Looked(t, e, pc)) \/ Goto(t, Suspended(Looked(t, e, pc), D))
                  \/ CancelTimers(t, Looked(t, e, pc), e)
    PROVE  Calm(t)
  <1>0. task[t] \in TaskRecords
    BY DEF Shape
  <1>1. Looked(t, e, pc).pc = pc /\ Suspended(Looked(t, e, pc), D).pc = pc
    BY <1>0 DEF Looked, At, Suspended, TaskRecords
  <1>2. /\ OthersKept(t)
        /\ task'[t] = Looked(t, e, pc) \/ task'[t] = Suspended(Looked(t, e, pc), D)
    BY GoingAlone, CancellingAlone
  <1> QED BY <1>1, <1>2, PlainCalm DEF Pcs

LEMMA PassCalm ==
    ASSUME Shape, Returning, NEW t \in PassTasks, PassStep(t)
    PROVE  Calm(t)
  <1>0. t \in Tasks /\ task[t] \in TaskRecords /\ Returns(task[t])
    BY TaskSets DEF Shape, Returning
  <1>1. ASSUME NEW e \in Events, SeeKnown(t, e) PROVE Calm(t)
    <2>1. CASE Cancel(t, e, "loop")
      BY <1>0, <2>1, CancelRecord DEF Calm, Returns, InSupersession, TimedRight
    <2>2. CASE Goto(t, Looked(t, e, "loop"))
      BY <1>0, <2>2, LookedCalm
    <2> QED BY <1>1, <2>1, <2>2 DEF SeeKnown
  <1>2. ASSUME NEW e \in Events, SeeUnstored(t, e) \/ SeePreCancelled(t, e) \/ SeeNew(t, e) PROVE Calm(t)
    <2> DEFINE Pc == {"loop", "ackLate", "ackScheduled", "optOut"}
    <2>1. \E pc \in Pc : \/ \E D : Goto(t, Suspended(Looked(t, e, pc), D))
                         \/ CancelTimers(t, Looked(t, e, pc), e)
      <3>1. CASE SeeUnstored(t, e) \/ SeePreCancelled(t, e)
        BY <3>1 DEF SeeUnstored, SeePreCancelled
      <3>2. CASE SeeNew(t, e)
        <4> DEFINE pc == IF task[t].at >= Start[e] THEN "ackLate" ELSE "ackScheduled"
        <4>1. \/ Goto(t, Suspended(Looked(t, e, pc), Audience(e, {})))
              \/ CancelTimers(t, Looked(t, e, "optOut"), e)
          BY <3>2 DEF SeeNew
        <4>2. pc \in Pc /\ "optOut" \in Pc
          OBVIOUS
        <4> HIDE DEF pc, Pc
        <4> QED BY <4>1, <4>2
      <3> QED BY <1>2, <3>1, <3>2
    <2> QED BY <1>0, <2>1, LookedCalm
  <1>3. ASSUME NEW e \in Events, CancelRemoved(t, e) PROVE Calm(t)
    <2>1. CASE Cancel(t, e, "removed")
      <3> QED BY <1>0, <2>1, CancelRecord DEF Calm, Returns, InSupersession, TimedRight
    <2>2. CASE Goto(t, Idle)
      <3>1. OthersKept(t) /\ task'[t] = Idle
        BY <1>0, <2>2, GoingAlone
      <3> QED BY <3>1, IdleRecord, PlainCalm DEF Pcs
    <2> QED BY <1>3, <2>1, <2>2 DEF CancelRemoved
  <1>4. CASE ScheduleActivation(t)
    <2> DEFINE timer == [Idle EXCEPT !.pc = "timer", !.ev = task[t].ev, !.at = Start[task[t].ev]]
    <2>1. task' = [task EXCEPT ![t] = At(t, "loop"), ![Act(task[t].ev)] = timer]
      BY <1>4 DEF ScheduleActivation
    <2>2. At(t, "loop").pc = "loop"
      BY <1>0 DEF At, TaskRecords
    <2>3. timer.pc = "timer"
      BY DEF Idle
    <2> HIDE DEF timer
    <2>4. OthersKept(t) /\ task'[t] = At(t, "loop")
      <3>1. PICK r, u : /\ r = At(t, "loop") /\ u = Act(task[t].ev)
                        /\ task' = [task EXCEPT ![t] = r, ![u] = timer]
        BY <2>1
      <3>2. u \notin PassTasks
        BY <3>1, TaskSets, TimersDiffer
      <3>3. TimedRight(u, timer)
        BY <3>1, TimersDiffer DEF TimedRight
      <3>4. OthersKept(t) /\ (task'[t] = r \/ t \notin PassTasks)
        <4>1. task' = [task EXCEPT ![t] = r, ![u] = timer] /\ t \in Tasks /\ Shape
          BY <1>0, <3>1
        <4> QED BY <2>3, <3>2, <3>3, <4>1, TimingAlone
      <3> QED BY <3>1, <3>4
    <2> QED BY <2>2, <2>4, PlainCalm DEF Pcs
  <1>5. CASE LateDiscovery(t)
    <2>1. OthersKept(t) /\ task'[t] = Superseding(t, "apply")
      BY <1>0, <1>5, GoingAlone DEF LateDiscovery
    <2>2. Superseding(t, "apply").pc = "supersede" /\ Superseding(t, "apply").ret = "apply"
      BY <1>0 DEF Superseding, At, TaskRecords
    <2> QED BY <2>1, <2>2 DEF Calm, Returns, InSupersession, TimedRight
  <1>6. CASE SupersedeAll(t)
    <2> DEFINE r == [Superseding(t, "prune") EXCEPT !.ev = NoEvent]
    <2>1. OthersKept(t) /\ task'[t] = r
      BY <1>0, <1>6, GoingAlone DEF SupersedeAll
    <2>2. r.pc = "supersede" /\ r.ret = "prune"
      BY <1>0 DEF Superseding, At, TaskRecords
    <2> HIDE DEF r
    <2> QED BY <2>1, <2>2 DEF Calm, Returns, InSupersession, TimedRight
  <1>7. CASE PruneAndDefault(t)
    <2>1. PICK D, P : Goto(t, Suspended([Idle EXCEPT !.pc = "reverting", !.devs = D, !.defs = P], D))
      BY <1>7 DEF PruneAndDefault
    <2> DEFINE r == Suspended([Idle EXCEPT !.pc = "reverting", !.devs = D, !.defs = P], D)
    <2>2. r.pc = "reverting" /\ r.back = "idle"
      BY DEF Idle, Suspended
    <2>3. OthersKept(t) /\ task'[t] = r
      BY <1>0, <2>1, GoingAlone
    <2> HIDE DEF r
    <2> QED BY <2>2, <2>3 DEF Calm, Returns, InSupersession, TimedRight
  <1>8. CASE Unwind(t)
    <2> DEFINE ret == task[t].ret
    <2>1. ret \in {"loop", "removed"}
      BY <1>0, <1>8 DEF Unwind, Returns
    <2>2. CASE Fallback(t, task[t], task[t].ev, FALSE, ret)
      <3>1. ret \in Pcs /\ ret \in {"idle", "loop", "removed", "outage", "supersede"}
            /\ ret # "supersede"
        BY <2>1 DEF Pcs
      <3> QED BY <1>0, <2>1, <2>2, <3>1, FallbackCalm
    <2>3. CASE ~Fallback(t, task[t], task[t].ev, FALSE, ret)
      <3> DEFINE timer == [Idle EXCEPT !.pc = "timer", !.ev = task[t].ev,
                                       !.at = now + WindDown[task[t].ev]]
      <3>1. task' = [task EXCEPT ![t] = At(t, ret), ![Wind(task[t].ev)] = timer]
        BY <1>8, <2>3 DEF Unwind
      <3>2. At(t, ret).pc = ret
        BY <1>0 DEF At, TaskRecords
      <3>3. timer.pc = "timer"
        BY DEF Idle
      <3> HIDE DEF timer
      <3>4. OthersKept(t) /\ task'[t] = At(t, ret)
        <4>1. PICK r, u : /\ r = At(t, ret) /\ u = Wind(task[t].ev)
                          /\ task' = [task EXCEPT ![t] = r, ![u] = timer]
          BY <3>1
        <4>2. u \notin PassTasks
          BY <4>1, TaskSets, TimersDiffer
        <4>3. TimedRight(u, timer)
          BY <4>1, TimersDiffer DEF TimedRight
        <4>4. OthersKept(t) /\ (task'[t] = r \/ t \notin PassTasks)
          <5>1. task' = [task EXCEPT ![t] = r, ![u] = timer] /\ t \in Tasks /\ Shape
            BY <1>0, <4>1
          <5> QED BY <3>3, <4>2, <4>3, <5>1, TimingAlone
        <4> QED BY <4>1, <4>4
      <3> QED BY <2>1, <3>2, <3>4 DEF Calm, Returns, InSupersession, TimedRight
    <2> QED BY <2>2, <2>3
  <1>9. CASE FindRemoved(t)
    <2> DEFINE r(S) == [At(t, "removed") EXCEPT !.ev = NoEvent, !.cx = {}, !.todo = S]
    <2>1. PICK S : Goto(t, r(S))
      BY <1>9 DEF FindRemoved
    <2>2. r(S).pc = "removed"
      BY <1>0 DEF At, TaskRecords
    <2>3. OthersKept(t) /\ task'[t] = r(S)
      BY <1>0, <2>1, GoingAlone
    <2> HIDE DEF r
    <2> QED BY <2>2, <2>3 DEF Calm, Returns, InSupersession, TimedRight
  <1> QED BY <1>1, <1>2, <1>3, <1>4, <1>5, <1>6, <1>7, <1>8, <1>9 DEF PassStep

LEMMA OutsideKeeps ==
    ASSUME Returning,
           \A t \in Tasks : \/ task'[t] = task[t]
                            \/ task'[t].pc \in {"idle", "loop", "outage", "recovering", "recovered"}
    PROVE  Returning'
  <1> SUFFICES ASSUME NEW t \in Tasks PROVE Returns(task'[t]) /\ TimedRight(t, task'[t])
    BY DEF Returning, TimedRight, End
  <1> QED BY DEF Returning, Returns, InSupersession, TimedRight

LEMMA EnvironmentKeeps ==
    ASSUME Shape, Returning, Environment PROVE Returning'
  <1> DEFINE Pc == {"idle", "loop", "outage", "recovering", "recovered"}
             Kind == \A t \in Tasks : task'[t] = task[t] \/ task'[t].pc \in Pc
  <1>0. Idle.pc \in Pc /\ task \in [Tasks -> TaskRecords] /\ Outage \in Tasks
    BY IdleRecord, TaskSets DEF Shape
  <1>1. ASSUME NEW t \in PassTasks, NEW g \in Programs, NEW ok, StartPass(t, g, ok) PROVE Kind
    <2>1. PICK todo, cx : Goto(t, [Idle EXCEPT !.pc = "loop", !.run = TRUE, !.prog = g, !.at = now,
                                               !.todo = todo, !.cx = cx])
      BY <1>1 DEF StartPass
    <2> DEFINE r == [Idle EXCEPT !.pc = "loop", !.run = TRUE, !.prog = g, !.at = now,
                                 !.todo = todo, !.cx = cx]
    <2>2. r.pc \in Pc
      BY DEF Idle
    <2> HIDE DEF r, Pc
    <2>3. \A u \in Tasks : u # t => task'[u] = task[u]
      BY <1>0, <2>1 DEF Goto
    <2>4. task'[t] = r \/ t \notin Tasks
      BY <1>0, <2>1 DEF Goto, r
    <2> QED BY <2>2, <2>3, <2>4
  <1>2. ASSUME NEW g \in Programs, CancelProgram(g) PROVE Kind
    <2> HIDE DEF Pc
    <2>1. \A t \in Tasks : task'[t] = Idle \/ task'[t] = task[t]
      BY <1>2 DEF CancelProgram
    <2> QED BY <1>0, <2>1
  <1>3. ASSUME BeginRediscovery PROVE Kind
    <2> HIDE DEF Pc
    <2>1. \A t \in Tasks : task'[t] = Idle \/ task'[t] = task[t]
      BY <1>3 DEF BeginRediscovery, PollsCancelled
    <2> QED BY <1>0, <2>1
  <1>4. ASSUME BeginRecovery PROVE Kind
    <2> DEFINE r == [Idle EXCEPT !.pc = "recovering"]
    <2>1. r.pc \in Pc
      BY DEF Idle
    <2>2. task' = [PollsCancelled EXCEPT ![Outage] = r]
      BY <1>4 DEF BeginRecovery
    <2> HIDE DEF r, Pc
    <2>3. \A t \in Tasks : task'[t] = Idle \/ task'[t] = task[t] \/ task'[t] = r
      BY <2>2 DEF PollsCancelled
    <2> QED BY <1>0, <2>1, <2>3
  <1>5. ASSUME NEW ok \in BOOLEAN, EndRediscovery(ok) PROVE Kind
    <2> DEFINE pc == IF task[Outage].pc = "recovering" THEN IF ok THEN "recovered" ELSE "idle"
                     ELSE task[Outage].pc
               r == [task[Outage] EXCEPT !.pc = pc]
    <2>1. task' = [task EXCEPT ![Outage] = r]
      BY <1>5 DEF EndRediscovery
    <2>2. r.pc \in Pc \/ r = task[Outage]
      BY <1>0 DEF TaskRecords
    <2> HIDE DEF r, Pc
    <2>3. \A t \in Tasks : t # Outage => task'[t] = task[t]
      BY <1>0, <2>1
    <2>4. task'[Outage] = r
      BY <1>0, <2>1
    <2> QED BY <2>2, <2>3, <2>4
  <1>6. ASSUME EnterCommsLoss PROVE Kind
    <2> DEFINE r == [Idle EXCEPT !.pc = "outage", !.run = TRUE, !.todo = ActiveEvents]
    <2>1. r.pc \in Pc
      BY DEF Idle
    <2>2. \A t \in Tasks : task'[t] = Idle \/ task'[t] = task[t] \/ task'[t] = r
      BY <1>6 DEF EnterCommsLoss
    <2> HIDE DEF r, Pc
    <2> QED BY <1>0, <2>1, <2>2
  <1>7. ASSUME (\E d \in Devices : WriteLands(d)) \/ LeaveCommsLoss \/ DropBoundary \/ Tick
        PROVE  Kind
    <2>1. task' = task \/ task' = [task EXCEPT ![Outage] = Idle]
      BY <1>7 DEF WriteLands, LeaveCommsLoss, DropBoundary, Tick, Goto
    <2>2. \A t \in Tasks : task'[t] = Idle \/ task'[t] = task[t]
      BY <1>0, <2>1
    <2> HIDE DEF Pc
    <2> QED BY <1>0, <2>2
  <1>8. Kind
    BY <1>1, <1>2, <1>3, <1>4, <1>5, <1>6, <1>7 DEF Environment
  <1> QED BY <1>8, OutsideKeeps DEF Environment

LEMMA PlacesKept ==
    ASSUME Shape, Returning, [Next]_vars PROVE Returning'
  <1>1. CASE UNCHANGED vars
    BY <1>1 DEF vars, Returning, TimedRight, End
  <1>2. CASE Environment
    BY <1>2, EnvironmentKeeps
  <1>3. ASSUME NEW t \in Tasks, TaskStep(t) PROVE Returning'
    BY <1>3, CalmKeeps, SharedCalm, TimerCalm, OutageCalm, PassCalm DEF TaskStep
  <1> QED BY <1>1, <1>2, <1>3 DEF Next

(* The clock does not go back. *)
LEMMA ClockRuns == ASSUME Shape, [Next]_vars PROVE now' \in Nat /\ now <= now'
  <1>1. ASSUME NEW t \in Tasks, TaskStep(t) PROVE now' = now
    <2>1. CASE SharedStep(t)
      BY <2>1 DEF SharedStep, Supersede, SupersedePosted, SupersedeRevert, SupersedeDone, Apply,
                  DispatchDone, DispatchOk, DispatchRejected, Revert, Reverted, RevertFails,
                  Fallback, envVars
    <2>2. CASE TimerStep(t)
      BY <2>2 DEF TimerStep, Activate, Complete, TimerSkips, envVars
    <2>3. CASE OutageStep
      BY <2>3 DEF OutageStep, OutageReverts, OutageReverted, Fallback, envVars
    <2>4. CASE PassStep(t)
      BY <2>4 DEF PassStep, SeeKnown, SeeUnstored, SeePreCancelled, SeeNew, CancelRemoved, Cancel,
                  ScheduleActivation, LateDiscovery, FindRemoved, SupersedeAll, PruneAndDefault,
                  Unwind, Fallback, envVars
    <2> QED BY <1>1, <2>1, <2>2, <2>3, <2>4 DEF TaskStep
  <1>2. CASE Environment
    <2>1. now' = now \/ now' = now + 1
      BY <1>2 DEF Environment, WriteLands, StartPass, CancelProgram, BeginRediscovery,
                  EndRediscovery, ClearState, EnterCommsLoss, BeginRecovery, LeaveCommsLoss,
                  DropBoundary, Tick
    <2> QED BY <2>1 DEF Shape
  <1>3. CASE UNCHANGED vars
    BY <1>3 DEF vars, Shape
  <1> QED BY <1>1, <1>2, <1>3 DEF Next, Shape

(* The invariant of CompletedNotCancelled. *)
WordsInv == IInv /\ Returning /\ EndPosted /\ CompletedNotCancelled

LEMMA WordsSteps ==
    ASSUME WordsInv, ShortPasses, RemovesInTime, [Next]_vars
    PROVE  WordsInv'
  <1>1. IInv /\ Shape /\ Returning /\ EndPosted /\ CompletedNotCancelled /\ now \in Nat
    BY DEF WordsInv, IInv, Shape
  <1>2. IInv' /\ EndsKept
    BY <1>1, Steps
  <1>3. LastWords
    BY <1>1, StepWords
  <1>4. EndPosted' /\ CompletedNotCancelled'
    BY <1>1, <1>2, <1>3, ClockRuns, WordsKept
  <1>5. Returning'
    BY <1>1, PlacesKept
  <1> QED BY <1>2, <1>4, <1>5 DEF WordsInv

LEMMA InitWords == ASSUME Init PROVE WordsInv
  <1>1. \A t \in Tasks : task[t] = Idle
    BY DEF Init
  <1>2. Returning
    BY <1>1, IdleRecord DEF Returning, Returns, InSupersession, TimedRight
  <1>3. \A e \in Events, d \in Devices : \A c : ~Contains(posted[e][d], c)
    <2>1. \A e \in Events, d \in Devices : posted[e][d] = << >>
      BY DEF Init
    <2>2. \A c : ~Contains(<< >>, c)
      BY DEF Contains
    <2> QED BY <2>1, <2>2
  <1>4. EndPosted /\ CompletedNotCancelled
    BY <1>3 DEF EndPosted, CompletedNotCancelled, Posted
  <1> QED BY <1>2, <1>4, InitIInv DEF WordsInv

(* _on_completion, _handle_cancellation and rule p: no device is told both *)
(* that an event completed and that it was cancelled, for any number of    *)
(* events, passes, rediscoveries, removals and outages, where each event   *)
(* rule p cancels is come to before its end.  Rule p checks that end once, *)
(* as of the pass's now, and awaits between the cancellations: an event    *)
(* that ends meanwhile completes and is then cancelled as well.            *)
THEOREM OneEnd == Spec /\ []ShortPasses /\ []RemovesInTime => []CompletedNotCancelled
  <1>1. WordsInv /\ ShortPasses /\ RemovesInTime /\ [Next]_vars => WordsInv'
    BY WordsSteps
  <1>2. WordsInv => CompletedNotCancelled
    BY DEF WordsInv
  <1> QED BY <1>1, <1>2, InitWords, PTL DEF Spec

-----------------------------------------------------------------------------
(* An event is started once, and its end is told to those that started it. *)

(* Whose turn it is to start e.  A pass that found it late, or its timer,  *)
(* prepares it (the local state being r) and dispatches it; the pass that  *)
(* acknowledged it, and then its activation timer, schedule it.            *)
Prepares(r, e) ==
    /\ r.ev = e
    /\ \/ r.pc \in {"ackLate", "apply"}
       \/ InSupersession(r) /\ r.ret = "apply"
Preparing(t, e) == Prepares(task[t], e)
Dispatching(t, e) == task[t].ev = e /\ task[t].pc = "dispatch"
Scheduling(t, e) ==
    \/ t \in PassTasks /\ task[t].pc = "ackScheduled" /\ task[t].ev = e
    \/ t = Act(e) /\ task[t].pc = "timer"
HasTurn(t, e) == Preparing(t, e) \/ Dispatching(t, e) \/ Scheduling(t, e)

(* The completion timer of e is set. *)
Timed(e) == task[Comp(e)].pc = "timer"

(* One task has the turn of e, and gives it up when it sets the completion *)
(* timer.                                                                  *)
OneTurn == \A e \in Events : \A t, u \in Tasks : HasTurn(t, e) /\ HasTurn(u, e) => t = u
TurnFirst ==
    \A e \in Events, t \in Tasks : HasTurn(t, e) =>
        rec[e].st # "none" /\ ~Timed(e) /\ \A d \in Devices : ~Posted(e, d, "COMPLETED")
TimerEvent == \A e \in Events : task[Act(e)].pc = "timer" => task[Act(e)].ev = e

(* A device settles once: it is among those awaited, or it has applied the *)
(* control, or rejected it.                                                *)
SettlesOnce ==
    \A e \in Events :
        /\ rec[e].st \in {"none", "SCHEDULED"} => rec[e].app \cup rec[e].rej = {} /\ ~Timed(e)
        /\ rec[e].app \cap rec[e].rej = {}
        /\ \A t \in Tasks :
              /\ Preparing(t, e) => rec[e].app \cup rec[e].rej = {}
              /\ Preparing(t, e) \/ Dispatching(t, e) => rec[e].st # "SCHEDULED"
              /\ Dispatching(t, e) => task[t].devs \cap (rec[e].app \cup rec[e].rej) = {}

(* The store holds records, and a record that is none is blank. *)
Known ==
    /\ \A e \in stored : rec[e].st # "none"
    /\ \A e \in Events : rec[e].st = "none" => rec[e].sup = {}

(* What the devices were told is on record. *)
ToldOnRecord ==
    \A e \in Events, d \in Devices :
        /\ d \in rec[e].app => Posted(e, d, "ACTIVE")
        /\ Posted(e, d, "REJECTED") => d \in rec[e].rej
        /\ Posted(e, d, "SUPERSEDED") => d \in rec[e].sup
        /\ Posted(e, d, "COMPLETED") => rec[e].st \in Terminal

(* The event whose dispatch had no target was announced to those who will  *)
(* hear of its end.                                                        *)
Untargeted(e) ==
    /\ e \in stored /\ rec[e].st = "ACTIVE" /\ rec[e].app \cup rec[e].rej = {}
    /\ Timed(e) \/ \E t \in Tasks : Dispatching(t, e) /\ task[t].devs = {}
Announced ==
    \A e \in Events, d \in Devices :
        Untargeted(e) /\ d \in Audience(e, rec[e].sup) => Posted(e, d, "ACTIVE")

StartInv ==
    /\ ready /\ IInv /\ Returning
    /\ OneTurn /\ TurnFirst /\ TimerEvent /\ SettlesOnce /\ Known /\ ToldOnRecord /\ Announced
    /\ CompletedOnlyWhereItRan

(* A task that is left alone, ends, or becomes a timer of no turn. *)
Quiet(u) ==
    \/ task'[u] = task[u]
    \/ task'[u].pc = "idle"
    \/ task'[u].pc = "timer" /\ \A e \in Events : u # Act(e) /\ u # Comp(e)
OthersQuiet(t) == \A u \in Tasks : u # t => Quiet(u)

(* A task that gets no turn by its step. *)
Continues(t) ==
    /\ task'[t].pc \notin {"dispatch", "ackScheduled", "timer"}
    /\ \A e \in Events : Prepares(task'[t], e) => Prepares(task[t], e)

(* A step that gives nobody a turn. *)
TurnsKept ==
    /\ \A e \in Events, t \in Tasks :
          /\ Preparing(t, e)' => Preparing(t, e)
          /\ Dispatching(t, e)' => Dispatching(t, e) /\ task'[t].devs = task[t].devs
          /\ Scheduling(t, e)' => Scheduling(t, e)
    /\ \A e \in Events : Timed(e)' => Timed(e)
    /\ TimerEvent'

(* A step that settles no device and moves an event to its end at most. *)
RecordsSettled ==
    /\ \A e \in Events :
          /\ rec'[e].app = rec[e].app /\ rec'[e].rej = rec[e].rej
          /\ rec[e].st # "none" => rec'[e].st # "none"
          /\ rec[e].st = "none" => rec'[e].st = "none" /\ rec'[e].sup = rec[e].sup
          /\ rec'[e].st \in Live => rec'[e].st = rec[e].st
          /\ rec[e].sup \subseteq rec'[e].sup
    /\ stored' \subseteq stored
    /\ \A e \in stored' : rec'[e].st = "ACTIVE" =>
          Audience(e, rec[e].sup)' \subseteq Audience(e, rec[e].sup)

(* A step that posts nothing about the start or the completion of an event. *)
OrderKept ==
    \A e \in Events, d \in Devices :
        Before(e, d, "ACTIVE", "COMPLETED") => Before(e, d, "ACTIVE", "COMPLETED")'
WordsKnown ==
    \A e \in Events, d \in Devices :
        /\ Posted(e, d, "ACTIVE") => Posted(e, d, "ACTIVE")'
        /\ Posted(e, d, "SUPERSEDED")' =>
              Posted(e, d, "SUPERSEDED") \/ (d \in rec'[e].sup /\ rec[e].st \notin Terminal)
PostsSettled ==
    /\ WordsKnown /\ OrderKept
    /\ \A e \in Events, d \in Devices :
          /\ Posted(e, d, "REJECTED")' => Posted(e, d, "REJECTED")
          /\ Posted(e, d, "COMPLETED")' => Posted(e, d, "COMPLETED")

StartParts ==
    /\ OneTurn /\ TurnFirst /\ TimerEvent /\ SettlesOnce /\ Known /\ ToldOnRecord /\ Announced
    /\ CompletedOnlyWhereItRan

LEMMA QuietTurns ==
    ASSUME TimerEvent, NEW t \in Tasks, OthersQuiet(t), Continues(t) \/ Quiet(t)
    PROVE  TurnsKept
  <1>1. \A u \in Tasks : Quiet(u) \/ Continues(u)
    BY DEF OthersQuiet
  <1>2. ASSUME NEW u \in Tasks, NEW e \in Events
        PROVE  /\ Preparing(u, e)' => Preparing(u, e)
               /\ Dispatching(u, e)' => Dispatching(u, e) /\ task'[u].devs = task[u].devs
               /\ Scheduling(u, e)' => Scheduling(u, e)
    <2>1. CASE Quiet(u)
      BY <2>1 DEF Quiet, Preparing, Prepares, InSupersession, Dispatching, Scheduling
    <2>2. CASE Continues(u)
      BY <2>2 DEF Continues, Preparing, Dispatching, Scheduling
    <2> QED BY <1>1, <2>1, <2>2
  <1>3. ASSUME NEW e \in Events PROVE Timed(e)' => Timed(e)
    <2>1. Comp(e) \in Tasks
      BY TaskSets, TimersDiffer
    <2> QED BY <1>1, <2>1 DEF Timed, Quiet, Continues
  <1>4. TimerEvent'
    <2> SUFFICES ASSUME NEW e \in Events, task'[Act(e)].pc = "timer" PROVE task'[Act(e)].ev = e
      BY DEF TimerEvent
    <2>1. Act(e) \in Tasks
      BY TaskSets, TimersDiffer
    <2> QED BY <1>1, <2>1 DEF Quiet, Continues, TimerEvent
  <1> QED BY <1>2, <1>3, <1>4 DEF TurnsKept

LEMMA TurnsStay ==
    ASSUME OneTurn, TurnFirst, TurnsKept,
           \A e \in Events : rec[e].st # "none" => rec'[e].st # "none",
           \A e \in Events, d \in Devices : \A t \in Tasks : HasTurn(t, e) =>
               (Posted(e, d, "COMPLETED")' => Posted(e, d, "COMPLETED"))
    PROVE  OneTurn' /\ TurnFirst'
  <1>1. \A e \in Events, t \in Tasks : HasTurn(t, e)' => HasTurn(t, e)
    BY DEF HasTurn, TurnsKept
  <1>2. OneTurn'
    BY <1>1 DEF OneTurn
  <1>3. TurnFirst'
    BY <1>1 DEF TurnFirst, TurnsKept
  <1> QED BY <1>2, <1>3

LEMMA AnnouncedStays ==
    ASSUME Announced, TurnsKept, RecordsSettled, WordsKnown
    PROVE  Announced'
  <1> SUFFICES ASSUME NEW e \in Events, NEW d \in Devices, Untargeted(e)', d \in Audience(e, rec[e].sup)'
               PROVE  Posted(e, d, "ACTIVE")'
    BY DEF Announced
  <1>1. e \in stored' /\ rec'[e].st = "ACTIVE"
    BY DEF Untargeted
  <1>2. e \in stored /\ rec[e].st = "ACTIVE" /\ rec[e].app \cup rec[e].rej = {}
    BY <1>1 DEF Untargeted, RecordsSettled, Live
  <1>3. Timed(e) \/ \E t \in Tasks : Dispatching(t, e) /\ task[t].devs = {}
    BY DEF Untargeted, TurnsKept
  <1>4. d \in Audience(e, rec[e].sup)
    BY <1>1 DEF RecordsSettled
  <1>5. Posted(e, d, "ACTIVE")
    BY <1>2, <1>3, <1>4 DEF Announced, Untargeted
  <1> QED BY <1>5 DEF WordsKnown

LEMMA Settled ==
    ASSUME Shape, StartParts, EndsKept, TurnsKept, RecordsSettled, PostsSettled
    PROVE  StartParts'
  <1> USE DEF StartParts
  <1>1. OneTurn' /\ TurnFirst'
    BY TurnsStay DEF RecordsSettled, PostsSettled
  <1>2. TimerEvent'
    BY DEF TurnsKept
  <1>3. SettlesOnce'
    <2> SUFFICES ASSUME NEW e \in Events
                 PROVE  /\ rec'[e].st \in {"none", "SCHEDULED"} => rec'[e].app \cup rec'[e].rej = {} /\ ~Timed(e)'
                        /\ rec'[e].app \cap rec'[e].rej = {}
                        /\ \A t \in Tasks :
                              /\ Preparing(t, e)' => rec'[e].app \cup rec'[e].rej = {}
                              /\ (Preparing(t, e) \/ Dispatching(t, e))' => rec'[e].st # "SCHEDULED"
                              /\ Dispatching(t, e)' => task'[t].devs \cap (rec'[e].app \cup rec'[e].rej) = {}
      BY DEF SettlesOnce
    <2>1. rec'[e].app = rec[e].app /\ rec'[e].rej = rec[e].rej
          /\ (rec'[e].st \in {"none", "SCHEDULED"} => rec'[e].st = rec[e].st)
      BY DEF RecordsSettled, Live
    <2>2. Timed(e)' => Timed(e)
      BY DEF TurnsKept
    <2>3. \A t \in Tasks : /\ Preparing(t, e)' => Preparing(t, e)
                           /\ Dispatching(t, e)' => Dispatching(t, e) /\ task'[t].devs = task[t].devs
      BY DEF TurnsKept
    <2> QED BY <2>1, <2>2, <2>3 DEF SettlesOnce
  <1>4. Known'
    <2>1. \A e \in stored' : e \in stored /\ e \in Events
      BY DEF RecordsSettled, Shape
    <2>2. \A e \in Events : rec'[e].st = "none" => rec'[e].sup = {}
      BY DEF Known, RecordsSettled
    <2> QED BY <2>1, <2>2 DEF Known, RecordsSettled
  <1>5. ToldOnRecord'
    BY DEF ToldOnRecord, RecordsSettled, PostsSettled, WordsKnown, EndsKept
  <1>6. Announced'
    BY AnnouncedStays DEF PostsSettled
  <1>7. CompletedOnlyWhereItRan'
    <2> SUFFICES ASSUME NEW e \in Events, NEW d \in Devices, Posted(e, d, "COMPLETED")'
                 PROVE  /\ Before(e, d, "ACTIVE", "COMPLETED")'
                        /\ ~Posted(e, d, "REJECTED")' /\ ~Posted(e, d, "SUPERSEDED")'
      BY DEF CompletedOnlyWhereItRan
    <2>1. Posted(e, d, "COMPLETED") /\ rec[e].st \in Terminal
      BY DEF PostsSettled, ToldOnRecord
    <2>2. /\ Before(e, d, "ACTIVE", "COMPLETED")
          /\ ~Posted(e, d, "REJECTED") /\ ~Posted(e, d, "SUPERSEDED")
      BY <2>1 DEF CompletedOnlyWhereItRan
    <2> QED BY <2>1, <2>2 DEF PostsSettled, WordsKnown, OrderKept
  <1> QED BY <1>1, <1>2, <1>3, <1>4, <1>5, <1>6, <1>7

-----------------------------------------------------------------------------
(* The steps as the lemmas above see them. *)
LEMMA SilentPosts == ASSUME posted' = posted PROVE PostsSettled
  BY DEF PostsSettled, WordsKnown, OrderKept, Posted, Before

LEMMA PostsInOrder ==
    ASSUME Shape, NEW x, NEW code \in Codes, NEW D, posted' = PostedAfter(x, code, D)
    PROVE  OrderKept
  <1> SUFFICES ASSUME NEW e \in Events, NEW d \in Devices, Before(e, d, "ACTIVE", "COMPLETED")
               PROVE  Before(e, d, "ACTIVE", "COMPLETED")'
    BY DEF OrderKept
  <1> DEFINE s == posted[e][d]
             n == posted'[e][d]
             f == [dd \in Devices |-> IF dd \in D /\ ~Contains(posted[x][dd], code)
                                      THEN Append(posted[x][dd], code) ELSE posted[x][dd]]
  <1>1. s \in Seq(Codes) /\ posted \in [Events -> [Devices -> Seq(Codes)]]
    BY DEF Shape
  <1>2. posted' = [posted EXCEPT ![x] = f]
    BY DEF PostedAfter
  <1>3. n = s \/ n = Append(s, code)
    <2>1. CASE e # x
      <3> HIDE DEF f
      <3> QED BY <1>1, <1>2, <2>1
    <2>2. CASE e = x
      <3>1. posted'[e] = f
        <4> HIDE DEF f
        <4> QED BY <1>1, <1>2, <2>2
      <3>2. f[d] = posted[e][d] \/ f[d] = Append(posted[e][d], code)
        BY <2>2
      <3> HIDE DEF f
      <3> QED BY <3>1, <3>2
    <2> QED BY <2>1, <2>2
  <1>4. PICK i \in 1..Len(s), j \in 1..Len(s) : i < j /\ s[i] = "ACTIVE" /\ s[j] = "COMPLETED"
    BY DEF Before
  <1>5. Len(n) \in Nat /\ Len(s) \in Nat /\ Len(n) >= Len(s) /\ n[i] = s[i] /\ n[j] = s[j]
    <2>1. Len(s) \in Nat /\ Len(Append(s, code)) = Len(s) + 1
          /\ \A k \in 1..Len(s) : Append(s, code)[k] = s[k]
      BY <1>1
    <2> HIDE DEF s, n
    <2>2. CASE n = s
      BY <2>1, <2>2
    <2>3. CASE n = Append(s, code)
      BY <1>4, <2>1, <2>3
    <2> QED BY <1>3, <2>2, <2>3
  <1>6. i \in 1..Len(n) /\ j \in 1..Len(n)
    BY <1>4, <1>5
  <1> QED BY <1>4, <1>5, <1>6 DEF Before

LEMMA OtherPosts ==
    ASSUME Shape, NEW x, NEW code \in Codes \ {"REJECTED", "COMPLETED", "SUPERSEDED"}, NEW D,
           posted' = posted \/ posted' = PostedAfter(x, code, D)
    PROVE  PostsSettled
  <1>1. CASE posted' = posted
    BY <1>1, SilentPosts
  <1>2. CASE posted' = PostedAfter(x, code, D)
    <2>1. code \in Codes /\ code # "REJECTED" /\ code # "COMPLETED" /\ code # "SUPERSEDED"
      OBVIOUS
    <2> HIDE DEF Codes
    <2>2. Adds(x, code, D) /\ OrderKept
      BY <1>2, <2>1, PostedExactly, PostsInOrder
    <2>3. \A e \in Events, d \in Devices :
            /\ Contains(posted[e][d], "ACTIVE") => Contains(posted'[e][d], "ACTIVE")
            /\ \A c \in {"REJECTED", "COMPLETED", "SUPERSEDED"} :
                  Contains(posted'[e][d], c) => Contains(posted[e][d], c)
      BY <2>1, <2>2 DEF Adds
    <2> QED BY <2>2, <2>3 DEF PostsSettled, WordsKnown, Posted
  <1> QED BY <1>1, <1>2

(* Who hears of e, after a step that takes over more of its devices. *)
LEMMA AudienceShrinks ==
    ASSUME mapped' = mapped, discovered' = discovered, NEW e, rec[e].sup \subseteq rec'[e].sup
    PROVE  Audience(e, rec[e].sup)' \subseteq Audience(e, rec[e].sup)
  <1>1. Devs(e)' = Devs(e)
    BY DEF Devs, DevsIn
  <1> QED BY <1>1 DEF Audience, Reachable

LEMMA RecordsStill ==
    ASSUME rec' = rec, stored' \subseteq stored, mapped' = mapped, discovered' = discovered
    PROVE  RecordsSettled
  BY AudienceShrinks DEF RecordsSettled

(* The record of a stored event, moved towards its end. *)
LEMMA RecordMoved ==
    ASSUME Shape, Known, NEW x \in stored, NEW r, rec' = [rec EXCEPT ![x] = r],
           r.app = rec[x].app, r.rej = rec[x].rej, rec[x].sup \subseteq r.sup,
           r.st # "none", r.st \in Live => r.st = rec[x].st,
           stored' = stored, mapped' = mapped, discovered' = discovered
    PROVE  RecordsSettled
  <1>1. \A e \in Events : rec'[e] = IF e = x THEN r ELSE rec[e]
    BY DEF Shape
  <1>2. rec[x].st # "none" /\ x \in Events
    BY DEF Known, Shape
  <1>3. ASSUME NEW e \in Events
        PROVE  /\ rec'[e].app = rec[e].app /\ rec'[e].rej = rec[e].rej
               /\ rec[e].st # "none" => rec'[e].st # "none"
               /\ rec[e].st = "none" => rec'[e].st = "none" /\ rec'[e].sup = rec[e].sup
               /\ rec'[e].st \in Live => rec'[e].st = rec[e].st
               /\ rec[e].sup \subseteq rec'[e].sup
    <2>1. CASE e = x
      BY <1>1, <1>2, <2>1
    <2>2. CASE e # x
      BY <1>1, <2>2
    <2> QED BY <2>1, <2>2
  <1>4. \A e \in stored' : e \in Events
    BY DEF Shape
  <1> QED BY <1>3, <1>4, AudienceShrinks DEF RecordsSettled

Frame == TurnsKept /\ RecordsSettled /\ PostsSettled

LEMMA GoingQuiet ==
    ASSUME Shape, NEW t \in Tasks, NEW r, Goto(t, r) PROVE OthersQuiet(t) /\ task'[t] = r
  BY DEF Shape, Goto, OthersQuiet, Quiet

LEMMA CancellingQuiet ==
    ASSUME Shape, NEW t \in Tasks, NEW r, NEW e, CancelTimers(t, r, e)
    PROVE  OthersQuiet(t) /\ task'[t] = r
  BY IdleRecord DEF CancelTimers, OthersQuiet, Quiet

LEMMA WindingQuiet ==
    ASSUME Shape, NEW t \in PassTasks, NEW r, NEW x, NEW timer, timer.pc = "timer",
           task' = [task EXCEPT ![t] = r, ![Wind(x)] = timer]
    PROVE  OthersQuiet(t) /\ task'[t] = r
  <1>1. \A v \in Tasks : task'[v] = IF v = Wind(x) THEN timer ELSE IF v = t THEN r ELSE task[v]
    BY DEF Shape
  <1>2. t # Wind(x) /\ \A e : Wind(x) # Act(e) /\ Wind(x) # Comp(e)
    BY TaskSets, TimersDiffer
  <1>3. task'[t] = r
    BY <1>1, <1>2, TaskSets
  <1>4. ASSUME NEW v \in Tasks, v # t PROVE Quiet(v)
    <2>1. CASE v = Wind(x)
      BY <1>1, <1>2, <2>1 DEF Quiet
    <2>2. CASE v # Wind(x)
      BY <1>1, <1>4, <2>2 DEF Quiet
    <2> QED BY <2>1, <2>2
  <1> QED BY <1>3, <1>4 DEF OthersQuiet

(* Places without a turn. *)
LEMMA PlainContinues ==
    ASSUME NEW t, task'[t].pc \in {"idle", "loop", "optOut", "completed", "unwind", "removed", "prune",
                                   "outage", "recovering", "recovered"}
    PROVE  Continues(t)
  BY DEF Continues, Prepares, InSupersession

LEMMA FallbackFrame ==
    ASSUME Shape, TimerEvent, NEW t \in Tasks, NEW self \in TaskRecords, NEW e, NEW clear, NEW back,
           back # "supersede" \/ (self = task[t] /\ InSupersession(task[t])),
           Fallback(t, self, e, clear, back)
    PROVE  Frame
  <1>1. PICK D, P, A : Goto(t, Suspended([self EXCEPT !.pc = "reverting", !.devs = D,
                                                    !.defs = P, !.back = back], A))
    BY DEF Fallback
  <1> DEFINE q == [self EXCEPT !.pc = "reverting", !.devs = D, !.defs = P, !.back = back]
             r == Suspended(q, A)
  <1>2. q.pc = "reverting" /\ q.back = back /\ q.ev = self.ev /\ q.ret = self.ret
    BY DEF TaskRecords
  <1>3. r.pc = q.pc /\ r.back = q.back /\ r.ev = q.ev /\ r.ret = q.ret
    BY DEF TaskRecords, Suspended
  <1>4. OthersQuiet(t) /\ task'[t] = r
    BY <1>1, GoingQuiet
  <1> HIDE DEF q, r
  <1>5. Continues(t)
    BY <1>2, <1>3, <1>4 DEF Continues, Prepares, InSupersession
  <1>6. TurnsKept
    BY <1>4, <1>5, QuietTurns
  <1>7. rec' = rec /\ stored' = stored /\ mapped' = mapped /\ discovered' = discovered /\ posted' = posted
    BY DEF Fallback, envVars, controlVars
  <1> QED BY <1>6, <1>7, RecordsStill, SilentPosts DEF Frame

(* A step of t that changes no record and posts nothing of weight. *)
LEMMA StillFrame ==
    ASSUME TimerEvent, NEW t \in Tasks, OthersQuiet(t), Continues(t) \/ Quiet(t),
           rec' = rec, stored' \subseteq stored, mapped' = mapped, discovered' = discovered, PostsSettled
    PROVE  Frame
  BY QuietTurns, RecordsStill DEF Frame

LEMMA SupersedeFrame ==
    ASSUME Shape, StartParts, NEW t \in Tasks, NEW a \in Events, NEW b \in Events, Supersede(t, a, b)
    PROVE  Frame
  <1> DEFINE affected == DevsIn(task[t].map, a) \cap DevsIn(task[t].map, b)
             announce == Reachable((affected \ rec[b].sup) \ rec[b].rej)
             q == [At(t, "superseding") EXCEPT !.work = @ \ {<<a, b>>}, !.loser = b, !.devs = affected]
             new == [rec[b] EXCEPT !.sup = @ \cup affected]
  <1>0. task[t] \in TaskRecords /\ TimerEvent /\ Known /\ "SUPERSEDED" \in Codes
    BY DEF Shape, StartParts, Codes
  <1>1. /\ Goto(t, Suspended(q, announce)) /\ task[t].pc = "supersede"
        /\ posted' = PostedAfter(b, "SUPERSEDED", announce)
        /\ b \in stored /\ rec[b].st \notin Terminal /\ rec' = [rec EXCEPT ![b] = new]
        /\ stored' = stored /\ mapped' = mapped /\ discovered' = discovered
    BY DEF Supersede, Skipped, envVars, controlVars
  <1>2. q.pc = "superseding" /\ q.ret = task[t].ret /\ q.ev = task[t].ev
    BY <1>0 DEF TaskRecords, At
  <1>3. Suspended(q, announce).pc = q.pc /\ Suspended(q, announce).ret = q.ret
        /\ Suspended(q, announce).ev = q.ev
    BY <1>0 DEF TaskRecords, At, Suspended
  <1>4. new.app = rec[b].app /\ new.rej = rec[b].rej /\ new.st = rec[b].st
        /\ new.sup = rec[b].sup \cup affected
    BY DEF Shape, EventRecords
  <1>5. announce \subseteq affected
    BY DEF Reachable
  <1>6. rec[b].st # "none" /\ rec'[b] = new
    BY <1>0, <1>1 DEF Known, Shape
  <1> HIDE DEF q, new, affected, announce
  <1>7. OthersQuiet(t) /\ task'[t] = Suspended(q, announce)
    BY <1>1, GoingQuiet
  <1>8. Continues(t)
    BY <1>1, <1>2, <1>3, <1>7 DEF Continues, Prepares, InSupersession
  <1>9. TurnsKept
    BY <1>0, <1>7, <1>8, QuietTurns
  <1>10. RecordsSettled
    BY <1>0, <1>1, <1>4, <1>6, RecordMoved
  <1>11. PostsSettled
    <2>1. Adds(b, "SUPERSEDED", announce) /\ OrderKept
      BY <1>0, <1>1, PostedExactly, PostsInOrder
    <2>2. \A e \in Events, d \in Devices :
            /\ Contains(posted[e][d], "ACTIVE") => Contains(posted'[e][d], "ACTIVE")
            /\ Contains(posted'[e][d], "SUPERSEDED") =>
                  Contains(posted[e][d], "SUPERSEDED") \/ (e = b /\ d \in announce)
            /\ \A c \in {"REJECTED", "COMPLETED"} :
                  Contains(posted'[e][d], c) => Contains(posted[e][d], c)
      BY <2>1 DEF Adds
    <2>3. \A d \in announce : d \in rec'[b].sup
      BY <1>4, <1>5, <1>6
    <2> QED BY <1>1, <2>1, <2>2, <2>3 DEF PostsSettled, WordsKnown, Posted
  <1> QED BY <1>9, <1>10, <1>11 DEF Frame

LEMMA SupersedePostedFrame ==
    ASSUME Shape, StartParts, NEW t \in Tasks, SupersedePosted(t)
    PROVE  Frame
  <1> DEFINE loser == task[t].loser
             group == DevsIn(task[t].map, loser)
             fully == group # {} /\ group \subseteq rec[loser].sup
             pc    == IF fully /\ rec[loser].st = "ACTIVE" THEN "supersedeRevert" ELSE "supersede"
             r     == [At(t, pc) EXCEPT !.devs = {}]
             st    == IF fully THEN "SUPERSEDED" ELSE rec[loser].st
             new   == [rec[loser] EXCEPT !.supm = @ \cup task[t].devs, !.st = st]
  <1>0. task[t] \in TaskRecords /\ TimerEvent /\ Known
    BY DEF Shape, StartParts
  <1>1. /\ CancelTimers(t, r, loser) \/ Goto(t, r)
        /\ task[t].pc = "superseding" /\ loser \in stored /\ posted' = posted
        /\ stored' = stored /\ mapped' = mapped /\ discovered' = discovered
    BY DEF SupersedePosted, envVars, controlVars
  <1>2. loser \in Events /\ rec[loser] \in EventRecords
    BY <1>1 DEF Shape
  <1>3. rec' = [rec EXCEPT ![loser] = new]
    BY <1>2 DEF SupersedePosted, Shape, EventRecords
  <1>4. r.pc \in {"supersedeRevert", "supersede"} /\ r.ret = task[t].ret /\ r.ev = task[t].ev
    BY <1>0 DEF TaskRecords, At
  <1>5. st # "none" /\ (st \in Live => st = rec[loser].st)
    BY <1>0, <1>1 DEF Known, Live
  <1>6. new.app = rec[loser].app /\ new.rej = rec[loser].rej /\ new.sup = rec[loser].sup /\ new.st = st
    <2> HIDE DEF st
    <2> QED BY <1>2 DEF EventRecords
  <1> HIDE DEF r, new, st, fully
  <1>7. OthersQuiet(t) /\ task'[t] = r
    BY <1>1, GoingQuiet, CancellingQuiet
  <1>8. Continues(t)
    BY <1>1, <1>4, <1>7 DEF Continues, Prepares, InSupersession
  <1>9. RecordsSettled
    BY <1>0, <1>1, <1>3, <1>5, <1>6, RecordMoved
  <1> QED BY <1>0, <1>1, <1>7, <1>8, <1>9, QuietTurns, SilentPosts DEF Frame

LEMMA RevertFrames ==
    ASSUME Shape, Returning, StartParts, NEW t \in Tasks,
           SupersedeRevert(t) \/ SupersedeDone(t) \/ Revert(t) \/ Reverted(t)
           \/ \E d \in Devices : RevertFails(t, d)
    PROVE  Frame
  <1>0. task[t] \in TaskRecords /\ TimerEvent /\ Returns(task[t])
    BY DEF Shape, StartParts, Returning
  <1>1. CASE SupersedeRevert(t)
    <2>1. InSupersession(task[t])
      BY <1>1 DEF SupersedeRevert, InSupersession
    <2> QED BY <1>0, <1>1, <2>1, FallbackFrame DEF SupersedeRevert
  <1>2. CASE Revert(t)
    <2>1. (IF t \in PassTasks THEN "loop" ELSE "idle") # "supersede"
      OBVIOUS
    <2> QED BY <1>0, <1>2, <2>1, FallbackFrame DEF Revert
  <1>3. CASE SupersedeDone(t)
    <2> DEFINE r == [At(t, task[t].ret) EXCEPT !.work = {}, !.map = {},
                                               !.loser = NoEvent, !.ret = "idle"]
    <2>1. /\ Goto(t, r) /\ rec' = rec /\ stored' = stored /\ mapped' = mapped
          /\ discovered' = discovered /\ posted' = posted /\ task[t].pc = "supersede"
      BY <1>3 DEF SupersedeDone, envVars, controlVars
    <2>2. r.pc = task[t].ret /\ r.ev = task[t].ev
      BY <1>0 DEF TaskRecords, At
    <2>3. task[t].ret \in {"prune", "apply"}
      BY <1>0, <2>1 DEF Returns, InSupersession
    <2> HIDE DEF r
    <2>4. OthersQuiet(t) /\ task'[t] = r
      BY <2>1, GoingQuiet
    <2>5. Continues(t)
      BY <2>1, <2>2, <2>3, <2>4 DEF Continues, Prepares, InSupersession
    <2> QED BY <1>0, <2>1, <2>4, <2>5, StillFrame, SilentPosts
  <1>4. CASE Reverted(t)
    <2> DEFINE back == task[t].back
               r == IF back = "idle" THEN Idle ELSE [At(t, back) EXCEPT !.devs = {}, !.defs = {}]
    <2>1. /\ Goto(t, r) /\ rec' = rec /\ stored' = stored /\ mapped' = mapped
          /\ discovered' = discovered /\ posted' = posted /\ task[t].pc = "reverting"
      BY <1>4 DEF Reverted, envVars, controlVars
    <2>2. r.pc = back /\ ((r.ret = task[t].ret /\ r.ev = task[t].ev) \/ r = Idle)
      BY <1>0 DEF TaskRecords, At, Idle
    <2>3. back \in {"idle", "loop", "removed", "outage", "supersede"}
      BY <1>0, <2>1 DEF Returns
    <2> HIDE DEF r
    <2>4. OthersQuiet(t) /\ task'[t] = r
      BY <2>1, GoingQuiet
    <2>5. Continues(t)
      BY <2>1, <2>2, <2>3, <2>4, IdleRecord DEF Continues, Prepares, InSupersession
    <2> QED BY <1>0, <2>1, <2>4, <2>5, StillFrame, SilentPosts
  <1>5. ASSUME NEW d \in Devices, RevertFails(t, d) PROVE Frame
    <2>1. PICK P : Goto(t, [task[t] EXCEPT !.devs = @ \ {d}, !.defs = P])
      BY <1>5 DEF RevertFails
    <2> DEFINE r == [task[t] EXCEPT !.devs = @ \ {d}, !.defs = P]
    <2>2. /\ rec' = rec /\ stored' = stored /\ mapped' = mapped
          /\ discovered' = discovered /\ posted' = posted /\ task[t].pc = "reverting"
      BY <1>5 DEF RevertFails, envVars, controlVars
    <2>3. r.pc = task[t].pc /\ r.ret = task[t].ret /\ r.ev = task[t].ev /\ r.back = task[t].back
      BY <1>0 DEF TaskRecords
    <2>4. OthersQuiet(t) /\ task'[t] = r
      BY <2>1, GoingQuiet
    <2> HIDE DEF r
    <2>5. Continues(t)
      BY <2>2, <2>3, <2>4 DEF Continues, Prepares, InSupersession
    <2> QED BY <1>0, <2>2, <2>4, <2>5, StillFrame, SilentPosts
  <1> QED BY <1>1, <1>2, <1>3, <1>4, <1>5

(* A cancellation takes the turn from its event's timers. *)
LEMMA CancelFrame ==
    ASSUME Shape, StartParts, NEW t \in Tasks, NEW e \in stored, NEW ret \in {"loop", "removed"},
           Cancel(t, e, ret)
    PROVE  Frame
  <1> DEFINE new == [rec[e] EXCEPT !.st = "CANCELLED"]
  <1>0. TimerEvent /\ Known /\ e \in Events /\ "CANCELLED" \in Codes
    BY DEF Shape, StartParts, Codes
  <1>1. /\ rec' = [rec EXCEPT ![e] = new]
        /\ posted' = PostedAfter(e, "CANCELLED", StartedAudience(e))
        /\ stored' = stored /\ mapped' = mapped /\ discovered' = discovered
    BY DEF Cancel, envVars, controlVars
  <1>2. new.app = rec[e].app /\ new.rej = rec[e].rej /\ new.sup = rec[e].sup /\ new.st = "CANCELLED"
    BY <1>0 DEF Shape, EventRecords
  <1>3. OthersQuiet(t)
    BY CancellingQuiet DEF Cancel
  <1>4. task'[t].pc \in {"unwind", "loop", "removed"}
    BY CancelRecord
  <1> HIDE DEF new
  <1>5. RecordsSettled
    BY <1>0, <1>1, <1>2, RecordMoved DEF Live
  <1>6. PostsSettled
    BY <1>0, <1>1, OtherPosts
  <1> QED BY <1>0, <1>3, <1>4, <1>5, <1>6, PlainContinues, QuietTurns DEF Frame

(* The steps of a pass that take on and schedule no event. *)
LEMMA PassFrames ==
    ASSUME Shape, Returning, StartParts, NEW t \in PassTasks, PassStep(t),
           ~\E e \in Events : SeePreCancelled(t, e) \/ SeeNew(t, e), ~ScheduleActivation(t)
    PROVE  Frame
  <1>0. t \in Tasks /\ task[t] \in TaskRecords /\ TimerEvent /\ Returns(task[t])
        /\ "EXPIRED" \in Codes
    BY TaskSets DEF Shape, StartParts, Returning, Codes
  <1>1. ASSUME NEW e \in Events, SeeKnown(t, e) PROVE Frame
    <2>1. CASE Cancel(t, e, "loop")
      BY <1>0, <1>1, <2>1, CancelFrame DEF SeeKnown
    <2>2. CASE ~Cancel(t, e, "loop")
      <3>1. /\ Goto(t, Looked(t, e, "loop")) /\ rec' = rec /\ stored' = stored /\ mapped' = mapped
            /\ discovered' = discovered /\ posted' = posted
        BY <1>1, <2>2 DEF SeeKnown, envVars, controlVars
      <3>2. Looked(t, e, "loop").pc = "loop"
        BY <1>0 DEF Looked, At, TaskRecords
      <3> QED BY <1>0, <3>1, <3>2, GoingQuiet, PlainContinues, StillFrame, SilentPosts
    <2> QED BY <2>1, <2>2
  <1>2. ASSUME NEW e \in Events, SeeUnstored(t, e) PROVE Frame
    <2> DEFINE D == IF posted' = posted THEN {} ELSE Audience(e, {})
               r == Suspended(Looked(t, e, "loop"), D)
    <2>1. /\ Goto(t, r)
          /\ rec' = rec /\ stored' = stored /\ mapped' = mapped /\ discovered' = discovered
          /\ posted' = posted \/ posted' = PostedAfter(e, "EXPIRED", Audience(e, {}))
      BY <1>2 DEF SeeUnstored, envVars, controlVars
    <2>2. r.pc = "loop"
      <3> HIDE DEF D
      <3> QED BY <1>0 DEF Looked, At, Suspended, TaskRecords
    <2> HIDE DEF r
    <2>3. PostsSettled
      BY <1>0, <2>1, OtherPosts
    <2> QED BY <1>0, <2>1, <2>2, <2>3, GoingQuiet, PlainContinues, StillFrame
  <1>3. ASSUME NEW e \in Events, CancelRemoved(t, e) PROVE Frame
    <2>1. CASE e \in stored
      BY <1>0, <1>3, <2>1, CancelFrame DEF CancelRemoved
    <2>2. CASE e \notin stored
      <3>1. /\ Goto(t, Idle) /\ rec' = rec /\ stored' = stored /\ mapped' = mapped
            /\ discovered' = discovered /\ posted' = posted
        BY <1>3, <2>2 DEF CancelRemoved, envVars, controlVars
      <3> QED BY <1>0, <3>1, IdleRecord, GoingQuiet, PlainContinues, StillFrame, SilentPosts
    <2> QED BY <2>1, <2>2
  <1>4. CASE LateDiscovery(t)
    <2>1. /\ Goto(t, Superseding(t, "apply")) /\ rec' = rec /\ stored' = stored /\ mapped' = mapped
          /\ discovered' = discovered /\ posted' = posted /\ task[t].pc = "ackLate"
      BY <1>4 DEF LateDiscovery, envVars, controlVars
    <2>2. OthersQuiet(t) /\ task'[t] = Superseding(t, "apply")
      BY <1>0, <2>1, GoingQuiet
    <2>3. Superseding(t, "apply").pc = "supersede" /\ Superseding(t, "apply").ev = task[t].ev
      BY <1>0 DEF Superseding, At, TaskRecords
    <2>4. Continues(t)
      BY <2>1, <2>2, <2>3 DEF Continues, Prepares, InSupersession
    <2> QED BY <1>0, <2>1, <2>2, <2>4, StillFrame, SilentPosts
  <1>5. CASE FindRemoved(t)
    <2>1. PICK S : Goto(t, [At(t, "removed") EXCEPT !.ev = NoEvent, !.cx = {}, !.todo = S])
      BY <1>5 DEF FindRemoved
    <2>2. /\ rec' = rec /\ stored' = stored /\ mapped' = mapped
          /\ discovered' = discovered /\ posted' = posted
      BY <1>5 DEF FindRemoved, envVars, controlVars
    <2> DEFINE r == [At(t, "removed") EXCEPT !.ev = NoEvent, !.cx = {}, !.todo = S]
    <2>3. r.pc = "removed"
      BY <1>0 DEF At, TaskRecords
    <2>4. OthersQuiet(t) /\ task'[t] = r
      BY <1>0, <2>1, GoingQuiet
    <2> HIDE DEF r
    <2>5. Continues(t)
      BY <2>3, <2>4, PlainContinues
    <2> QED BY <1>0, <2>2, <2>4, <2>5, StillFrame, SilentPosts
  <1>6. CASE SupersedeAll(t)
    <2> DEFINE r == [Superseding(t, "prune") EXCEPT !.ev = NoEvent]
    <2>1. /\ Goto(t, r) /\ rec' = rec /\ stored' = stored /\ mapped' = mapped
          /\ discovered' = discovered /\ posted' = posted
      BY <1>6 DEF SupersedeAll, envVars, controlVars
    <2>2. r.pc = "supersede" /\ r.ret = "prune"
      BY <1>0 DEF Superseding, At, TaskRecords
    <2> HIDE DEF r
    <2>3. OthersQuiet(t) /\ task'[t] = r
      BY <1>0, <2>1, GoingQuiet
    <2>4. Continues(t)
      BY <2>2, <2>3 DEF Continues, Prepares
    <2> QED BY <1>0, <2>1, <2>3, <2>4, StillFrame, SilentPosts
  <1>7. CASE PruneAndDefault(t)
    <2>1. PICK D, P : Goto(t, Suspended([Idle EXCEPT !.pc = "reverting", !.devs = D, !.defs = P], D))
      BY <1>7 DEF PruneAndDefault
    <2> DEFINE r == Suspended([Idle EXCEPT !.pc = "reverting", !.devs = D, !.defs = P], D)
    <2>2. r.pc = "reverting" /\ r.back = "idle"
      BY DEF Idle, Suspended
    <2>3. OthersQuiet(t) /\ task'[t] = r
      BY <1>0, <2>1, GoingQuiet
    <2> HIDE DEF r
    <2>4. Continues(t)
      BY <2>2, <2>3 DEF Continues, Prepares, InSupersession
    <2>5. /\ rec' = rec /\ stored' \subseteq stored /\ mapped' = mapped
          /\ discovered' = discovered /\ posted' = posted
      BY <1>7 DEF PruneAndDefault, Kept, envVars, controlVars
    <2> QED BY <1>0, <2>3, <2>4, <2>5, StillFrame, SilentPosts
  <1>8. CASE Unwind(t)
    <2> DEFINE ret == task[t].ret
    <2>1. ret \in {"loop", "removed"}
      BY <1>0, <1>8 DEF Unwind, Returns
    <2>2. CASE Fallback(t, task[t], task[t].ev, FALSE, ret)
      BY <1>0, <2>1, <2>2, FallbackFrame
    <2>3. CASE ~Fallback(t, task[t], task[t].ev, FALSE, ret)
      <3> DEFINE timer == [Idle EXCEPT !.pc = "timer", !.ev = task[t].ev,
                                       !.at = now + WindDown[task[t].ev]]
      <3>1. /\ task' = [task EXCEPT ![t] = At(t, ret), ![Wind(task[t].ev)] = timer]
            /\ rec' = rec /\ stored' = stored /\ mapped' = mapped
            /\ discovered' = discovered /\ posted' = posted
        BY <1>8, <2>3 DEF Unwind, envVars, controlVars
      <3>2. timer.pc = "timer" /\ At(t, ret).pc = ret
        BY <1>0 DEF Idle, At, TaskRecords
      <3> DEFINE r == At(t, ret)
                 x == task[t].ev
      <3>3. task' = [task EXCEPT ![t] = r, ![Wind(x)] = timer] /\ r.pc = ret
        BY <3>1, <3>2
      <3> HIDE DEF timer, r, x
      <3>4. OthersQuiet(t) /\ task'[t] = r
        BY <3>2, <3>3, WindingQuiet
      <3>5. task'[t].pc = "loop" \/ task'[t].pc = "removed"
        <4> HIDE DEF ret
        <4> QED BY <2>1, <3>3, <3>4
      <3>6. Continues(t)
        BY <3>5, PlainContinues
      <3> QED BY <1>0, <3>1, <3>4, <3>6, StillFrame, SilentPosts
    <2> QED BY <2>2, <2>3
  <1> QED BY <1>1, <1>2, <1>3, <1>4, <1>5, <1>6, <1>7, <1>8 DEF PassStep

LEMMA TimerFrames ==
    ASSUME Shape, StartParts, NEW t \in Tasks, TimerSkips(t) PROVE Frame
  <1>1. /\ Goto(t, Idle) /\ rec' = rec /\ stored' = stored /\ mapped' = mapped
        /\ discovered' = discovered /\ posted' = posted
    BY DEF TimerSkips, envVars, controlVars
  <1> QED BY <1>1, IdleRecord, GoingQuiet, PlainContinues, StillFrame, SilentPosts DEF StartParts

LEMMA OutageFrames ==
    ASSUME Shape, StartParts, OutageStep PROVE Frame
  <1>0. Outage \in Tasks /\ task[Outage] \in TaskRecords /\ TimerEvent
    BY TaskSets DEF Shape, StartParts
  <1>1. ASSUME NEW e \in Events, OutageReverts(e) PROVE Frame
    <2> DEFINE self == [task[Outage] EXCEPT !.todo = @ \ {e}]
    <2>1. self \in TaskRecords
      BY <1>0 DEF TaskRecords
    <2>2. Fallback(Outage, self, e, TRUE, "outage")
      BY <1>1 DEF OutageReverts
    <2> HIDE DEF self
    <2> QED BY <1>0, <2>1, <2>2, FallbackFrame
  <1>2. CASE OutageReverted
    <2>1. /\ Goto(Outage, Idle) /\ rec' = rec /\ stored' = stored /\ mapped' = mapped
          /\ discovered' = discovered /\ posted' = posted
      BY <1>2 DEF OutageReverted, envVars, controlVars
    <2> QED BY <1>0, <2>1, IdleRecord, GoingQuiet, PlainContinues, StillFrame, SilentPosts
  <1> QED BY <1>1, <1>2 DEF OutageStep

(* cancel_program: the events of g that are stored end with its mapping. *)
LEMMA CancelProgramFrame ==
    ASSUME Shape, StartParts, NEW g \in Programs, CancelProgram(g) PROVE Frame
  <1> DEFINE gone == {e \in stored : Prog[e] = g /\ rec[e].st \in Live}
  <1>0. TimerEvent /\ Known /\ Outage \in Tasks /\ stored \subseteq Events
    BY TaskSets DEF StartParts, Shape
  <1>1. /\ rec' = [e \in Events |-> IF e \in gone THEN [rec[e] EXCEPT !.st = "CANCELLED"] ELSE rec[e]]
        /\ mapped' = mapped \ {g} /\ stored' = stored /\ discovered' = discovered /\ posted' = posted
        /\ \A t \in Tasks : task'[t] = Idle \/ task'[t] = task[t]
    BY DEF CancelProgram
  <1>2. TurnsKept
    <2>1. \A t \in Tasks : Quiet(t)
      BY <1>1, IdleRecord DEF Quiet
    <2> QED BY <1>0, <2>1, QuietTurns DEF OthersQuiet
  <1>3. ASSUME NEW e \in Events
        PROVE  /\ rec'[e].app = rec[e].app /\ rec'[e].rej = rec[e].rej /\ rec'[e].sup = rec[e].sup
               /\ rec'[e].st = IF e \in gone THEN "CANCELLED" ELSE rec[e].st
    <2>1. rec[e] \in EventRecords
      BY DEF Shape
    <2>2. rec'[e] = IF e \in gone THEN [rec[e] EXCEPT !.st = "CANCELLED"] ELSE rec[e]
      BY <1>1
    <2> HIDE DEF gone
    <2> QED BY <2>1, <2>2 DEF EventRecords
  <1>4. ASSUME NEW e \in stored', rec'[e].st = "ACTIVE"
        PROVE  Audience(e, rec[e].sup)' \subseteq Audience(e, rec[e].sup)
    <2>1. e \in stored /\ e \in Events /\ e \notin gone
      BY <1>0, <1>1, <1>3, <1>4
    <2>2. rec[e].st = "ACTIVE" /\ rec'[e].sup = rec[e].sup
      BY <1>3, <1>4, <2>1
    <2>3. Prog[e] # g
      BY <2>1, <2>2 DEF Live
    <2>4. Devs(e)' = Devs(e)
      BY <1>1, <2>3 DEF Devs, DevsIn
    <2> QED BY <1>1, <2>2, <2>4 DEF Audience, Reachable
  <1>5. \A e \in gone : rec[e].st \in Live /\ rec[e].st # "none"
    BY DEF Live
  <1> HIDE DEF gone
  <1>6. RecordsSettled
    BY <1>1, <1>3, <1>4, <1>5 DEF RecordsSettled, Live
  <1> QED BY <1>1, <1>2, <1>6, SilentPosts DEF Frame

LEMMA EnterFrame == ASSUME Shape, StartParts, EnterCommsLoss PROVE Frame
  <1> DEFINE active == ActiveEvents
             r == [Idle EXCEPT !.pc = "outage", !.run = TRUE, !.todo = active]
  <1>0. TimerEvent /\ Outage \in Tasks
    BY TaskSets DEF StartParts
  <1>1. /\ rec' = [e \in Events |-> IF e \in active THEN [rec[e] EXCEPT !.opted = TRUE] ELSE rec[e]]
        /\ mapped' = mapped /\ stored' = stored /\ discovered' = discovered /\ posted' = posted
        /\ \A t \in Tasks : t # Outage => task'[t] = Idle \/ task'[t] = task[t]
        /\ task'[Outage] = r
    BY <1>0 DEF EnterCommsLoss
  <1>2. TurnsKept
    <2>1. OthersQuiet(Outage)
      BY <1>1, IdleRecord DEF OthersQuiet, Quiet
    <2>2. r.pc = "outage"
      BY DEF Idle
    <2> HIDE DEF r
    <2> QED BY <1>0, <1>1, <2>1, <2>2, QuietTurns, PlainContinues
  <1>3. ASSUME NEW e \in Events
        PROVE  /\ rec'[e].app = rec[e].app /\ rec'[e].rej = rec[e].rej /\ rec'[e].sup = rec[e].sup
               /\ rec'[e].st = rec[e].st
    <2>1. rec[e] \in EventRecords
      BY DEF Shape
    <2>2. rec'[e] = IF e \in active THEN [rec[e] EXCEPT !.opted = TRUE] ELSE rec[e]
      BY <1>1
    <2> HIDE DEF active
    <2> QED BY <2>1, <2>2 DEF EventRecords
  <1>4. \A e \in stored' : e \in Events
    BY <1>1 DEF Shape
  <1>5. RecordsSettled
    BY <1>1, <1>3, <1>4, AudienceShrinks DEF RecordsSettled
  <1> QED BY <1>1, <1>2, <1>5, SilentPosts DEF Frame

(* What happens between the steps of the tasks, while the LFDIs are kept. *)
LEMMA EnvironmentFrame ==
    ASSUME Shape, StartParts, ready, discovered', Environment PROVE Frame /\ ready'
  <1>0. TimerEvent /\ Outage \in Tasks /\ task \in [Tasks -> TaskRecords] /\ PassTasks \subseteq Tasks
    BY TaskSets DEF Shape, StartParts
  <1>1. ASSUME NEW t \in PassTasks, NEW g \in Programs, NEW ok, StartPass(t, g, ok) PROVE Frame /\ ready'
    <2>1. PICK todo, cx : Goto(t, [Idle EXCEPT !.pc = "loop", !.run = TRUE, !.prog = g, !.at = now,
                                               !.todo = todo, !.cx = cx])
      BY <1>1 DEF StartPass
    <2> DEFINE r == [Idle EXCEPT !.pc = "loop", !.run = TRUE, !.prog = g, !.at = now,
                                 !.todo = todo, !.cx = cx]
    <2>2. /\ rec' = rec /\ stored' = stored /\ mapped' = mapped /\ ready' = ready
          /\ discovered' = discovered /\ posted' = posted
      BY <1>1 DEF StartPass
    <2>3. r.pc = "loop" /\ t \in Tasks
      BY <1>0 DEF Idle
    <2>4. OthersQuiet(t) /\ task'[t] = r
      BY <2>1, <2>3, GoingQuiet
    <2> HIDE DEF r
    <2>5. Continues(t)
      BY <2>3, <2>4, PlainContinues
    <2>6. Frame
      BY <1>0, <2>2, <2>3, <2>4, <2>5, StillFrame, SilentPosts
    <2> QED BY <2>2, <2>6
  <1>2. ASSUME NEW g \in Programs, CancelProgram(g) PROVE Frame /\ ready'
    BY <1>2, CancelProgramFrame DEF CancelProgram
  <1>3. CASE EnterCommsLoss
    BY <1>3, EnterFrame DEF EnterCommsLoss
  <1>4. ~BeginRediscovery /\ ~BeginRecovery /\ \A ok : ~EndRediscovery(ok)
    BY DEF BeginRediscovery, BeginRecovery, EndRediscovery, ClearState
  <1>5. CASE (\E d \in Devices : WriteLands(d)) \/ LeaveCommsLoss \/ DropBoundary \/ Tick
    <2>1. /\ rec' = rec /\ stored' = stored /\ mapped' = mapped /\ ready' = ready
          /\ discovered' = discovered /\ posted' = posted
          /\ task' = task \/ Goto(Outage, Idle)
      BY <1>5 DEF WriteLands, LeaveCommsLoss, DropBoundary, Tick, controlVars
    <2>2. OthersQuiet(Outage) /\ Quiet(Outage)
      BY <1>0, <2>1, IdleRecord, GoingQuiet DEF OthersQuiet, Quiet
    <2> QED BY <1>0, <2>1, <2>2, StillFrame, SilentPosts
  <1> QED BY <1>1, <1>2, <1>3, <1>4, <1>5 DEF Environment

-----------------------------------------------------------------------------
(* The steps that start an event, e: what they must establish of e. *)
TurnsRight(e) ==
    /\ \A t, u \in Tasks : HasTurn(t, e) /\ HasTurn(u, e) => t = u
    /\ \A t \in Tasks : HasTurn(t, e) =>
          rec[e].st # "none" /\ ~Timed(e) /\ \A d \in Devices : ~Posted(e, d, "COMPLETED")
DevicesRight(e) ==
    /\ rec[e].st \in {"none", "SCHEDULED"} => rec[e].app \cup rec[e].rej = {} /\ ~Timed(e)
    /\ rec[e].app \cap rec[e].rej = {}
    /\ \A t \in Tasks :
          /\ Preparing(t, e) => rec[e].app \cup rec[e].rej = {}
          /\ Preparing(t, e) \/ Dispatching(t, e) => rec[e].st # "SCHEDULED"
          /\ Dispatching(t, e) => task[t].devs \cap (rec[e].app \cup rec[e].rej) = {}
StoreRight(e) ==
    /\ e \in stored => rec[e].st # "none"
    /\ rec[e].st = "none" => rec[e].sup = {}
ToldRight(e) ==
    \A d \in Devices :
        /\ d \in rec[e].app => Posted(e, d, "ACTIVE")
        /\ Posted(e, d, "REJECTED") => d \in rec[e].rej
        /\ Posted(e, d, "SUPERSEDED") => d \in rec[e].sup
        /\ Posted(e, d, "COMPLETED") => rec[e].st \in Terminal
AnnouncedRight(e) ==
    \A d \in Devices : Untargeted(e) /\ d \in Audience(e, rec[e].sup) => Posted(e, d, "ACTIVE")
CompletedRight(e) ==
    \A d \in Devices : Posted(e, d, "COMPLETED") =>
        /\ Before(e, d, "ACTIVE", "COMPLETED")
        /\ ~Posted(e, d, "REJECTED") /\ ~Posted(e, d, "SUPERSEDED")
EventRight(e) ==
    /\ TurnsRight(e) /\ DevicesRight(e) /\ StoreRight(e)
    /\ ToldRight(e) /\ AnnouncedRight(e) /\ CompletedRight(e)

LEMMA PartsByEvent == ASSUME StartParts, NEW e \in Events, Shape PROVE EventRight(e)
  <1>1. TurnsRight(e)
    BY DEF StartParts, OneTurn, TurnFirst, TurnsRight
  <1>2. DevicesRight(e)
    BY DEF StartParts, SettlesOnce, DevicesRight
  <1>3. StoreRight(e)
    BY DEF StartParts, Known, StoreRight
  <1>4. ToldRight(e) /\ AnnouncedRight(e) /\ CompletedRight(e)
    BY DEF StartParts, ToldOnRecord, ToldRight, Announced, AnnouncedRight,
           CompletedOnlyWhereItRan, CompletedRight
  <1> QED BY <1>1, <1>2, <1>3, <1>4 DEF EventRight

(* What a step leaves alone of an event. *)
Untouched(x) ==
    /\ rec'[x] = rec[x] /\ posted'[x] = posted[x] /\ (x \in stored' => x \in stored)
    /\ Timed(x)' => Timed(x)
    /\ \A t \in Tasks :
          /\ Preparing(t, x)' => Preparing(t, x)
          /\ Dispatching(t, x)' => Dispatching(t, x) /\ task'[t].devs = task[t].devs
          /\ Scheduling(t, x)' => Scheduling(t, x)

LEMMA UntouchedRight ==
    ASSUME NEW x \in Events, EventRight(x), Untouched(x), mapped' = mapped, discovered' = discovered
    PROVE  EventRight(x)'
  <1>0. /\ TurnsRight(x) /\ DevicesRight(x) /\ StoreRight(x)
        /\ ToldRight(x) /\ AnnouncedRight(x) /\ CompletedRight(x)
    BY DEF EventRight
  <1>1. rec'[x] = rec[x] /\ posted'[x] = posted[x] /\ (x \in stored' => x \in stored)
        /\ (Timed(x)' => Timed(x))
    BY DEF Untouched
  <1>2. \A t \in Tasks : /\ Preparing(t, x)' => Preparing(t, x)
                         /\ Dispatching(t, x)' => Dispatching(t, x) /\ task'[t].devs = task[t].devs
                         /\ HasTurn(t, x)' => HasTurn(t, x)
    BY DEF Untouched, HasTurn
  <1>3. \A d \in Devices : \A c : Posted(x, d, c)' <=> Posted(x, d, c)
    BY <1>1 DEF Posted
  <1>4. TurnsRight(x)'
    BY <1>0, <1>1, <1>2, <1>3 DEF TurnsRight
  <1>5. DevicesRight(x)'
    BY <1>0, <1>1, <1>2 DEF DevicesRight
  <1>6. StoreRight(x)'
    BY <1>0, <1>1 DEF StoreRight
  <1>7. ToldRight(x)'
    BY <1>0, <1>1, <1>3 DEF ToldRight
  <1>8. AnnouncedRight(x)'
    <2>1. Audience(x, rec[x].sup)' = Audience(x, rec[x].sup)
      BY <1>1 DEF Audience, Devs, DevsIn, Reachable
    <2>2. Untargeted(x)' => Untargeted(x)
      BY <1>1, <1>2 DEF Untargeted
    <2> QED BY <1>0, <1>3, <2>1, <2>2 DEF AnnouncedRight
  <1>9. CompletedRight(x)'
    BY <1>0, <1>1, <1>3 DEF CompletedRight, Before
  <1> QED BY <1>4, <1>5, <1>6, <1>7, <1>8, <1>9 DEF EventRight

(* A step about e alone. *)
LEMMA StepsAbout ==
    ASSUME Shape, Shape', StartParts, NEW e, mapped' = mapped, discovered' = discovered, TimerEvent',
           \A x \in Events : x # e => Untouched(x),
           e \in Events => EventRight(e)'
    PROVE  StartParts'
  <1>1. \A x \in Events : EventRight(x)'
    BY PartsByEvent, UntouchedRight
  <1>2. \A x \in Events : /\ TurnsRight(x)' /\ DevicesRight(x)' /\ StoreRight(x)'
                          /\ ToldRight(x)' /\ AnnouncedRight(x)' /\ CompletedRight(x)'
    BY <1>1 DEF EventRight
  <1>3. OneTurn' /\ TurnFirst'
    BY <1>2 DEF OneTurn, TurnFirst, TurnsRight
  <1>4. SettlesOnce'
    BY <1>2 DEF SettlesOnce, DevicesRight
  <1>5. Known'
    BY <1>2 DEF Known, StoreRight, Shape
  <1>6. ToldOnRecord'
    BY <1>2 DEF ToldOnRecord, ToldRight
  <1>7. Announced'
    BY <1>2 DEF Announced, AnnouncedRight
  <1>8. CompletedOnlyWhereItRan'
    BY <1>2 DEF CompletedOnlyWhereItRan, CompletedRight
  <1> QED BY <1>3, <1>4, <1>5, <1>6, <1>7, <1>8 DEF StartParts

(* A step of t about e: nobody else gets a turn. *)
About(t, e) ==
    /\ OthersQuiet(t) /\ task'[t].pc # "timer"
    /\ Continues(t) \/ task'[t].ev = e

LEMMA AboutTurns ==
    ASSUME TimerEvent, NEW t \in Tasks, NEW e, About(t, e)
    PROVE  /\ TimerEvent'
           /\ \A x \in Events : Timed(x)' => Timed(x)
           /\ \A x \in Events, u \in Tasks : x # e \/ u # t =>
                 /\ Preparing(u, x)' => Preparing(u, x)
                 /\ Dispatching(u, x)' => Dispatching(u, x) /\ task'[u].devs = task[u].devs
                 /\ Scheduling(u, x)' => Scheduling(u, x)
           /\ ~Continues(t) \/ \A x \in Events, u \in Tasks :
                 /\ Preparing(u, x)' => Preparing(u, x)
                 /\ Dispatching(u, x)' => Dispatching(u, x)
                 /\ Scheduling(u, x)' => Scheduling(u, x)
  <1>1. TimerEvent'
    <2> SUFFICES ASSUME NEW x \in Events, task'[Act(x)].pc = "timer" PROVE task'[Act(x)].ev = x
      BY DEF TimerEvent
    <2>1. Act(x) \in Tasks /\ Act(x) # t
      BY TaskSets, TimersDiffer DEF About
    <2> QED BY <2>1 DEF About, OthersQuiet, Quiet, TimerEvent
  <1>2. ASSUME NEW x \in Events PROVE Timed(x)' => Timed(x)
    <2>1. Comp(x) \in Tasks
      BY TaskSets, TimersDiffer
    <2> QED BY <2>1 DEF About, OthersQuiet, Quiet, Timed
  <1>3. ASSUME NEW x \in Events, NEW u \in Tasks, u # t
        PROVE  /\ Preparing(u, x)' => Preparing(u, x)
               /\ Dispatching(u, x)' => Dispatching(u, x) /\ task'[u].devs = task[u].devs
               /\ Scheduling(u, x)' => Scheduling(u, x)
    <2>1. Quiet(u)
      BY <1>3 DEF About, OthersQuiet
    <2> QED BY <2>1 DEF Quiet, Preparing, Prepares, InSupersession, Dispatching, Scheduling
  <1>4. ASSUME NEW x \in Events, Continues(t)
        PROVE  /\ Preparing(t, x)' => Preparing(t, x)
               /\ ~Dispatching(t, x)' /\ ~Scheduling(t, x)'
    BY <1>4 DEF Continues, Preparing, Dispatching, Scheduling
  <1>5. ASSUME NEW x \in Events, x # e, ~Continues(t)
        PROVE  ~Preparing(t, x)' /\ ~Dispatching(t, x)' /\ ~Scheduling(t, x)'
    BY <1>5 DEF About, Preparing, Prepares, Dispatching, Scheduling
  <1> QED BY <1>1, <1>2, <1>3, <1>4, <1>5

LEMMA PostedElsewhere ==
    ASSUME Shape, NEW e, NEW code, NEW D, posted' = posted \/ posted' = PostedAfter(e, code, D),
           NEW x \in Events, x # e
    PROVE  posted'[x] = posted[x]
  BY DEF PostedAfter, Shape

(* The step of t about e leaves the other events alone. *)
LEMMA AboutOne ==
    ASSUME Shape, TimerEvent, NEW t \in Tasks, NEW e, About(t, e),
           NEW r, rec' = rec \/ rec' = [rec EXCEPT ![e] = r], stored' \subseteq stored \cup {e},
           NEW code, NEW D, posted' = posted \/ posted' = PostedAfter(e, code, D),
           NEW x \in Events, x # e
    PROVE  Untouched(x)
  <1>1. rec'[x] = rec[x]
    BY DEF Shape
  <1>2. posted'[x] = posted[x]
    BY PostedElsewhere
  <1> QED BY <1>1, <1>2, AboutTurns DEF Untouched

(* Nothing has been said or done about an event the client did not take on. *)
LEMMA Unheard ==
    ASSUME Shape, StartParts, NEW e \in Events, rec[e].st = "none"
    PROVE  /\ rec[e].app = {} /\ rec[e].rej = {} /\ rec[e].sup = {} /\ ~Timed(e)
           /\ \A t \in Tasks : ~HasTurn(t, e)
           /\ \A d \in Devices : /\ ~Posted(e, d, "REJECTED") /\ ~Posted(e, d, "SUPERSEDED")
                                 /\ ~Posted(e, d, "COMPLETED")
  <1>1. EventRight(e)
    BY PartsByEvent
  <1>2. rec[e].app = {} /\ rec[e].rej = {} /\ rec[e].sup = {} /\ ~Timed(e)
    BY <1>1 DEF EventRight, DevicesRight, StoreRight
  <1>3. \A t \in Tasks : ~HasTurn(t, e)
    BY <1>1 DEF EventRight, TurnsRight
  <1>4. ToldRight(e)
    BY <1>1 DEF EventRight
  <1>5. rec[e].st \notin Terminal
    BY DEF Terminal
  <1> QED BY <1>2, <1>3, <1>4, <1>5 DEF ToldRight

(* process_controls takes on e. *)
LEMMA TakingOn ==
    ASSUME IInv, Shape', StartParts, NEW t \in PassTasks, NEW e \in Events, IsTaken(t, e),
           NEW r, rec' = [rec EXCEPT ![e] = r],
           r.app = {}, r.rej = {}, r.sup = {}, r.st \in Live \cup {"CANCELLED"},
           stored' = stored \cup {e}, mapped' = mapped, discovered' = discovered,
           NEW code \in {"ACKNOWLEDGED", "CANCELLED"}, NEW D,
           posted' = posted \/ posted' = PostedAfter(e, code, D),
           About(t, e),
           task'[t].pc \in {"loop", "optOut", "ackScheduled", "ackLate"},
           task'[t].pc = "ackLate" => r.st # "SCHEDULED"
    PROVE  StartParts'
  <1>0. t \in Tasks /\ Shape /\ TimerEvent /\ rec'[e] = r /\ code \in Codes /\ r.st # "none"
    BY TaskSets DEF IInv, Shape, StartParts, Codes, Live
  <1>1. /\ ~Timed(e) /\ \A u \in Tasks : ~HasTurn(u, e)
        /\ \A d \in Devices : /\ ~Posted(e, d, "REJECTED") /\ ~Posted(e, d, "SUPERSEDED")
                              /\ ~Posted(e, d, "COMPLETED")
    BY <1>0, TakenOnce, Unheard
  <1>2. /\ TimerEvent' /\ ~Timed(e)'
        /\ \A u \in Tasks : u # t => ~HasTurn(u, e)'
    <2>1. /\ TimerEvent' /\ (Timed(e)' => Timed(e))
          /\ \A u \in Tasks : u # t => /\ Preparing(u, e)' => Preparing(u, e)
                                       /\ Dispatching(u, e)' => Dispatching(u, e)
                                       /\ Scheduling(u, e)' => Scheduling(u, e)
      BY <1>0, AboutTurns
    <2> QED BY <1>1, <2>1 DEF HasTurn
  <1>3. ~Dispatching(t, e)' /\ (Preparing(t, e)' => r.st # "SCHEDULED")
    BY DEF Dispatching, Preparing, Prepares, InSupersession
  <1>4. \A d \in Devices : /\ ~Posted(e, d, "REJECTED")' /\ ~Posted(e, d, "SUPERSEDED")'
                           /\ ~Posted(e, d, "COMPLETED")'
    <2>1. CASE posted' = posted
      BY <1>1, <2>1 DEF Posted
    <2>2. CASE posted' = PostedAfter(e, code, D)
      <3>1. Adds(e, code, D)
        BY <1>0, <2>2, PostedExactly
      <3> QED BY <1>1, <3>1 DEF Adds, Posted
    <2> QED BY <2>1, <2>2
  <1>5. TurnsRight(e)'
    BY <1>0, <1>2, <1>4 DEF TurnsRight
  <1>6. DevicesRight(e)'
    <2>1. \A u \in Tasks : ~Dispatching(u, e)' /\ (Preparing(u, e)' => u = t)
      BY <1>2, <1>3 DEF HasTurn
    <2> QED BY <1>0, <1>2, <1>3, <2>1 DEF DevicesRight
  <1>7. StoreRight(e)'
    BY <1>0 DEF StoreRight
  <1>8. ToldRight(e)' /\ CompletedRight(e)'
    BY <1>0, <1>4 DEF ToldRight, CompletedRight
  <1>9. AnnouncedRight(e)'
    <2>1. \A u \in Tasks : ~Dispatching(u, e)'
      BY <1>2, <1>3 DEF HasTurn
    <2> QED BY <1>2, <2>1 DEF AnnouncedRight, Untargeted
  <1>10. \A x \in Events : x # e => Untouched(x)
    BY <1>0, AboutOne
  <1>11. EventRight(e)'
    BY <1>5, <1>6, <1>7, <1>8, <1>9 DEF EventRight
  <1> QED BY <1>0, <1>2, <1>10, <1>11, StepsAbout

LEMMA TakingOnSteps ==
    ASSUME IInv, Shape', StartParts, NEW t \in PassTasks, NEW e \in Events,
           SeePreCancelled(t, e) \/ SeeNew(t, e)
    PROVE  StartParts'
  <1>0. t \in Tasks /\ Shape /\ task[t] \in TaskRecords
    BY TaskSets DEF IInv, Shape
  <1>1. \A pc, D : /\ Looked(t, e, pc).pc = pc /\ Looked(t, e, pc).ev = e
                   /\ Suspended(Looked(t, e, pc), D).pc = pc /\ Suspended(Looked(t, e, pc), D).ev = e
    BY <1>0 DEF Looked, At, Suspended, TaskRecords
  <1>2. CASE SeePreCancelled(t, e)
    <2> DEFINE r == Fresh("CANCELLED")
               D == Audience(e, {})
               q == Suspended(Looked(t, e, "loop"), D)
    <2>1. /\ IsTaken(t, e) /\ rec' = [rec EXCEPT ![e] = r] /\ stored' = stored \cup {e}
          /\ posted' = PostedAfter(e, "CANCELLED", D) /\ Goto(t, q)
          /\ mapped' = mapped /\ discovered' = discovered
      BY <1>2 DEF SeePreCancelled, envVars, controlVars
    <2>2. r.app = {} /\ r.rej = {} /\ r.sup = {} /\ r.st \in Live \cup {"CANCELLED"}
      BY DEF Fresh
    <2>3. q.pc = "loop" /\ q.ev = e
      BY <1>1
    <2> HIDE DEF r, q, D
    <2>4. OthersQuiet(t) /\ task'[t] = q
      BY <1>0, <2>1, GoingQuiet
    <2>5. About(t, e) /\ task'[t].pc = "loop"
      BY <2>3, <2>4 DEF About
    <2> QED BY <2>1, <2>2, <2>5, TakingOn
  <1>3. CASE SeeNew(t, e)
    <2> DEFINE running == task[t].at >= Start[e]
               D  == Audience(e, {})
               st == IF running THEN "ACTIVE" ELSE "SCHEDULED"
               pc == IF running THEN "ackLate" ELSE "ackScheduled"
               o  == running /\ lost
               r  == [Fresh(st) EXCEPT !.opted = o]
    <2>1. /\ IsTaken(t, e) /\ rec' = [rec EXCEPT ![e] = r] /\ stored' = stored \cup {e}
          /\ mapped' = mapped /\ discovered' = discovered
      BY <1>3 DEF SeeNew
    <2>2. \/ posted' = PostedAfter(e, "ACKNOWLEDGED", D) /\ Goto(t, Suspended(Looked(t, e, pc), D))
          \/ posted' = posted /\ CancelTimers(t, Looked(t, e, "optOut"), e)
      BY <1>3 DEF SeeNew
    <2>3. st \in Live /\ pc \in {"ackScheduled", "ackLate"} /\ (pc = "ackLate" => st # "SCHEDULED")
      BY DEF Live
    <2>4. r.app = {} /\ r.rej = {} /\ r.sup = {} /\ r.st = st
      <3> HIDE DEF st, o
      <3> QED BY DEF Fresh
    <2> HIDE DEF r, D, st, pc
    <2>5. About(t, e) /\ task'[t].pc \in {"optOut", pc}
      <3>1. OthersQuiet(t) /\ task'[t].pc \in {"optOut", pc} /\ task'[t].ev = e
        BY <1>0, <1>1, <2>2, GoingQuiet, CancellingQuiet
      <3> QED BY <2>3, <3>1 DEF About
    <2>6. posted' = posted \/ posted' = PostedAfter(e, "ACKNOWLEDGED", D)
      BY <2>2
    <2> QED BY <2>1, <2>3, <2>4, <2>5, <2>6, TakingOn
  <1> QED BY <1>2, <1>3

(* The one that has the turn of e: nobody else has it before or, when it   *)
(* steps, after.                                                           *)
LEMMA AloneInTurn ==
    ASSUME Shape, StartParts, NEW t \in Tasks, NEW e \in Events, HasTurn(t, e), About(t, e)
    PROVE  /\ TimerEvent' /\ ~Timed(e) /\ ~Timed(e)' /\ rec[e].st # "none"
           /\ \A u \in Tasks : HasTurn(u, e)' => u = t
           /\ \A d \in Devices : ~Posted(e, d, "COMPLETED")
           /\ ToldRight(e) /\ StoreRight(e) /\ DevicesRight(e)
  <1>1. EventRight(e) /\ TimerEvent
    BY PartsByEvent DEF StartParts
  <1>2. TurnsRight(e) /\ ToldRight(e) /\ StoreRight(e) /\ DevicesRight(e)
    BY <1>1 DEF EventRight
  <1>3. /\ TimerEvent' /\ (Timed(e)' => Timed(e))
        /\ \A u \in Tasks : u # t => /\ Preparing(u, e)' => Preparing(u, e)
                                     /\ Dispatching(u, e)' => Dispatching(u, e)
                                     /\ Scheduling(u, e)' => Scheduling(u, e)
    BY <1>1, AboutTurns
  <1>4. \A u \in Tasks : u # t => ~HasTurn(u, e)'
    BY <1>2, <1>3 DEF HasTurn, TurnsRight
  <1> QED BY <1>2, <1>3, <1>4 DEF TurnsRight

(* _on_activation *)
LEMMA ActivateStarts ==
    ASSUME Shape, Shape', StartParts, NEW e \in Events, Activate(e)
    PROVE  StartParts'
  <1> DEFINE t == Act(e)
             r == [rec[e] EXCEPT !.st = "ACTIVE", !.opted = lost]
  <1>0. t \in Tasks /\ task[t] \in TaskRecords /\ TimerEvent
    BY TaskSets, TimersDiffer DEF Shape, StartParts
  <1>1. /\ task[t].pc = "timer" /\ rec[e].st = "SCHEDULED" /\ e \in stored
        /\ rec' = [rec EXCEPT ![e] = r]
        /\ stored' = stored /\ mapped' = mapped /\ discovered' = discovered /\ posted' = posted
        /\ Goto(t, Superseding(t, "apply")) \/ CancelTimers(t, At(t, "optOut"), e)
    BY DEF Activate, Fires, Shape
  <1>2. r.st = "ACTIVE" /\ r.app = rec[e].app /\ r.rej = rec[e].rej /\ r.sup = rec[e].sup
    BY DEF Shape, EventRecords
  <1>3. rec'[e] = r
    BY <1>1 DEF Shape
  <1>4. task[t].ev = e
    BY <1>0, <1>1 DEF TimerEvent
  <1>5. /\ At(t, "optOut").pc = "optOut" /\ At(t, "optOut").ev = e
        /\ Superseding(t, "apply").pc = "supersede" /\ Superseding(t, "apply").ev = e
    BY <1>0, <1>4 DEF At, Superseding, TaskRecords
  <1>6. HasTurn(t, e)
    BY <1>1 DEF HasTurn, Scheduling
  <1> HIDE DEF t, r
  <1>7. OthersQuiet(t) /\ task'[t].pc \in {"optOut", "supersede"} /\ task'[t].ev = e
    BY <1>0, <1>1, <1>5, GoingQuiet, CancellingQuiet
  <1>8. About(t, e) /\ ~Dispatching(t, e)'
    BY <1>7 DEF About, Dispatching
  <1>9. /\ TimerEvent' /\ ~Timed(e) /\ ~Timed(e)' /\ rec[e].st # "none"
        /\ \A u \in Tasks : HasTurn(u, e)' => u = t
        /\ \A d \in Devices : ~Posted(e, d, "COMPLETED")
        /\ ToldRight(e) /\ StoreRight(e) /\ DevicesRight(e)
    BY <1>0, <1>6, <1>8, AloneInTurn
  <1>10. \A d \in Devices : \A c : Posted(e, d, c)' <=> Posted(e, d, c)
    BY <1>1 DEF Posted
  <1>11. rec[e].app \cup rec[e].rej = {}
    BY <1>1, <1>9 DEF DevicesRight
  <1>12. \A u \in Tasks : ~Dispatching(u, e)'
    BY <1>8, <1>9 DEF HasTurn
  <1>13. TurnsRight(e)'
    BY <1>2, <1>3, <1>9, <1>10 DEF TurnsRight
  <1>14. DevicesRight(e)'
    BY <1>2, <1>3, <1>11, <1>12 DEF DevicesRight
  <1>15. StoreRight(e)'
    BY <1>2, <1>3 DEF StoreRight
  <1>16. ToldRight(e)' /\ CompletedRight(e)'
    BY <1>2, <1>3, <1>9, <1>10 DEF ToldRight, CompletedRight
  <1>17. AnnouncedRight(e)'
    BY <1>9, <1>12 DEF AnnouncedRight, Untargeted
  <1>18. \A x \in Events : x # e => Untouched(x)
    <2>1. rec' = [rec EXCEPT ![e] = r] /\ stored' \subseteq stored \cup {e} /\ posted' = posted
      BY <1>1
    <2> QED BY <1>0, <1>8, <2>1, AboutOne
  <1>19. EventRight(e)'
    BY <1>13, <1>14, <1>15, <1>16, <1>17 DEF EventRight
  <1> QED BY <1>1, <1>9, <1>18, <1>19, StepsAbout

(* _apply_control_to_devices *)
LEMMA ApplyStarts ==
    ASSUME Shape, Shape', StartParts, NEW t \in Tasks, Apply(t)
    PROVE  StartParts'
  <1>e. PICK e : e = task[t].ev
    OBVIOUS
  <1> DEFINE targets  == Targets(e)
             announce == IF targets = {} THEN Audience(e, rec[e].sup) ELSE {}
             q        == [At(t, "dispatch") EXCEPT !.devs = targets]
             r        == Suspended(q, targets \cup announce)
  <1>0. task[t] \in TaskRecords /\ TimerEvent /\ "ACTIVE" \in Codes
    BY DEF Shape, StartParts, Codes
  <1>1. /\ task[t].pc = "apply" /\ Goto(t, r) /\ posted' = PostedAfter(e, "ACTIVE", announce)
        /\ rec' = rec /\ stored' = stored /\ mapped' = mapped /\ discovered' = discovered
    BY <1>e DEF Apply, envVars, controlVars
  <1>2. r.pc = "dispatch" /\ r.ev = e /\ r.devs = targets
    <2>1. q.pc = "dispatch" /\ q.ev = e /\ q.devs = targets
      <3> HIDE DEF targets
      <3> QED BY <1>0, <1>e DEF At, TaskRecords
    <2>2. r.pc = q.pc /\ r.ev = q.ev /\ r.devs = q.devs
      <3> HIDE DEF targets, announce
      <3> QED BY <1>0 DEF At, TaskRecords, Suspended
    <2> QED BY <2>1, <2>2
  <1>3. targets = {} => announce = Audience(e, rec[e].sup)
    OBVIOUS
  <1> HIDE DEF r, q, targets, announce
  <1>4. OthersQuiet(t) /\ task'[t] = r
    BY <1>1, GoingQuiet
  <1>5. About(t, e)
    BY <1>2, <1>4 DEF About
  <1>6. ASSUME e \in Events PROVE EventRight(e)'
    <2>0. e \in Events /\ Preparing(t, e) /\ HasTurn(t, e)
      BY <1>1, <1>6, <1>e DEF HasTurn, Preparing, Prepares
    <2>1. /\ TimerEvent' /\ ~Timed(e) /\ ~Timed(e)' /\ rec[e].st # "none"
          /\ \A u \in Tasks : HasTurn(u, e)' => u = t
          /\ \A d \in Devices : ~Posted(e, d, "COMPLETED")
          /\ ToldRight(e) /\ StoreRight(e) /\ DevicesRight(e)
      BY <1>5, <2>0, AloneInTurn
    <2>2. rec[e].app \cup rec[e].rej = {} /\ rec[e].st # "SCHEDULED"
      BY <2>0, <2>1 DEF DevicesRight
    <2>3. Adds(e, "ACTIVE", announce)
      BY <1>0, <1>1, PostedExactly
    <2>4. \A d \in Devices :
            /\ \A c \in {"REJECTED", "SUPERSEDED", "COMPLETED"} : Posted(e, d, c)' => Posted(e, d, c)
            /\ Posted(e, d, "ACTIVE") \/ d \in announce => Posted(e, d, "ACTIVE")'
      BY <2>0, <2>3 DEF Adds, Posted
    <2>5. TurnsRight(e)'
      BY <1>1, <2>1, <2>4 DEF TurnsRight
    <2>6. DevicesRight(e)'
      BY <1>1, <2>1, <2>2 DEF DevicesRight, HasTurn
    <2>7. StoreRight(e)'
      BY <1>1, <2>1 DEF StoreRight
    <2>8. ToldRight(e)' /\ CompletedRight(e)'
      BY <1>1, <2>1, <2>4 DEF ToldRight, CompletedRight
    <2>9. AnnouncedRight(e)'
      <3> SUFFICES ASSUME NEW d \in Devices, Untargeted(e)', d \in Audience(e, rec[e].sup)'
                   PROVE  Posted(e, d, "ACTIVE")'
        BY DEF AnnouncedRight
      <3>1. task'[t].devs = {}
        BY <2>1 DEF Untargeted, HasTurn
      <3>2. announce = Audience(e, rec[e].sup)
        BY <1>2, <1>3, <1>4, <3>1
      <3>3. Audience(e, rec[e].sup)' = Audience(e, rec[e].sup)
        BY <1>1 DEF Audience, Devs, DevsIn, Reachable
      <3> QED BY <2>4, <3>2, <3>3
    <2> QED BY <2>5, <2>6, <2>7, <2>8, <2>9 DEF EventRight
  <1>7. TimerEvent'
    BY <1>0, <1>5, AboutTurns
  <1>8. \A x \in Events : x # e => Untouched(x)
    <2>1. stored' \subseteq stored \cup {e}
      BY <1>1
    <2> QED BY <1>0, <1>1, <1>5, <2>1, AboutOne
  <1> QED BY <1>1, <1>6, <1>7, <1>8, StepsAbout

(* A device awaited answers: it applied the control, or rejected it. *)
LEMMA DeviceSettles ==
    ASSUME Shape, Shape', StartParts, NEW t \in Tasks, NEW e, e = task[t].ev, NEW d \in Devices,
           task[t].pc = "dispatch", d \in task[t].devs,
           Goto(t, [task[t] EXCEPT !.devs = @ \ {d}]),
           NEW r, rec' = [rec EXCEPT ![e] = r],
           e \in Events => r.st = rec[e].st /\ r.sup = rec[e].sup,
           NEW code \in {"ACTIVE", "REJECTED"}, posted' = PostedAfter(e, code, {d}),
           (e \in Events /\ code = "ACTIVE") => r.app = rec[e].app \cup {d} /\ r.rej = rec[e].rej,
           (e \in Events /\ code = "REJECTED") => r.app = rec[e].app /\ r.rej = rec[e].rej \cup {d},
           stored' = stored, mapped' = mapped, discovered' = discovered
    PROVE  StartParts'
  <1> DEFINE q == [task[t] EXCEPT !.devs = @ \ {d}]
  <1>0. task[t] \in TaskRecords /\ TimerEvent /\ code \in Codes
    BY DEF Shape, StartParts, Codes
  <1>1. q.pc = "dispatch" /\ q.ev = e /\ q.devs = task[t].devs \ {d}
    BY <1>0 DEF TaskRecords
  <1>2. OthersQuiet(t) /\ task'[t] = q
    BY GoingQuiet
  <1> HIDE DEF q
  <1>3. About(t, e)
    BY <1>1, <1>2 DEF About
  <1>4. ASSUME e \in Events PROVE EventRight(e)'
    <2>0. Dispatching(t, e) /\ HasTurn(t, e) /\ rec'[e] = r
      BY <1>4 DEF HasTurn, Dispatching, Shape
    <2>1. /\ TimerEvent' /\ ~Timed(e) /\ ~Timed(e)' /\ rec[e].st # "none"
          /\ \A u \in Tasks : HasTurn(u, e)' => u = t
          /\ \A c \in Devices : ~Posted(e, c, "COMPLETED")
          /\ ToldRight(e) /\ StoreRight(e) /\ DevicesRight(e)
      BY <1>3, <1>4, <2>0, AloneInTurn
    <2>2. /\ rec[e].st # "SCHEDULED" /\ rec[e].app \cap rec[e].rej = {}
          /\ task[t].devs \cap (rec[e].app \cup rec[e].rej) = {}
      BY <2>0, <2>1 DEF DevicesRight
    <2>3. r.app \cap r.rej = {} /\ (task[t].devs \ {d}) \cap (r.app \cup r.rej) = {}
          /\ r.app \cup r.rej # {} /\ rec[e].app \subseteq r.app /\ rec[e].rej \subseteq r.rej
      BY <1>4, <2>2
    <2>4. Adds(e, code, {d})
      BY <1>0, PostedExactly
    <2>5. \A c \in Devices :
            /\ \A w \in {"SUPERSEDED", "COMPLETED"} : Posted(e, c, w)' => Posted(e, c, w)
            /\ Posted(e, c, "REJECTED")' => Posted(e, c, "REJECTED") \/ (c = d /\ code = "REJECTED")
            /\ Posted(e, c, "ACTIVE") \/ (c = d /\ code = "ACTIVE") => Posted(e, c, "ACTIVE")'
      BY <1>4, <2>4 DEF Adds, Posted
    <2>6. TurnsRight(e)'
      BY <1>4, <2>0, <2>1, <2>5 DEF TurnsRight
    <2>7. DevicesRight(e)'
      <3>1. \A u \in Tasks : ~Preparing(u, e)' /\ (Dispatching(u, e)' => u = t)
        BY <1>1, <1>2, <2>1 DEF HasTurn, Preparing, Prepares, InSupersession
      <3> QED BY <1>1, <1>2, <1>4, <2>0, <2>1, <2>2, <2>3, <3>1 DEF DevicesRight
    <2>8. StoreRight(e)'
      BY <1>4, <2>0, <2>1 DEF StoreRight
    <2>9. ToldRight(e)'
      BY <1>4, <2>0, <2>1, <2>5 DEF ToldRight
    <2>10. CompletedRight(e)'
      BY <2>1, <2>5 DEF CompletedRight
    <2>11. AnnouncedRight(e)'
      BY <2>0, <2>3 DEF AnnouncedRight, Untargeted
    <2> QED BY <2>6, <2>7, <2>8, <2>9, <2>10, <2>11 DEF EventRight
  <1>5. TimerEvent'
    BY <1>0, <1>3, AboutTurns
  <1>6. \A x \in Events : x # e => Untouched(x)
    <2>1. stored' \subseteq stored \cup {e}
      OBVIOUS
    <2> QED BY <1>0, <1>3, <2>1, AboutOne
  <1> QED BY <1>4, <1>5, <1>6, StepsAbout

LEMMA DispatchSettles ==
    ASSUME Shape, Shape', StartParts, discovered, NEW t \in Tasks, NEW d \in Devices,
           DispatchOk(t, d) \/ \E how \in {"fail", "slow"} : DispatchRejected(t, d, how)
    PROVE  StartParts'
  <1>e. PICK e : e = task[t].ev
    OBVIOUS
  <1>0. Reachable({d}) = {d}
    BY DEF Reachable
  <1>1. CASE DispatchOk(t, d)
    <2> DEFINE r == [rec[e] EXCEPT !.app = @ \cup {d}]
    <2>1. /\ task[t].pc = "dispatch" /\ d \in task[t].devs
          /\ posted' = PostedAfter(e, "ACTIVE", {d})
          /\ Goto(t, [task[t] EXCEPT !.devs = @ \ {d}])
          /\ stored' = stored /\ mapped' = mapped /\ discovered' = discovered
          /\ rec' = [rec EXCEPT ![e].app = @ \cup {d}]
      BY <1>e, <1>0, <1>1 DEF DispatchOk, envVars, controlVars
    <2>2. rec' = [rec EXCEPT ![e] = r]
      BY <2>1
    <2>3. e \in Events => /\ r.st = rec[e].st /\ r.sup = rec[e].sup
                          /\ r.app = rec[e].app \cup {d} /\ r.rej = rec[e].rej
      BY DEF Shape, EventRecords
    <2> HIDE DEF r
    <2> QED BY <1>e, <2>1, <2>2, <2>3, DeviceSettles
  <1>2. CASE \E how \in {"fail", "slow"} : DispatchRejected(t, d, how)
    <2> DEFINE r == [rec[e] EXCEPT !.rej = @ \cup {d}]
    <2>1. /\ task[t].pc = "dispatch" /\ d \in task[t].devs
          /\ posted' = PostedAfter(e, "REJECTED", {d})
          /\ Goto(t, [task[t] EXCEPT !.devs = @ \ {d}])
          /\ stored' = stored /\ mapped' = mapped /\ discovered' = discovered
          /\ rec' = [rec EXCEPT ![e].rej = @ \cup {d}]
      BY <1>e, <1>0, <1>2 DEF DispatchRejected, envVars, controlVars
    <2>2. rec' = [rec EXCEPT ![e] = r]
      BY <2>1
    <2>3. e \in Events => /\ r.st = rec[e].st /\ r.sup = rec[e].sup
                          /\ r.app = rec[e].app /\ r.rej = rec[e].rej \cup {d}
      BY DEF Shape, EventRecords
    <2> HIDE DEF r
    <2> QED BY <1>e, <2>1, <2>2, <2>3, DeviceSettles
  <1> QED BY <1>1, <1>2

(* The one that has the turn of e sets a timer w of e: its activation,     *)
(* which takes over the turn, or its completion, which ends it.            *)
SetsTimer(t, e, w, timer, q) ==
    /\ \A v \in Tasks : task'[v] = IF v = w THEN timer ELSE IF v = t THEN q ELSE task[v]
    /\ timer.pc = "timer" /\ timer.ev = e /\ q.pc \in {"loop", "idle"}
    /\ \/ w = Act(e) /\ t # w /\ Scheduling(t, e)
       \/ w = Comp(e) /\ Dispatching(t, e) /\ task[t].devs = {}

LEMMA TimerSet ==
    ASSUME Shape, Shape', StartParts, NEW t \in Tasks, NEW e, NEW w, NEW timer, NEW q,
           SetsTimer(t, e, w, timer, q),
           rec' = rec, stored' = stored, mapped' = mapped, discovered' = discovered, posted' = posted
    PROVE  StartParts'
  <1>s. /\ timer.pc = "timer" /\ timer.ev = e /\ q.pc \in {"loop", "idle"} /\ HasTurn(t, e)
        /\ \/ w = Act(e) /\ t # w /\ Scheduling(t, e)
           \/ w = Comp(e) /\ Dispatching(t, e) /\ task[t].devs = {}
    BY DEF SetsTimer, HasTurn
  <1>0. TimerEvent /\ (e \in Events => EventRight(e))
    BY PartsByEvent DEF StartParts
  <1>1. \A v \in Tasks : task'[v] = IF v = w THEN timer ELSE IF v = t THEN q ELSE task[v]
    BY DEF SetsTimer
  <1>2. TimerEvent'
    <2> SUFFICES ASSUME NEW x \in Events, task'[Act(x)].pc = "timer" PROVE task'[Act(x)].ev = x
      BY DEF TimerEvent
    <2>1. Act(x) \in Tasks /\ (Act(x) = w => x = e)
      BY <1>s, TaskSets, TimersDiffer
    <2> QED BY <1>0, <1>1, <1>s, <2>1 DEF TimerEvent
  <1>3. ASSUME NEW x \in Events, NEW v \in Tasks, x # e
        PROVE  /\ Preparing(v, x)' => Preparing(v, x)
               /\ Dispatching(v, x)' => Dispatching(v, x) /\ task'[v].devs = task[v].devs
               /\ Scheduling(v, x)' => Scheduling(v, x)
    <2>1. Act(x) # w
      BY <1>3, <1>s, TimersDiffer
    <2>2. CASE task'[v] = task[v]
      BY <2>2 DEF Preparing, Prepares, InSupersession, Dispatching, Scheduling
    <2>3. CASE v # w /\ task'[v] = q
      BY <1>s, <2>3 DEF Preparing, Prepares, InSupersession, Dispatching, Scheduling
    <2>4. CASE v = w /\ task'[v] = timer
      BY <1>s, <2>1, <2>4 DEF Preparing, Prepares, InSupersession, Dispatching, Scheduling
    <2> QED BY <1>1, <2>2, <2>3, <2>4
  <1>4. ASSUME NEW x \in Events, x # e PROVE Timed(x)' => Timed(x)
    <2>1. Comp(x) \in Tasks /\ Comp(x) # w
      BY <1>4, <1>s, TaskSets, TimersDiffer
    <2> QED BY <1>1, <1>s, <2>1 DEF Timed
  <1>5. \A x \in Events : x # e => Untouched(x)
    BY <1>3, <1>4 DEF Untouched
  <1>6. ASSUME e \in Events PROVE EventRight(e)'
    <2>0. /\ TurnsRight(e) /\ DevicesRight(e) /\ StoreRight(e)
          /\ ToldRight(e) /\ AnnouncedRight(e) /\ CompletedRight(e)
      BY <1>0, <1>6 DEF EventRight
    <2>1. \A d \in Devices : \A c : Posted(e, d, c)' <=> Posted(e, d, c)
      BY DEF Posted
    <2>2. StoreRight(e)' /\ ToldRight(e)' /\ CompletedRight(e)'
      BY <2>0, <2>1 DEF StoreRight, ToldRight, CompletedRight, Before
    <2>3. ASSUME NEW v \in Tasks, v # w PROVE ~HasTurn(v, e)'
      <3>1. CASE v = t
        <4>1. task'[v] = q
          BY <1>1, <2>3, <3>1
        <4> QED BY <1>s, <4>1 DEF HasTurn, Preparing, Prepares, InSupersession, Dispatching, Scheduling
      <3>2. CASE v # t
        <4>1. task'[v] = task[v] /\ ~HasTurn(v, e)
          BY <1>1, <1>6, <1>s, <2>0, <2>3, <3>2 DEF TurnsRight
        <4> QED BY <1>s, <4>1 DEF HasTurn, Preparing, Prepares, InSupersession, Dispatching, Scheduling
      <3> QED BY <3>1, <3>2
    <2>4. ~Preparing(w, e)' /\ ~Dispatching(w, e)' /\ w \in Tasks
      <3>1. w \in Tasks
        BY <1>6, <1>s, TaskSets, TimersDiffer
      <3> QED BY <1>1, <1>s, <3>1 DEF Preparing, Prepares, InSupersession, Dispatching
    <2>5. \A v \in Tasks : ~Preparing(v, e)' /\ ~Dispatching(v, e)'
      BY <2>3, <2>4 DEF HasTurn
    <2>6. /\ rec[e].st # "none" /\ ~Timed(e) /\ \A d \in Devices : ~Posted(e, d, "COMPLETED")
          /\ Comp(e) \in Tasks /\ Act(e) # Comp(e)
      BY <1>6, <1>s, <2>0, TaskSets, TimersDiffer DEF TurnsRight
    <2>7. CASE w = Act(e)
      <3>1. ~Timed(e)'
        BY <1>1, <1>s, <2>6, <2>7 DEF Timed
      <3>2. TurnsRight(e)'
        BY <2>1, <2>3, <2>6, <3>1 DEF TurnsRight
      <3>3. DevicesRight(e)'
        BY <2>0, <2>5, <3>1 DEF DevicesRight
      <3>4. AnnouncedRight(e)'
        BY <2>5, <3>1 DEF AnnouncedRight, Untargeted
      <3> QED BY <2>2, <3>2, <3>3, <3>4 DEF EventRight
    <2>8. CASE w = Comp(e)
      <3>1. Dispatching(t, e) /\ task[t].devs = {} /\ rec[e].st # "SCHEDULED"
        BY <1>6, <1>s, <2>0, <2>6, <2>8 DEF DevicesRight
      <3>2. ~HasTurn(w, e)'
        <4>1. \A x : w # Act(x)
          BY <2>8, TimersDiffer
        <4>2. w \notin PassTasks
          BY <2>8, TaskSets, TimersDiffer
        <4> QED BY <2>4, <4>1, <4>2 DEF HasTurn, Scheduling
      <3>3. TurnsRight(e)'
        BY <2>3, <3>2 DEF TurnsRight
      <3>4. DevicesRight(e)'
        BY <2>0, <2>5, <2>6, <3>1 DEF DevicesRight
      <3>5. AnnouncedRight(e)'
        <4>1. Audience(e, rec[e].sup)' = Audience(e, rec[e].sup)
          BY DEF Audience, Devs, DevsIn, Reachable
        <4>2. Untargeted(e)' => Untargeted(e)
          BY <3>1 DEF Untargeted
        <4> QED BY <2>0, <2>1, <4>1, <4>2 DEF AnnouncedRight
      <3> QED BY <2>2, <3>3, <3>4, <3>5 DEF EventRight
    <2> QED BY <1>s, <2>7, <2>8
  <1> QED BY <1>2, <1>5, <1>6, StepsAbout

LEMMA TimerSetSteps ==
    ASSUME Shape, Shape', StartParts, NEW t \in Tasks,
           DispatchDone(t) \/ (t \in PassTasks /\ ScheduleActivation(t))
    PROVE  StartParts'
  <1>e. PICK e : e = task[t].ev
    OBVIOUS
  <1>0. task[t] \in TaskRecords
    BY DEF Shape
  <1>1. CASE DispatchDone(t)
    <2> DEFINE q == AfterDispatch(t)
               timer == [Idle EXCEPT !.pc = "timer", !.ev = e, !.at = End(e)]
    <2>1. /\ task[t].pc = "dispatch" /\ task[t].devs = {}
          /\ task' = [task EXCEPT ![t] = q, ![Comp(e)] = timer]
          /\ rec' = rec /\ stored' = stored /\ posted' = posted
          /\ mapped' = mapped /\ discovered' = discovered
      BY <1>e, <1>1 DEF DispatchDone, envVars, controlVars
    <2>2. q.pc \in {"loop", "idle"}
      BY <1>0, IdleRecord DEF AfterDispatch, At, TaskRecords
    <2>3. timer.pc = "timer" /\ timer.ev = e
      BY DEF Idle
    <2>4. Dispatching(t, e) /\ HasTurn(t, e)
      BY <1>e, <2>1 DEF Dispatching, HasTurn
    <2>5. PICK w : w = Comp(e)
      OBVIOUS
    <2> HIDE DEF q, timer
    <2>6. \A v \in Tasks : task'[v] = IF v = w THEN timer ELSE IF v = t THEN q ELSE task[v]
      BY <2>1, <2>5 DEF Shape
    <2>7. SetsTimer(t, e, w, timer, q)
      BY <2>1, <2>2, <2>3, <2>4, <2>5, <2>6 DEF SetsTimer
    <2> QED BY <2>1, <2>7, TimerSet
  <1>2. CASE t \in PassTasks /\ ScheduleActivation(t)
    <2> DEFINE q == At(t, "loop")
               timer == [Idle EXCEPT !.pc = "timer", !.ev = e, !.at = Start[e]]
    <2>1. /\ task[t].pc = "ackScheduled"
          /\ task' = [task EXCEPT ![t] = q, ![Act(e)] = timer]
          /\ rec' = rec /\ stored' = stored /\ posted' = posted
          /\ mapped' = mapped /\ discovered' = discovered
      BY <1>e, <1>2 DEF ScheduleActivation, envVars, controlVars
    <2>2. q.pc = "loop"
      BY <1>0 DEF At, TaskRecords
    <2>3. timer.pc = "timer" /\ timer.ev = e
      BY DEF Idle
    <2>4. Scheduling(t, e) /\ HasTurn(t, e)
      BY <1>e, <1>2, <2>1 DEF Scheduling, HasTurn
    <2>5. PICK w : w = Act(e) /\ t # w
      BY <1>2, TaskSets, TimersDiffer
    <2> HIDE DEF q, timer
    <2>6. \A v \in Tasks : task'[v] = IF v = w THEN timer ELSE IF v = t THEN q ELSE task[v]
      BY <2>1, <2>5 DEF Shape
    <2>7. SetsTimer(t, e, w, timer, q)
      BY <2>2, <2>3, <2>4, <2>5, <2>6 DEF SetsTimer
    <2> QED BY <2>1, <2>7, TimerSet
  <1> QED BY <1>1, <1>2

(* A device told c and now, for the first time, code. *)
LEMMA ToldAfter ==
    ASSUME Shape, NEW e \in Events, NEW d \in Devices, NEW c, NEW code \in Codes, NEW D, d \in D,
           Posted(e, d, c), ~Posted(e, d, code), posted' = PostedAfter(e, code, D)
    PROVE  Before(e, d, c, code)'
  <1> DEFINE s == posted[e][d]
             n == posted'[e][d]
  <1>1. s \in Seq(Codes)
    BY DEF Shape
  <1>2. n = Append(s, code)
    BY DEF PostedAfter, Shape, Posted
  <1>3. PICK i \in 1..Len(s) : s[i] = c
    BY DEF Posted, Contains
  <1>4. /\ Len(s) \in Nat /\ Len(n) = Len(s) + 1 /\ n[Len(s) + 1] = code
        /\ \A k \in 1..Len(s) : n[k] = s[k]
    <2> HIDE DEF n, s
    <2> QED BY <1>1, <1>2
  <1>5. i \in 1..Len(n) /\ Len(s) + 1 \in 1..Len(n) /\ i < Len(s) + 1 /\ n[i] = c
    <2> HIDE DEF n, s
    <2> QED BY <1>3, <1>4
  <1> QED BY <1>4, <1>5 DEF Before

(* Those who hear how e ended ran it, and nobody took it from them. *)
LEMMA StartedRan ==
    ASSUME NEW e \in Events, NEW d \in Devices, EventRight(e), e \in stored, rec[e].st = "ACTIVE",
           Timed(e), d \in StartedAudience(e)
    PROVE  Posted(e, d, "ACTIVE") /\ ~Posted(e, d, "REJECTED") /\ ~Posted(e, d, "SUPERSEDED")
  <1>0. ToldRight(e) /\ DevicesRight(e) /\ AnnouncedRight(e)
    BY DEF EventRight
  <1>1. CASE rec[e].app \cup rec[e].rej = {}
    <2>1. d \in Audience(e, rec[e].sup)
      BY <1>1 DEF StartedAudience
    <2>2. d \notin rec[e].sup
      BY <2>1 DEF Audience, Reachable
    <2>3. Untargeted(e)
      BY <1>1 DEF Untargeted
    <2> QED BY <1>0, <1>1, <2>1, <2>2, <2>3 DEF ToldRight, AnnouncedRight
  <1>2. CASE rec[e].app \cup rec[e].rej # {}
    <2>1. d \in rec[e].app /\ d \notin rec[e].sup
      BY <1>2 DEF StartedAudience, Reachable
    <2>2. d \notin rec[e].rej
      BY <1>0, <2>1 DEF DevicesRight
    <2> QED BY <1>0, <2>1, <2>2 DEF ToldRight
  <1> QED BY <1>1, <1>2

(* _on_completion *)
LEMMA CompleteEnds ==
    ASSUME Shape, Shape', StartParts, NEW e \in Events, Complete(e)
    PROVE  StartParts'
  <1> DEFINE t == Comp(e)
             D == StartedAudience(e)
             q == At(t, "completed")
             p == Suspended(q, D)
             r == [rec[e] EXCEPT !.st = "COMPLETED"]
  <1>0. t \in Tasks /\ task[t] \in TaskRecords /\ TimerEvent /\ "COMPLETED" \in Codes
    BY TaskSets, TimersDiffer DEF Shape, StartParts, Codes
  <1>1. /\ task[t].pc = "timer" /\ rec[e].st = "ACTIVE" /\ e \in stored
        /\ rec' = [rec EXCEPT ![e] = r] /\ posted' = PostedAfter(e, "COMPLETED", D) /\ Goto(t, p)
        /\ stored' = stored /\ mapped' = mapped /\ discovered' = discovered
    BY DEF Complete, Fires, envVars, controlVars
  <1>2. Timed(e)
    BY <1>1 DEF Timed
  <1>3. r.st = "COMPLETED" /\ r.app = rec[e].app /\ r.rej = rec[e].rej /\ r.sup = rec[e].sup
        /\ rec'[e] = r
    BY <1>1 DEF Shape, EventRecords
  <1>4. p.pc = "completed"
    <2> HIDE DEF D
    <2> QED BY <1>0 DEF At, Suspended, TaskRecords
  <1>5. Comp(e) = t
    OBVIOUS
  <1> HIDE DEF t, D, q, p, r
  <1>6. OthersQuiet(t) /\ task'[t] = p
    BY <1>0, <1>1, GoingQuiet
  <1>7. Continues(t) /\ About(t, e)
    BY <1>4, <1>6, PlainContinues DEF About
  <1>8. EventRight(e)
    BY PartsByEvent
  <1>9. \A u \in Tasks : ~HasTurn(u, e)
    BY <1>2, <1>8 DEF EventRight, TurnsRight
  <1>10. TimerEvent' /\ ~Timed(e)' /\ \A u \in Tasks : ~HasTurn(u, e)'
    <2>1. /\ TimerEvent'
          /\ \A u \in Tasks : /\ Preparing(u, e)' => Preparing(u, e)
                              /\ Dispatching(u, e)' => Dispatching(u, e)
                              /\ Scheduling(u, e)' => Scheduling(u, e)
      BY <1>0, <1>7, AboutTurns
    <2>2. ~Timed(e)'
      BY <1>4, <1>5, <1>6 DEF Timed
    <2> QED BY <1>9, <2>1, <2>2 DEF HasTurn
  <1>11. ToldRight(e) /\ DevicesRight(e)
    BY <1>8 DEF EventRight
  <1>12. Adds(e, "COMPLETED", D)
    BY <1>0, <1>1, PostedExactly
  <1>13. \A d \in Devices :
           /\ \A c \in {"ACTIVE", "REJECTED", "SUPERSEDED"} : Posted(e, d, c)' <=> Posted(e, d, c)
           /\ Posted(e, d, "COMPLETED")' => Posted(e, d, "COMPLETED") \/ d \in D
    BY <1>12 DEF Adds, Posted
  <1>14. \A d \in Devices : ~Posted(e, d, "COMPLETED")
    BY <1>1, <1>11 DEF ToldRight, Terminal
  <1>15. TurnsRight(e)'
    BY <1>10 DEF TurnsRight
  <1>16. DevicesRight(e)'
    BY <1>3, <1>10, <1>11 DEF DevicesRight, HasTurn
  <1>17. StoreRight(e)'
    BY <1>3 DEF StoreRight
  <1>18. ToldRight(e)'
    BY <1>3, <1>11, <1>13 DEF ToldRight, Terminal
  <1>19. AnnouncedRight(e)'
    BY <1>3 DEF AnnouncedRight, Untargeted
  <1>20. CompletedRight(e)'
    <2> SUFFICES ASSUME NEW d \in Devices, Posted(e, d, "COMPLETED")'
                 PROVE  /\ Before(e, d, "ACTIVE", "COMPLETED")'
                        /\ ~Posted(e, d, "REJECTED")' /\ ~Posted(e, d, "SUPERSEDED")'
      BY DEF CompletedRight
    <2>1. d \in D
      BY <1>13, <1>14
    <2>2. Posted(e, d, "ACTIVE") /\ ~Posted(e, d, "REJECTED") /\ ~Posted(e, d, "SUPERSEDED")
      BY <1>1, <1>2, <1>8, <2>1, StartedRan DEF D
    <2>3. Before(e, d, "ACTIVE", "COMPLETED")'
      BY <1>0, <1>1, <1>14, <2>1, <2>2, ToldAfter
    <2> QED BY <1>13, <2>2, <2>3
  <1>21. EventRight(e)'
    BY <1>15, <1>16, <1>17, <1>18, <1>19, <1>20 DEF EventRight
  <1>22. \A x \in Events : x # e => Untouched(x)
    <2>1. stored' \subseteq stored \cup {e}
      BY <1>1
    <2> QED BY <1>0, <1>1, <1>7, <2>1, AboutOne
  <1> QED BY <1>1, <1>10, <1>21, <1>22, StepsAbout

(* One step of the loop, while the LFDIs are kept. *)
LEMMA TaskStarts ==
    ASSUME IInv, Shape', Returning, StartParts, EndsKept, discovered, NEW t \in Tasks, TaskStep(t)
    PROVE  StartParts' /\ ready' = ready
  <1>0. Shape /\ PassTasks \subseteq Tasks
    BY TaskSets DEF IInv
  <1>1. Frame => StartParts'
    BY <1>0, Settled DEF Frame
  <1>2. CASE t \in PassTasks /\ PassStep(t)
    <2>1. ready' = ready
      BY <1>2 DEF PassStep, SeeKnown, SeeUnstored, SeePreCancelled, SeeNew, CancelRemoved, Cancel,
                  ScheduleActivation, LateDiscovery, FindRemoved, SupersedeAll, PruneAndDefault,
                  Unwind, Fallback, envVars, controlVars
    <2>2. CASE \E e \in Events : SeePreCancelled(t, e) \/ SeeNew(t, e)
      BY <1>2, <2>1, <2>2, TakingOnSteps
    <2>3. CASE ScheduleActivation(t)
      BY <1>0, <1>2, <2>1, <2>3, TimerSetSteps
    <2>4. CASE ~(\E e \in Events : SeePreCancelled(t, e) \/ SeeNew(t, e)) /\ ~ScheduleActivation(t)
      BY <1>0, <1>1, <1>2, <2>1, <2>4, PassFrames
    <2> QED BY <2>2, <2>3, <2>4
  <1>3. CASE TimerStep(t)
    <2>1. ready' = ready
      BY <1>3 DEF TimerStep, Activate, Complete, TimerSkips, envVars, controlVars
    <2>2. StartParts'
      BY <1>0, <1>1, <1>3, ActivateStarts, CompleteEnds, TimerFrames DEF TimerStep
    <2> QED BY <2>1, <2>2
  <1>4. CASE t = Outage /\ OutageStep
    <2>1. ready' = ready
      BY <1>4 DEF OutageStep, OutageReverts, OutageReverted, Fallback, envVars, controlVars
    <2> QED BY <1>0, <1>1, <1>4, <2>1, OutageFrames
  <1>5. CASE SharedStep(t)
    <2>1. ready' = ready
      BY <1>5 DEF SharedStep, Supersede, SupersedePosted, SupersedeRevert, SupersedeDone, Apply,
                  DispatchDone, DispatchOk, DispatchRejected, Revert, Reverted, RevertFails,
                  Fallback, envVars, controlVars
    <2>2. CASE \E a, b \in Events : Supersede(t, a, b)
      BY <1>0, <1>1, <2>1, <2>2, SupersedeFrame
    <2>3. CASE SupersedePosted(t)
      BY <1>0, <1>1, <2>1, <2>3, SupersedePostedFrame
    <2>4. CASE SupersedeRevert(t) \/ SupersedeDone(t) \/ Revert(t) \/ Reverted(t)
               \/ \E d \in Devices : RevertFails(t, d)
      BY <1>0, <1>1, <2>1, <2>4, RevertFrames
    <2>5. CASE Apply(t)
      BY <1>0, <2>1, <2>5, ApplyStarts
    <2>6. CASE DispatchDone(t)
      BY <1>0, <2>1, <2>6, TimerSetSteps
    <2>7. CASE \E d \in Devices : DispatchOk(t, d) \/ \E how \in {"fail", "slow"} : DispatchRejected(t, d, how)
      BY <1>0, <2>1, <2>7, DispatchSettles
    <2> QED BY <1>5, <2>1, <2>2, <2>3, <2>4, <2>5, <2>6, <2>7 DEF SharedStep
  <1> QED BY <1>2, <1>3, <1>4, <1>5 DEF TaskStep

LEMMA StartSteps ==
    ASSUME StartInv, ShortPasses, discovered, discovered', [Next]_vars
    PROVE  StartInv'
  <1>0. ready /\ IInv /\ Shape /\ Returning /\ StartParts
    BY DEF StartInv, StartParts, IInv
  <1>1. IInv' /\ Shape' /\ EndsKept
    BY <1>0, Steps DEF IInv
  <1>2. Returning'
    BY <1>0, PlacesKept
  <1>3. CASE UNCHANGED vars
    <2>1. /\ task' = task /\ rec' = rec /\ stored' = stored /\ posted' = posted
          /\ mapped' = mapped /\ discovered' = discovered /\ ready' = ready
      BY <1>3 DEF vars
    <2>2. Outage \in Tasks /\ OthersQuiet(Outage) /\ Quiet(Outage) /\ TimerEvent
      BY <1>0, <2>1, TaskSets DEF OthersQuiet, Quiet, StartParts
    <2>3. Frame
      BY <2>1, <2>2, StillFrame, SilentPosts
    <2>4. StartParts'
      BY <1>0, <1>1, <2>3, Settled DEF Frame
    <2> QED BY <1>0, <1>1, <1>2, <2>1, <2>4 DEF StartInv, StartParts
  <1>4. CASE Environment
    <2>1. Frame /\ ready'
      BY <1>0, <1>4, EnvironmentFrame
    <2>2. StartParts'
      BY <1>0, <1>1, <2>1, Settled DEF Frame
    <2> QED BY <1>1, <1>2, <2>1, <2>2 DEF StartInv, StartParts
  <1>5. ASSUME NEW t \in Tasks, TaskStep(t) PROVE StartInv'
    <2>1. StartParts' /\ ready' = ready
      BY <1>0, <1>1, <1>5, TaskStarts
    <2> QED BY <1>0, <1>1, <1>2, <2>1 DEF StartInv, StartParts
  <1> QED BY <1>3, <1>4, <1>5 DEF Next

LEMMA InitStart == ASSUME Init PROVE StartInv
  <1>1. \A t \in Tasks : task[t].pc = "idle"
    BY IdleRecord DEF Init
  <1>2. /\ \A e \in Events : rec[e] = Fresh("none")
        /\ stored = {} /\ ready
    BY DEF Init
  <1>3. \A e \in Events : /\ rec[e].st = "none" /\ rec[e].app = {} /\ rec[e].rej = {}
                          /\ rec[e].sup = {}
    BY <1>2 DEF Fresh
  <1>4. \A e \in Events, d \in Devices : \A c : ~Posted(e, d, c)
    <2>1. \A e \in Events, d \in Devices : posted[e][d] = << >>
      BY DEF Init
    <2>2. \A c : ~Contains(<< >>, c)
      BY DEF Contains
    <2> QED BY <2>1, <2>2 DEF Posted
  <1>5. \A e \in Events, t \in Tasks : ~Preparing(t, e) /\ ~Dispatching(t, e) /\ ~HasTurn(t, e)
    BY <1>1 DEF HasTurn, Preparing, Prepares, InSupersession, Dispatching, Scheduling
  <1>6. \A e \in Events : ~Timed(e) /\ task[Act(e)].pc # "timer"
    BY <1>1, TaskSets, TimersDiffer DEF Timed
  <1>7. OneTurn /\ TurnFirst /\ TimerEvent
    BY <1>5, <1>6 DEF OneTurn, TurnFirst, TimerEvent
  <1>8. SettlesOnce
    BY <1>3, <1>5, <1>6 DEF SettlesOnce
  <1>9. Known
    BY <1>2, <1>3 DEF Known
  <1>10. ToldOnRecord /\ Announced /\ CompletedOnlyWhereItRan
    BY <1>2, <1>3, <1>4 DEF ToldOnRecord, Announced, Untargeted, CompletedOnlyWhereItRan
  <1> QED BY <1>2, <1>7, <1>8, <1>9, <1>10, InitWords DEF StartInv, WordsInv

(* _on_activation, _handle_late_discovery, _apply_control_to_devices and   *)
(* _post_started_device_lifecycle: whatever is superseded, cancelled or    *)
(* rejected meanwhile, a device hears COMPLETED only after ACTIVE, and     *)
(* never where the event was rejected or superseded, as long as the client *)
(* keeps the LFDIs of its devices.  A rediscovery forgets them for a       *)
(* while, and an ACTIVE that falls there is not posted.                    *)
THEOREM CompletedWhereItRan ==
    Spec /\ []ShortPasses /\ []discovered => []CompletedOnlyWhereItRan
  <1>1. StartInv /\ ShortPasses /\ discovered /\ discovered' /\ [Next]_vars => StartInv'
    BY StartSteps
  <1>2. StartInv => CompletedOnlyWhereItRan
    BY DEF StartInv
  <1> QED BY <1>1, <1>2, InitStart, PTL DEF Spec
=============================================================================
