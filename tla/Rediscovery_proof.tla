------------------------- MODULE Rediscovery_proof -------------------------
(***************************************************************************)
(* Proofs about Rediscovery, for any polls and tasks, pass cap, failure    *)
(* threshold and number of changes and outages.                            *)
(*                                                                         *)
(* The invariants rest on LockHeld: the one task in a rediscovery is the   *)
(* holder of _rediscovery_lock.  With it, Covered says what a running pass *)
(* knows of the server while nothing is pending, which is what             *)
(* NoChangeMissed claims at its end.                                       *)
(***************************************************************************)
EXTENDS Rediscovery, TLAPS

Busy == {"cancelling", "discover", "rebuild"}

(* The holder of _rediscovery_lock is the one task inside the loop. *)
LockHeld == \A t \in Tasks : pc[t] \in Busy <=> lock = t

(* A streak of failed polls is part of the polls that failed. *)
FailuresBounded == failures <= failed

(* The state is empty only behind the lock or after a reported failure. *)
EmptyExplained ==
    seen = Cleared =>
        /\ reported = "failed" \/ (lock # NoTask /\ pc[lock] = "discover")
        /\ lock # NoTask => pc[lock] # "rebuild"

(* With nothing pending, a pass that reads the server reads its last       *)
(* change, and one that has read it holds it.                              *)
Covered ==
    lock # NoTask /\ ~pending =>
        /\ pc[lock] = "discover" => read = server
        /\ pc[lock] = "rebuild" => seen = server

IInv ==
    /\ TypeOK /\ LockHeld /\ FailuresBounded
    /\ PollsRearmed /\ GateOnlyDuringDiscovery /\ EmptyExplained

(* What holds as well when changes do not follow within the dedup window.  *)
ChangesInv == Covered /\ NoChangeMissed

-----------------------------------------------------------------------------
(* The sets of tasks. *)
LEMMA TaskSets ==
    /\ Scheduled \subseteq Tasks /\ Others \subseteq Tasks
    /\ Polls \subseteq Scheduled /\ Probes \subseteq Scheduled
    /\ Scheduled \cap Others = {} /\ NoTask \notin Tasks
    /\ Beat \in Scheduled /\ (Detects => Probe \in Scheduled)
  BY ConstantsAssumption DEF Tasks, Scheduled, Probes

LEMMA RestPlace == \A t : Rest(t) \in Places \ Busy /\ (t \in Scheduled => Rest(t) # "off")
  BY DEF Rest, Places, Busy

LEMMA BusyPlaces == Busy \subseteq Places
  BY DEF Busy, Places

LEMMA InitIInv == Init => IInv /\ ChangesInv
  <1> SUFFICES ASSUME Init PROVE IInv /\ ChangesInv
    OBVIOUS
  <1>1. TypeOK
    <2>1. pc \in [Tasks -> Places]
      BY DEF Init, Places
    <2>2. up \in BOOLEAN /\ recent \in BOOLEAN /\ cutShort \in BOOLEAN /\ ready \in BOOLEAN
          /\ pending \in BOOLEAN /\ silent \in BOOLEAN /\ lost \in BOOLEAN
      BY DEF Init
    <2>3. server \in 0..MaxChanges /\ outages \in 0..MaxOutages /\ passes \in 0..MaxPasses
          /\ failures \in 0..MaxFailures /\ failed \in 0..MaxFailures
      BY ConstantsAssumption DEF Init
    <2>4. seen \in {Cleared} \cup 0..server /\ read \in 0..server
      BY DEF Init
    <2> QED BY <2>1, <2>2, <2>3, <2>4 DEF Init, TypeOK
  <1>2. LockHeld /\ PollsRearmed
    BY TaskSets DEF Init, LockHeld, Busy, PollsRearmed, PollsArmed
  <1>3. FailuresBounded /\ GateOnlyDuringDiscovery /\ EmptyExplained /\ Covered /\ NoChangeMissed
    BY DEF Init, FailuresBounded, GateOnlyDuringDiscovery, EmptyExplained, Cleared, Covered,
           NoChangeMissed
  <1> QED BY <1>1, <1>2, <1>3 DEF IInv, ChangesInv

-----------------------------------------------------------------------------
(* A task outside the loop moves to a place outside the loop. *)
LEMMA QuietMove ==
    ASSUME IInv, NEW t \in Tasks, NEW p \in Places \ Busy, pc[t] \notin Busy,
           p # "off" \/ t \notin Scheduled,
           pc' = [pc EXCEPT ![t] = p],
           UNCHANGED <<lock, reported, cutShort, stateVars>>
    PROVE  /\ pc' \in [Tasks -> Places] /\ LockHeld'
           /\ PollsRearmed' /\ GateOnlyDuringDiscovery' /\ EmptyExplained'
           /\ lock # NoTask => pc'[lock] = pc[lock]
  <1> USE DEF IInv
  <1>1. pc' \in [Tasks -> Places] /\ LockHeld'
    BY DEF TypeOK, LockHeld
  <1>2. lock # NoTask => pc'[lock] = pc[lock]
    BY DEF TypeOK, LockHeld
  <1>3. PollsRearmed'
    BY TaskSets DEF TypeOK, stateVars, PollsRearmed, PollsArmed
  <1>4. GateOnlyDuringDiscovery' /\ EmptyExplained'
    BY <1>2 DEF stateVars, GateOnlyDuringDiscovery, EmptyExplained
  <1> QED BY <1>1, <1>2, <1>3, <1>4

(* Nobody moves. *)
LEMMA NoMove ==
    ASSUME IInv, UNCHANGED <<pc, lock, reported, cutShort, stateVars>>
    PROVE  /\ pc' \in [Tasks -> Places] /\ LockHeld'
           /\ PollsRearmed' /\ GateOnlyDuringDiscovery' /\ EmptyExplained'
           /\ lock # NoTask => pc'[lock] = pc[lock]
  BY DEF IInv, TypeOK, LockHeld, stateVars, PollsRearmed, PollsArmed,
         GateOnlyDuringDiscovery, EmptyExplained

(* Where the server and the pass stand still, so does what a pass covers.  *)
LEMMA ChangesKept ==
    ASSUME IInv, ChangesInv, lock # NoTask => pc'[lock] = pc[lock],
           UNCHANGED <<server, seen, read, lock, reported, cutShort>>,
           pending' = pending \/ pending' = TRUE
    PROVE  ChangesInv'
  BY DEF IInv, TypeOK, ChangesInv, Covered, NoChangeMissed

LEMMA BeginPassStep ==
    ASSUME IInv, NEW t \in Tasks, NEW n \in 1..MaxPasses, BeginPass(t, n),
           lock = NoTask \/ lock = t, lock' = t, pc[t] # "discover",
           UNCHANGED <<seen, ready, reported>>
    PROVE  /\ pc' \in [Tasks -> Places] /\ LockHeld'
           /\ passes' \in 0..MaxPasses /\ pending' \in BOOLEAN /\ recovering' \subseteq Tasks
           /\ probeLock' \in Tasks \cup {NoTask}
           /\ PollsRearmed' /\ GateOnlyDuringDiscovery' /\ EmptyExplained' /\ ChangesInv'
  <1> USE DEF IInv
  <1>1. pc' \in [Tasks -> Places] /\ pc'[t] = "cancelling"
    BY DEF BeginPass, TypeOK, Places
  <1>2. LockHeld'
    BY TaskSets DEF BeginPass, TypeOK, LockHeld, Busy
  <1>3. /\ passes' \in 0..MaxPasses /\ pending' \in BOOLEAN /\ recovering' \subseteq Tasks
        /\ probeLock' \in Tasks \cup {NoTask}
    <2>1. pending' \in BOOLEAN /\ passes' = n
      BY DEF BeginPass
    <2>2. n \in 0..MaxPasses
      BY ConstantsAssumption
    <2>3. recovering' \subseteq Tasks /\ probeLock' \in Tasks \cup {NoTask}
      BY DEF BeginPass, TypeOK
    <2> QED BY <2>1, <2>2, <2>3
  <1>4. PollsRearmed' /\ ChangesInv'
    BY <1>1, TaskSets DEF PollsRearmed, PollsArmed, ChangesInv, Covered, NoChangeMissed
  <1>5. GateOnlyDuringDiscovery' /\ EmptyExplained'
    BY <1>1, TaskSets DEF GateOnlyDuringDiscovery, EmptyExplained
  <1> QED BY <1>1, <1>2, <1>3, <1>4, <1>5

(* trigger_rediscovery by a task outside the loop, as every caller uses it.*)
LEMMA TriggerStep ==
    ASSUME IInv, NEW t \in Tasks, pc[t] \notin Busy, Trigger(t), UNCHANGED stateVars
    PROVE  /\ pc' \in [Tasks -> Places] /\ LockHeld' /\ lock' \in Tasks
           /\ passes' \in 0..MaxPasses /\ pending' \in BOOLEAN /\ recovering' \subseteq Tasks
           /\ probeLock' \in Tasks \cup {NoTask} /\ UNCHANGED <<reported, cutShort>>
           /\ PollsRearmed' /\ GateOnlyDuringDiscovery' /\ EmptyExplained'
           /\ ChangesInv'
  <1> USE DEF IInv
  <1>1. CASE lock # NoTask
    <2>1. /\ pending' = TRUE /\ pc' = [pc EXCEPT ![t] = Rest(t)] /\ LeavesRecovery(t)
          /\ UNCHANGED <<lock, passes, reported, cutShort>>
      BY <1>1 DEF Trigger
    <2>2. /\ pc' \in [Tasks -> Places] /\ LockHeld'
          /\ PollsRearmed' /\ GateOnlyDuringDiscovery' /\ EmptyExplained'
      BY <2>1, RestPlace, QuietMove
    <2>3. recovering' \subseteq Tasks /\ probeLock' \in Tasks \cup {NoTask} /\ lock' \in Tasks
      BY <1>1, <2>1 DEF LeavesRecovery, TypeOK
    <2>4. ChangesInv'
      BY <1>1, <2>1 DEF ChangesInv, Covered, NoChangeMissed
    <2> QED BY <2>1, <2>2, <2>3, <2>4 DEF TypeOK
  <1>2. CASE lock = NoTask
    <2>1. lock' = t /\ BeginPass(t, 1) /\ UNCHANGED <<reported, cutShort>>
      BY <1>2 DEF Trigger
    <2>2. 1 \in 1..MaxPasses /\ pc[t] # "discover"
      BY ConstantsAssumption DEF Busy
    <2> QED BY <1>2, <2>1, <2>2, BeginPassStep DEF stateVars
  <1> QED BY <1>1, <1>2

-----------------------------------------------------------------------------
(* One lemma for each step of a rediscovery under way. *)
LEMMA AbortedStep ==
    ASSUME IInv, NEW t \in Tasks, Aborted(t)
    PROVE  IInv' /\ (ChangesInv => ChangesInv')
  <1> USE DEF IInv
  <1>1. lock = t
    BY DEF Aborted, LockHeld, Busy
  <1>2. pc' \in [Tasks -> Places] /\ LockHeld'
    BY <1>1, TaskSets DEF Aborted, TypeOK, LockHeld, Busy, Places
  <1>3. TypeOK'
    <2>1. recovering' \subseteq Tasks /\ probeLock' \in Tasks \cup {NoTask}
      BY DEF Aborted, LeavesRecovery, TypeOK
    <2>2. cutShort' \in BOOLEAN /\ lock' = NoTask
      BY DEF Aborted
    <2> QED BY <1>2, <2>1, <2>2 DEF Aborted, TypeOK, serverVars, stateVars, countVars
  <1>4. FailuresBounded' /\ PollsRearmed'
    BY DEF Aborted, FailuresBounded, countVars, PollsRearmed
  <1>5. GateOnlyDuringDiscovery' /\ EmptyExplained'
    BY <1>1, TaskSets DEF Aborted, stateVars, GateOnlyDuringDiscovery, EmptyExplained
  <1>6. ChangesInv'
    BY DEF Aborted, ChangesInv, Covered, NoChangeMissed
  <1> QED BY <1>2, <1>3, <1>4, <1>5, <1>6

LEMMA ClearStateStep ==
    ASSUME IInv, NEW t \in Tasks, ClearState(t)
    PROVE  IInv' /\ (ChangesInv => ChangesInv')
  <1> USE DEF IInv
  <1>1. lock = t /\ lock' = t
    BY DEF ClearState, LockHeld, Busy, redisVars
  <1>2. pc' \in [Tasks -> Places] /\ LockHeld' /\ pc'[t] = "discover"
    BY <1>1 DEF ClearState, TypeOK, LockHeld, Busy, Places, redisVars
  <1>3. TypeOK'
    <2>1. seen' \in {Cleared} \cup 0..server' /\ read' \in 0..server' /\ server' = server
      BY ConstantsAssumption DEF ClearState, TypeOK, serverVars
    <2>2. ready' \in BOOLEAN /\ rated' \subseteq Polls /\ probeLock' = NoTask
      BY DEF ClearState
    <2> QED BY <1>2, <2>1, <2>2 DEF ClearState, TypeOK, serverVars, redisVars, countVars
  <1>4. FailuresBounded' /\ PollsRearmed'
    BY <1>1, TaskSets DEF ClearState, FailuresBounded, countVars, PollsRearmed, PollsArmed
  <1>5. GateOnlyDuringDiscovery' /\ EmptyExplained'
    BY <1>1, <1>2, TaskSets DEF GateOnlyDuringDiscovery, EmptyExplained
  <1>6. ChangesInv'
    BY <1>1, <1>2, TaskSets DEF ClearState, serverVars, ChangesInv, Covered, NoChangeMissed
  <1> QED BY <1>2, <1>3, <1>4, <1>5, <1>6

LEMMA DiscoveredStep ==
    ASSUME IInv, NEW t \in Tasks, Discovered(t)
    PROVE  IInv' /\ (ChangesInv => ChangesInv')
  <1> USE DEF IInv
  <1>1. lock = t /\ lock' = t
    BY DEF Discovered, LockHeld, Busy, redisVars
  <1>2. pc' \in [Tasks -> Places] /\ LockHeld' /\ pc'[t] = "rebuild"
    BY <1>1 DEF Discovered, TypeOK, LockHeld, Busy, Places, redisVars
  <1>3. seen' \in 0..server /\ seen' \in read..server /\ server' = server
    BY DEF Discovered, TypeOK, serverVars
  <1>4. TypeOK'
    <2>1. ready' \in BOOLEAN /\ rated' \subseteq Polls /\ silent' \in BOOLEAN
      BY DEF Discovered
    <2> QED BY <1>2, <1>3, <2>1 DEF Discovered, TypeOK, serverVars, redisVars, countVars
  <1>5. FailuresBounded' /\ PollsRearmed' /\ GateOnlyDuringDiscovery'
    BY <1>1, TaskSets DEF Discovered, FailuresBounded, countVars, PollsRearmed, PollsArmed,
                          GateOnlyDuringDiscovery
  <1>6. EmptyExplained'
    BY <1>3 DEF TypeOK, Cleared, EmptyExplained
  <1>7. ASSUME ChangesInv PROVE ChangesInv'
    <2>1. pending' = pending /\ (~pending => read = server)
      BY <1>1, <1>7, TaskSets DEF Discovered, redisVars, ChangesInv, Covered
    <2>2. ~pending => seen' = server
      BY <1>3, <2>1 DEF TypeOK
    <2> QED BY <1>1, <1>2, <1>3, <2>1, <2>2, TaskSets DEF ChangesInv, Covered, NoChangeMissed
  <1> QED BY <1>2, <1>4, <1>5, <1>6, <1>7

(* The polls of a finished pass: every key with a rate runs again. *)
LEMMA StartedStep ==
    ASSUME IInv, NEW t \in Tasks, pc[t] \in Busy, NEW place \in Places \ Busy,
           place # "off" \/ t \notin Scheduled,
           rated' \subseteq Polls, pc' = Started(rated', t, place), lock' = NoTask
    PROVE  pc' \in [Tasks -> Places] /\ LockHeld' /\ PollsArmed'
  <1> USE DEF IInv
  <1>1. lock = t
    BY DEF LockHeld
  <1>2. pc' \in [Tasks -> Places]
    BY DEF Started, TypeOK, Places
  <1>3. LockHeld'
    BY <1>1, TaskSets DEF Started, LockHeld, Busy
  <1>4. PollsArmed'
    BY TaskSets DEF Started, PollsArmed
  <1> QED BY <1>2, <1>3, <1>4

LEMMA DiscoverFailsStep ==
    ASSUME IInv, NEW t \in Tasks, DiscoverFails(t)
    PROVE  IInv' /\ (ChangesInv => ChangesInv')
  <1> USE DEF IInv
  <1>1. rated' \subseteq Polls /\ lock' = NoTask /\ reported' = "failed"
        /\ ready' = TRUE /\ cutShort' = FALSE
    BY DEF DiscoverFails
  <1>2. pc' \in [Tasks -> Places] /\ LockHeld' /\ PollsArmed'
    BY <1>1, StartedStep, RestPlace DEF DiscoverFails, Busy
  <1>3. TypeOK'
    <2>1. recovering' \subseteq Tasks /\ probeLock' \in Tasks \cup {NoTask}
      BY DEF DiscoverFails, LeavesRecovery, TypeOK
    <2> QED BY <1>1, <1>2, <2>1 DEF DiscoverFails, TypeOK, serverVars, countVars
  <1>4. FailuresBounded' /\ PollsRearmed' /\ GateOnlyDuringDiscovery' /\ EmptyExplained'
    BY <1>1, <1>2 DEF DiscoverFails, FailuresBounded, countVars, PollsRearmed,
                      GateOnlyDuringDiscovery, EmptyExplained
  <1>5. ChangesInv'
    BY <1>1 DEF ChangesInv, Covered, NoChangeMissed
  <1> QED BY <1>2, <1>3, <1>4, <1>5

LEMMA RebuildFailsStep ==
    ASSUME IInv, NEW t \in Tasks, RebuildFails(t)
    PROVE  IInv' /\ (ChangesInv => ChangesInv')
  <1> USE DEF IInv
  <1>1. rated' \subseteq Polls /\ lock' = NoTask /\ reported' = "failed" /\ rated' = rated
        /\ cutShort' = FALSE /\ lock = t
    BY DEF RebuildFails, TypeOK, stateVars, LockHeld, Busy
  <1>2. pc' \in [Tasks -> Places] /\ LockHeld' /\ PollsArmed'
    BY <1>1, StartedStep, RestPlace DEF RebuildFails, Busy
  <1>3. TypeOK'
    <2>1. recovering' \subseteq Tasks /\ probeLock' \in Tasks \cup {NoTask}
      BY DEF RebuildFails, LeavesRecovery, TypeOK
    <2> QED BY <1>1, <1>2, <2>1 DEF RebuildFails, TypeOK, serverVars, stateVars, countVars
  <1>4. FailuresBounded' /\ PollsRearmed' /\ GateOnlyDuringDiscovery' /\ EmptyExplained'
    BY <1>1, <1>2, TaskSets DEF RebuildFails, FailuresBounded, countVars, stateVars, PollsRearmed,
                      GateOnlyDuringDiscovery, EmptyExplained
  <1>5. ChangesInv'
    BY <1>1 DEF ChangesInv, Covered, NoChangeMissed
  <1> QED BY <1>2, <1>3, <1>4, <1>5

(* The end of a pass that went well: around again, or out. *)
LEMMA RebuiltStep ==
    ASSUME IInv, NEW t \in Tasks, Rebuilt(t)
    PROVE  IInv' /\ (ChangesInv => ChangesInv')
  <1> USE DEF IInv
  <1>1. /\ lock = t /\ pc[t] = "rebuild" /\ ready = TRUE /\ pc[t] \in Busy
        /\ UNCHANGED <<serverVars, read, ready, rated, countVars>>
    BY TaskSets DEF Rebuilt, TypeOK, LockHeld, Busy, GateOnlyDuringDiscovery
  <1>2. seen' \in seen..server /\ silent' \in BOOLEAN /\ server' = server
    BY <1>1 DEF Rebuilt, serverVars
  <1>3. seen # Cleared
    BY <1>1, TaskSets DEF EmptyExplained
  <1>4. seen' \in 0..server /\ seen' # Cleared
    BY <1>2, <1>3 DEF TypeOK, Cleared
  <1>5. CASE Again
    <2>1. BeginPass(t, passes + 1) /\ UNCHANGED <<lock, reported, cutShort, lost>>
      BY <1>5 DEF Rebuilt
    <2>2. passes + 1 \in 1..MaxPasses
      BY <1>5, ConstantsAssumption DEF Again, TypeOK
    <2>3. /\ pc' \in [Tasks -> Places] /\ pc'[t] = "cancelling"
      BY <2>1 DEF BeginPass, TypeOK, Places
    <2>4. LockHeld'
      BY <1>1, <2>1, TaskSets DEF BeginPass, TypeOK, LockHeld, Busy
    <2>5. /\ passes' \in 1..MaxPasses /\ pending' \in BOOLEAN
      BY <2>1, <2>2 DEF BeginPass
    <2>6. recovering' \subseteq Tasks /\ probeLock' \in Tasks \cup {NoTask}
      BY <2>1 DEF BeginPass, TypeOK
    <2>7. TypeOK'
      BY <1>1, <1>2, <1>4, <2>1, <2>3, <2>5, <2>6, ConstantsAssumption DEF TypeOK, serverVars, countVars
    <2>8. FailuresBounded' /\ PollsRearmed' /\ GateOnlyDuringDiscovery'
      BY <1>1, <2>1, TaskSets DEF FailuresBounded, countVars, PollsRearmed, PollsArmed,
                                  GateOnlyDuringDiscovery
    <2>9. EmptyExplained' /\ ChangesInv'
      BY <1>1, <1>4, <2>1, <2>3, TaskSets DEF EmptyExplained, ChangesInv, Covered, NoChangeMissed
    <2> QED BY <2>4, <2>7, <2>8, <2>9
  <1>6. CASE ~Again
    <2>1. /\ pending' = FALSE /\ lock' = NoTask /\ cutShort' = FALSE /\ UNCHANGED passes
          /\ reported' = IF pending THEN "max_passes" ELSE "none"
      BY <1>6 DEF Rebuilt
    <2>2. PICK place \in {"listener", Rest(t)} : pc' = Started(rated, t, place)
      BY <1>6 DEF Rebuilt
    <2>3. place \in Places \ Busy /\ (t \in Scheduled => place # "off")
      BY RestPlace DEF Places, Busy
    <2>4. pc' \in [Tasks -> Places] /\ LockHeld' /\ PollsArmed'
      BY <1>1, <2>1, <2>2, <2>3, StartedStep DEF TypeOK
    <2>5. lost' \in BOOLEAN /\ recovering' \subseteq Tasks /\ probeLock' \in Tasks \cup {NoTask}
      BY <1>6 DEF Rebuilt, Returns, LeavesRecovery, TypeOK
    <2>6. reported' \in {"none", "failed", "max_passes"}
      BY <2>1
    <2>7. TypeOK'
      BY <1>1, <1>2, <1>4, <2>1, <2>4, <2>5, <2>6 DEF TypeOK, serverVars, countVars
    <2>8. FailuresBounded' /\ PollsRearmed' /\ GateOnlyDuringDiscovery'
      BY <1>1, <2>4 DEF FailuresBounded, countVars, PollsRearmed, GateOnlyDuringDiscovery
    <2>9. ASSUME ChangesInv PROVE ChangesInv'
      <3>1. ~pending => seen' = server
        BY <1>1, <1>2, <2>9, TaskSets DEF ChangesInv, Covered, TypeOK
      <3> QED BY <1>2, <2>1, <3>1 DEF ChangesInv, Covered, NoChangeMissed
    <2> QED BY <1>4, <2>4, <2>7, <2>8, <2>9 DEF EmptyExplained
  <1> QED BY <1>5, <1>6

LEMMA ListenerDoneStep ==
    ASSUME IInv, NEW t \in Tasks, ListenerDone(t)
    PROVE  IInv' /\ (ChangesInv => ChangesInv')
  <1> USE DEF IInv
  <1>1. /\ pc[t] \notin Busy /\ pc' = [pc EXCEPT ![t] = Rest(t)]
        /\ UNCHANGED <<serverVars, stateVars, redisVars, silent, countVars>>
    BY DEF ListenerDone, Busy
  <1>2. /\ pc' \in [Tasks -> Places] /\ LockHeld'
        /\ PollsRearmed' /\ GateOnlyDuringDiscovery' /\ EmptyExplained'
        /\ lock # NoTask => pc'[lock] = pc[lock]
    BY <1>1, RestPlace, QuietMove DEF redisVars
  <1>3. lost' \in BOOLEAN /\ recovering' \subseteq Tasks /\ probeLock' \in Tasks \cup {NoTask}
    BY DEF ListenerDone, Returns, LeavesRecovery, TypeOK
  <1>4. TypeOK' /\ FailuresBounded'
    BY <1>1, <1>2, <1>3 DEF TypeOK, FailuresBounded, serverVars, stateVars, redisVars, countVars
  <1>5. ChangesInv => ChangesInv'
    BY <1>1, <1>2, ChangesKept DEF serverVars, stateVars, redisVars
  <1> QED BY <1>2, <1>4, <1>5

LEMMA ReregisteredStep ==
    ASSUME IInv, NEW t \in Tasks, Reregistered(t)
    PROVE  IInv' /\ (ChangesInv => ChangesInv')
  <1> USE DEF IInv
  <1>1. pc[t] \notin Busy /\ Trigger(t)
        /\ UNCHANGED <<serverVars, stateVars, silent, lost, countVars>>
    BY DEF Reregistered, Busy
  <1>2. TypeOK' /\ FailuresBounded'
    BY <1>1, TriggerStep DEF TypeOK, FailuresBounded, serverVars, stateVars, countVars
  <1> QED BY <1>1, <1>2, TriggerStep

-----------------------------------------------------------------------------
(* The scheduled tasks, the recovery of lost communications, the callers.  *)
LEMMA PollStep ==
    ASSUME IInv, NEW t \in Tasks, StartPoll(t) \/ Poll(t)
    PROVE  IInv' /\ (ChangesInv => ChangesInv')
  <1> USE DEF IInv
  <1>1. pc[t] \notin Busy /\ t \in Polls /\ UNCHANGED <<serverVars, stateVars, lost>>
    BY DEF StartPoll, Poll, PollOk, PollFails, PollMoved, lossVars, Busy
  <1>2. /\ failures' \in 0..MaxFailures /\ failed' \in 0..MaxFailures /\ FailuresBounded'
    BY ConstantsAssumption DEF TypeOK, FailuresBounded, StartPoll, Poll, PollOk, PollFails,
                               PollMoved, countVars
  <1>3. silent' \in BOOLEAN
    BY DEF TypeOK, StartPoll, Poll, PollOk, PollFails, PollMoved, lossVars
  <1>4. CASE Trigger(t)
    <2>1. TypeOK'
      BY <1>1, <1>2, <1>3, <1>4, TriggerStep DEF TypeOK, serverVars, stateVars
    <2> QED BY <1>1, <1>2, <1>4, <2>1, TriggerStep
  <1>5. CASE ~Trigger(t)
    <2>1. PICK p \in {"poll", Rest(t)} :
             pc' = [pc EXCEPT ![t] = p] /\ UNCHANGED <<redisVars, recovering, probeLock>>
      BY <1>5 DEF StartPoll, Poll, PollOk, PollFails, PollMoved, lossVars
    <2>2. p \in Places \ Busy /\ p # "off"
      BY <1>1, RestPlace, TaskSets DEF Places, Busy
    <2>3. /\ pc' \in [Tasks -> Places] /\ LockHeld'
          /\ PollsRearmed' /\ GateOnlyDuringDiscovery' /\ EmptyExplained'
          /\ lock # NoTask => pc'[lock] = pc[lock]
      BY <1>1, <2>1, <2>2, QuietMove DEF redisVars
    <2>4. TypeOK'
      BY <1>1, <1>2, <1>3, <2>1, <2>3 DEF TypeOK, serverVars, stateVars, redisVars
    <2>5. ChangesInv => ChangesInv'
      BY <1>1, <2>1, <2>3, ChangesKept DEF serverVars, stateVars, redisVars
    <2> QED BY <1>2, <2>3, <2>4, <2>5
  <1> QED BY <1>4, <1>5

(* A task starts to recover from lost communications. *)
LEMMA RecoveryStep ==
    ASSUME IInv, NEW t \in Tasks, pc[t] \notin Busy, pc' = [pc EXCEPT ![t] = "reregister"],
           recovering' = recovering \cup {t}, probeLock' = t,
           UNCHANGED <<serverVars, stateVars, redisVars, silent, lost, countVars>>
    PROVE  IInv' /\ (ChangesInv => ChangesInv')
  <1> USE DEF IInv
  <1>1. "reregister" \in Places \ Busy
    BY DEF Places, Busy
  <1>2. /\ pc' \in [Tasks -> Places] /\ LockHeld'
        /\ PollsRearmed' /\ GateOnlyDuringDiscovery' /\ EmptyExplained'
        /\ lock # NoTask => pc'[lock] = pc[lock]
    BY <1>1, QuietMove DEF redisVars
  <1>3. TypeOK' /\ FailuresBounded'
    BY <1>2 DEF TypeOK, FailuresBounded, serverVars, stateVars, redisVars, countVars
  <1>4. ChangesInv => ChangesInv'
    BY <1>2, ChangesKept DEF serverVars, stateVars, redisVars
  <1> QED BY <1>2, <1>3, <1>4

(* The steps that move no task. *)
LEMMA StillStep ==
    ASSUME IInv, \/ Heartbeat \/ ProbeEnters \/ WindowPasses \/ ServerDown
                 \/ ServerUp \/ SilencePasses
    PROVE  IInv' /\ (ChangesInv => ChangesInv')
  <1> USE DEF IInv
  <1>1. UNCHANGED <<server, stateVars, pc, redisVars, recovering, probeLock, countVars>>
    BY DEF Heartbeat, ProbeEnters, WindowPasses, ServerDown, ServerUp, SilencePasses,
           serverVars, lossVars
  <1>2. up' \in BOOLEAN /\ recent' \in BOOLEAN /\ silent' \in BOOLEAN /\ lost' \in BOOLEAN
    BY Zenon DEF TypeOK, Heartbeat, ProbeEnters, WindowPasses, ServerDown, ServerUp,
                 SilencePasses, serverVars, lossVars
  <1>3. outages' \in 0..MaxOutages
    BY ConstantsAssumption DEF TypeOK, Heartbeat, ProbeEnters, WindowPasses, ServerDown, ServerUp,
                 SilencePasses, serverVars
  <1>4. TypeOK' /\ FailuresBounded'
    BY <1>1, <1>2, <1>3 DEF TypeOK, FailuresBounded, stateVars, redisVars, countVars
  <1>5. ChangesInv => ChangesInv'
    BY <1>1, ChangesKept DEF stateVars, redisVars
  <1> QED BY <1>1, <1>4, <1>5, NoMove DEF redisVars

(* A notified change outside a rediscovery starts one, and inside one asks *)
(* for another pass, unless it comes within the dedup window of another.   *)
LEMMA NotifyStep ==
    ASSUME IInv, NEW t \in Others, Notify(t)
    PROVE  IInv' /\ (~Bursts /\ ChangesInv => ChangesInv')
  <1> USE DEF IInv
  <1>1. /\ t \in Tasks /\ pc[t] \notin Busy /\ server' = server + 1 /\ server < MaxChanges
        /\ UNCHANGED <<up, outages, stateVars, silent, lost, countVars>>
    BY TaskSets DEF Notify, Busy
  <1>2. server' \in 0..MaxChanges /\ seen' \in {Cleared} \cup 0..server' /\ read' \in 0..server'
    BY <1>1, ConstantsAssumption DEF TypeOK, stateVars
  <1>3. FailuresBounded'
    BY <1>1 DEF FailuresBounded, countVars
  <1>4. CASE ~recent
    <2>1. Trigger(t) /\ recent' = TRUE
      BY <1>4 DEF Notify
    <2>2. TypeOK'
      BY <1>1, <1>2, <2>1, TriggerStep DEF TypeOK, stateVars, countVars
    <2> QED BY <1>1, <1>3, <2>1, <2>2, TriggerStep
  <1>5. CASE recent
    <2>1. /\ lock # NoTask \/ Bursts
          /\ pending' = (pending \/ lock # NoTask)
          /\ UNCHANGED <<recent, pc, lock, passes, reported, cutShort, recovering, probeLock>>
      BY <1>5 DEF Notify
    <2>2. pending' \in BOOLEAN
      BY <2>1
    <2>3. TypeOK'
      BY <1>1, <1>2, <2>1, <2>2 DEF TypeOK, stateVars, countVars
    <2>4. ~Bursts => ChangesInv'
      BY <2>1 DEF ChangesInv, Covered, NoChangeMissed
    <2> QED BY <1>1, <1>3, <2>1, <2>3, <2>4, NoMove
  <1> QED BY <1>4, <1>5 DEF TypeOK

LEMMA AskStep ==
    ASSUME IInv, NEW t \in Others, Ask(t)
    PROVE  IInv' /\ (ChangesInv => ChangesInv')
  <1> USE DEF IInv
  <1>1. t \in Tasks /\ pc[t] \notin Busy /\ Trigger(t)
        /\ UNCHANGED <<serverVars, stateVars, silent, lost, countVars>>
    BY TaskSets DEF Ask, Busy
  <1>2. TypeOK' /\ FailuresBounded'
    BY <1>1, TriggerStep DEF TypeOK, FailuresBounded, serverVars, stateVars, countVars
  <1> QED BY <1>1, <1>2, TriggerStep

-----------------------------------------------------------------------------
LEMMA NextIInv ==
    ASSUME IInv, [Next]_vars
    PROVE  IInv' /\ (~Bursts /\ ChangesInv => ChangesInv')
  <1>1. ASSUME NEW t \in Tasks, Pass(t) PROVE IInv' /\ (ChangesInv => ChangesInv')
    BY <1>1, AbortedStep, ClearStateStep, DiscoveredStep, DiscoverFailsStep, RebuiltStep,
       RebuildFailsStep, ListenerDoneStep, ReregisteredStep DEF Pass
  <1>2. ASSUME NEW t \in Tasks, StartPoll(t) \/ Poll(t) PROVE IInv' /\ (ChangesInv => ChangesInv')
    BY <1>2, PollStep
  <1>3. CASE \/ Heartbeat \/ ProbeEnters \/ WindowPasses \/ ServerDown \/ ServerUp
             \/ SilencePasses
    BY <1>3, StillStep
  <1>4. CASE ProbeRecovers
    <2>1. Probe \in Tasks /\ pc[Probe] \notin Busy
      BY <1>4, TaskSets DEF ProbeRecovers, Busy
    <2> QED BY <1>4, <2>1, RecoveryStep DEF ProbeRecovers
  <1>5. ASSUME NEW t \in Others, RecoverNow(t) \/ Notify(t) \/ Ask(t)
        PROVE  IInv' /\ (~Bursts /\ ChangesInv => ChangesInv')
    <2>1. CASE RecoverNow(t)
      <3>1. t \in Tasks /\ pc[t] \notin Busy
        BY <2>1, TaskSets DEF RecoverNow, Busy
      <3> QED BY <2>1, <3>1, RecoveryStep DEF RecoverNow
    <2> QED BY <1>5, <2>1, NotifyStep, AskStep
  <1>6. CASE UNCHANGED vars
    <2>1. UNCHANGED <<server, stateVars, pc, redisVars>>
      BY <1>6 DEF vars, serverVars
    <2>2. TypeOK' /\ FailuresBounded'
      BY <1>6 DEF IInv, TypeOK, FailuresBounded, vars, serverVars, stateVars, redisVars, lossVars,
                  countVars
    <2>3. ChangesInv => ChangesInv'
      BY <2>1, ChangesKept DEF stateVars, redisVars
    <2> QED BY <2>1, <2>2, <2>3, NoMove DEF IInv, redisVars
  <1> QED BY <1>1, <1>2, <1>3, <1>4, <1>5, <1>6 DEF Next

(* IInv holds in every state: the scheduler, the rediscovery lock, the     *)
(* gate, the probe's lock and the resource state agree.                    *)
THEOREM Invariance == Spec => []IInv
  <1>1. Init => IInv
    BY InitIInv
  <1>2. IInv /\ [Next]_vars => IInv'
    BY NextIInv
  <1> QED BY <1>1, <1>2, PTL DEF Spec

(* Every variable keeps its type for any polls, probes and outside tasks.  *)
THEOREM TypeCorrect == Spec => []TypeOK
  <1>1. IInv => TypeOK
    BY DEF IInv
  <1> QED BY Invariance, <1>1, PTL

(* A rediscovery that ends by any way but its own cancellation leaves the  *)
(* heartbeat, the probe and every poll with a rate running.                *)
THEOREM PollsAlwaysRearmed == Spec => []PollsRearmed
  <1>1. IInv => PollsRearmed
    BY DEF IInv
  <1> QED BY Invariance, <1>1, PTL

(* _rediscovery_lock admits one task to the loop, and only the holder      *)
(* releases it.                                                            *)
THEOREM OneRediscovery ==
    Spec => [](\A t, u \in Tasks : pc[t] \in Busy /\ pc[u] \in Busy => t = u)
  <1>1. IInv => \A t, u \in Tasks : pc[t] \in Busy /\ pc[u] \in Busy => t = u
    BY DEF IInv, LockHeld
  <1> QED BY Invariance, <1>1, PTL

(* The gate on the event timers is shut only while discover() runs.        *)
THEOREM GateReopens == Spec => []GateOnlyDuringDiscovery
  <1>1. IInv => GateOnlyDuringDiscovery
    BY DEF IInv
  <1> QED BY Invariance, <1>1, PTL

(* Only a failure that was reported leaves ResourceState empty.            *)
THEOREM EmptyIsReported == Spec => []EmptyOnlyIfReported
  <1>1. IInv => EmptyOnlyIfReported
    BY DEF IInv, EmptyExplained, EmptyOnlyIfReported
  <1> QED BY Invariance, <1>1, PTL

(* A notified change is in the state when its rediscovery ends without a   *)
(* report, for changes that do not fall within the dedup window of another *)
(* while the client is idle.                                               *)
THEOREM ChangesSeen == ~Bursts => (Spec => []NoChangeMissed)
  <1> SUFFICES ASSUME ~Bursts PROVE Spec => []NoChangeMissed
    OBVIOUS
  <1>1. Init => IInv /\ ChangesInv
    BY InitIInv
  <1>2. IInv /\ ChangesInv /\ [Next]_vars => (IInv /\ ChangesInv)'
    BY NextIInv
  <1>3. IInv /\ ChangesInv => NoChangeMissed
    BY DEF ChangesInv
  <1> QED BY <1>1, <1>2, <1>3, PTL DEF Spec
=============================================================================
