------------------------------ MODULE Dispatch ------------------------------
(***************************************************************************)
(* From a control to one device: LazyConnectorProxy.aresolve               *)
(* (connectors/registry.py), which constructs the device's connector on    *)
(* first use, and ConnectorDispatcher (connectors/dispatcher.py), which    *)
(* writes a control mode by mode, under the connector's lock, and keeps    *)
(* each write in the operations history.                                   *)
(*                                                                         *)
(* Each caller is one activity of the client: an event's activation, the   *)
(* disable at an event's end, a default control, the clear of comms loss,  *)
(* an operator's named control, and a telemetry cycle, which only reads.   *)
(* A step runs from one await to the next.                                 *)
(***************************************************************************)
EXTENDS Naturals, Sequences, FiniteSets

CONSTANTS
    Calls,      \* caller -> [modes: Seq, raises: what a refusal does, repeats]
    Modes,
    Meters,     \* callers aimed at a device with a meter's role
    Gated,      \* callers the command gate refuses (CommandGate.may_command)
    Ttl,        \* _PERMANENT_FAILURE_TTL_SECONDS, in ticks
    MaxTransient,  \* bound: scans that fail and may succeed when repeated
    MaxFails,      \* bound: writes that raise
    MaxCancels     \* bound: callers cancelled while they wait, build or write

Callers == DOMAIN Calls
Nobody == "none"

VARIABLES
    pc,        \* caller -> where it awaits
    todo,      \* caller -> modes it has still to write
    refused,   \* caller -> modes the gate refused
    instance,  \* _instance: which construction, or 0
    lock,      \* _aresolve_lock: the holders and waiters, in order
    cached,    \* _permanent_failure: ticks it stays fresh
    threads,   \* the worker threads that run the factory
    broken,    \* the device refuses the scan for good
    writers,   \* _controls_lock: the holder and its waiters, in order
    device,    \* mode -> the caller whose write it holds
    history,   \* mode -> the last write kept: [by, outcome]
    loose,     \* writes whose caller was cancelled; their threads run on
    unseen,    \* history: mode -> the callers of cancelled writes that may have
               \* reached the device since the last write kept as applied
    built,     \* history: factory runs that made a connector
    transients, fails, cancels

proxy == <<instance, lock, cached, threads, built, transients>>
records == <<device, history, loose, unseen, fails>>
vars == <<pc, todo, refused, proxy, broken, writers, records, cancels>>

TypeOK ==
    /\ pc \in [Callers -> {"idle", "lock", "building", "writing", "done"}]
    /\ \A c \in Callers : todo[c] \in Seq(Modes) /\ refused[c] \subseteq Modes
    /\ instance \in 0..(MaxCancels + 1) /\ built \in 0..(MaxCancels + 1)
    /\ lock \in Seq(Callers) /\ writers \in Seq(Callers)
    /\ cached \in 0..Ttl /\ threads \subseteq Callers \X BOOLEAN /\ broken \in BOOLEAN
    /\ device \in [Modes -> Callers \cup {Nobody}]
    /\ history \in [Modes -> [by : Callers \cup {Nobody}, outcome : {"applied", "failed", "none"}]]
    /\ loose \subseteq Callers \X Modes \X (0..MaxCancels) /\ unseen \in [Modes -> SUBSET Callers]
    /\ transients \in 0..MaxTransient /\ fails \in 0..MaxFails /\ cancels \in 0..MaxCancels

Init ==
    /\ pc = [c \in Callers |-> "idle"] /\ todo = [c \in Callers |-> <<>>]
    /\ refused = [c \in Callers |-> {}]
    /\ instance = 0 /\ lock = <<>> /\ cached = 0 /\ threads = {} /\ broken \in BOOLEAN
    /\ writers = <<>> /\ device = [m \in Modes |-> Nobody]
    /\ history = [m \in Modes |-> [by |-> Nobody, outcome |-> "none"]]
    /\ loose = {} /\ unseen = [m \in Modes |-> {}]
    /\ built = 0 /\ transients = 0 /\ fails = 0 /\ cancels = 0

-----------------------------------------------------------------------------
Ends(c) == pc' = [pc EXCEPT ![c] = IF Calls[c].repeats THEN "idle" ELSE "done"]

(* The connector is at hand: _apply_control_to_connector,                  *)
(* _disable_modes_on_connector, _clear_control_on_connector and            *)
(* apply_operation go on to their modes; a read has none.                  *)
(* The modes the gate refuses (_apply_one) are kept as refused writes and  *)
(* passed over.  The first permitted one queues for the connector.         *)
Proceed(c) ==
    IF c \in Gated \/ Calls[c].modes = <<>>
    THEN /\ refused' = [refused EXCEPT ![c] = {Calls[c].modes[i] : i \in DOMAIN Calls[c].modes}]
         /\ Ends(c) /\ UNCHANGED <<todo, writers>>
    ELSE /\ pc' = [pc EXCEPT ![c] = "writing"] /\ todo' = [todo EXCEPT ![c] = Calls[c].modes]
         /\ writers' = Append(writers, c) /\ UNCHANGED refused

(* The caller's await raised. *)
Raise(c) == Ends(c) /\ UNCHANGED <<todo, refused, writers>>

(* Mutant: a failure in passing is cached too, and without end. *)
AnyFailure == cached > 0 \/ transients > 0

(* _check_cached_permanent_failure: fresh, so it is raised again. *)
FailureFresh == cached > 0

(* _refuse_meter and _skips_meter end the call; aresolve: the instance or  *)
(* the cached failure at once, else the lock. *)
Call(c) ==
    /\ pc[c] = "idle"
    /\ IF c \in Meters THEN Raise(c) /\ UNCHANGED lock
       ELSE IF instance > 0 THEN Proceed(c) /\ UNCHANGED lock
       ELSE IF FailureFresh THEN Raise(c) /\ UNCHANGED lock
       ELSE /\ lock' = Append(lock, c) /\ pc' = [pc EXCEPT ![c] = "lock"]
            /\ UNCHANGED <<todo, refused, writers>>
    /\ UNCHANGED <<instance, cached, threads, built, transients, broken, records, cancels>>

(* The head of the queue holds the lock and checks again, then starts the  *)
(* factory on a worker thread.                                             *)
Locked(c) ==
    /\ pc[c] = "lock" /\ Head(lock) = c
    /\ IF instance > 0 THEN lock' = Tail(lock) /\ Proceed(c) /\ UNCHANGED threads
       ELSE IF FailureFresh THEN lock' = Tail(lock) /\ Raise(c) /\ UNCHANGED threads
       ELSE /\ threads' = threads \cup {<<c, TRUE>>} /\ pc' = [pc EXCEPT ![c] = "building"]
            /\ UNCHANGED <<lock, todo, refused, writers>>
    /\ UNCHANGED <<instance, cached, built, transients, broken, records, cancels>>

(* resolve, on its thread: the scan (_scan_with_readiness_check) makes a   *)
(* connector, is refused for good, or fails in passing.  A caller that was *)
(* cancelled is not there to take the result. *)
Built(t, ok) ==
    LET c == t[1] IN
    /\ t \in threads /\ threads' = threads \ {t}
    /\ IF ~broken /\ ok
       THEN /\ built' = built + 1 /\ instance' = built + 1
            /\ UNCHANGED <<cached, transients>>
       ELSE /\ IF broken THEN cached' = Ttl /\ UNCHANGED transients
               ELSE transients < MaxTransient /\ transients' = transients + 1 /\ UNCHANGED cached
            /\ UNCHANGED <<instance, built>>
    /\ IF ~t[2] THEN UNCHANGED <<pc, todo, refused, writers, lock>>
       ELSE lock' = Tail(lock) /\ IF ~broken /\ ok THEN Proceed(c) ELSE Raise(c)
    /\ UNCHANGED <<broken, records, cancels>>

(* The failure ages; the device is put right. *)
Age == cached > 0 /\ cached' = cached - 1
       /\ UNCHANGED <<pc, todo, refused, instance, lock, threads, built, transients, broken,
                      writers, records, cancels>>
Repair == broken /\ broken' = FALSE
          /\ UNCHANGED <<pc, todo, refused, proxy, writers, records, cancels>>

-----------------------------------------------------------------------------
(* Mutant: only a write that went through is kept. *)
KeepsApplied(c, m, outcome) ==
    history' = IF outcome = "failed" THEN history
               ELSE [history EXCEPT ![m] = [by |-> c, outcome |-> outcome]]

(* _keep_write, in the step in which the write's result arrives. *)
KeepWrite(c, m, outcome) ==
    history' = [history EXCEPT ![m] = [by |-> c, outcome |-> outcome]]

(* The cancelled writes of mode m that still run. *)
Loose(m) == {w \in loose : w[2] = m}

(* _apply_one at the head of the connector's queue: the write is made and  *)
(* kept, and the caller queues for its next mode, or ends.  A write that   *)
(* raises may have reached the device; it ends the caller, which leaves    *)
(* its other modes as they are.                                            *)
Write(c, ok, reached) ==
    LET m == Head(todo[c])
        more == ok /\ Len(todo[c]) > 1
    IN  /\ writers # <<>> /\ Head(writers) = c
        /\ ok => reached
        /\ device' = IF reached THEN [device EXCEPT ![m] = c] ELSE device
        /\ todo' = [todo EXCEPT ![c] = IF more THEN Tail(@) ELSE <<>>]
        /\ writers' = IF more THEN Append(Tail(writers), c) ELSE Tail(writers)
        /\ IF more THEN UNCHANGED pc ELSE Ends(c)
        /\ KeepWrite(c, m, IF ok THEN "applied" ELSE "failed")
        /\ unseen' = IF ok THEN [unseen EXCEPT ![m] = {w[1] : w \in Loose(m)}] ELSE unseen
        /\ IF ok THEN UNCHANGED fails ELSE fails < MaxFails /\ fails' = fails + 1
        /\ UNCHANGED <<refused, proxy, broken, loose, cancels>>

(* A caller cancelled in one of its awaits leaves the lock, and the thread *)
(* it waited for runs on: the factory's, or that of a write, of which      *)
(* _apply_one keeps nothing and which the next writer does not wait for.   *)
Without(queue, c) == SelectSeq(queue, LAMBDA d : d # c)
Cancel(c) ==
    /\ pc[c] \in {"lock", "building", "writing"} /\ cancels < MaxCancels /\ cancels' = cancels + 1
    /\ lock' = Without(lock, c) /\ writers' = Without(writers, c)
    /\ threads' = {IF t = <<c, TRUE>> THEN <<c, FALSE>> ELSE t : t \in threads}
    /\ IF writers # <<>> /\ Head(writers) = c
       THEN LET m == Head(todo[c]) IN
            /\ loose' = loose \cup {<<c, m, cancels>>}
            /\ unseen' = [unseen EXCEPT ![m] = @ \cup {c}]
       ELSE UNCHANGED <<loose, unseen>>
    /\ todo' = [todo EXCEPT ![c] = <<>>] /\ Ends(c)
    /\ UNCHANGED <<refused, instance, cached, built, transients, broken, device, history, fails>>

(* Such a write ends, and has reached the device or not. *)
Land(w, reached) ==
    /\ w \in loose /\ loose' = loose \ {w}
    /\ device' = IF reached THEN [device EXCEPT ![w[2]] = w[1]] ELSE device
    /\ UNCHANGED <<pc, todo, refused, proxy, broken, writers, history, unseen, fails, cancels>>

ThreadEnds == \E t \in threads, ok \in BOOLEAN : Built(t, ok)
Next ==
    \/ Age \/ Repair
    \/ \E c \in Callers : Call(c) \/ Locked(c) \/ Cancel(c)
    \/ ThreadEnds
    \/ \E c \in Callers, ok, reached \in BOOLEAN : Write(c, ok, reached)
    \/ \E w \in loose, reached \in BOOLEAN : Land(w, reached)
Spec == Init /\ [][Next]_vars

-----------------------------------------------------------------------------
(* For each mode whose last kept write is "applied", that write is what    *)
(* the device holds, though several activities write mode by mode and wait *)
(* for each other in between (_apply_one keeps a write before the next one *)
(* starts); or a write nobody saw end, because its caller was cancelled    *)
(* after that one or its thread was running still.  The next write that is *)
(* applied once those threads have ended makes the history true again.     *)
(* Nothing is said while a later write has raised: what it reached is      *)
(* unknown.                                                                *)
HistoryIsDevice ==
    \A m \in Modes :
        history[m].outcome = "applied" => device[m] \in {history[m].by} \cup unseen[m]

(* Its inductive strengthening: functions of the modes, and a cancelled    *)
(* write that still runs may reach the device at any time.                 *)
LooseUnseen == \A w \in loose : w[2] \in Modes => w[1] \in unseen[w[2]]
IInv == /\ DOMAIN device = Modes /\ DOMAIN history = Modes /\ DOMAIN unseen = Modes
        /\ LooseUnseen /\ HistoryIsDevice

(* A device that was refusing its scan and has been put right is used      *)
(* again, without a restart: the cached failure runs out and the next      *)
(* telemetry cycle constructs the connector, whoever else waits for the    *)
(* lock or is cancelled (_check_cached_permanent_failure).                 *)
Usable == ~broken
Constructed == instance > 0
RepairedDeviceUsed == Usable ~> Constructed

(* LazyConnectorProxy.aresolve's docstring: the lock-protected double      *)
(* check "guarantees the factory runs at most once per proxy even when N   *)
(* coroutines race for first-touch construction".                          *)
FactoryOnce == built <= 1
=============================================================================
