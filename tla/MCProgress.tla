----------------------------- MODULE MCProgress -----------------------------
(***************************************************************************)
(* The parts of the client with a task of their own that must get on, for  *)
(* TLC: a device's two reporting loops (Metering, DerResources), the way   *)
(* to a device (Dispatch), the tariff polls (Tariffs) and the command      *)
(* itself (Runner).  They share no state, and each behaviour runs one of   *)
(* them, the one `part` names; so they share the variables of this module  *)
(* too.  Of the metering loop, one part has all the readings and the other *)
(* the alarms.                                                             *)
(***************************************************************************)
EXTENDS Naturals, Sequences, FiniteSets

CONSTANT None

VARIABLES part, x1, x2, x3, x4, x5, x6, x7, x8, x9, x10, x11, x12, x13, x14, x15, x16, x17

-----------------------------------------------------------------------------
M == INSTANCE Metering WITH
        Readings <- {"r1", "r2"}, Alarms <- {0, 1}, MaxFaults <- 1, MaxAlarmChanges <- 2,
        MaxStarts <- 1, dev <- x1, cycle <- x2, restored <- x3, file <- x4, server <- x5,
        alarms <- x6, unseen <- x7, dropped <- x8, forgot <- x9, faults <- x10, changes <- x11,
        starts <- x12

R == INSTANCE DerResources WITH
        Policy <- "on_change", MaxRevisions <- 2, MaxMoves <- 2, MaxFailures <- 1, on <- x1,
        href <- x2, device <- x3, sent <- x4, last <- x5, job <- x6, held <- x7, reachable <- x8,
        fresh <- x9, raced <- x10, revisions <- x11, moves <- x12, failures <- x13

(* The activities that use one device. *)
Calls == [c \in {"event", "operator", "cycle"} |->
            [modes |-> IF c = "cycle" THEN <<>> ELSE <<"m1">>, repeats |-> c # "event"]]
D == INSTANCE Dispatch WITH
        Calls <- Calls, Modes <- {"m1"}, Meters <- {}, Gated <- {}, Ttl <- 2, MaxTransient <- 1,
        MaxFails <- 1, MaxCancels <- 1, pc <- x1, todo <- x2, refused <- x3, instance <- x4,
        lock <- x5, cached <- x6, threads <- x7, broken <- x8, writers <- x9, device <- x10,
        history <- x11, built <- x12, transients <- x13, fails <- x14, cancels <- x15,
        loose <- x16, unseen <- x17

(* Two intervals that overlap, the later one newer. *)
Intervals == [a |-> [start |-> 0, end |-> 2, created |-> 1, acked |-> TRUE],
              b |-> [start |-> 1, end |-> 3, created |-> 2, acked |-> TRUE]]
T == INSTANCE Tariffs WITH
        Intervals <- Intervals, Pollers <- {"poll", "note"}, MaxTime <- 1, MaxFails <- 1,
        MaxPolls <- 1, MaxChanges <- 1, served <- x1, now <- x2, tree <- x3, run <- x4, sent <- x5,
        claims <- x6, active <- x7, told <- x8, acks <- x9, missed <- x10, fails <- x11,
        polls <- x12, changes <- x13

C == INSTANCE Runner WITH
        MaxAttempts <- 2, MaxRequests <- 1, MaxRediscovers <- 1, config <- x1, pc <- x2, stop <- x3,
        reconnect <- x4, connect <- x5, attempts <- x6, phase <- x7, open <- x8, spare <- x9,
        lost <- x10, manager <- x11, shown <- x12, hook <- x13, fault <- x14, code <- x15,
        requests <- x16, rediscovers <- x17

-----------------------------------------------------------------------------
(* The variables a part does not use. *)
from14 == <<x14, x15, x16, x17>>
from13 == <<x13, from14>>
vars == <<part, x1, x2, x3, x4, x5, x6, x7, x8, x9, x10, x11, x12, from13>>
Off14 == x14 = None /\ x15 = None /\ x16 = None /\ x17 = None
Off13 == x13 = None /\ Off14

(* The command with everything it can open, each way to its server. *)
Init ==
    \/ part \in {"readings", "alarms"} /\ M!Init /\ Off13
    \/ part = "resources" /\ R!Init /\ Off14
    \/ part = "dispatch" /\ D!Init
    \/ part = "tariffs" /\ T!Init /\ Off14
    \/ /\ part = "command" /\ C!Init
       /\ \A c \in {"advertise", "history", "telemetry", "poll"} : x1[c]

(* Bounds: no alarm changes (x11), or one reading only (of x2, the cycle). *)
Metering(A) ==
    /\ part \in {"readings", "alarms"} /\ A
    /\ IF part = "readings" THEN x11' = 0 ELSE DOMAIN x2'.snap \subseteq {"r1"}
    /\ UNCHANGED <<part, from13>>
Reporting(A) == part = "resources" /\ A /\ UNCHANGED <<part, from14>>
Dispatching(A) == part = "dispatch" /\ A /\ UNCHANGED part
Pricing(A) == part = "tariffs" /\ A /\ UNCHANGED <<part, from14>>
Running(A) == part = "command" /\ A /\ UNCHANGED part

Next == \/ Metering(M!Next) \/ Reporting(R!Next) \/ Dispatching(D!Next)
        \/ Pricing(T!Next) \/ Running(C!Next)

(* Cycles run at their rates and requests end; the telemetry cycle goes on *)
(* calling, threads end and a cached failure ages; the poll loop runs for  *)
(* as long as the client does; the event loop runs what is ready.  A       *)
(* behaviour has one part, so fairness of a disjunction over the parts is  *)
(* fairness of the running part's action.                                  *)
First == \/ Metering(M!CycleStep) \/ Reporting(R!Reconnect) \/ Dispatching(D!Age)
         \/ Pricing(T!PollStep("poll")) \/ Running(C!Main)
Second == \/ Reporting(R!CycleStep("capability")) \/ Dispatching(D!Call("cycle"))
          \/ Pricing(T!PollStep("note")) \/ Running(C!Connect)
Third == \/ Reporting(R!CycleStep("settings"))
         \/ Dispatching(\E c \in D!Callers : D!Locked(c)) \/ Running(C!RunEnds(FALSE))
Fourth == \/ Dispatching(D!ThreadEnds) \/ Running(C!Restarted)
Spec == /\ Init /\ [][Next]_vars
        /\ WF_vars(First) /\ WF_vars(Second) /\ WF_vars(Third) /\ WF_vars(Fourth)

-----------------------------------------------------------------------------
(* The server is never asked to change a ReadingType it holds, unless a    *)
(* registration was never recorded or was dropped (Metering: _post_mup).   *)
TypesFixed == [][(part \in {"readings", "alarms"} => M!TypesKept)]_vars

(* The server ends up with what the loops have to report: a MUP it lost is *)
(* created again (Metering: _post_readings), it knows the alarms that are  *)
(* set (_post_log_event), and holds the device's capability and settings   *)
(* (DerResources: _capability_cycle, _settings_cycle, forget_sent).        *)
ReportsArrive ==
    /\ []<>(part \in {"readings", "alarms"} => M!MupHeld)
    /\ <>[](/\ part \in {"readings", "alarms"} => M!AlarmsTold
            /\ part = "resources" => R!ServerCurrent)

(* A device put right is used again without a restart (Dispatch: aresolve, *)
(* _check_cached_permanent_failure).                                       *)
RepairedDeviceUsed == (part = "dispatch" /\ D!Usable) ~> (part = "dispatch" /\ D!Constructed)

(* The connectors end up told of the price in effect (Tariffs:             *)
(* _relay_if_changed).                                                     *)
PriceTold == []<>(part = "tariffs" => T!CurrentTold)

(* A signal ends the process, in an outage that never ends too (Runner:    *)
(* connect_with_retry, _discover_server, _sleep_or_stop).                  *)
StopHeeded == (part = "command" /\ C!StopAsked) ~> (part = "command" /\ C!Exited)
=============================================================================
