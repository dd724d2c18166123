------------------------------ MODULE Metering ------------------------------
(***************************************************************************)
(* TelemetryManager for one DER device (telemetry/manager.py, with         *)
(* mup.py's registration plan, log_events.py, checkpoint.py and the        *)
(* coordinator's start, restart and stop): the MirrorUsagePoint (MUP) it   *)
(* creates, re-creates and extends, the readings posted under it, the      *)
(* LogEvents of alarm transitions, and the registration checkpoint that    *)
(* survives a restart.                                                     *)
(*                                                                         *)
(* A reading is its identity; what its ReadingType says is the flow        *)
(* direction, drawn from the sign of the value under the DEFAULT profile.  *)
(* Devices share nothing, so there is one.  A cycle is one task: each pc   *)
(* is the await it is in.                                                  *)
(***************************************************************************)
EXTENDS Naturals, FiniteSets, FiniteSetsExt, Functions

CONSTANTS
    Readings,         \* reading identities the connector may report
    Alarms,           \* mapped alarm bits, naturals
    MaxFaults,        \* bound: failures of requests, server, device and disk
    MaxAlarmChanges,  \* bound: times the device's alarms change
    MaxStarts         \* bound: starts, stops and crashes

VARIABLES
    dev,      \* DeviceTelemetryState in _devices, NoDev when not started
    cycle,    \* the metering task: where it is, what it read, a detached state
    restored, \* _restored: registrations loaded at start-up
    file,     \* the checkpoint on disk
    server,   \* the server's MUP, whose it is, and the alarms it was told of
    alarms,   \* alarm bits set on the device
    unseen,   \* history: a registration the server holds was never recorded
    dropped,  \* history: a restart dropped the registration of a reset MUP
    forgot,   \* history: the alarm baseline was forgotten, or a LogEvent's answer lost
    faults, changes, starts

vars == <<dev, cycle, restored, file, server, alarms, unseen, dropped, forgot, faults, changes, starts>>

(* The dicts of registered readings, by mRID: identity to flow direction. *)
Flows == {"forward", "reverse"}
Registrations == UNION {[S -> Flows] : S \in SUBSET Readings}
Nothing == [r \in {} |-> "forward"]

NoDev == [on |-> FALSE, posted |-> FALSE, href |-> FALSE, registered |-> Nothing,
          rejected |-> {}, blocked |-> FALSE, baseline |-> {}]
Fresh(reg) == [NoDev EXCEPT !.on = TRUE, !.registered = reg]

Idle == [pc |-> "idle", grown |-> FALSE, snap |-> Nothing, seen |-> {}, own |-> NoDev]

TypeOK ==
    /\ dev.on \in BOOLEAN /\ dev.registered \in Registrations
    /\ dev.rejected \subseteq Readings /\ dev.baseline \subseteq Alarms
    /\ cycle.grown \in BOOLEAN
    /\ cycle.pc \in {"idle", "mup", "remup", "readback", "discover", "readings",
                     "log", "logPost", "availability"}
    /\ cycle.snap \in Registrations /\ cycle.seen \subseteq Alarms
    /\ restored \in Registrations /\ file \in Registrations
    /\ server.types \in Registrations /\ server.told \subseteq Alarms
    /\ server.mup \in BOOLEAN /\ server.foreign \in BOOLEAN
    /\ alarms \subseteq Alarms /\ unseen \in BOOLEAN /\ dropped \in BOOLEAN /\ forgot \in BOOLEAN
    /\ faults \in 0..MaxFaults /\ changes \in 0..MaxAlarmChanges /\ starts \in 0..MaxStarts

Init ==
    /\ dev = Fresh(Nothing) /\ cycle = Idle /\ restored = Nothing /\ file = Nothing
    /\ server = [mup |-> FALSE, foreign |-> FALSE, types |-> Nothing, told |-> {}]
    /\ alarms = {} /\ unseen = FALSE /\ dropped = FALSE /\ forgot = FALSE
    /\ faults = 0 /\ changes = 0 /\ starts = 0

-----------------------------------------------------------------------------
(* The state a cycle works on: the one in _devices, or a detached one.     *)
Detached == cycle.own.on
Mine == IF Detached THEN cycle.own ELSE dev
(* What was read for the MUP and its readings is used no more after them. *)
At(pc) == IF pc \in {"log", "availability"} THEN [Idle EXCEPT !.pc = pc, !.own = cycle.own]
          ELSE [cycle EXCEPT !.pc = pc]
Goto(pc, st) == IF Detached
                THEN cycle' = [At(pc) EXCEPT !.own = st] /\ dev' = dev
                ELSE cycle' = At(pc) /\ dev' = st
Fault == faults < MaxFaults /\ faults' = faults + 1

(* plan_registration: what is registered is kept unchanged, and a new      *)
(* reading is added with the direction its value has now.                  *)
PlanFromSign(registered, snap) ==  \* Mutant: a re-POST takes every type from the current sign
    [r \in DOMAIN registered \cup DOMAIN snap |->
        IF r \in DOMAIN snap THEN snap[r] ELSE registered[r]]

PlanRegistration(registered, snap) ==
    [r \in DOMAIN registered \cup DOMAIN snap |->
        IF r \in DOMAIN registered THEN registered[r] ELSE snap[r]]

Plan == PlanRegistration(Mine.registered, cycle.snap)

RegistrationGrew(st, snap) ==
    LET plan == DOMAIN PlanRegistration(st.registered, snap)
    IN  plan # st.rejected /\ plan # DOMAIN st.registered

(* to_checkpoint and save_telemetry_state: a device with registrations of  *)
(* its own, or else the restored ones; a failed write leaves the old file. *)
Checkpoint(d) == IF DOMAIN d.registered # {} THEN d.registered ELSE restored
SaveCheckpoint(d) == \/ file' = Checkpoint(d) /\ UNCHANGED <<unseen, faults>>
                     \/ file' = file /\ unseen' = TRUE /\ Fault

(* alarm_bits_to_log_events: the bits that differ, in ascending order. *)
Transitions(baseline, current) == (baseline \ current) \cup (current \ baseline)
FirstOf(bits) == Min(bits)
Advance(set, bit, current) == IF bit \in current THEN set \cup {bit} ELSE set \ {bit}

Accept(plan) == [server EXCEPT !.mup = TRUE, !.types = plan]

-----------------------------------------------------------------------------
(* start_metering: a new state takes over what the old one learned of the  *)
(* server, and scheduling the key cancels the cycle that is running.       *)
TakeOver(old) ==
    LET kept == IF old.posted THEN old
                ELSE [Fresh(Nothing) EXCEPT !.baseline = old.baseline, !.blocked = old.blocked]
        new == [kept EXCEPT !.on = TRUE]
    IN  IF DOMAIN new.registered = {} THEN [new EXCEPT !.registered = restored] ELSE new

(* What a cancelled or killed cycle leaves on the server: its request may  *)
(* have been served.                                                       *)
InFlightMup == cycle.pc \in {"mup", "remup"}
NextBit == FirstOf(Transitions(Mine.baseline, cycle.seen))
Landed(bit) == [server EXCEPT !.told = Advance(@, bit, cycle.seen)]
AbandonedRequest(baselineLost) ==
    \/ /\ UNCHANGED <<server, unseen>> /\ forgot' = (forgot \/ baselineLost)
    \/ /\ InFlightMup /\ ~server.foreign
       /\ server' = Accept(Plan) /\ unseen' = TRUE /\ forgot' = (forgot \/ baselineLost)
    \/ /\ cycle.pc = "logPost"
       /\ server' = Landed(NextBit) /\ forgot' = TRUE /\ UNCHANGED unseen

StartMetering ==
    /\ starts < MaxStarts /\ starts' = starts + 1
    /\ AbandonedRequest(FALSE)
    /\ dev' = TakeOver(dev) /\ cycle' = Idle
    /\ dropped' = (dropped \/ ~(DOMAIN dev.registered \subseteq DOMAIN TakeOver(dev).registered))
    /\ UNCHANGED <<restored, file, alarms, faults, changes>>

(* stop_metering: the entry goes, a running cycle keeps its state object. *)
StopMetering ==
    /\ dev.on /\ starts < MaxStarts /\ starts' = starts + 1
    /\ dev' = NoDev
    /\ cycle' = IF cycle.pc = "idle" \/ Detached THEN cycle ELSE [cycle EXCEPT !.own = dev]
    /\ unseen' = TRUE /\ forgot' = TRUE
    /\ UNCHANGED <<restored, file, server, alarms, dropped, faults, changes>>

(* The process ends at any point and starts again from the state file. *)
Crash ==
    /\ starts < MaxStarts /\ starts' = starts + 1
    /\ AbandonedRequest(TRUE)
    /\ restored' = file /\ dev' = Fresh(file) /\ cycle' = Idle
    /\ UNCHANGED <<file, alarms, dropped, faults, changes>>

-----------------------------------------------------------------------------
(* _metering_cycle up to its first request.  A device that cannot be read  *)
(* ends the cycle, unless it was read before, when the old values are      *)
(* posted as stale: which values is data.                                  *)
BeginCycle ==
    /\ cycle.pc = "idle" /\ dev.on /\ ~dev.blocked
    /\ \E snap \in Registrations :
        cycle' = [Idle EXCEPT !.snap = snap, !.grown = dev.posted,
                              !.pc = IF ~dev.posted THEN "mup"
                                     ELSE IF RegistrationGrew(dev, snap) THEN "remup"
                                     ELSE IF dev.href THEN "readings" ELSE "discover"]
    /\ UNCHANGED <<dev, restored, file, server, alarms, unseen, dropped, forgot, faults, changes, starts>>

After == IF cycle.pc = "remup" THEN IF Mine.href THEN "readings" ELSE "discover" ELSE "log"

(* _post_mup answered 2xx, with or without a Location.  The registration   *)
(* is recorded, and written to the state file when it changed.             *)
MupAccepted ==
    /\ InFlightMup /\ ~server.foreign
    /\ server' = Accept(Plan)
    /\ \E location \in BOOLEAN :
         LET st == [Mine EXCEPT !.posted = TRUE, !.registered = Plan, !.rejected = {},
                                !.href = @ \/ location]
         IN  /\ Goto(IF location THEN "readback"
                     ELSE IF cycle.pc = "mup" THEN "log"
                     ELSE IF st.href THEN "readings" ELSE "discover", st)
             /\ IF DOMAIN Plan # DOMAIN Mine.registered
                THEN SaveCheckpoint(IF Detached THEN dev ELSE st)
                ELSE UNCHANGED <<file, unseen, faults>>
    /\ UNCHANGED <<restored, alarms, dropped, forgot, changes, starts>>

(* A re-POST refused with a 4xx is remembered; a first POST refused with   *)
(* 403 blocks the device; anything else is tried again next cycle.  A lost *)
(* answer leaves a registration nobody recorded.                           *)
MupRefused ==
    /\ InFlightMup
    /\ \/ /\ server.foreign /\ UNCHANGED faults
          /\ Goto(After, IF Mine.posted THEN [Mine EXCEPT !.rejected = DOMAIN Plan]
                         ELSE [Mine EXCEPT !.blocked = TRUE])
       \/ /\ Mine.posted /\ Fault
          /\ Goto(After, [Mine EXCEPT !.rejected = DOMAIN Plan])
    /\ UNCHANGED <<restored, file, server, alarms, unseen, dropped, forgot, changes, starts>>

MupFailed ==
    /\ InFlightMup /\ Fault /\ Goto(After, Mine)
    /\ \/ UNCHANGED <<server, unseen>>
       \/ ~server.foreign /\ server' = Accept(Plan) /\ unseen' = TRUE
    /\ UNCHANGED <<restored, file, alarms, dropped, forgot, changes, starts>>

(* _readback_post_rate: another await; the rate it adopts is data. *)
ReadbackPostRate ==
    /\ cycle.pc = "readback" /\ Goto(IF cycle.grown THEN "readings" ELSE "log", Mine)
    /\ UNCHANGED <<restored, file, server, alarms, unseen, dropped, forgot, faults, changes, starts>>

(* _discover_mup_href: our MUP in the server's list, if it is there. *)
DiscoverMupHref ==
    /\ cycle.pc = "discover"
    /\ \/ /\ server.mup /\ UNCHANGED faults
          /\ Goto("readings", [Mine EXCEPT !.href = TRUE])
       \/ /\ ~server.mup /\ UNCHANGED faults /\ Goto("log", Mine)
       \/ /\ Fault /\ Goto("log", Mine)
    /\ UNCHANGED <<restored, file, server, alarms, unseen, dropped, forgot, changes, starts>>

(* create_meter_reading_list: only readings the MUP has registered. *)
PostedReadings == DOMAIN cycle.snap \cap DOMAIN Mine.registered

(* _post_readings answered: 404 and 400 reset the MUP but keep what was    *)
(* registered, 403 blocks the device.                                      *)
ResetNothing(st) == st  \* Mutant: a 404 is reported and tried again

ResetMup(st) == [st EXCEPT !.posted = FALSE, !.href = FALSE]

PostReadings ==
    /\ cycle.pc = "readings"
    /\ \/ /\ server.foreign /\ UNCHANGED faults
          /\ Goto("log", [Mine EXCEPT !.blocked = TRUE])
       \/ /\ ~server.foreign /\ UNCHANGED faults
          /\ Goto("log", IF server.mup /\ PostedReadings \subseteq DOMAIN server.types
                         THEN Mine ELSE ResetMup(Mine))
       \/ /\ Fault
          /\ Goto("log", Mine) \/ Goto("log", ResetMup(Mine))
    /\ UNCHANGED <<restored, file, server, alarms, unseen, dropped, forgot, changes, starts>>

-----------------------------------------------------------------------------
(* _post_log_event: the device's alarms are read, then one LogEvent is     *)
(* posted per bit that differs, the baseline following each POST.          *)
ReadAlarms ==
    /\ cycle.pc = "log"
    /\ \/ /\ cycle' = IF alarms = Mine.baseline THEN At("availability")
                       ELSE [At("logPost") EXCEPT !.seen = alarms]
          /\ UNCHANGED faults
       \/ cycle' = At("availability") /\ Fault
    /\ UNCHANGED <<dev, restored, file, server, alarms, unseen, dropped, forgot, changes, starts>>

AdvanceAll(st, bit, seen) ==  \* Mutant: the baseline follows the first POST for all bits
    [st EXCEPT !.baseline = seen]

AdvanceBaseline(st, bit, seen) == [st EXCEPT !.baseline = Advance(@, bit, seen)]

PostLogEvent ==
    /\ cycle.pc = "logPost"
    /\ \/ LET st == AdvanceBaseline(Mine, NextBit, cycle.seen)
          IN  /\ server' = Landed(NextBit) /\ UNCHANGED <<faults, forgot>>
              /\ Goto(IF st.baseline = cycle.seen THEN "availability" ELSE "logPost", st)
       \/ /\ Fault /\ Goto("availability", Mine)
          /\ \/ UNCHANGED <<server, forgot>>
             \/ server' = Landed(NextBit) /\ forgot' = TRUE
    /\ UNCHANGED <<restored, file, alarms, unseen, dropped, changes, starts>>

(* _put_der_availability ends the cycle, whatever the PUT's outcome. *)
PutDerAvailability ==
    /\ cycle.pc = "availability" /\ cycle' = Idle
    /\ UNCHANGED <<dev, restored, file, server, alarms, unseen, dropped, forgot, faults, changes, starts>>

-----------------------------------------------------------------------------
(* The server loses the MUP or the types under it, or decides that another *)
(* client created it.                                                      *)
ServerLoses ==
    /\ server.mup /\ Fault
    /\ \/ server' = [server EXCEPT !.mup = FALSE, !.types = Nothing]
       \/ \E r \in DOMAIN server.types :
            server' = [server EXCEPT !.types = Restrict(@, DOMAIN @ \ {r})]
       \/ server' = [server EXCEPT !.foreign = TRUE]
    /\ UNCHANGED <<dev, cycle, restored, file, alarms, unseen, dropped, forgot, changes, starts>>

AlarmsChange ==
    /\ changes < MaxAlarmChanges /\ changes' = changes + 1
    /\ \E set \in SUBSET Alarms : set # alarms /\ alarms' = set
    /\ UNCHANGED <<dev, cycle, restored, file, server, unseen, dropped, forgot, faults, starts>>

CycleStep ==
    \/ BeginCycle \/ MupAccepted \/ MupRefused \/ MupFailed \/ ReadbackPostRate
    \/ DiscoverMupHref \/ PostReadings \/ ReadAlarms \/ PostLogEvent \/ PutDerAvailability

Next == CycleStep \/ StartMetering \/ StopMetering \/ Crash \/ ServerLoses \/ AlarmsChange

(* The scheduler runs the cycle again and again, and requests end. *)
Spec == Init /\ [][Next]_vars /\ WF_vars(CycleStep)

-----------------------------------------------------------------------------
(* The server is never asked to change a ReadingType it holds, over        *)
(* re-POSTs, 400/404 resets, restarts of the device and of the process,    *)
(* unless a registration was never recorded or was dropped with its state  *)
(* (_post_mup, start_metering, restore_from_checkpoint).                   *)
TypesKept ==
    \A r \in DOMAIN server.types \cap DOMAIN server'.types :
        server'.types[r] = server.types[r] \/ unseen \/ dropped
TypesFixed == [][TypesKept]_vars

(* A MUP the server lost is created again, unless the device is blocked or *)
(* stopped, or the server never said where the MUP was (_post_readings).   *)
MupHeld == server.mup \/ dev.blocked \/ ~dev.on \/ (dev.posted /\ ~dev.href)
MupRecreated == []<>MupHeld

(* When alarms and failures cease the server knows the alarms that are     *)
(* set: a transition whose POST failed is not lost (_post_log_event).  A   *)
(* LogEvent whose answer is lost, and a restart, leave a baseline that     *)
(* does not say what the server was told.                                  *)
AlarmsTold == server.told = alarms \/ dev.blocked \/ ~dev.on \/ forgot
AlarmsReported == <>[]AlarmsTold
=============================================================================
