------------------------------ MODULE Readings ------------------------------
(***************************************************************************)
(* How a device's measurements reach the server: DirectConnectorSource     *)
(* (readings.py) reads the connector and keeps the last good snapshot, and *)
(* the metering cycle (TelemetryManager._metering_cycle) posts what it     *)
(* returns, marked when it is old, and feeds the interval history.  The    *)
(* devices' cycles run side by side, and a read takes time.                *)
(*                                                                         *)
(* What a device measures at an instant is that instant.                   *)
(***************************************************************************)
EXTENDS Naturals, FiniteSets

CONSTANTS
    Devices, None,
    MaxTime,   \* bound: the clock
    MaxReads,  \* bound: reads of all devices
    MaxStops   \* bound: devices stopped

VARIABLES
    now,
    on,        \* device -> metering is started for it
    sequence,  \* DirectConnectorSource._sequence
    last,      \* _last: device -> its last good snapshot, None
    cycle,     \* device -> where its cycle is, the read's start and its sample
    posted,    \* device -> what the server holds: the sample, its time, whether marked
    held,      \* device -> the interval history holds its last reading
    failed,    \* history: device -> its last read failed
    issued,    \* history: [read, sequence] of the snapshots returned
    reads, stops

vars == <<now, on, sequence, last, cycle, posted, held, failed, issued, reads, stops>>

Idle == [pc |-> "idle", read |-> 0, started |-> 0, got |-> None, snap |-> None]
(* DeviceSnapshot, of one PointEntry: the reading, source_timestamp (which *)
(* is last_success) and quality.                                           *)
Snapshots == [value : 0..MaxTime, at : 0..MaxTime, quality : {"good", "comm_lost"}]

TypeOK ==
    /\ now \in 0..MaxTime /\ on \in [Devices -> BOOLEAN] /\ sequence \in 0..MaxReads
    /\ \A d \in Devices :
           /\ last[d] = None \/ last[d] \in Snapshots
           /\ cycle[d].pc \in {"idle", "resolve", "fetch", "sampled", "post"}
           /\ posted[d] = None \/ posted[d].stale \in BOOLEAN
    /\ held \in [Devices -> BOOLEAN] /\ failed \in [Devices -> BOOLEAN]
    /\ \A i \in issued : i.sequence \in 1..MaxReads
    /\ reads \in 0..MaxReads /\ stops \in 0..MaxStops

Init ==
    /\ now = 0 /\ on = [d \in Devices |-> TRUE] /\ sequence = 0
    /\ last = [d \in Devices |-> None] /\ cycle = [d \in Devices |-> Idle]
    /\ posted = [d \in Devices |-> None] /\ held = [d \in Devices |-> FALSE]
    /\ failed = [d \in Devices |-> FALSE] /\ issued = {} /\ reads = 0 /\ stops = 0

-----------------------------------------------------------------------------
To(d, c) == cycle' = [cycle EXCEPT ![d] = c]

(* Mutant: a failed read leaves the interval history alone. *)
HoldsOn(d) == held[d]
(* _report_acquisition_failure, _keep_interval: the hold ends. *)
AfterFailure(d) == FALSE

(* The cycle of a device that is metered calls read. *)
Begin(d) ==
    /\ on[d] /\ cycle[d].pc = "idle" /\ reads < MaxReads /\ reads' = reads + 1
    /\ sequence' = sequence + 1
    /\ To(d, [Idle EXCEPT !.pc = "resolve", !.read = reads'])
    /\ UNCHANGED <<now, on, last, posted, held, failed, issued, stops>>

(* The cycle cannot even get the connector: it ends without a read. *)
Unresolved(d) ==
    /\ on[d] /\ cycle[d].pc = "idle"
    /\ failed' = [failed EXCEPT ![d] = TRUE] /\ held' = [held EXCEPT ![d] = AfterFailure(d)]
    /\ UNCHANGED <<now, on, sequence, last, cycle, posted, issued, reads, stops>>

(* The connector is resolved: the read starts now. *)
Resolve(d) ==
    /\ cycle[d].pc = "resolve" /\ To(d, [cycle[d] EXCEPT !.pc = "fetch", !.started = now])
    /\ UNCHANGED <<now, on, sequence, last, posted, held, failed, issued, reads, stops>>

(* fetch_monitoring: the device takes its sample, the answer comes later. *)
Sample(d) ==
    /\ cycle[d].pc = "fetch" /\ To(d, [cycle[d] EXCEPT !.pc = "sampled", !.got = now])
    /\ UNCHANGED <<now, on, sequence, last, posted, held, failed, issued, reads, stops>>

(* Mutant: stamped when the answer is there. *)
StampedAtEnd(d) == now
(* read: the time at which the acquisition began. *)
Stamp(d) == cycle[d].started

(* The snapshot is kept and returned, with the number the counter has now. *)
Issue(d) == issued' = issued \cup {[read |-> cycle[d].read, sequence |-> sequence]}
Good(d) ==
    LET s == [value |-> cycle[d].got, at |-> Stamp(d), quality |-> "good"] IN
    /\ cycle[d].pc = "sampled" /\ Issue(d)
    /\ last' = [last EXCEPT ![d] = s] /\ To(d, [cycle[d] EXCEPT !.pc = "post", !.snap = s])
    /\ failed' = [failed EXCEPT ![d] = FALSE]
    /\ UNCHANGED <<now, on, sequence, posted, held, reads, stops>>

(* Mutant: the last snapshot is returned as it is. *)
CarriedAsIs(s) == s
(* The entries carried over keep value and time, and lose their quality. *)
Carried(s) == [s EXCEPT !.quality = "comm_lost"]

(* Resolution or the read fails.  A device never read has nothing to post. *)
Failed(d) ==
    /\ cycle[d].pc \in {"resolve", "fetch", "sampled"} /\ Issue(d)
    /\ failed' = [failed EXCEPT ![d] = TRUE]
    /\ held' = [held EXCEPT ![d] = AfterFailure(d)]
    /\ IF last[d] = None THEN To(d, Idle)
       ELSE To(d, [cycle[d] EXCEPT !.pc = "post", !.snap = Carried(last[d])])
    /\ UNCHANGED <<now, on, sequence, last, posted, reads, stops>>

(* _keep_interval, _post_readings; the POST may fail.  (The interval       *)
(* history is fed before the POST, whatever becomes of it.)                *)
Post(d, ok) ==
    LET s == cycle[d].snap  stale == s.quality # "good" IN
    /\ cycle[d].pc = "post" /\ To(d, Idle)
    /\ held' = [held EXCEPT ![d] = IF stale THEN AfterFailure(d) ELSE TRUE]
    /\ posted' = IF ok THEN [posted EXCEPT ![d] = [value |-> s.value, at |-> s.at, stale |-> stale,
                                                   failed |-> failed[d]]]
                 ELSE posted
    /\ UNCHANGED <<now, on, sequence, last, failed, issued, reads, stops>>

(* stop_device_metering: release drops the snapshot, and a read under way  *)
(* goes on.  Then the device is started again.                             *)
Stop(d) ==
    /\ on[d] /\ stops < MaxStops /\ stops' = stops + 1
    /\ on' = [on EXCEPT ![d] = FALSE] /\ last' = [last EXCEPT ![d] = None]
    /\ UNCHANGED <<now, sequence, cycle, posted, held, failed, issued, reads>>
Start(d) ==
    /\ ~on[d] /\ on' = [on EXCEPT ![d] = TRUE]
    /\ UNCHANGED <<now, sequence, last, cycle, posted, held, failed, issued, reads, stops>>

Tick == now < MaxTime /\ now' = now + 1
        /\ UNCHANGED <<on, sequence, last, cycle, posted, held, failed, issued, reads, stops>>

Next ==
    \/ Tick
    \/ \E d \in Devices : Begin(d) \/ Unresolved(d) \/ Resolve(d) \/ Sample(d) \/ Good(d) \/ Failed(d)
                        \/ Stop(d) \/ Start(d)
    \/ \E d \in Devices, ok \in BOOLEAN : Post(d, ok)
Spec == Init /\ [][Next]_vars

-----------------------------------------------------------------------------
(* The server is not misled: a value never carries a time after the moment *)
(* the device measured it, and one from a read that failed is marked       *)
(* (PointEntry.source_timestamp, read, _quality_flags).                    *)
OldIsMarked ==
    \A d \in Devices : posted[d] # None =>
        /\ posted[d].at <= posted[d].value
        /\ posted[d].stale = posted[d].failed

(* No energy is counted over an outage: a reading is held only until the   *)
(* next read, and not past one that failed (_report_acquisition_failure).  *)
NothingHeldOverOutage == \A d \in Devices : failed[d] => ~held[d]

(* What the docstring of DeviceSnapshot.sequence says: the counter         *)
(* identifies the acquisition the entries came from.                       *)
SequenceIdentifies ==
    \A i, j \in issued : i.sequence = j.sequence => i.read = j.read
=============================================================================
