---------------------------- MODULE SunSpecReads ----------------------------
(***************************************************************************)
(* The reading side of SunSpecModbusConnector: the scan that its           *)
(* construction waits for, the reconnect a broken pipe needs, and the four *)
(* fetches, against a device that restarts, loses a model block and drops  *)
(* off the network.  One fetch at a time (_get_lock).                      *)
(***************************************************************************)
EXTENDS Naturals, FiniteSets

CONSTANTS
    None,
    Retries,      \* scan_retries
    StorageRetry, \* _STORAGE_RETRY_SECONDS
    MaxTime,
    MaxFaults     \* things that go wrong with the device

Models == {"m701", "m702", "m713", "meter"}
Kinds == {"monitoring", "nameplate", "status", "configuration"}

VARIABLES
    role,         \* _role
    phase,        \* "scanning", "ready" or "failed" (the constructor raised)
    attempts, told,
    scanned,      \* _target.models
    sock,         \* the Modbus connection is whole
    storageAt,    \* _storage_retry_at
    op,           \* the fetch under way, and where in it
    out,          \* what the last fetch returned
    \* the device
    has, lost,    \* the models it has, those it answers with a permanent error
    link, populated, value, now, faults,
    held, steady  \* history of the fetch: values the device had, and whether it was well throughout

scan == <<role, phase, attempts, told, scanned>>
device == <<has, lost, link, populated, value, faults>>
fetch == <<op, out, storageAt, held, steady>>
vars == <<scan, sock, now, device, fetch>>

NoOp == [kind |-> None, model |-> None, retried |-> FALSE, w |-> None]
Nothing == [kind |-> None, w |-> None, wh |-> None, raised |-> FALSE, late |-> FALSE]

TypeOK ==
    /\ role \in {"der", "meter"} /\ phase \in {"scanning", "ready", "failed"}
    /\ attempts \in 0..Retries /\ told \in 0..Retries /\ scanned \subseteq Models /\ sock \in BOOLEAN
    /\ storageAt \in 0..MaxTime + StorageRetry /\ op.kind \in Kinds \cup {None}
    /\ op.model \in Models \cup {None} /\ out.kind \in Kinds \cup {None}
    /\ has \subseteq Models /\ lost \subseteq has /\ link \in BOOLEAN /\ populated \in BOOLEAN
    /\ value \in Nat /\ now \in 0..MaxTime /\ held \subseteq Nat /\ steady \in BOOLEAN

Critical == IF role = "der" THEN "m702" ELSE "meter"

Init ==
    /\ role \in {"der", "meter"} /\ phase = "scanning" /\ attempts = 0 /\ told = 0 /\ scanned = {}
    /\ sock = FALSE /\ storageAt = 0 /\ op = NoOp /\ out = Nothing
    /\ has = (IF role = "der" THEN {"m701", "m702", "m713"} ELSE {"meter"}) /\ lost = {}
    /\ link \in BOOLEAN /\ populated \in BOOLEAN /\ value = 1 /\ now = 0 /\ faults = 0
    /\ held = {} /\ steady = TRUE

-----------------------------------------------------------------------------
(* One attempt of the scan: the device answers, and the model its role     *)
(* needs reads and is populated (_verify_nameplate_readable,               *)
(* _verify_meter_readable).  A permanent error is not tried again.         *)
Permanent == link /\ Critical \in lost
Verified == link /\ Critical \notin lost /\ populated
ScanAttempt ==
    /\ phase = "scanning" /\ attempts' = attempts + 1
    /\ scanned' = (IF link THEN has ELSE scanned) /\ sock' = (sock \/ link)
    /\ phase' = CASE Verified -> "ready"
                  [] ~Verified /\ (Permanent \/ attempts + 1 = Retries) -> "failed"
                  [] OTHER -> "scanning"
    /\ told' = CASE phase' # "failed" -> told [] Permanent -> 1 [] OTHER -> attempts'
    /\ UNCHANGED <<role, now, device, fetch>>

-----------------------------------------------------------------------------
(* The model each fetch reads first. *)
MainModel(kind) ==
    IF kind = "monitoring" /\ role = "meter" THEN "meter"
    ELSE IF kind \in {"monitoring", "status"} THEN "m701" ELSE "m702"
Begin(kind) ==
    /\ phase = "ready" /\ op = NoOp
    /\ op' = [NoOp EXCEPT !.kind = kind, !.model = MainModel(kind)]
    /\ held' = {value} /\ steady' = (link /\ populated /\ MainModel(kind) \in has \ lost)
    /\ UNCHANGED <<scan, sock, now, device, out, storageAt>>

Returns(w, wh, raised) ==
    /\ out' = [kind |-> op.kind, w |-> w, wh |-> wh, raised |-> raised, late |-> ~steady]
    /\ op' = NoOp

(* The storage model is read last, where the scan found one and its last   *)
(* failure is long enough ago.                                             *)
ReadsStorage == op.kind = "monitoring" /\ op.model = "m701" /\ "m713" \in scanned /\ now >= storageAt

(* Mutant: a nameplate is reported as it is read. *)
AnyNameplate(kind) == TRUE
(* A nameplate whose ratings are not there yet is not reported. *)
Reportable(kind) == kind # "nameplate" \/ populated
(* _get_model read the model; its points are there until the next read. *)
Reads ==
    /\ op # NoOp /\ op.model \in scanned \ lost /\ link /\ sock
    /\ LET w == IF populated \/ op.model \notin {"m702", "meter"} THEN value ELSE None
       IN IF op.model = "m713" THEN Returns(op.w, value, FALSE)
          ELSE IF ReadsStorage THEN op' = [op EXCEPT !.model = "m713", !.retried = FALSE, !.w = w] /\ UNCHANGED out
          ELSE IF Reportable(op.kind) THEN Returns(w, None, FALSE)
          ELSE Returns(None, None, TRUE)
    /\ UNCHANGED <<scan, sock, now, device, storageAt, held, steady>>

(* The read failed for good: monitoring and status come back empty, the    *)
(* others raise; storage is left out, and left alone for a while.          *)
GivesUp ==
    IF op.model = "m713"
    THEN Returns(op.w, None, FALSE) /\ storageAt' = now + StorageRetry
    ELSE Returns(None, None, op.kind \in {"nameplate", "configuration"}) /\ UNCHANGED storageAt

(* Not scanned, answered with a permanent error, or not reached twice. *)
ReadFails ==
    /\ op # NoOp
    /\ \/ op.model \notin scanned
       \/ link /\ sock /\ op.model \in lost
       \/ op.retried /\ ~(link /\ sock)
    /\ GivesUp /\ UNCHANGED <<scan, sock, now, device, held, steady>>

(* Mutant: the read is tried again over the same connection. *)
SameConnection == sock
(* A transient failure: the connection is made again, and one more read. *)
Reconnected == TRUE
Reconnect ==
    /\ op # NoOp /\ op.model \in scanned /\ ~(link /\ sock) /\ ~op.retried
    /\ IF link THEN sock' = Reconnected /\ op' = [op EXCEPT !.retried = TRUE] /\ UNCHANGED <<out, storageAt>>
       ELSE sock' = FALSE /\ GivesUp
    /\ UNCHANGED <<scan, now, device, held, steady>>

-----------------------------------------------------------------------------
(* The device and its network. *)
Fault(what) ==
    /\ faults < MaxFaults /\ faults' = faults + 1
    /\ CASE what = "link" -> /\ link' = ~link /\ sock' = FALSE /\ UNCHANGED <<has, lost, populated, value>>
         [] what = "restart" -> /\ populated' = FALSE /\ sock' = FALSE /\ UNCHANGED <<has, lost, link, value>>
         [] what = "block" -> /\ \E m \in has : lost' = lost \cup {m}
                              /\ UNCHANGED <<has, link, populated, value, sock>>
    /\ steady' = FALSE /\ UNCHANGED <<scan, now, op, out, storageAt, held>>
Recovers(what) ==
    /\ \/ what = "link" /\ ~link /\ link' = TRUE /\ UNCHANGED populated
       \/ what = "registers" /\ ~populated /\ populated' = TRUE /\ UNCHANGED link
    /\ UNCHANGED <<scan, sock, now, has, lost, value, faults, fetch>>
Changes ==
    /\ now < MaxTime /\ now' = now + 1 /\ value' = value + 1 /\ held' = held \cup {value'}
    /\ UNCHANGED <<scan, sock, has, lost, link, populated, faults, op, out, storageAt, steady>>

Next == \/ ScanAttempt \/ (\E k \in Kinds : Begin(k)) \/ Reads \/ ReadFails \/ Reconnect
        \/ (\E w \in {"link", "restart", "block"} : Fault(w))
        \/ (\E w \in {"link", "registers"} : Recovers(w)) \/ Changes
Spec == Init /\ [][Next]_vars

-----------------------------------------------------------------------------
(* A fetch returns what the device had while it ran, or nothing, and never *)
(* what an earlier read left: a nameplate has its ratings or raises; and   *)
(* where the device was well throughout, the fetch returns its values,     *)
(* whatever had become of the connection before (_get_model, _reconnect,   *)
(* _fetch_monitoring_sync, _fetch_nameplate_sync).                         *)
FetchTrue ==
    out # Nothing /\ op = NoOp =>
        /\ out.w \in held \cup {None} /\ out.wh \in held \cup {None}
        /\ out.kind = "nameplate" => out.raised = (out.w = None)
        /\ ~out.late => out.w # None

(* _scan_with_readiness_check: "Report the actual attempts executed --     *)
(* permanent errors break out after one attempt".                          *)
AttemptsReported == phase = "failed" => told = attempts
=============================================================================
