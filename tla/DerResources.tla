---------------------------- MODULE DerResources ----------------------------
(***************************************************************************)
(* DerResourceManager for one device (telemetry/der_resource_manager.py):  *)
(* DERCapability and DERSettings are PUT when they change, or DERCapability*)
(* on every cycle, and are PUT again to a server that may have lost them.  *)
(* The coordinator starts a device, starts it again after a rediscovery,   *)
(* perhaps with other hrefs, and stops it; a device that returns is a new  *)
(* registration.  Nameplate and configuration are version numbers: bodies  *)
(* are compared, never read.                                               *)
(***************************************************************************)
EXTENDS Naturals

CONSTANTS
    Policy,      \* put_policy
    MaxRevisions,  \* bound: changes of the nameplate or the configuration
    MaxMoves,    \* bound: rediscoveries, outages, stops and returns
    MaxFailures    \* bound: PUTs that fail

VARIABLES
    on,       \* the device is in _devices
    href,     \* the hrefs discovery gave out, a number
    device,   \* the connector's nameplate and configuration
    sent,     \* _sent_capability and _sent_settings
    last,     \* last_settings_data of the device's state object
    job,      \* the PUT each cycle awaits
    held,   \* what the server holds
    reachable,
    fresh,    \* history: settings reached the server since a PUT changed the capability
    raced,    \* history: a PUT was answered after the cache it fills was dropped
    revisions, moves, failures

vars == <<on, href, device, sent, last, job, held, reachable, fresh, raced, revisions, moves, failures>>

Kinds == {"capability", "settings"}
Unsent == [href |-> 0, value |-> 0]
NoJob == [busy |-> FALSE, href |-> 0, value |-> 0, landed |-> FALSE, previous |-> 0]

TypeOK ==
    /\ on \in BOOLEAN /\ reachable \in BOOLEAN /\ fresh \in BOOLEAN /\ raced \in BOOLEAN
    /\ href \in 1..MaxMoves + 1
    /\ device \in [Kinds -> 1..MaxRevisions + 1] /\ held \in [Kinds -> 0..MaxRevisions + 1]
    /\ sent \in [Kinds -> [href : 0..MaxMoves + 1, value : 0..MaxRevisions + 1]]
    /\ last \in 0..MaxRevisions + 1
    /\ job \in [Kinds -> [busy : BOOLEAN, href : 0..MaxMoves + 1, value : 0..MaxRevisions + 1,
                          landed : BOOLEAN, previous : 0..MaxRevisions + 1]]
    /\ revisions \in 0..MaxRevisions /\ moves \in 0..MaxMoves /\ failures \in 0..MaxFailures

Init ==
    /\ on = TRUE /\ href = 1 /\ device = [k \in Kinds |-> 1]
    /\ sent = [k \in Kinds |-> Unsent] /\ last = 0 /\ job = [k \in Kinds |-> NoJob]
    /\ held = [k \in Kinds |-> 0] /\ reachable = TRUE /\ fresh = FALSE /\ raced = FALSE
    /\ revisions = 0 /\ moves = 0 /\ failures = 0

-----------------------------------------------------------------------------
(* What _capability_cycle and _settings_cycle find unchanged and skip. *)
ComparesValueOnly(k) ==  \* Mutant: a PUT to other hrefs counts as sent
    Policy = "on_change" /\ sent[k].value = device[k]

Unchanged(k) ==
    IF Policy = "on_change" THEN sent[k] = [href |-> href, value |-> device[k]]
    ELSE k = "settings" /\ last = device[k]

(* A cycle up to its PUT: it reads the cache before the await. *)
BeginPut(k) ==
    /\ on /\ ~job[k].busy /\ ~Unchanged(k)
    /\ job' = [job EXCEPT ![k] = [busy |-> TRUE, href |-> href, value |-> device[k],
                                     landed |-> FALSE, previous |-> sent[k].value]]
    /\ UNCHANGED <<on, href, device, sent, last, held, reachable, fresh, raced, revisions, moves, failures>>

Land(k) ==
    /\ job[k].busy /\ ~job[k].landed /\ reachable /\ job[k].href = href
    /\ job' = [job EXCEPT ![k].landed = TRUE]
    /\ held' = [held EXCEPT ![k] = job[k].value]
    /\ fresh' = (fresh \/ k = "settings")
    /\ UNCHANGED <<on, href, device, sent, last, reachable, raced, revisions, moves, failures>>

(* The PUT was answered: it is recorded as sent, and a changed capability  *)
(* drops what is recorded of the settings.                                 *)
CapabilityChanged(k) ==
    k = "capability" /\ job[k].previous # 0 /\ job[k].previous # job[k].value

SettingsKept(k) ==  \* Mutant: a changed capability leaves the settings recorded
    [sent EXCEPT ![k] = [href |-> job[k].href, value |-> job[k].value]]

RecordSent(k) ==
    [s \in Kinds |-> CASE s = k -> [href |-> job[k].href, value |-> job[k].value]
                       [] s # k -> IF CapabilityChanged(k) THEN Unsent ELSE sent[s]]

PutSucceeds(k) ==
    /\ job[k].landed
    /\ sent' = IF Policy = "on_change" THEN RecordSent(k) ELSE sent
    /\ last' = IF k = "settings" /\ on THEN job[k].value ELSE last
    /\ job' = [job EXCEPT ![k] = NoJob]
    /\ raced' = (raced \/ ~on \/ (k = "capability" /\ job["settings"].busy))
    /\ fresh' = (fresh /\ ~(Policy = "on_change" /\ CapabilityChanged(k)))
    /\ UNCHANGED <<on, href, device, held, reachable, revisions, moves, failures>>

(* Refused, unreachable or unanswered: reported, tried again next cycle. *)
PutFails(k) ==
    /\ job[k].busy
    /\ ~reachable \/ job[k].href # href \/ (failures < MaxFailures)
    /\ failures' = IF reachable /\ job[k].href = href THEN failures + 1 ELSE failures
    /\ job' = [job EXCEPT ![k] = NoJob]
    /\ UNCHANGED <<on, href, device, sent, last, held, reachable, fresh, raced, revisions, moves>>

-----------------------------------------------------------------------------
(* start_device: a state of its own, and scheduling a key cancels the      *)
(* cycle running under it.                                                 *)
Start(newHref) ==
    /\ on' = TRUE /\ href' = newHref /\ last' = 0 /\ job' = [k \in Kinds |-> NoJob]

(* restart_device_telemetry, after a rediscovery that may have moved the   *)
(* hrefs: the server keeps what it holds only under the hrefs it keeps.    *)
Rediscovered ==
    /\ on /\ reachable /\ moves < MaxMoves /\ moves' = moves + 1
    /\ \/ Start(href) /\ UNCHANGED <<held, fresh>>
       \/ Start(href + 1) /\ held' = [k \in Kinds |-> 0] /\ fresh' = FALSE
    /\ UNCHANGED <<device, sent, reachable, raced, revisions, failures>>

(* stop_device, of a device the server deleted. *)
StopKeepsSent == UNCHANGED sent  \* Mutant: what was sent outlives the registration

StopForgets == sent' = [k \in Kinds |-> Unsent]

StopDevice ==
    /\ on /\ moves < MaxMoves /\ moves' = moves + 1
    /\ on' = FALSE /\ StopForgets
    /\ held' = [k \in Kinds |-> 0] /\ fresh' = FALSE
    /\ UNCHANGED <<href, device, last, job, reachable, raced, revisions, failures>>

DeviceReturns ==
    /\ ~on /\ Start(href)
    /\ UNCHANGED <<device, sent, held, reachable, fresh, raced, revisions, moves, failures>>

(* The server restarts without what it held; once contact returns the      *)
(* reconnect listener has everything PUT again (forget_sent).  PUTs under  *)
(* way when the server goes fail.                                          *)
Outage ==
    /\ reachable /\ moves < MaxMoves /\ moves' = moves + 1
    /\ reachable' = FALSE /\ held' = [k \in Kinds |-> 0] /\ fresh' = FALSE
    /\ job' = [k \in Kinds |-> NoJob]
    /\ UNCHANGED <<on, href, device, sent, last, raced, revisions, failures>>

ForgetNothing == sent' = sent  \* Mutant: contact returns and nothing is forgotten

ForgetSent == sent' = [k \in Kinds |-> Unsent]

Reconnect ==
    /\ ~reachable /\ reachable' = TRUE
    /\ IF Policy = "on_change" THEN ForgetSent ELSE UNCHANGED sent
    /\ UNCHANGED <<on, href, device, last, job, held, fresh, raced, revisions, moves, failures>>

DeviceChanges(k) ==
    /\ revisions < MaxRevisions /\ revisions' = revisions + 1
    /\ device' = [device EXCEPT ![k] = @ + 1]
    /\ UNCHANGED <<on, href, sent, last, job, held, reachable, fresh, raced, moves, failures>>

Next ==
    \/ \E k \in Kinds : BeginPut(k) \/ Land(k) \/ PutSucceeds(k) \/ PutFails(k) \/ DeviceChanges(k)
    \/ Rediscovered \/ StopDevice \/ DeviceReturns \/ Outage \/ Reconnect

CycleStep(k) ==
    \/ BeginPut(k) \/ Land(k) \/ PutSucceeds(k)
    \/ PutFails(k) /\ failures' = failures

(* Cycles run at their rates, PUTs reach a reachable server and end, and   *)
(* an outage ends.                                                         *)
Fairness == WF_vars(Reconnect) /\ \A k \in Kinds : WF_vars(CycleStep(k))

Spec == Init /\ [][Next]_vars /\ Fairness

-----------------------------------------------------------------------------
(* When changes cease, the server holds the device's capability and       *)
(* settings, and under on_change it got settings after the last changed    *)
(* capability, unless a PUT was answered after the cache it fills had been *)
(* dropped (_capability_cycle, _settings_cycle, forget_sent, stop_device). *)
ServerCurrent ==
    \/ ~on \/ raced
    \/ /\ held["capability"] = device["capability"]
       /\ Policy = "on_change" => held["settings"] = device["settings"] /\ fresh
ResourcesReported == <>[]ServerCurrent
=============================================================================
