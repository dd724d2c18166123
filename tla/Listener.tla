------------------------------- MODULE Listener -------------------------------
(***************************************************************************)
(* The notification listener: each POST /notify is checked for the peer's  *)
(* certificate, read, parsed and answered, and what it says is handed to a *)
(* task of its own.  A comms-loss simulation suspends it meanwhile, and    *)
(* observers are attached and detached.                                    *)
(***************************************************************************)
EXTENDS Naturals, FiniteSets

CONSTANTS
    Notes,       \* the notifications that may arrive
    Mode,        \* _client_cert_mode
    None,
    MaxWindows,  \* simulations
    MaxSwaps     \* changes of the observers

Bodies == {"valid", "unreadable", "unparsable"}

VARIABLES
    at,          \* notification -> "off", "reading", "answered"
    cert, body,  \* what it came with
    status,      \* notification -> the answer, 0 before
    running,     \* _background_tasks, by notification
    begun,       \* history: notifications whose handler began
    suspended,   \* _suspended
    draining,    \* the handlers suspend waits for, None when it does not
    drained,     \* what it returned, in this window
    windows,
    observed,    \* observers are attached
    noted,       \* notification -> they were attached when it arrived
    watched,     \* history: notification -> they were attached all along
    swaps,
    records      \* what the observers received: [n, outcome, anomaly]

requests == <<at, cert, body, status>>
tasks == <<running, begun>>
window == <<suspended, draining, drained, windows>>
watch == <<observed, noted, watched, swaps, records>>
vars == <<requests, tasks, window, watch>>

Anomalies == {"rejected", "unreadable", "dropped", None}

TypeOK ==
    /\ at \in [Notes -> {"off", "reading", "answered"}]
    /\ cert \in [Notes -> BOOLEAN] /\ body \in [Notes -> Bodies]
    /\ status \in [Notes -> {0, 201, 400, 401}] /\ running \subseteq begun /\ begun \subseteq Notes
    /\ suspended \in BOOLEAN /\ (draining = None \/ draining \subseteq Notes)
    /\ drained \in BOOLEAN /\ windows \in 0..MaxWindows
    /\ observed \in BOOLEAN /\ noted \in [Notes -> BOOLEAN] /\ watched \in [Notes -> BOOLEAN]
    /\ records \subseteq [n : Notes, outcome : {"accepted", "refused"}, anomaly : Anomalies, status : {201, 400, 401}]

Init ==
    /\ at = [n \in Notes |-> "off"] /\ cert \in [Notes -> BOOLEAN] /\ body \in [Notes -> Bodies]
    /\ status = [n \in Notes |-> 0] /\ running = {} /\ begun = {}
    /\ suspended = FALSE /\ draining = None /\ drained = FALSE /\ windows = 0
    /\ observed \in BOOLEAN /\ noted = [n \in Notes |-> FALSE] /\ watched = [n \in Notes |-> FALSE]
    /\ swaps = 0 /\ records = {}

-----------------------------------------------------------------------------
(* _connection_event, _anomaly and _exchange, after the answer is known;   *)
(* nothing where no observer was attached when the request came in.        *)
Reported(n, noticed, outcome, anomaly, code) ==
    records' = records \cup
        (IF noticed /\ observed
         THEN {[n |-> n, outcome |-> outcome, anomaly |-> anomaly, status |-> code]} ELSE {})
Answers(n, code) ==
    at' = [at EXCEPT ![n] = "answered"] /\ status' = [status EXCEPT ![n] = code]

(* Enforcing, a peer without a certificate is refused before the body is   *)
(* read; otherwise (CERT_OPTIONAL, CERT_NONE) it is read.                  *)
Refuses(n) == Mode = "enforce" /\ ~cert[n]
Arrives(n) ==
    /\ at[n] = "off" /\ noted' = [noted EXCEPT ![n] = observed] /\ watched' = [watched EXCEPT ![n] = observed]
    /\ IF Refuses(n)
       THEN Answers(n, 401) /\ Reported(n, observed, "refused", "rejected", 401)
       ELSE at' = [at EXCEPT ![n] = "reading"] /\ UNCHANGED <<status, records>>
    /\ UNCHANGED <<cert, body, tasks, window, observed, swaps>>

(* Mutant: a simulation does not hold back what was being read. *)
AlwaysActs == TRUE
(* Only after the body was read and parsed is a simulation looked at. *)
Acts == ~suspended
(* Mutant: what a simulation drops is refused. *)
DroppedAnswer == 400
AcceptedAnswer == 201
Read(n) ==
    /\ at[n] = "reading"
    /\ IF body[n] # "valid"
       THEN /\ Answers(n, 400) /\ UNCHANGED tasks
            /\ Reported(n, noted[n], "accepted", IF body[n] = "unreadable" THEN "unreadable" ELSE "rejected", 400)
       ELSE IF Acts
       THEN /\ Answers(n, 201) /\ Reported(n, noted[n], "accepted", None, 201)
            /\ running' = running \cup {n} /\ begun' = begun \cup {n}
       ELSE /\ Answers(n, AcceptedAnswer) /\ UNCHANGED tasks
            /\ Reported(n, noted[n], "accepted", "dropped", AcceptedAnswer)
    /\ UNCHANGED <<cert, body, window, observed, noted, watched, swaps>>

(* _safe_notify ends, whatever the callback raised. *)
Handled(n) ==
    /\ n \in running /\ running' = running \ {n}
    /\ UNCHANGED <<requests, begun, window, watch>>

-----------------------------------------------------------------------------
(* suspend: from now on nothing is acted on; the handlers under way are    *)
(* waited for, up to the timeout.                                          *)
Suspend ==
    /\ ~suspended /\ windows < MaxWindows /\ windows' = windows + 1 /\ suspended' = TRUE
    /\ IF running = {} THEN drained' = TRUE /\ UNCHANGED draining
       ELSE draining' = running /\ UNCHANGED drained
    /\ UNCHANGED <<requests, tasks, watch>>
Drained ==
    /\ draining # None /\ draining \cap running = {} /\ drained' = TRUE /\ draining' = None
    /\ UNCHANGED <<requests, tasks, suspended, windows, watch>>
DrainTimesOut ==
    /\ draining # None /\ draining \cap running # {} /\ draining' = None
    /\ UNCHANGED <<requests, tasks, suspended, drained, windows, watch>>
Resume ==
    /\ suspended /\ draining = None /\ suspended' = FALSE /\ drained' = FALSE
    /\ UNCHANGED <<requests, tasks, draining, windows, watch>>

(* The observers are attached or detached. *)
Attach ==
    /\ swaps < MaxSwaps /\ swaps' = swaps + 1 /\ observed' = ~observed
    /\ watched' = [n \in Notes |-> watched[n] /\ at[n] = "answered"]
    /\ UNCHANGED <<requests, tasks, window, noted, records>>

Next == \/ \E n \in Notes : Arrives(n) \/ Read(n) \/ Handled(n)
        \/ Suspend \/ Drained \/ DrainTimesOut \/ Resume \/ Attach
Spec == Init /\ [][Next]_vars

-----------------------------------------------------------------------------
Of(n) == {r \in records : r.n = n}
Told(n) ==
    at[n] = "answered" /\ watched[n] =>
        \E r \in Of(n) : /\ Of(n) = {r} /\ r.status = status[n]
                         /\ (r.outcome = "refused") = (status[n] = 401)
                         /\ (r.anomaly = None) = (n \in begun)
                         /\ (status[n] = 201) = (r.anomaly \in {None, "dropped"})

(* What the listener answers, does and reports of a notification agree, in *)
(* whatever order it is read, suspended and observed: a handler began only *)
(* for one it answered 201; an answer of 201 without a handler is one the  *)
(* observers know was dropped; each request the observers saw from start   *)
(* to end has one record, with the status it was answered; and once a      *)
(* simulation has seen the handlers out none runs until it is over         *)
(* (_handle_notification, _handle_notify, suspend).                        *)
NotificationsTrue ==
    /\ \A n \in begun : status[n] = 201
    /\ \A n \in Notes : Told(n)
    /\ suspended /\ drained => running = {}

(* Its inductive strengthening: nothing is known of a notification that    *)
(* was not answered; the observers that watch one have been there since it *)
(* came; and what suspend waits for is all that runs.                      *)
Shape ==
    /\ at \in [Notes -> {"off", "reading", "answered"}] /\ status \in [Notes -> Nat]
    /\ noted \in [Notes -> BOOLEAN] /\ watched \in [Notes -> BOOLEAN] /\ observed \in BOOLEAN
    /\ running \subseteq begun /\ begun \subseteq Notes
Unanswered(n) == at[n] # "answered" => n \notin begun /\ Of(n) = {}
Watching(n) ==
    (at[n] = "off" => ~watched[n]) /\ (at[n] = "reading" /\ watched[n] => observed /\ noted[n])
Waits ==
    /\ ~suspended => ~drained
    /\ draining # None => suspended /\ running \subseteq draining
IInv ==
    /\ Shape /\ Waits /\ NotificationsTrue
    /\ \A n \in Notes : Unanswered(n) /\ Watching(n)
=============================================================================
