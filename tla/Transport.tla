----------------------------- MODULE Transport -----------------------------
(***************************************************************************)
(* The HTTP client (client/http.py): a request with its retries            *)
(* (client/retry.py), the connectivity health its outcomes are recorded    *)
(* in, and the operator's simulation of an outage, whose gate sits in      *)
(* every request's path (client/comm_loss_simulation.py, the window's      *)
(* lifecycle in client/csip_client.py, the notification gate in            *)
(* subscription/notification_server.py).                                   *)
(*                                                                         *)
(* A step is the code between two awaits.  A GET records its health at     *)
(* every attempt, a write once when its retries end, a raw request makes   *)
(* one attempt.  Delays are not counted: a retry, a drain's timeout and    *)
(* the window's deadline may come at any time.                             *)
(***************************************************************************)
EXTENDS Naturals, FiniteSets

CONSTANTS
    Gets, Writes, Raws,  \* requests, by the way they record their health
    MaxTransient,        \* RetryPolicy.max_transient
    MaxTls,              \* RetryPolicy.max_tls
    MaxWindows,          \* bound: simulations started
    MaxDowns             \* bound: times the server goes away

Requests == Gets \cup Writes \cup Raws

(* The kinds of request are separate methods of the client, and a request  *)
(* makes at least one attempt (RetryPolicy).                               *)
ASSUME ConstantsAssumption ==
    /\ IsFiniteSet(Requests)
    /\ Gets \cap Writes = {} /\ Gets \cap Raws = {} /\ Writes \cap Raws = {}
    /\ MaxTransient \in Nat \ {0} /\ MaxTls \in Nat \ {0}
    /\ MaxWindows \in Nat /\ MaxDowns \in Nat

VARIABLES
    up,        \* the server can be reached (external)
    req,       \* where each request is, and its attempts so far
    inFlight,  \* CommLossSimulation._in_flight
    armed,     \* CommLossSimulation._active
    phase,     \* CommLossSimulation._phase
    alive,     \* _server_alive
    failing,   \* _consecutive_failures > 0
    silence,   \* _silence_simulated: "none", "simulated" or "genuine"
    lost,      \* CommsLossState.active
    call,      \* the operator's call that holds _comm_loss_lifecycle
    gen,       \* _comm_loss_generation
    timer,     \* the expiry task and the generation it was made for
    suspended, \* NotificationServer._suspended
    handlers,  \* a notification's task is running
    drained,   \* what simulate_comm_loss reported of the open window
    dropped,   \* a dropped notification has not been made good by a rediscovery
    genuine,   \* history: kinds of request that really failed since the last contact
    downs

httpVars == <<req, inFlight, alive, failing, silence, genuine>>
windowVars == <<armed, phase, call, gen, timer, suspended, drained>>
vars == <<up, httpVars, windowVars, lost, handlers, dropped, downs>>

Kind(r) == CASE r \in Gets -> "get" [] r \in Writes -> "write" [] OTHER -> "raw"
Idle == [pc |-> "idle", transient |-> 0, tls |-> 0]
NoTimer == [pc |-> "none", gen |-> 0]
InFlight == {r \in Requests : req[r].pc = "flight"}

TypeOK ==
    /\ up \in BOOLEAN /\ armed \in BOOLEAN /\ alive \in BOOLEAN /\ failing \in BOOLEAN
    /\ req \in [Requests -> [pc : {"idle", "ready", "flight"}, transient : 0..(MaxTransient - 1),
                             tls : 0..(MaxTls - 1)]]
    /\ inFlight \in 0..Cardinality(Requests)
    /\ phase \in {"inactive", "active", "recovering", "recovered", "recovery_failed"}
    /\ silence \in {"none", "simulated", "genuine"}
    /\ call \in {"none", "suspend", "arm", "recover"}
    /\ gen \in 0..MaxWindows
    /\ timer \in [pc : {"none", "asleep", "waiting", "recover"}, gen : 0..MaxWindows]
    /\ drained \in [requests : BOOLEAN, handlers : BOOLEAN]
    /\ lost \in BOOLEAN /\ suspended \in BOOLEAN /\ handlers \in BOOLEAN /\ dropped \in BOOLEAN
    /\ genuine \subseteq {"get", "write", "raw"} /\ downs \in 0..MaxDowns

(* After connect: the server has been reached and nothing is under way. *)
Init ==
    /\ up = TRUE /\ req = [r \in Requests |-> Idle] /\ inFlight = 0
    /\ armed = FALSE /\ phase = "inactive" /\ alive = TRUE /\ failing = FALSE
    /\ silence = "none" /\ lost = FALSE /\ call = "none" /\ gen = 0 /\ timer = NoTimer
    /\ suspended = FALSE /\ handlers = FALSE /\ dropped = FALSE
    /\ drained = [requests |-> FALSE, handlers |-> FALSE]
    /\ genuine = {} /\ downs = 0

-----------------------------------------------------------------------------
(* Connectivity health. *)

(* _record_contact(reachable=True). *)
RecordContact == alive' = TRUE /\ failing' = FALSE /\ silence' = "none"

(* Mutant: the arm state stands in for the failure's own cause. *)
RecordByArmState(injected) ==
    /\ alive' = FALSE /\ failing' = TRUE
    /\ silence' = IF silence = "none" THEN (IF armed THEN "simulated" ELSE "genuine")
                  ELSE IF armed THEN silence ELSE "genuine"

(* _record_contact(reachable=False): one failure that the gate did not     *)
(* inject makes the run of silence a genuine one.                          *)
RecordFailure(injected) ==
    /\ alive' = FALSE /\ failing' = TRUE
    /\ silence' = IF silence = "none" THEN (IF injected THEN "simulated" ELSE "genuine")
                  ELSE IF injected THEN silence ELSE "genuine"

(* The requests and the health they leave. *)
Begin(r) ==
    /\ req[r].pc = "idle" /\ req' = [req EXCEPT ![r].pc = "ready"]
    /\ UNCHANGED <<inFlight, alive, failing, silence, genuine, up, windowVars, lost, handlers,
                   dropped, downs>>

(* with_retry: the attempts each kind of failure may still make.  A raw    *)
(* request goes out once.                                                  *)
RetriesTransient(r) == r \notin Raws /\ req[r].transient + 1 < MaxTransient
RetriesTls(r) == r \notin Raws /\ req[r].tls + 1 < MaxTls

(* The request after an attempt failed. *)
AfterTransient(r) ==
    IF RetriesTransient(r)
    THEN [req[r] EXCEPT !.pc = "ready", !.transient = @ + 1] ELSE Idle
AfterTls(r) ==
    IF RetriesTls(r) THEN [req[r] EXCEPT !.pc = "ready", !.tls = @ + 1] ELSE Idle

(* A GET records each attempt (_get_parsed), a write its last one          *)
(* (_send_tracked).                                                        *)
RecordsAttempt(r, ends) == r \notin Writes \/ ends

(* Mutant: an attempt that fails in the request leaves its count.          *)
ReleaseTwice(r) == inFlight' = IF inFlight < 2 THEN 0 ELSE inFlight - 2

(* _GatedRequestContext._release. *)
Release(r) == inFlight' = inFlight - 1

(* __aenter__ with the gate closed: SimulatedTransportError, a transient   *)
(* failure of the attempt. *)
Gated(r) ==
    /\ req[r].pc = "ready" /\ armed
    /\ req' = [req EXCEPT ![r] = AfterTransient(r)]
    /\ IF RecordsAttempt(r, ~RetriesTransient(r)) THEN RecordFailure(TRUE)
       ELSE UNCHANGED <<alive, failing, silence>>
    /\ UNCHANGED <<inFlight, genuine, up, windowVars, lost, handlers, dropped, downs>>

(* __aenter__ with the gate open: counted, then sent. *)
Send(r) ==
    /\ req[r].pc = "ready" /\ ~armed
    /\ req' = [req EXCEPT ![r].pc = "flight"] /\ inFlight' = inFlight + 1
    /\ UNCHANGED <<alive, failing, silence, genuine, up, windowVars, lost, handlers, dropped,
                   downs>>

(* An answer that ends the request: a resource, 204, an error status or a  *)
(* body that does not parse.  Each is contact. *)
Answered(r) ==
    /\ req[r].pc = "flight" /\ up
    /\ req' = [req EXCEPT ![r] = Idle] /\ Release(r)
    /\ RecordContact /\ genuine' = {}
    /\ UNCHANGED <<up, windowVars, lost, handlers, dropped, downs>>

(* A GET answered 429 or redirected is contact, and is tried again.        *)
(* (_check_redirect_or_rate_limit is not called for a write.)              *)
Throttled(r) ==
    /\ r \in Gets /\ req[r].pc = "flight" /\ up
    /\ req' = [req EXCEPT ![r] = AfterTransient(r)] /\ Release(r)
    /\ RecordContact /\ genuine' = {}
    /\ UNCHANGED <<up, windowVars, lost, handlers, dropped, downs>>

(* A failure of the attempt: of the transport, or of the TLS handshake and *)
(* the certificate chain (SSLError), each with its own allowance. *)
Fails(r, after, retries) ==
    /\ req[r].pc = "flight" /\ ~up
    /\ req' = [req EXCEPT ![r] = after] /\ Release(r)
    /\ genuine' = genuine \cup {Kind(r)}
    /\ IF RecordsAttempt(r, ~retries) THEN RecordFailure(FALSE)
       ELSE UNCHANGED <<alive, failing, silence>>
    /\ UNCHANGED <<up, windowVars, lost, handlers, dropped, downs>>

TransportFails(r) == Fails(r, AfterTransient(r), RetriesTransient(r))
TlsFails(r) == Fails(r, AfterTls(r), RetriesTls(r))

(* reset_session: the health is cleared, the run of silence is not.  A     *)
(* request in flight fails when its session closes, here with the server.  *)
ResetSession ==
    /\ alive' = FALSE /\ failing' = FALSE
    /\ UNCHANGED <<req, inFlight, silence, genuine, up, windowVars, lost, handlers, dropped, downs>>

-----------------------------------------------------------------------------
(* The simulated outage.  The lifecycle lock is held by the operator's     *)
(* call or by the expiry timer that clears its window.                     *)

Free == call = "none" /\ timer.pc # "recover"
CancelTimer == timer' = IF timer.pc = "recover" THEN timer ELSE NoTimer

(* simulate_comm_loss up to the drain of the notification handlers: a new  *)
(* generation, the old timer cancelled, notifications suspended. *)
Simulate ==
    /\ Free /\ gen < MaxWindows
    /\ gen' = gen + 1 /\ CancelTimer /\ suspended' = TRUE /\ call' = "suspend"
    /\ UNCHANGED <<armed, phase, drained, up, httpVars, lost, handlers, dropped, downs>>

(* suspend returns once its handlers are done, or at its timeout, and the  *)
(* gate closes before the requests are waited for (arm). *)
Arm ==
    /\ call = "suspend"
    /\ drained' = [requests |-> FALSE, handlers |-> ~handlers]
    /\ armed' = TRUE /\ phase' = "active" /\ call' = "arm"
    /\ UNCHANGED <<gen, timer, suspended, up, httpVars, lost, handlers, dropped, downs>>

(* Mutant: the timer is started only when the drain completed. *)
TimerIfDrained ==
    /\ call = "arm"
    /\ drained' = [drained EXCEPT !.requests = inFlight = 0]
    /\ timer' = (IF inFlight = 0 THEN [pc |-> "asleep", gen |-> gen] ELSE timer) /\ call' = "none"
    /\ UNCHANGED <<armed, phase, gen, suspended, up, httpVars, lost, handlers, dropped, downs>>

(* wait_until_idle returned, drained or not: the timer is started and the  *)
(* outcome reported. *)
Report ==
    /\ call = "arm"
    /\ drained' = [drained EXCEPT !.requests = inFlight = 0]
    /\ timer' = [pc |-> "asleep", gen |-> gen] /\ call' = "none"
    /\ UNCHANGED <<armed, phase, gen, suspended, up, httpVars, lost, handlers, dropped, downs>>

(* Mutant: a cancelled activation leaves the gates as they are. *)
AbortNothing ==
    /\ call \in {"suspend", "arm"} /\ call' = "none"
    /\ UNCHANGED <<armed, phase, suspended, gen, timer, drained, up, httpVars, lost, handlers,
                   dropped, downs>>

(* The caller is cancelled during a drain: abort and resume. *)
Abort ==
    /\ call \in {"suspend", "arm"} /\ call' = "none"
    /\ armed' = FALSE /\ phase' = "inactive" /\ suspended' = FALSE
    /\ UNCHANGED <<gen, timer, drained, up, httpVars, lost, handlers, dropped, downs>>

(* _clear_comm_loss_simulation_locked up to the recovery it awaits. *)
Disarm == armed' = FALSE /\ phase' = "recovering" /\ suspended' = FALSE

(* clear_comm_loss_simulation. *)
Clear ==
    /\ Free /\ CancelTimer /\ Disarm /\ call' = "recover"
    /\ UNCHANGED <<gen, drained, up, httpVars, lost, handlers, dropped, downs>>

(* _expire_comm_loss_simulation: the deadline passes, then the lock. *)
Deadline ==
    /\ timer.pc = "asleep" /\ timer' = [timer EXCEPT !.pc = "waiting"]
    /\ UNCHANGED <<armed, phase, call, gen, suspended, drained, up, httpVars, lost, handlers,
                   dropped, downs>>
Expire ==
    /\ timer.pc = "waiting" /\ Free
    /\ IF timer.gen = gen /\ armed
       THEN Disarm /\ timer' = [timer EXCEPT !.pc = "recover"]
       ELSE timer' = NoTimer /\ UNCHANGED <<armed, phase, suspended>>
    /\ UNCHANGED <<call, gen, drained, up, httpVars, lost, handlers, dropped, downs>>

(* _recover_after_simulation: full recovery in loss-of-communications mode *)
(* and a plain rediscovery otherwise.  `complete`: the rediscovery         *)
(* completed; it does not when it raises or joins a running one.  Outside  *)
(* the mode an incomplete one is only logged. *)
Recovered(complete) ==
    /\ phase' = IF lost /\ ~complete THEN "recovery_failed" ELSE "recovered"
    /\ lost' = (lost /\ ~complete) /\ dropped' = (dropped /\ ~complete)

(* The outcome reaches whoever cleared the window, and the lock is freed. *)
Recover(complete) ==
    /\ call = "recover" \/ timer.pc = "recover"
    /\ complete => up
    /\ Recovered(complete)
    /\ call' = "none" /\ timer' = (IF timer.pc = "recover" THEN NoTimer ELSE timer)
    /\ UNCHANGED <<armed, gen, suspended, drained, up, httpVars, handlers, downs>>

-----------------------------------------------------------------------------
(* _comms_loss_probe: silence long enough enters the mode; contact leaves  *)
(* it through a rediscovery (module Rediscovery has the detail). *)
EnterLoss ==
    /\ ~lost /\ failing /\ lost' = TRUE
    /\ UNCHANGED <<up, httpVars, windowVars, handlers, dropped, downs>>
ProbeRecovers ==
    /\ lost /\ alive /\ up /\ ~armed /\ lost' = FALSE /\ dropped' = FALSE
    /\ UNCHANGED <<up, httpVars, windowVars, handlers, downs>>

(* _handle_notification: handed to a task, or accepted and dropped. *)
Notified ==
    /\ ~handlers /\ up
    /\ IF suspended THEN dropped' = TRUE /\ UNCHANGED handlers
       ELSE handlers' = TRUE /\ UNCHANGED dropped
    /\ UNCHANGED <<up, httpVars, windowVars, lost, downs>>
Handled ==
    /\ handlers /\ handlers' = FALSE
    /\ UNCHANGED <<up, httpVars, windowVars, lost, dropped, downs>>

(* The server goes away and comes back (external). *)
ServerDown ==
    /\ up /\ downs < MaxDowns /\ up' = FALSE /\ downs' = downs + 1
    /\ UNCHANGED <<httpVars, windowVars, lost, handlers, dropped>>
ServerUp ==
    /\ ~up /\ up' = TRUE
    /\ UNCHANGED <<httpVars, windowVars, lost, handlers, dropped, downs>>

-----------------------------------------------------------------------------
Attempt(r) ==
    \/ Gated(r) \/ Send(r) \/ Answered(r) \/ Throttled(r) \/ TransportFails(r) \/ TlsFails(r)
Window ==
    \/ Arm \/ Report \/ Deadline \/ Expire \/ \E complete \in BOOLEAN : Recover(complete)

Next ==
    \/ \E r \in Requests : Begin(r) \/ Attempt(r)
    \/ Simulate \/ Clear \/ Abort \/ Window
    \/ EnterLoss \/ ProbeRecovers \/ Notified \/ Handled \/ ResetSession
    \/ ServerDown \/ ServerUp

(* A request's session has timeouts and its retries are timers; so are the *)
(* ends of the drains, of the window and of the recovery's requests.       *)
Fairness == (\A r \in Requests : WF_vars(Attempt(r))) /\ WF_vars(Window)
Spec == Init /\ [][Next]_vars /\ Fairness

-----------------------------------------------------------------------------
(* A window is open only while something will close it: the activation in  *)
(* progress, whose failure rolls it back, or a timer of its own generation *)
(* (simulate_comm_loss: "guarantees only that the window closes").         *)
NeverStranded ==
    armed \/ suspended =>
        call \in {"suspend", "arm"} \/ (timer.pc \in {"asleep", "waiting"} /\ timer.gen = gen)

(* While a window is open that was reported drained, no request can reach  *)
(* the server and no notification's handler runs, so nothing refreshes the *)
(* contact or applies a control (wait_until_idle, suspend).                *)
Isolated ==
    armed /\ call = "none" =>
        /\ drained.requests => InFlight = {}
        /\ drained.handlers => ~handlers

(* A silence is called simulated only if no GET and no raw request really  *)
(* failed since the last contact, and genuine only if some request did     *)
(* (_record_contact, is_simulated_failure).                                *)
Attribution ==
    /\ silence = "simulated" => genuine \subseteq {"write"}
    /\ silence = "genuine" => genuine # {}

(* http.py, silence_is_simulated: True only when every failure since the   *)
(* last contact happened behind an armed gate. *)
EveryFailureInjected == silence = "simulated" => genuine = {}

(* csip_client.py: the operator sees that recovery did not complete rather *)
(* than a bare "recovered". *)
RecoveredIsReread == phase = "recovered" => ~dropped

(* Every window closes, whatever the requests and calls it meets. *)
WindowCloses == armed \/ suspended ~> ~armed /\ ~suspended
=============================================================================
