------------------------------- MODULE Runner -------------------------------
(***************************************************************************)
(* The py20305 command (cli.py): main, run and _run_client.  A server is   *)
(* found by DNS-SD or configured, the management API is served, the client *)
(* connects with retries and runs until a signal, a failure of its own or  *)
(* the end of the API; everything opened on the way is closed again, in    *)
(* order.  The signal, the API's requests, the API task, the connect loop, *)
(* and rediscovery run beside the main sequence.                           *)
(***************************************************************************)
EXTENDS Naturals

CONSTANTS
    None,
    MaxAttempts,   \* config.connection.max_attempts, where retries are bounded
    MaxRequests,   \* bound: operators' reconnects
    MaxRediscovers \* bound: rediscoveries while the client runs

EXIT_OK == 0
EXIT_ERROR == 1  \* Python's, for a traceback
EXIT_CONFIG_ERROR == 2
EXIT_CONNECT_FAILED == 3
Exits == {EXIT_OK, EXIT_ERROR, EXIT_CONFIG_ERROR, EXIT_CONNECT_FAILED}

Configs == [url : BOOLEAN, api : BOOLEAN, advertise : BOOLEAN, history : BOOLEAN,
            telemetry : BOOLEAN, forever : BOOLEAN, bounded : BOOLEAN, poll : BOOLEAN]
Resources == {"advertiser", "session", "history", "api", "telemetry"}

VARIABLES
    config,   \* the validated configuration; history: whether there is one
    pc,       \* where run and _run_client are
    stop,     \* the event the signal handlers set
    reconnect,\* the event /reconnect sets
    connect,  \* connect_with_retry: idle, trying, waiting, or its result
    attempts,
    phase,    \* ConnectionState.phase
    open,     \* what the process holds
    spare,    \* intervals telemetry has not handed to the history
    lost,     \* history: intervals that found the history closed
    manager,  \* the coordinator's metering manager: None, or its generation
    shown,    \* the one the management API was given
    hook,     \* set_on_rediscovered's callback: idle, restarting
    fault,    \* history: what has failed so far
    code, requests, rediscovers

progress == <<attempts, phase, connect>>
served == <<manager, shown, hook, rediscovers>>
work == <<spare, lost>>
asked == <<stop, reconnect, requests>>
vars == <<config, pc, asked, progress, open, work, served, fault, code>>

Teardown == {"save", "api_down", "client_down", "history_down", "goodbye"}
TypeOK ==
    /\ config \in Configs /\ stop \in BOOLEAN /\ reconnect \in BOOLEAN /\ lost \in BOOLEAN
    /\ pc \in {"start", "find", "find_wait", "build", "serve", "connecting", "register", "poll",
               "telemetry", "running", "exited"} \cup Teardown
    /\ connect \in {"idle", "trying", "waiting", "connected", "gave_up", "refused", "unusable"}
    /\ attempts \in 0..MaxAttempts /\ spare \in BOOLEAN /\ open \subseteq Resources
    /\ phase \in {"discovering", "connecting", "disconnected", "failed", "connected"}
    /\ manager \in Nat \cup {None} /\ shown \in Nat \cup {None}
    /\ hook \in {"idle", "restarting"} /\ code \in Exits \cup {None}
    /\ fault \subseteq {"config", "server", "api"}
    /\ requests \in 0..MaxRequests /\ rediscovers \in 0..MaxRediscovers

(* load_config, --multicast-transport and setup_logging have passed: what  *)
(* they refuse ends main with EXIT_CONFIG_ERROR before anything is open.   *)
Init ==
    /\ config \in Configs /\ pc = "start" /\ stop = FALSE /\ reconnect = FALSE
    /\ connect = "idle" /\ attempts = 0 /\ phase = "connecting" /\ open = {}
    /\ spare = FALSE /\ lost = FALSE /\ manager = None /\ shown = None /\ hook = "idle"
    /\ fault = {} /\ code = None /\ requests = 0 /\ rediscovers = 0

-----------------------------------------------------------------------------
(* run: the signal handlers, and the announcement before anything else. *)
Start ==
    /\ pc = "start" /\ pc' = IF config.url THEN "build" ELSE "find"
    /\ open' = IF config.advertise THEN {"advertiser"} ELSE {}
    /\ phase' = IF config.url THEN phase ELSE "discovering"
    /\ UNCHANGED <<config, asked, attempts, connect, work, served, fault, code>>

(* Leaves before the try block: only run's own finally clause is left. *)
LeaveEarly(c) == code' = c /\ pc' = "goodbye"

(* An attempt without success: retry_forever, and max_attempts unless 0.   *)
Failed == IF config.bounded THEN attempts + 1 ELSE attempts
Exhausted == ~config.forever \/ (config.bounded /\ Failed >= MaxAttempts)

(* Mutant: the finally clause is not entered by an early return. *)
LeaveAtOnce(c) == code' = c /\ pc' = "goodbye"
(* Leaves the try block: its finally clause, down to the goodbye records. *)
Leave(c) == code' = c /\ pc' = "save"

(* Mutant: an outage outlasts a signal. *)
StopIgnored == FALSE
(* The retry loops look at the event before each attempt and wake for it. *)
StopSeen == stop

(* _discover_server, one query by find_servers in a thread. *)
Find ==
    /\ pc = "find"
    /\ IF StopSeen THEN LeaveEarly(EXIT_OK) /\ UNCHANGED <<attempts, fault>>
       ELSE \/ pc' = "build" /\ attempts' = 0 /\ UNCHANGED <<code, fault>>
            \/ /\ fault' = fault \cup {"server"}
               /\ IF Exhausted
                  THEN LeaveEarly(IF stop THEN EXIT_OK ELSE EXIT_CONNECT_FAILED) /\ UNCHANGED attempts
                  ELSE pc' = "find_wait" /\ attempts' = Failed /\ UNCHANGED code
    /\ UNCHANGED <<config, asked, phase, connect, open, work, served>>

(* _sleep_or_stop between queries: the time passes, or the signal comes.   *)
FindWait ==
    /\ pc = "find_wait"
    /\ IF StopSeen THEN LeaveEarly(EXIT_OK) ELSE pc' = "find" /\ UNCHANGED code
    /\ UNCHANGED <<config, asked, progress, open, work, served, fault>>

(* build_client and _attach_history.  Unusable TLS material ends main with *)
(* EXIT_CONFIG_ERROR; a history that cannot be opened is left out.         *)
Build(usable, opens) ==
    /\ pc = "build"
    /\ config' = [config EXCEPT !.history = @ /\ opens]
    /\ IF usable
       THEN /\ pc' = "serve" /\ UNCHANGED <<code, fault>>
            /\ open' = open \cup {"session"} \cup (IF config'.history THEN {"history"} ELSE {})
       ELSE LeaveEarly(EXIT_CONFIG_ERROR) /\ fault' = fault \cup {"config"} /\ UNCHANGED open
    /\ UNCHANGED <<asked, progress, work, served>>

(* _serve_api, then the connect loop is started. *)
ServeApi(installed) ==
    /\ pc = "serve"
    /\ IF config.api /\ ~installed
       THEN Leave(EXIT_CONFIG_ERROR) /\ fault' = fault \cup {"config"} /\ UNCHANGED <<open, connect>>
       ELSE /\ pc' = "connecting" /\ connect' = "trying" /\ UNCHANGED <<code, fault>>
            /\ open' = open \cup (IF config.api THEN {"api"} ELSE {})
    /\ UNCHANGED <<config, asked, attempts, phase, work, served>>

(* connect_with_retry: the head of the loop, and what connect() came to.   *)
(* A server that cannot be reached is tried again.  Not so one that        *)
(* answers with an error or a body nobody can parse, nor an OSError or a   *)
(* ValueError, such as the notification listener raises for a port that is *)
(* taken: main takes those for a fault of the configuration.               *)
Connecting ==
    /\ pc = "connecting" /\ connect = "trying"
    /\ IF StopSeen THEN connect' = "gave_up" /\ UNCHANGED <<attempts, phase, fault>>
       ELSE \/ connect' = "connected" /\ phase' = "connected" /\ attempts' = 0 /\ UNCHANGED fault
            \/ connect' = "refused" /\ phase' = "connecting" /\ fault' = fault \cup {"server"}
               /\ UNCHANGED attempts
            \/ connect' = "unusable" /\ phase' = "connecting" /\ fault' = fault \cup {"config"}
               /\ UNCHANGED attempts
            \/ /\ fault' = fault \cup {"server"}
               /\ IF Exhausted
                  THEN connect' = "gave_up" /\ phase' = "failed" /\ UNCHANGED attempts
                  ELSE connect' = "waiting" /\ phase' = "disconnected" /\ attempts' = Failed
    /\ UNCHANGED <<config, pc, asked, open, work, served, code>>

(* _sleep_or_stop: the delay ends, or stop or reconnect cut it short. *)
ConnectWait ==
    /\ pc = "connecting" /\ connect = "waiting"
    /\ connect' = IF StopSeen THEN "gave_up" ELSE "trying"
    /\ reconnect' = (reconnect /\ StopSeen)
    /\ UNCHANGED <<config, pc, stop, requests, attempts, phase, open, work, served, fault, code>>

(* _run_client has its answer from the connect task. *)
Connected ==
    /\ pc = "connecting" /\ connect \in {"connected", "gave_up", "refused", "unusable"}
    /\ "api" \notin fault
    /\ CASE connect = "connected" -> pc' = "register" /\ UNCHANGED code
         [] connect = "gave_up" -> Leave(IF stop THEN EXIT_OK ELSE EXIT_CONNECT_FAILED)
         [] connect = "refused" -> Leave(EXIT_ERROR)
         [] connect = "unusable" -> Leave(EXIT_CONFIG_ERROR)
    /\ UNCHANGED <<config, asked, progress, open, work, served, fault>>

(* The API ended first: the connect loop is cancelled. *)
ApiGone ==
    /\ pc = "connecting" /\ "api" \in fault /\ Leave(EXIT_CONNECT_FAILED) /\ connect' = "idle"
    /\ UNCHANGED <<config, asked, attempts, phase, open, work, served, fault>>

(* _register_if_needed goes on whatever happens.  poll_now may fail. *)
Register ==
    /\ pc = "register" /\ pc' = IF config.poll THEN "poll" ELSE "telemetry"
    /\ UNCHANGED <<config, asked, progress, open, work, served, fault, code>>
PollNow(ok) ==
    /\ pc = "poll"
    /\ IF ok THEN pc' = "telemetry" /\ UNCHANGED <<code, fault>>
       ELSE Leave(EXIT_CONNECT_FAILED) /\ fault' = fault \cup {"server"}
    /\ UNCHANGED <<config, asked, progress, open, work, served>>

(* _start_telemetry: the server may list no MirrorUsagePointList yet, and  *)
(* then there is no metering manager to give to the API.                   *)
StartTelemetry(listed) ==
    /\ pc = "telemetry" /\ pc' = "running"
    /\ open' = open \cup (IF config.telemetry THEN {"telemetry"} ELSE {})
    /\ manager' = IF config.telemetry /\ listed THEN 0 ELSE None
    /\ shown' = IF "api" \in open THEN manager' ELSE shown
    /\ UNCHANGED <<config, asked, progress, work, hook, rediscovers, fault, code>>

(* asyncio.wait over the run loop, the signal and the API. *)
RunEnds(error) ==
    /\ pc = "running" /\ (stop \/ error \/ "api" \in fault)
    /\ fault' = IF error THEN fault \cup {"server"} ELSE fault
    /\ Leave(IF error \/ "api" \in fault THEN EXIT_CONNECT_FAILED ELSE EXIT_OK)
    /\ UNCHANGED <<config, asked, progress, open, work, served>>

-----------------------------------------------------------------------------
(* The finally clause.  save_telemetry_state and TelemetryCoordinator.     *)
(* shutdown, which ends the device loops and hands over open intervals.    *)
TelemetryDown ==
    /\ pc = "save" /\ pc' = "api_down" /\ open' = open \ {"telemetry"}
    /\ spare' = FALSE /\ lost' = (lost \/ (spare /\ config.history /\ "history" \notin open))
    /\ UNCHANGED <<config, asked, progress, served, fault, code>>
ApiDown ==
    /\ pc = "api_down" /\ pc' = "client_down" /\ open' = open \ {"api"}
    /\ UNCHANGED <<config, asked, progress, work, served, fault, code>>
ClientDown ==
    /\ pc = "client_down" /\ pc' = "history_down" /\ open' = open \ {"session"}
    /\ hook' = "idle" /\ connect' = "idle"
    /\ UNCHANGED <<config, asked, attempts, phase, work, manager, shown, rediscovers, fault, code>>
HistoryDown ==
    /\ pc = "history_down" /\ pc' = "goodbye" /\ open' = open \ {"history"}
    /\ UNCHANGED <<config, asked, progress, work, served, fault, code>>
(* run's own clause: the goodbye records, and the advertiser's thread. *)
Goodbye ==
    /\ pc = "goodbye" /\ pc' = "exited" /\ open' = open \ {"advertiser"}
    /\ UNCHANGED <<config, asked, progress, work, served, fault, code>>

-----------------------------------------------------------------------------
Live == pc \notin {"start", "exited"}
(* Beside them: SIGTERM, /reconnect, uvicorn ending by itself. *)
Signal == ~stop /\ Live /\ stop' = TRUE
          /\ UNCHANGED <<config, pc, reconnect, requests, progress, open, work, served, fault, code>>
AskReconnect == /\ "api" \in open /\ requests < MaxRequests
                /\ requests' = requests + 1 /\ reconnect' = TRUE
                /\ UNCHANGED <<config, pc, stop, progress, open, work, served, fault, code>>
ApiEnds == /\ "api" \in open /\ "api" \notin fault /\ fault' = fault \cup {"api"}
           /\ UNCHANGED <<config, pc, asked, progress, open, work, served, code>>

(* A metering cycle reads a device: an interval is open. *)
Measure == /\ "telemetry" \in open /\ ~spare /\ spare' = TRUE
           /\ UNCHANGED <<config, pc, asked, progress, open, lost, served, fault, code>>

(* on_rediscovered: restart_device_telemetry builds a manager where there  *)
(* is a list at last, then the API is pointed at it.                       *)
Rediscovered(listed) ==
    /\ pc = "running" /\ config.telemetry /\ hook = "idle" /\ rediscovers < MaxRediscovers
    /\ rediscovers' = rediscovers + 1 /\ hook' = "restarting"
    /\ manager' = IF manager = None /\ listed THEN rediscovers' ELSE manager
    /\ UNCHANGED <<config, pc, asked, progress, open, work, shown, fault, code>>
Restarted ==
    /\ pc = "running" /\ hook = "restarting" /\ hook' = "idle"
    /\ shown' = IF "api" \in open THEN manager ELSE shown
    /\ UNCHANGED <<config, pc, asked, progress, open, work, manager, rediscovers, fault, code>>

Main ==
    \/ Start \/ Find \/ FindWait \/ Connected \/ ApiGone \/ Register
    \/ \E b \in BOOLEAN : ServeApi(b) \/ PollNow(b) \/ StartTelemetry(b)
    \/ \E b, c \in BOOLEAN : Build(b, c)
    \/ TelemetryDown \/ ApiDown \/ ClientDown \/ HistoryDown \/ Goodbye
Connect == Connecting \/ ConnectWait
Beside == Signal \/ AskReconnect \/ ApiEnds \/ Measure \/ Restarted
          \/ \E b \in BOOLEAN : Rediscovered(b)
Done == pc = "exited" /\ UNCHANGED vars
Next == Main \/ Connect \/ (\E e \in BOOLEAN : RunEnds(e)) \/ Beside \/ Done

(* The event loop runs what is ready; queries and requests end (they have  *)
(* timeouts).  That the server ever answers is not assumed.                *)
Spec == Init /\ [][Next]_vars /\ WF_vars(Main) /\ WF_vars(Connect) /\ WF_vars(RunEnds(FALSE))
        /\ WF_vars(Restarted)

-----------------------------------------------------------------------------
(* A process that ends has closed everything it opened, however far it     *)
(* came, and its telemetry found the history open for the intervals it     *)
(* still held (the finally clauses of run and _run_client, in that order). *)
AllClosed == (pc = "exited" => open = {}) /\ ~lost

(* What the exit code tells a supervisor is so: 2 only for a fault of the  *)
(* configuration or of the start, and for each of them unless the API went *)
(* first; 3 and 1 only after something else failed; 0 only when asked to   *)
(* stop (cli.py, EXIT_OK, EXIT_CONFIG_ERROR, EXIT_CONNECT_FAILED, main).   *)
CodeTrue ==
    /\ code = EXIT_OK => stop
    /\ code = EXIT_CONFIG_ERROR => "config" \in fault
    /\ "config" \in fault /\ "api" \notin fault => code = EXIT_CONFIG_ERROR
    /\ code \in {EXIT_CONNECT_FAILED, EXIT_ERROR} => fault \cap {"server", "api"} # {}
ExitCodeTrue == pc = "exited" => CodeTrue

(* The management API holds the metering manager the coordinator uses,     *)
(* also when the server's list appears only later (_attach_api_telemetry). *)
ApiSeesTelemetry == pc = "running" /\ hook = "idle" /\ "api" \in open => shown = manager

(* The inductive strengthening of the three: what is open at each point,   *)
(* and what is known of the faults, of the code and of the connect loop.   *)
Inside == {"serve", "connecting", "register", "poll", "telemetry", "running", "save"}
OpenAt ==
    /\ open \subseteq Resources
    /\ pc \in {"find", "find_wait", "build", "goodbye"} => open \subseteq {"advertiser"}
    /\ pc \in Inside => (config.history => "history" \in open)
    /\ pc = "api_down" => open \subseteq {"advertiser", "session", "history", "api"}
    /\ pc = "client_down" => open \subseteq {"advertiser", "session", "history"}
    /\ pc = "history_down" => open \subseteq {"advertiser", "history"}
Leaving == pc \in Teardown \cup {"exited"}
ConnectTold ==
    /\ connect = "refused" => "server" \in fault
    /\ connect = "unusable" => "config" \in fault
    /\ connect = "gave_up" => stop \/ "server" \in fault
IInv ==
    /\ config \in Configs /\ OpenAt /\ AllClosed /\ ConnectTold /\ ApiSeesTelemetry
    /\ IF Leaving THEN CodeTrue
       ELSE "config" \in fault => pc = "connecting" /\ connect = "unusable"

(* A signal ends the process, in an outage that never ends too             *)
(* (connect_with_retry, _discover_server, _sleep_or_stop).                 *)
StopAsked == stop
Exited == pc = "exited"
StopHeeded == StopAsked ~> Exited
=============================================================================
