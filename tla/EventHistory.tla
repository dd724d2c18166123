---------------------------- MODULE EventHistory ----------------------------
(***************************************************************************)
(* The account kept of an event: the audit records EventProcessor makes    *)
(* (_audit_transition, audit.py) as it moves the event from state to       *)
(* state, the table that outlives a restart (history/events.py) and the    *)
(* summary folded from it (summarize), which says in which state the event *)
(* is and how long it ran.  An activation is recorded once its dispatch    *)
(* has settled, an acknowledgement's schedule once it is posted: what      *)
(* happens to the event meanwhile is recorded first.                       *)
(*                                                                         *)
(* One event; writes are taken in order and without loss, which is         *)
(* History's subject.                                                      *)
(***************************************************************************)
EXTENDS Naturals, Sequences, FiniteSets, SequencesExt

CONSTANTS
    Start, End,   \* the event's effective window
    None,
    MaxTime,      \* bound: the server's clock
    MaxRestarts, MaxParts \* bounds: restarts, partial supersessions

VARIABLES
    now,      \* the server's timebase
    withdrawn, \* the server has cancelled the event
    store,    \* the event's state in the EventStore, or "none"
    optedOut, \* record.opted_out
    pending,  \* the handler in progress: "no", "ack" or "dispatch"
    from,     \* the from_state that handler records
    timer,    \* the completion timer is armed
    seen,     \* _audit_unstored_seen
    trail,    \* event_records
    since,    \* history: when the run in progress began, or None
    ran,      \* history: how long the last run lasted
    overtaken, \* history: a record was made after one that happened later
    again,    \* history: the event came back after it had ended
    restarts, parts

event == <<store, optedOut, pending, from, timer, seen>>
truth == <<since, ran, overtaken, again>>
server == <<now, withdrawn>>
vars == <<server, event, trail, truth, restarts, parts>>

Terminal == {"completed", "cancelled", "superseded", "opted_out", "expired"}
States == Terminal \cup {"scheduled", "active"}

TypeOK ==
    /\ now \in 0..MaxTime /\ withdrawn \in BOOLEAN /\ store \in States \cup {"none"} /\ optedOut \in BOOLEAN
    /\ pending \in {"no", "ack", "dispatch"} /\ timer \in BOOLEAN /\ seen \in BOOLEAN
    /\ \A i \in DOMAIN trail : trail[i].to \in States /\ trail[i].at \in 0..MaxTime
    /\ since \in 0..MaxTime \cup {None} /\ ran \in 0..MaxTime \cup {None}

Init ==
    /\ now = 0 /\ withdrawn = FALSE /\ store = "none" /\ optedOut = FALSE /\ pending = "no" /\ from = None /\ timer = FALSE
    /\ seen = FALSE /\ trail = <<>> /\ since = None /\ ran = None /\ overtaken = FALSE /\ again = FALSE
    /\ restarts = 0 /\ parts = 0

-----------------------------------------------------------------------------
(* event_transition, and the row record() stores; the first of a life      *)
(* carries the control.                                                    *)
Row(f, to) == [at |-> now, from |-> f, to |-> to, control |-> f = None]
(* _audit_transition: an event that was opted out has left its state. *)
Audit(f, to) ==
    /\ trail' = Append(trail, Row(IF optedOut' /\ to # "opted_out" THEN "opted_out" ELSE f, to))
    /\ again' = (again \/ (f = None /\ \E i \in DOMAIN trail : trail[i].to \in Terminal))

(* The run in progress, if there is one, is over. *)
Ends == since' = None /\ ran' = IF since = None THEN ran ELSE now - since

(* The event is first received before its start, during it, cancelled, or  *)
(* when over, the last recorded once (_audit_unstored).                    *)
NewScheduled ==
    /\ store = "none" /\ ~withdrawn /\ now < Start
    /\ store' = "scheduled" /\ pending' = "ack" /\ from' = None
    /\ UNCHANGED <<server, optedOut, timer, seen, trail, truth, restarts, parts>>
LateDiscovery ==
    /\ store = "none" /\ ~withdrawn /\ now >= Start /\ now < End
    /\ store' = "active" /\ pending' = "dispatch" /\ from' = None
    /\ UNCHANGED <<server, optedOut, timer, seen, trail, truth, restarts, parts>>
PreCancelled ==
    /\ store = "none" /\ withdrawn /\ now <= End /\ store' = "cancelled" /\ UNCHANGED optedOut
    /\ Audit(None, "cancelled")
    /\ UNCHANGED <<server, pending, from, timer, seen, since, ran, overtaken, restarts, parts>>
Expired ==
    /\ store = "none" /\ now > End /\ ~seen /\ seen' = TRUE /\ UNCHANGED optedOut
    /\ Audit(None, "expired") /\ UNCHANGED <<server, store, pending, from, timer, since, ran, overtaken, restarts, parts>>

(* _handle_new_scheduled, after the ACK. *)
Acked ==
    /\ pending = "ack" /\ pending' = "no" /\ UNCHANGED optedOut /\ Audit(None, "scheduled")
    /\ overtaken' = (overtaken \/ store # "scheduled")
    /\ UNCHANGED <<server, store, from, timer, seen, since, ran, restarts, parts>>

(* _on_activation, up to the dispatch. *)
Activate ==
    /\ store = "scheduled" /\ pending = "no" /\ now >= Start
    /\ store' = "active" /\ pending' = "dispatch" /\ from' = "scheduled"
    /\ UNCHANGED <<server, optedOut, timer, seen, trail, truth, restarts, parts>>
(* ... with communications lost, and the same of a late discovery:         *)
(* _opt_out_event.                                                         *)
OptOutAtStart ==
    /\ now >= Start /\ now < End /\ pending = "no"
    /\ store = "scheduled" \/ (store = "none" /\ ~withdrawn)
    /\ store' = "active" /\ optedOut' = TRUE
    /\ Audit(IF store = "none" THEN None ELSE store, "opted_out")
    /\ UNCHANGED <<server, pending, from, timer, seen, since, ran, overtaken, restarts, parts>>

(* The dispatch has settled: _audit_activation, and the completion timer. *)
Dispatched ==
    /\ pending = "dispatch" /\ pending' = "no" /\ timer' = TRUE /\ UNCHANGED optedOut
    /\ Audit(from, "active")
    /\ overtaken' = (overtaken \/ store # "active" \/ optedOut)
    /\ since' = IF store = "active" /\ ~optedOut THEN now ELSE since
    /\ UNCHANGED <<server, store, from, seen, ran, restarts, parts>>

(* _on_completion. *)
Complete ==
    /\ timer /\ store = "active" /\ now >= End
    /\ store' = "completed" /\ timer' = FALSE /\ Ends /\ UNCHANGED optedOut
    /\ Audit("active", "completed") /\ UNCHANGED <<server, pending, from, seen, overtaken, restarts, parts>>

(* _handle_cancellation, and a supersession of all its devices. *)
Cancelled(to) ==
    /\ withdrawn' = (withdrawn \/ to = "cancelled")
    /\ store \in {"scheduled", "active"} /\ store' = to /\ timer' = FALSE /\ Ends /\ UNCHANGED optedOut
    /\ Audit(store, to) /\ UNCHANGED <<now, pending, from, seen, overtaken, restarts, parts>>

(* A supersession of some: the record leaves the state where it was.       *)
Superseded ==
    /\ store \in {"scheduled", "active"} /\ parts < MaxParts /\ parts' = parts + 1 /\ UNCHANGED optedOut
    /\ LET current == IF optedOut THEN "opted_out" ELSE store IN Audit(current, current)
    /\ UNCHANGED <<server, store, pending, from, timer, seen, since, ran, overtaken, restarts>>

(* enter_comms_loss. *)
EnterCommsLoss ==
    /\ store = "active" /\ ~optedOut /\ optedOut' = TRUE /\ timer' = FALSE /\ Ends
    /\ Audit("active", "opted_out") /\ UNCHANGED <<server, store, pending, from, seen, overtaken, restarts, parts>>

(* The process ends and starts over: the table is what remains. *)
Restart ==
    /\ restarts < MaxRestarts /\ restarts' = restarts + 1
    /\ store' = "none" /\ optedOut' = FALSE /\ pending' = "no" /\ from' = None /\ timer' = FALSE /\ seen' = FALSE
    /\ since' = None /\ ran' = None /\ UNCHANGED <<server, trail, overtaken, again, parts>>

Tick == now < MaxTime /\ now' = now + 1 /\ UNCHANGED <<withdrawn, event, trail, truth, restarts, parts>>

Next == \/ NewScheduled \/ LateDiscovery \/ PreCancelled \/ Expired \/ Acked \/ Activate \/ OptOutAtStart \/ Dispatched
        \/ Complete \/ Superseded \/ EnterCommsLoss \/ Restart \/ Tick
        \/ \E to \in {"cancelled", "superseded"} : Cancelled(to)
Spec == Init /\ [][Next]_vars

-----------------------------------------------------------------------------
(* summarize. *)
Before(i, j) == IF i = None THEN j ELSE i

(* Mutant: a partial supersession is a start. *)
AnyActive(r) == r.to = "active"
(* The move into active, not one that leaves a running event where it was. *)
IsStart(r) == r.to = "active" /\ r.from # "active"

(* Mutant: the event ended at the last word on it. *)
LastTerminal(t) == SelectLastInSeq(t, LAMBDA r : r.to \in Terminal)
FirstTerminal(t) == SelectInSeq(t, LAMBDA r : r.to \in Terminal)

Smaller(a, b) == IF a < b THEN a ELSE b
Less(a, b) == IF a > b THEN a - b ELSE 0

Summarize ==
    LET a == SelectLastInSeq(trail, LAMBDA r : IsStart(r))
        e == FirstTerminal(trail)
        stop == IF e # 0 THEN trail[e].at ELSE Smaller(now, End)
    IN [state |-> trail[Len(trail)].to,
        active_at |-> IF a = 0 THEN None ELSE trail[a].at,
        ended_at |-> IF e = 0 THEN None ELSE trail[e].at,
        ran_seconds |-> IF a = 0 THEN None ELSE Less(stop, trail[a].at)]

(* control_windows: from the start to the end, or to the window's.         *)
InControlWindow(t) ==
    /\ trail # <<>> /\ Summarize.active_at # None
    /\ Summarize.active_at <= t /\ t <= Before(Summarize.ended_at, End)

(* What the summary says of an event is so, whatever ended it and whatever *)
(* was recorded of it after: its state, that it ran and how long, to the   *)
(* moment it was opted out of when it was, also when it then completed or  *)
(* was cancelled; and the control windows hold the time it ran.  Not after *)
(* a record overtaken while a dispatch or an acknowledgement was under     *)
(* way, nor for an event that came back after its end (summarize,          *)
(* _audit_transition, control_windows).                                    *)
SummaryTrue ==
    trail # <<>> /\ ~overtaken /\ ~again =>
        /\ store # "none" /\ pending = "no" =>
               Summarize.state = IF optedOut /\ store = "active" THEN "opted_out" ELSE store
        /\ since # None => /\ Summarize.ended_at = None /\ (since <= End => InControlWindow(since))
                           /\ Summarize.ran_seconds = Less(Smaller(now, End), since)
        /\ since = None /\ ran # None => Summarize.ran_seconds = ran
        /\ store # "none" /\ pending = "no" => \E i \in DOMAIN trail : trail[i].control

(* history/events.py: "which programs ran, for how long and on which       *)
(* devices" can be answered.  Of the run in progress too.                  *)
ForHowLong == since # None => Summarize.ran_seconds = Less(Smaller(now, End), since)
=============================================================================
