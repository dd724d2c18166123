------------------------------ MODULE Records ------------------------------
(***************************************************************************)
(* What the client tells its observers.  ExchangeScope (client/exchange.   *)
(* py) reports each attempt of a request, AuditEmitter (audit.py) numbers  *)
(* and reports each transition of an event or of the loss-of-contact mode, *)
(* and QueuedObserver (observers.py) hands the records to a slow target on *)
(* a thread of its own, through a bounded queue, until it is closed.       *)
(***************************************************************************)
EXTENDS Naturals, Sequences, FiniteSets

CONSTANTS
    Attempts,   \* attempts of requests: each is made once, from any thread
    None,
    QueueSize,  \* maxsize
    MaxAudits,  \* bound: transitions
    TimesOut    \* whether close() is given a timeout

(* How an attempt ends: the status that arrived, if one did, and what was  *)
(* raised.                                                                 *)
Outcomes == {"ok", "not_found", "refused", "redirected", "unparseable", "invalid",
             "no_connection", "tls", "read_timeout", "reset", "truncated"}
Answered(o) == o \in {"ok", "not_found", "refused", "redirected", "unparseable", "invalid",
                      "truncated"}
STOP == [what |-> "stop", of |-> 0]

VARIABLES
    scope,     \* attempt -> open, failed (failed() was called), closed; None before
    seq,       \* AuditSequence
    emitFailures,
    queue,     \* _queue
    closed, abandon,
    closer,    \* close(): idle, putting the stop marker, joining, late, returned
    thread,    \* _run: check, get, deliver, discard, done
    record,    \* the record it has in hand
    dropped,   \* the records counted in `dropped`
    failures,  \* the records the target raised on
    delivered, \* history: what the target was given
    offered    \* history: what the observer was called with

sources == <<scope, seq, emitFailures>>
closing == <<closed, abandon, closer>>
vars == <<sources, queue, closing, thread, record, dropped, failures, delivered, offered>>

Kinds == {"exchange", "connection", "anomaly", "audit"}
TypeOK ==
    /\ scope \in [Attempts -> {None, "open", "failed", "closed"}]
    /\ seq \in 0..MaxAudits /\ emitFailures \in Nat
    /\ closed \in BOOLEAN /\ abandon \in BOOLEAN
    /\ closer \in {"idle", "putting", "joining", "late", "returned"}
    /\ thread \in {"check", "get", "deliver", "discard", "done"}
    /\ Len(queue) <= QueueSize /\ dropped \in Nat
    /\ \A i \in 1..Len(queue) : queue[i] = STOP \/ queue[i].what \in Kinds
    /\ failures \in Nat

Init ==
    /\ scope = [a \in Attempts |-> None]
    /\ seq = 0 /\ emitFailures = 0 /\ queue = <<>> /\ closed = FALSE /\ abandon = FALSE
    /\ closer = "idle" /\ thread = "check" /\ record = None /\ dropped = 0 /\ failures = 0
    /\ delivered = <<>> /\ offered = <<>>

-----------------------------------------------------------------------------
(* is_transport_failure: a failure after the headers still is one, and a   *)
(* status the client raised for is not.                                    *)
IsTransportFailure(o) == o \in {"no_connection", "tls", "read_timeout", "reset", "truncated"}
(* classify_error, _connection_outcome: no connection, or a lost one.  A   *)
(* read timeout says nothing of the connection.                            *)
ConnectionOutcome(o) ==
    CASE o \in {"no_connection", "tls"} -> "failed"
      [] o \in {"reset", "truncated"} -> "lost"
      [] OTHER -> None
(* _anomalies, _unexpected: a redirect and an absent resource are answers. *)
Anomalous(o) == o \in {"unparseable", "refused", "invalid"}

(* _deliver: the records of one attempt, in order. *)
RecordsOf(a, o) ==
    <<[what |-> "exchange", of |-> a]>>
    \o (IF IsTransportFailure(o) /\ ConnectionOutcome(o) # None
        THEN <<[what |-> "connection", of |-> a]>> ELSE <<>>)
    \o (IF Anomalous(o) THEN <<[what |-> "anomaly", of |-> a]>> ELSE <<>>)

(* Mutant: a record is queued though the observer is closed. *)
RefusesNothing == FALSE
(* __call__, under the lock. *)
Refuses == closed

(* __call__ for each record in turn, queued or counted as dropped.  An     *)
(* attempt offers its records in one step.                                 *)
Offer(rs) ==
    LET room == IF Refuses THEN 0 ELSE QueueSize - Len(queue)
        kept == IF room < Len(rs) THEN room ELSE Len(rs)
    IN /\ queue' = queue \o SubSeq(rs, 1, kept)
       /\ dropped' = dropped + (Len(rs) - kept)
       /\ offered' = offered \o rs
NotOffered == UNCHANGED <<queue, dropped, offered>>

(* ExchangeScope around an attempt. *)
Begin(a) ==
    /\ scope[a] = None /\ scope' = [scope EXCEPT ![a] = "open"]
    /\ NotOffered
    /\ UNCHANGED <<seq, emitFailures, closing, thread, record, failures, delivered>>

(* Mutant: every report of a scope is delivered. *)
ReportsEachTime(a) == TRUE
(* _report, _reported: the first report counts. *)
FirstReport(a) == scope[a] = "open"

(* failed(): the retry loop reports an exception it goes on from. *)
Fail(a, o) ==
    /\ scope[a] = "open" /\ ~Answered(o)
    /\ scope' = [scope EXCEPT ![a] = "failed"] /\ Offer(RecordsOf(a, o))
    /\ UNCHANGED <<seq, emitFailures, closing, thread, record, failures, delivered>>

(* __exit__, also after failed(). *)
Exit(a, o) ==
    /\ scope[a] \in {"open", "failed"} /\ scope' = [scope EXCEPT ![a] = "closed"]
    /\ IF FirstReport(a) THEN Offer(RecordsOf(a, o)) ELSE NotOffered
    /\ UNCHANGED <<seq, emitFailures, closing, thread, record, failures, delivered>>

(* AuditEmitter.event_transition, comms_loss, late_dispatch and _publish.  *)
(* A record that cannot be built takes no number; one the history refuses  *)
(* is still observed.                                                      *)
Audit(builds, stored) ==
    /\ seq + emitFailures < MaxAudits
    /\ emitFailures' = IF builds /\ stored THEN emitFailures ELSE emitFailures + 1
    /\ IF builds THEN seq' = seq + 1 /\ Offer(<<[what |-> "audit", of |-> seq']>>)
       ELSE NotOffered /\ UNCHANGED seq
    /\ UNCHANGED <<scope, closing, thread, record, failures, delivered>>

-----------------------------------------------------------------------------
(* _run: the head of its loop, then get() blocks for a record or the stop  *)
(* marker.                                                                 *)
Check ==
    /\ thread = "check" /\ thread' = IF abandon THEN "discard" ELSE "get"
    /\ UNCHANGED <<sources, queue, closing, record, dropped, failures, delivered, offered>>
Get ==
    /\ thread = "get" /\ queue # <<>> /\ queue' = Tail(queue)
    /\ IF Head(queue) = STOP THEN thread' = "done" /\ UNCHANGED record
       ELSE thread' = "deliver" /\ record' = Head(queue)
    /\ UNCHANGED <<sources, closing, dropped, failures, delivered, offered>>
(* ObserverGuard.deliver: the target returns or raises. *)
Deliver(raises) ==
    /\ thread = "deliver" /\ thread' = "check" /\ record' = None
    /\ failures' = IF raises THEN failures + 1 ELSE failures
    /\ delivered' = Append(delivered, record)
    /\ UNCHANGED <<sources, queue, closing, dropped, offered>>
(* _discard_queued. *)
Discard ==
    /\ thread = "discard"
    /\ IF queue = <<>> THEN thread' = "done" /\ UNCHANGED <<queue, dropped>>
       ELSE /\ queue' = Tail(queue) /\ UNCHANGED thread
            /\ dropped' = IF Head(queue) = STOP THEN dropped ELSE dropped + 1
    /\ UNCHANGED <<sources, closing, record, failures, delivered, offered>>

(* close: under the lock, then _put_stop waits for room until the timeout. *)
Close ==
    /\ closer = "idle" /\ closed' = TRUE /\ closer' = "putting"
    /\ UNCHANGED <<sources, queue, abandon, thread, record, dropped, failures, delivered, offered>>
PutStop ==
    /\ closer = "putting" /\ Len(queue) < QueueSize /\ closer' = "joining"
    /\ queue' = Append(queue, STOP)
    /\ UNCHANGED <<sources, closed, abandon, thread, record, dropped, failures, delivered, offered>>
Join ==
    /\ closer = "joining" /\ thread = "done" /\ closer' = "returned"
    /\ UNCHANGED <<sources, queue, closed, abandon, thread, record, dropped, failures, delivered,
                   offered>>
(* The timeout: no room was found, or the thread did not end; then the     *)
(* thread is told.                                                         *)
GiveUp ==
    /\ TimesOut /\ closer \in {"putting", "joining"} /\ thread # "done"
    /\ (closer = "putting" => Len(queue) = QueueSize) /\ closer' = "late"
    /\ UNCHANGED <<sources, queue, closed, abandon, thread, record, dropped, failures, delivered,
                   offered>>
Abandon ==
    /\ closer = "late" /\ abandon' = TRUE /\ closer' = "returned"
    /\ UNCHANGED <<sources, queue, closed, thread, record, dropped, failures, delivered, offered>>

Sources ==
    \/ \E a \in Attempts : Begin(a) \/ \E o \in Outcomes : Fail(a, o) \/ Exit(a, o)
    \/ \E b, s \in BOOLEAN : (b \/ ~s) /\ Audit(b, s)
Thread == Check \/ Get \/ (\E r \in BOOLEAN : Deliver(r)) \/ Discard
Done == closer = "returned" /\ (\A a \in Attempts : scope[a] = "closed")
        /\ thread \in {"done", "get"} /\ UNCHANGED vars
Next == Sources \/ Thread \/ Close \/ PutStop \/ Join \/ GiveUp \/ Abandon \/ Done

Spec == Init /\ [][Next]_vars

-----------------------------------------------------------------------------
(* Nothing is lost without a count: whatever threads offer records and     *)
(* however the close falls between them, each is with the target, counted  *)
(* as dropped, or still queued for a thread that will take it (__call__,   *)
(* _run, _discard_queued).                                                 *)
Accounted ==
    LET queued == Cardinality({i \in 1..Len(queue) : queue[i] # STOP})
        held == IF record = None THEN 0 ELSE 1
    IN /\ Len(offered) = Len(delivered) + dropped + queued + held
       /\ thread = "done" => queued + held = 0

(* The target sees the records in the order they were offered, and the     *)
(* audit numbers rising: a gap there means a record dropped and counted    *)
(* (AuditSequence.stamp, one thread behind one queue).                     *)
InOrder ==
    LET audits == SelectSeq(delivered, LAMBDA r : r.what = "audit")
    IN /\ \A i, j \in 1..Len(audits) : i < j => audits[i].of < audits[j].of
       /\ thread = "done" /\ Len(audits) < seq => dropped > 0

(* One attempt, one exchange record, though its scope is told of the       *)
(* failure twice (ExchangeScope.failed, then __exit__).                    *)
OneExchangeEach ==
    \A a \in Attempts : Cardinality({i \in 1..Len(offered) : offered[i] =
        [what |-> "exchange", of |-> a]}) = IF scope[a] \in {"failed", "closed"} THEN 1 ELSE 0
=============================================================================
