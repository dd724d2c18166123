------------------------------ MODULE History ------------------------------
(***************************************************************************)
(* The operations history: IntervalHistory (history/intervals.py), which   *)
(* integrates a device's readings into intervals, over HistoryDatabase     *)
(* (history/database.py), whose writer thread runs the queued batches.  A  *)
(* read copies the unfinished intervals, waits for the batches queued      *)
(* before it, reads the table and adds the copies the table lacks; the     *)
(* client goes on recording in between.                                    *)
(*                                                                         *)
(* One device; an amount is the seconds an interval has been measured      *)
(* (covered_seconds, and every other sum grows with it).  A bucket object  *)
(* is an id: after a flush the same interval has a new one.                *)
(***************************************************************************)
EXTENDS Naturals, Sequences, FiniteSets, FiniteSetsExt

CONSTANTS
    Interval,   \* interval_seconds
    MaxGap,     \* max_gap_seconds
    MaxTime,    \* bound: readings reach to this time
    QueueMax,   \* MAX_PENDING_WRITES
    MaxFails, MaxFlushes, MaxReads   \* bounds

Starts == {Interval * k : k \in 0..(MaxTime \div Interval)}
Ids == 1..(2 * Cardinality(Starts) + MaxFlushes)
NoAmounts == [s \in Starts |-> 0]

VARIABLES
    at,        \* the last reading's time, held until the next: {} or {t}
    clock,     \* the time of the latest reading
    open,      \* interval start -> its bucket's id, or 0
    amount,    \* id -> seconds covered
    batch,     \* id -> bucket.batch: 0 is None
    queue,     \* the write queue: each item the amounts it adds, then "stop"
    queued,    \* _queued
    written,   \* _written
    table,     \* the stored intervals
    lost,      \* seconds of batches that were dropped or failed
    closed,    \* _closed
    reader,    \* the read in progress
    fails, flushes, reads

memory == <<at, clock, open, amount, batch>>
store == <<queue, queued, written, table, lost, closed, fails>>
vars == <<memory, store, reader, flushes, reads>>

Idle == [pc |-> "idle", copies |-> {}, target |-> 0, through |-> 0, late |-> FALSE,
         rows |-> NoAmounts, low |-> NoAmounts, answer |-> NoAmounts]

TypeOK ==
    /\ at \subseteq 0..MaxTime /\ Cardinality(at) <= 1 /\ clock \in 0..MaxTime
    /\ open \in [Starts -> {0} \cup Ids] /\ amount \in [Ids -> 0..Interval]
    /\ batch \in [Ids -> Nat] /\ queue \in Seq([Starts -> Nat]) /\ queued \in Nat
    /\ written \in 0..queued /\ table \in [Starts -> 0..Interval] /\ lost \in [Starts -> Nat]
    /\ closed \in BOOLEAN /\ reader.pc \in {"idle", "copied", "waiting", "read", "done"}
    /\ fails \in 0..MaxFails /\ flushes \in 0..MaxFlushes /\ reads \in 0..MaxReads

Init ==
    /\ at = {} /\ clock = 0 /\ open = [s \in Starts |-> 0]
    /\ amount = [i \in Ids |-> 0] /\ batch = [i \in Ids |-> 0]
    /\ queue = <<>> /\ queued = 0 /\ written = 0 /\ table = NoAmounts /\ lost = NoAmounts
    /\ closed = FALSE /\ reader = Idle /\ fails = 0 /\ flushes = 0 /\ reads = 0

-----------------------------------------------------------------------------
Floor(t) == t - (t % Interval)
Plus(f, g) == [s \in Starts |-> f[s] + g[s]]
(* What the buckets `ids` hold, by interval. *)
SumOf(ids, op, am) ==
    [s \in Starts |-> IF op[s] \in ids /\ op[s] # 0 THEN am[op[s]] ELSE 0]

(* queue_batch: refused when closed, dropped and counted when full. *)
Queues(rows) ==
    IF closed \/ Len(queue) >= QueueMax
    THEN lost' = Plus(lost, rows) /\ UNCHANGED <<queue, queued>>
    ELSE queue' = Append(queue, rows) /\ queued' = queued + 1 /\ UNCHANGED lost

(* Mutant: the batch of a written bucket is not recorded. *)
LeavesBatch(ids, ba) == ba

(* _write: the buckets remember the batch that stores them. *)
RecordsBatch(ids, ba) ==
    IF closed \/ Len(queue) >= QueueMax THEN ba
    ELSE [i \in Ids |-> IF i \in ids THEN queued + 1 ELSE ba[i]]

WriteBuckets(done, op, am) ==
    LET ids == {op[s] : s \in done}
        rows == SumOf(ids, op, am)
    IN  IF done = {} THEN UNCHANGED <<queue, queued, lost, batch>>
        ELSE Queues(rows) /\ batch' = RecordsBatch(ids, batch)

(* _bucket, for every interval a reading touches. *)
Fresh(n) == CHOOSE i \in Ids : i \notin {open[s] : s \in Starts} /\ amount[i] = 0 /\ batch[i] = 0
            /\ Cardinality({j \in Ids : j < i /\ j \notin {open[s] : s \in Starts}
                            /\ amount[j] = 0 /\ batch[j] = 0}) = n

(* The seconds from t0 to t1 that fall into the interval from s. *)
Overlap(s, t0, t1) == Cardinality({t \in t0..(t1 - 1) : Floor(t) = s})

(* observe: the last reading is held up to the new one unless the gap is   *)
(* too long; intervals before the new one's are written.                   *)
Observe(t) ==
    LET held == IF \E t0 \in at : t - t0 <= MaxGap THEN at ELSE {}
        gain(s) == IF held = {} THEN 0 ELSE Overlap(s, Max(held), t)
        touched == {s \in Starts : gain(s) > 0} \cup {Floor(t)}
        new == {s \in touched : open[s] = 0}
        op == [s \in Starts |-> IF s \in new THEN Fresh(Cardinality({r \in new : r < s}))
                                ELSE open[s]]
        am == [i \in Ids |-> amount[i] + (IF \E s \in touched : op[s] = i
                                         THEN gain(CHOOSE s \in touched : op[s] = i) ELSE 0)]
        done == {s \in Starts : op[s] # 0 /\ s < Floor(t)}
    IN  /\ t \in clock..MaxTime /\ \A t0 \in at : t > t0
        /\ at' = {t} /\ clock' = t /\ amount' = am
        /\ WriteBuckets(done, op, am)
        /\ open' = [s \in Starts |-> IF s \in done THEN 0 ELSE op[s]]
        /\ UNCHANGED <<written, table, closed, fails, reader, flushes, reads>>

(* interrupt: the device could not be read. *)
Interrupt ==
    /\ at # {} /\ at' = {}
    /\ UNCHANGED <<clock, open, amount, batch, store, reader, flushes, reads>>

(* flush, and History.close: flush, then no more is queued. *)
FlushAll ==
    /\ WriteBuckets({s \in Starts : open[s] # 0}, open, amount)
    /\ open' = [s \in Starts |-> 0]
    /\ UNCHANGED <<at, clock, amount, written, table, fails, reader, reads>>
Flush == flushes < MaxFlushes /\ flushes' = flushes + 1 /\ FlushAll /\ UNCHANGED closed
Close == ~closed /\ closed' = TRUE /\ FlushAll /\ UNCHANGED flushes

(* _write_queued: the batch is added in one transaction, or rolled back    *)
(* and counted; either way it has run. *)
WriterStep(ok) ==
    /\ queue # <<>> /\ queue' = Tail(queue) /\ written' = written + 1
    /\ IF ok THEN table' = Plus(table, Head(queue)) /\ UNCHANGED <<lost, fails>>
       ELSE /\ fails < MaxFails /\ fails' = fails + 1
            /\ lost' = Plus(lost, Head(queue)) /\ UNCHANGED table
    /\ UNCHANGED <<memory, queued, closed, reader, flushes, reads>>

-----------------------------------------------------------------------------
(* Everything recorded so far. *)
Pending == SumOf({open[s] : s \in Starts}, open, amount)
InQueue ==
    [s \in Starts |-> FoldSet(LAMBDA i, acc : acc + queue[i][s], 0, DOMAIN queue)]
Recorded == Plus(Plus(table, lost), Plus(InQueue, Pending))

(* query: _pending copies the unfinished intervals first. *)
Copy ==
    /\ reader.pc = "idle" /\ reads < MaxReads /\ reads' = reads + 1
    /\ reader' = [reader EXCEPT !.pc = "copied", !.low = Recorded,
                      !.copies = {[id |-> open[s], start |-> s, amount |-> amount[open[s]]] :
                                     s \in {r \in Starts : open[r] # 0}}]
    /\ UNCHANGED <<memory, store, flushes>>

(* drain: the batches queued when the wait began have run. *)
Drained == written >= reader.target

StartWait ==
    /\ reader.pc = "copied" /\ reader' = [reader EXCEPT !.pc = "waiting", !.target = queued]
    /\ UNCHANGED <<memory, store, flushes, reads>>

(* query_through, under the database's lock; `late` after the timeout. *)
Read(late) ==
    /\ reader.pc = "waiting" /\ (late = ~Drained)
    /\ reader' = [reader EXCEPT !.pc = "read", !.through = written, !.late = late \/ closed,
                      !.rows = IF closed THEN NoAmounts ELSE table]
    /\ UNCHANGED <<memory, store, flushes, reads>>

(* _merge: the copies whose bucket the read does not include. *)
Unwritten(c) == batch[c.id] = 0 \/ batch[c.id] > reader.through
Merge ==
    /\ reader.pc = "read"
    /\ reader' = [reader EXCEPT !.pc = "done", !.copies = {},
           !.answer = [s \in Starts |->
               reader.rows[s] + FoldSet(LAMBDA c, acc : acc + c.amount, 0,
                                        {c \in reader.copies : c.start = s /\ Unwritten(c)})]]
    /\ UNCHANGED <<memory, store, flushes, reads>>
Return == reader.pc = "done" /\ reader' = Idle /\ UNCHANGED <<memory, store, flushes, reads>>

Next ==
    \/ \E t \in 0..MaxTime : Observe(t)
    \/ Interrupt \/ Flush \/ Close \/ Copy \/ StartWait \/ Merge \/ Return
    \/ \E ok \in BOOLEAN : WriterStep(ok)
    \/ \E late \in BOOLEAN : Read(late)
Spec == Init /\ [][Next]_vars

-----------------------------------------------------------------------------
(* A read returns, for every interval, at least what had been recorded     *)
(* when it began, less what was dropped or failed, and at most what had    *)
(* been recorded when it ended: an interval written between the copy and   *)
(* the read is neither missed nor counted twice (query, _merge,            *)
(* query_through).  Excepted: a read that gave up waiting, or was made of  *)
(* a closed history.                                                       *)
ReadExact ==
    reader.pc = "done" /\ ~reader.late =>
        \A s \in Starts : /\ reader.low[s] <= reader.answer[s] + lost[s]
                          /\ reader.answer[s] <= Recorded[s]
=============================================================================
