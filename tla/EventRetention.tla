--------------------------- MODULE EventRetention ---------------------------
(***************************************************************************)
(* What the event processor remembers of an event, and for how long: the   *)
(* EventStore keeps a record until end + grace (60 s), RandomizationCache  *)
(* the offsets until end + grace (10 s), ResponseTracker a response for    *)
(* max_age (7200 s) (events/processor.py, state_machine.py,                *)
(* randomization.py, response.py).  A server may list an event for longer. *)
(*                                                                         *)
(* The events belong to one program.  A pass of process_controls visits    *)
(* them in list order, which is by start; the interleavings of a pass with *)
(* timers are in EventLifecycle, so here time stands still during a pass   *)
(* and every POST lands.                                                   *)
(***************************************************************************)
EXTENDS Integers, Sequences, SequencesExt

CONSTANTS
    Events,
    RawStart, RawDuration,       \* interval of each event
    RandomStart, RandomDuration, \* randomizeStart, randomizeDuration
    StoreGrace, RandGrace,       \* graces of the two prunes
    MaxAge,                      \* max_age of ResponseTracker.prune
    AddedInOrder,                \* bound: the server adds events by start
    MaxTime

RawEnd(e) == RawStart[e] + RawDuration[e]

VARIABLES
    now,
    listed,   \* the events in the server's DERControlList
    everListed,
    todo,     \* the events the running pass has still to visit
    passing,  \* a pass is running
    store,    \* EventStore: state and effective interval, NoRecord when pruned
    cache,    \* RandomizationCache: the offsets, NoOffsets when pruned
    sent,     \* ResponseTracker: when each code was sent, Never when pruned
    told,     \* history: the responses posted for each event
    starts    \* history: times each event was started

vars == <<now, listed, everListed, todo, passing, store, cache, sent, told, starts>>

NoRecord  == [state |-> "NONE", start |-> 0, end |-> 0]
NoOffsets == [cached |-> FALSE, start |-> 0, duration |-> 0]
Never     == -1
Codes  == {"ACKNOWLEDGED", "ACTIVE", "COMPLETED", "EXPIRED"}

Known(e) == store[e].state # "NONE"
LiveIn(e, states) == Known(e) /\ store[e].state \in states

(* _compute_offset: between zero and the value, whatever its sign. *)
Draw(value) == IF value >= 0 THEN 0..value ELSE value..0

TypeOK ==
    /\ now \in 0..MaxTime /\ listed \subseteq everListed /\ everListed \subseteq Events
    /\ \A e \in Events :
          /\ store[e] \in [state : {"NONE", "SCHEDULED", "ACTIVE", "COMPLETED"},
                           start : Int, end : Int]
          /\ cache[e] \in [cached : BOOLEAN, start : Int, duration : Int]
          /\ Known(e) => store[e].end - store[e].start - RawDuration[e]
                            \in Draw(RandomDuration[e])
          /\ sent[e] \in [Codes -> -1..MaxTime]
    /\ passing \in BOOLEAN /\ ToSet(todo) \subseteq Events

Init ==
    /\ now = 0 /\ listed = {} /\ everListed = {} /\ todo = <<>> /\ passing = FALSE
    /\ store = [e \in Events |-> NoRecord]
    /\ cache = [e \in Events |-> NoOffsets]
    /\ sent = [e \in Events |-> [c \in Codes |-> Never]]
    /\ told = [e \in Events |-> <<>>]
    /\ starts = [e \in Events |-> 0]

-----------------------------------------------------------------------------
(* get_offsets: cached, or drawn. *)
Offsets(e) ==
    IF cache[e].cached THEN {cache[e]}
    ELSE [cached : {TRUE}, start : Draw(RandomStart[e]), duration : Draw(RandomDuration[e])]

(* Mutant: rule m is not applied. *)
AdjustedNever(e, off) == off

(* Rule m: an event that follows a live one starts when that one ends      *)
(* (_find_successive_predecessor, override_start_offset).                  *)
Adjusted(e, off) ==
    LET before == {x \in Events : LiveIn(x, {"SCHEDULED", "ACTIVE"}) /\ RawEnd(x) = RawStart[e]}
    IN IF before = {} THEN off
       ELSE LET x == CHOOSE y \in before : TRUE
            IN [off EXCEPT !.start = store[x].end - RawStart[e]]

(* Mutant: the start offset does not move the end. *)
EffectiveFixedEnd(e, off) ==
    [start |-> RawStart[e] + off.start, end |-> RawEnd(e) + off.duration]

(* The effective interval from a pair of offsets. *)
Effective(e, off) ==
    [start |-> RawStart[e] + off.start,
     end   |-> RawStart[e] + off.start + RawDuration[e] + off.duration]

HasResponded(e) == \E c \in Codes : sent[e][c] # Never

(* Responses to codes cs, in order; one on record is not repeated. *)
Tell(e, cs) ==
    LET new == SelectSeq(cs, LAMBDA c : sent[e][c] = Never)
    IN /\ sent' = [sent EXCEPT ![e] = [c \in Codes |->
                      IF Contains(new, c) THEN now ELSE @[c]]]
       /\ told' = [told EXCEPT ![e] = @ \o new]

-----------------------------------------------------------------------------
(* The server adds or removes events of the list. *)
ServerLists(e) ==
    /\ ~passing /\ e \notin everListed
    /\ AddedInOrder => \A x \in Events : RawStart[x] < RawStart[e] => x \in everListed
    /\ listed' = listed \cup {e} /\ everListed' = everListed \cup {e}
    /\ UNCHANGED <<now, todo, passing, store, cache, sent, told, starts>>

ServerDrops(e) ==
    /\ ~passing /\ e \in listed
    /\ ~LiveIn(e, {"SCHEDULED", "ACTIVE"})
    /\ listed' = listed \ {e}
    /\ UNCHANGED <<now, everListed, todo, passing, store, cache, sent, told, starts>>

StartPass ==
    /\ ~passing /\ passing' = TRUE
    /\ todo' = SetToSortSeq(listed, LAMBDA a, b : RawStart[a] < RawStart[b])
    /\ UNCHANGED <<now, listed, everListed, store, cache, sent, told, starts>>

(* Mutant: an event that is over is reported expired whatever was sent. *)
SeeExpiredAlways(e, off) ==
    /\ now > Effective(e, off).end
    /\ Tell(e, <<"EXPIRED">>)
    /\ UNCHANGED <<store, starts>>

(* A listed event that is over and not in the store. *)
SeeExpired(e, off) ==
    /\ now > Effective(e, off).end
    /\ IF HasResponded(e) THEN UNCHANGED <<sent, told>> ELSE Tell(e, <<"EXPIRED">>)
    /\ UNCHANGED <<store, starts>>

(* A listed event that is taken on: scheduled, or started at once. *)
SeeNew(e, off) ==
    LET iv      == Effective(e, off)
        running == now >= iv.start
    IN /\ now <= iv.end
       /\ store' = [store EXCEPT ![e] =
             [state |-> IF running THEN "ACTIVE" ELSE "SCHEDULED",
              start |-> iv.start, end |-> iv.end]]
       /\ Tell(e, IF running THEN <<"ACKNOWLEDGED", "ACTIVE">> ELSE <<"ACKNOWLEDGED">>)
       /\ starts' = [starts EXCEPT ![e] = IF running THEN @ + 1 ELSE @]

(* One turn of the loop of process_controls; a known event keeps its       *)
(* record, also when its offsets changed.                                  *)
See(e) ==
    /\ passing /\ todo # <<>> /\ e = Head(todo)
    /\ todo' = Tail(todo)
    /\ \E drawn \in Offsets(e) :
          LET off == Adjusted(e, drawn)
          IN /\ cache' = [cache EXCEPT ![e] = off]
             /\ \/ Known(e) /\ UNCHANGED <<store, sent, told, starts>>
                \/ ~Known(e) /\ SeeExpired(e, off)
                \/ ~Known(e) /\ SeeNew(e, off)
    /\ UNCHANGED <<now, listed, everListed, passing>>

(* Mutant: no grace, and the end itself counts as past. *)
ForgetsAtEnd(e) == Known(e) /\ store[e].end <= now

(* prune_expired drops e. *)
Forgets(e) == Known(e) /\ store[e].end + StoreGrace < now

(* RandomizationCache.prune drops the offsets of e. *)
ForgetsOffsets(e) ==
    cache[e].cached /\ Effective(e, cache[e]).end + RandGrace < now

(* The end of the pass: the three prunes. *)
EndPass ==
    /\ passing /\ todo = <<>> /\ passing' = FALSE
    /\ store' = [e \in Events |-> IF Forgets(e) THEN NoRecord ELSE store[e]]
    /\ cache' = [e \in Events |-> IF ForgetsOffsets(e) THEN NoOffsets ELSE cache[e]]
    /\ sent' = [e \in Events |-> [c \in Codes |->
                   IF now - sent[e][c] > MaxAge THEN Never ELSE sent[e][c]]]
    /\ UNCHANGED <<now, listed, everListed, todo, told, starts>>

(* The activation and completion timers. *)
Activate(e) ==
    /\ ~passing /\ LiveIn(e, {"SCHEDULED"}) /\ now >= store[e].start
    /\ store' = [store EXCEPT ![e].state = "ACTIVE"]
    /\ starts' = [starts EXCEPT ![e] = @ + 1]
    /\ Tell(e, <<"ACTIVE">>)
    /\ UNCHANGED <<now, listed, everListed, todo, passing, cache>>

Complete(e) ==
    /\ ~passing /\ LiveIn(e, {"ACTIVE"}) /\ now >= store[e].end
    /\ store' = [store EXCEPT ![e].state = "COMPLETED"]
    /\ Tell(e, <<"COMPLETED">>)
    /\ UNCHANGED <<now, listed, everListed, todo, passing, cache, starts>>

(* Timers are on time. *)
Tick ==
    /\ ~passing /\ now < MaxTime
    /\ \A e \in Events : /\ LiveIn(e, {"SCHEDULED"}) => now < store[e].start
                         /\ LiveIn(e, {"ACTIVE"}) => now < store[e].end
    /\ now' = now + 1
    /\ UNCHANGED <<listed, everListed, todo, passing, store, cache, sent, told, starts>>

Next ==
    \/ \E e \in Events : \/ ServerLists(e) \/ ServerDrops(e) \/ See(e)
                         \/ Activate(e) \/ Complete(e)
    \/ StartPass \/ EndPass \/ Tick

Spec == Init /\ [][Next]_vars

-----------------------------------------------------------------------------
(* PROPERTIES                                                              *)

(* An event is started once, however long the server goes on listing it.   *)
StartedOnce == \A e \in Events : starts[e] <= 1

(* No device is told EXPIRED about an event it was told of before, and no  *)
(* response is sent twice.                                                 *)
ToldOnce ==
    \A e \in Events :
        /\ \A i, j \in 1..Len(told[e]) : told[e][i] = told[e][j] => i = j
        /\ Contains(told[e], "EXPIRED") => Len(told[e]) = 1

(* Successive events leave no gap and do not overlap: the later one starts *)
(* when the earlier one ends, whatever was drawn for either.               *)
NoGap ==
    \A a, b \in Events :
        /\ LiveIn(a, {"SCHEDULED", "ACTIVE"}) /\ LiveIn(b, {"SCHEDULED", "ACTIVE"})
        /\ RawEnd(a) = RawStart[b]
        => store[b].start = store[a].end
=============================================================================
