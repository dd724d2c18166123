------------------------------ MODULE Timebase ------------------------------
(***************************************************************************)
(* The server timebase (client/timebase.py) and what keeps it current: the *)
(* Time poll and the connectivity probe (client/csip_client.py), discovery *)
(* and the removal of an FSA (client/discovery.py).                        *)
(*                                                                         *)
(* The offset an observation carries is right when it is taken and drifts  *)
(* with its age, so an observation is the monotonic instant it was taken   *)
(* at.  A Time resource answers, is absent (404, 204), does not answer, or *)
(* has moved (a redirect).  A poll takes at most one tick.                 *)
(***************************************************************************)
EXTENDS Naturals, Sequences

CONSTANTS
    Scopes,        \* FSAs that advertise a Time resource
    Hrefs,         \* the Time hrefs, the global one first: the poll's order
    HrefOf,        \* the href each FSA advertises
    PollTicks,     \* the rate of the Time poll
    FloorTicks,    \* FSA_STALE_FLOOR_SECONDS
    MaxClock,      \* bound: ticks
    MaxTurns       \* bound: changes at the server, and triggers but the Time poll's

Global == "global"
Never == 0
HrefSet == {Hrefs[i] : i \in 1..Len(Hrefs)}
GlobalHref == Hrefs[1]
Everyone == Scopes \cup {Global}
Href(s) == IF s = Global THEN GlobalHref ELSE HrefOf[s]

VARIABLES
    clock,    \* time.monotonic(), from 1
    answer,   \* how each Time resource answers (external)
    known,    \* DiscoveredState.fsa_time_hrefs, and Global if it has a time_href
    seen,     \* _global and _per_fsa: when each scope was observed, or Never
    poll,     \* _do_poll_time: hrefs to read, error to raise
    due,      \* when the next poll starts, or Never if none is scheduled
    rediscovery, \* discover is about to fill the state, which was cleared
    since,    \* history: since when each Time resource answers, or Never
    turns

vars == <<clock, answer, known, seen, poll, due, rediscovery, since, turns>>

NoPoll == [on |-> FALSE, todo |-> {}, recover |-> FALSE, ticked |-> FALSE]
Answers == {"ok", "absent", "down", "moved"}

TypeOK ==
    /\ clock \in 1..MaxClock /\ answer \in [HrefSet -> Answers]
    /\ known \subseteq Everyone /\ seen \in [Everyone -> 0..MaxClock]
    /\ poll.todo \subseteq HrefSet /\ poll.on \in BOOLEAN
    /\ due \in Nat /\ rediscovery \in BOOLEAN /\ since \in [HrefSet -> 0..MaxClock]
    /\ turns \in 0..MaxTurns

(* connect: discovery has read every Time resource. *)
Init ==
    /\ clock = 1 /\ answer = [h \in HrefSet |-> "ok"] /\ known = Everyone
    /\ seen = [s \in Everyone |-> 1]
    /\ poll = NoPoll /\ due = 1 + PollTicks /\ rediscovery = FALSE
    /\ since = [h \in HrefSet |-> 1] /\ turns = 0

-----------------------------------------------------------------------------
(* Mutant: the threshold does not follow the poll's rate. *)
FixedFloor == FloorTicks

(* note_time_poll_rate, fsa_stale_seconds: three polls, and the floor. *)
StaleAfter == IF 3 * PollTicks > FloorTicks THEN 3 * PollTicks ELSE FloorTicks

Age(s) == clock - seen[s]

(* _yields_to_global. *)
YieldsToGlobal(s) ==
    seen[Global] # Never /\ Age(s) > StaleAfter /\ seen[Global] > seen[s]

(* _resolve: the scope whose observation s reads. *)
Resolve(s) == IF seen[s] = Never \/ YieldsToGlobal(s) THEN Global ELSE s

(* The scopes that read a href. *)
ScopesOf(h) == {s \in known : Href(s) = h}

(* observe, for every scope of ss. *)
Observe(ss) == [s \in DOMAIN seen |-> IF s \in ss THEN clock ELSE seen[s]]

-----------------------------------------------------------------------------
PollBegin ==
    /\ ~poll.on /\ due # Never /\ clock >= due
    /\ poll' = [NoPoll EXCEPT !.on = TRUE, !.todo = {h \in HrefSet : ScopesOf(h) # {}}]
    /\ UNCHANGED <<clock, answer, known, seen, due, rediscovery, since, turns>>

(* The poll after one href: an error is kept for the end, and only one     *)
(* that rediscovery answers is raised whatever else was refreshed          *)
(* (_is_absent_fsa_time, _needs_poll_recovery).                            *)
AfterHref(h) ==
    [poll EXCEPT !.todo = @ \ {h},
        !.recover = @ \/ answer[h] = "moved" \/ (answer[h] = "absent" /\ Global \in ScopesOf(h))]

(* The hrefs are read in their order. *)
Foremost(h) ==
    \E i \in 1..Len(Hrefs) : Hrefs[i] = h /\ \A j \in 1..(i-1) : Hrefs[j] \notin poll.todo
ReadTime(h) ==
    /\ h \in poll.todo /\ Foremost(h)
    /\ seen' = IF answer[h] = "ok" THEN Observe(ScopesOf(h)) ELSE seen
    /\ poll' = AfterHref(h)
    /\ UNCHANGED <<clock, answer, known, due, rediscovery, since, turns>>

(* A poll that met a recoverable error triggers a rediscovery in its own   *)
(* task (_poll_with_404_recovery), whose cancel_all cancels that task with *)
(* the others: it gets no further.                                         *)
PollEnd ==
    /\ poll.on /\ poll.todo = {} /\ poll' = NoPoll
    /\ due' = IF poll.recover THEN Never ELSE clock + PollTicks
    /\ UNCHANGED <<clock, answer, known, seen, rediscovery, since, turns>>

(* trigger_rediscovery, at any time: the polls are cancelled, and the      *)
(* state is cleared, unless the caller is one of them.                     *)
Trigger ==
    /\ ~rediscovery /\ turns < MaxTurns /\ turns' = turns + 1
    /\ poll' = NoPoll /\ due' = Never
    /\ \/ rediscovery' = TRUE /\ known' = {}
       \/ UNCHANGED <<known, rediscovery>>
    /\ UNCHANGED <<clock, answer, seen, since>>

(* discover finds the scopes ss the server advertises now, with the links  *)
(* that moved, and reads their Time resources.  One that does not answer   *)
(* makes it raise, as does any other request: an FSA's that is absent does *)
(* not, the global one that is advertised and absent does.  It then leaves *)
(* what it found so far, and no rate for _start_polls to schedule the Time *)
(* poll with (_set_time_poll_rate comes last).                             *)
Rediscover(ss, ok) ==
    /\ rediscovery /\ rediscovery' = FALSE
    /\ ok => \A s \in ss : answer[Href(s)] # "down" /\ (answer[Href(s)] = "absent" => s # Global)
    /\ known' = ss
    /\ LET found(h) == answer[h] = "moved" /\ \E s \in ss : Href(s) = h IN
       /\ answer' = [h \in HrefSet |-> IF found(h) THEN "ok" ELSE answer[h]]
       /\ since' = [h \in HrefSet |-> IF found(h) THEN clock ELSE since[h]]
    /\ seen' = Observe({s \in ss : answer'[Href(s)] = "ok"})
    /\ due' = IF ok /\ ss # {} THEN clock + PollTicks ELSE Never
    /\ UNCHANGED <<clock, poll, turns>>

(* _connectivity_probe: when nothing else has confirmed the connection. *)
Probe ==
    /\ Global \in known /\ answer[GlobalHref] = "ok" /\ seen' = Observe({Global})
    /\ UNCHANGED <<clock, answer, known, poll, due, rediscovery, since, turns>>

(* refresh_function_set_assignments: a withdrawn FSA is forgotten; one     *)
(* that is granted is met by the next discovery. *)
ForgetFsa(s) ==
    /\ s \in known \ {Global} /\ turns < MaxTurns /\ turns' = turns + 1
    /\ known' = known \ {s} /\ seen' = [seen EXCEPT ![s] = Never]
    /\ UNCHANGED <<clock, answer, poll, due, rediscovery, since>>

(* Time passes.  A poll that is due starts at once and ends within a tick, *)
(* as does a rediscovery. *)
Tick ==
    /\ clock < MaxClock /\ clock' = clock + 1
    /\ ~rediscovery /\ (poll.on => poll.todo # {} /\ ~poll.ticked)
    /\ ~poll.on /\ due # Never => clock < due
    /\ poll' = [poll EXCEPT !.ticked = poll.on]
    /\ UNCHANGED <<answer, known, seen, due, rediscovery, since, turns>>

(* A Time resource starts or stops answering (external). *)
Turn(h, a) ==
    /\ turns < MaxTurns /\ turns' = turns + 1
    /\ a # answer[h] /\ answer' = [answer EXCEPT ![h] = a]
    /\ since' = [since EXCEPT ![h] = IF a = "ok" THEN clock ELSE Never]
    /\ UNCHANGED <<clock, known, seen, poll, due, rediscovery>>

Next ==
    \/ PollBegin \/ PollEnd \/ Trigger \/ Probe \/ Tick
    \/ \E ss \in SUBSET Everyone, ok \in BOOLEAN : Rediscover(ss, ok)
    \/ \E s \in Scopes : ForgetFsa(s)
    \/ \E h \in HrefSet : ReadTime(h) \/ \E a \in Answers : Turn(h, a)
Spec == Init /\ [][Next]_vars

-----------------------------------------------------------------------------
(* The Time resource of s is advertised and has answered for that long. *)
Healthy(s) ==
    s \in known /\ since[Href(s)] # Never /\ clock - since[Href(s)] > StaleAfter

(* Whether the client polls Time at all: not while a rediscovery runs, nor *)
(* after one that failed or was cut short.                                 *)
Scheduled == due # Never

(* An FSA is scheduled by an offset no older than the staleness threshold  *)
(* as long as its own Time resource or the global one has answered for     *)
(* that long, whichever others are down (_resolve, _do_poll_time), while   *)
(* Time is polled.                                                         *)
OffsetCurrent ==
    Scheduled => \A s \in known \ {Global} :
        Healthy(s) \/ Healthy(Global) => Age(Resolve(s)) <= StaleAfter

(* An FSA whose own Time resource keeps answering keeps its own clock      *)
(* (IEEE 2030.5 9.2.3): neither a slow poll rate nor another FSA's dead    *)
(* endpoint makes it fall back to the global one.                          *)
OwnClockKept == Scheduled => \A s \in known \ {Global} : Healthy(s) => Resolve(s) = s

(* Not so in the code: discover, discovery.py, records an FSA's Time href  *)
(* "before the fetch that may fail", so that "an endpoint that is down     *)
(* right now is retried on the next poll".                                 *)
TimeRetried == (\E s \in known : answer[Href(s)] = "down") => Scheduled

-----------------------------------------------------------------------------
Shape ==
    /\ clock \in Nat /\ answer \in [HrefSet -> Answers] /\ known \subseteq Everyone
    /\ seen \in [Everyone -> Nat] /\ since \in [HrefSet -> Nat] /\ due \in Nat
    /\ poll \in [on : BOOLEAN, todo : SUBSET HrefSet, recover : BOOLEAN, ticked : BOOLEAN]
    /\ rediscovery \in BOOLEAN

(* A poll is one that was scheduled and a rediscovery leaves none, and the *)
(* next poll is not missed.                                                *)
InTime ==
    /\ ~poll.on => poll.todo = {}
    /\ rediscovery => ~poll.on /\ due = Never
    /\ poll.on => due # Never
    /\ ~poll.on /\ due # Never => clock <= due
    /\ due <= clock + PollTicks

Answering == \A h \in HrefSet : since[h] # Never => answer[h] = "ok"

(* At t scope s was read, or its resource h came back, at most d ago. *)
Recent(s, h, t, d) == t <= seen[s] + d \/ t <= since[h] + d

Late == IF poll.ticked THEN 1 ELSE 0

(* What a resource that answers owes its scopes at each stage: a poll      *)
(* that has yet to read it began when it was due, one that has read it is  *)
(* at most a tick old, and the next will be in time.                       *)
Renewed(s, h) ==
    /\ poll.on /\ h \in poll.todo => Recent(s, h, clock, PollTicks + 1 + Late)
    /\ poll.on /\ h \notin poll.todo => Recent(s, h, clock, Late)
    /\ ~poll.on => Recent(s, h, due, PollTicks + 1)

Owed ==
    Scheduled => \A h \in HrefSet : since[h] # Never => \A s \in ScopesOf(h) : Renewed(s, h)

(* The inductive invariant OffsetCurrent and OwnClockKept follow from. *)
IInv == Shape /\ InTime /\ Answering /\ Owed
=============================================================================
