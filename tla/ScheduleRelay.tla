---------------------------- MODULE ScheduleRelay ----------------------------
(***************************************************************************)
(* The informational relay of a control to the connectors of the devices   *)
(* it affects: EventProcessor._relay_control_event and _emit_relay, which  *)
(* send a poll's "updated" only when the content changed, and              *)
(* ConnectorDispatcher.relay_schedule_notification, a task of its own that *)
(* resolves the connectors and notifies each relay group once.  The event  *)
(* loop runs what is ready in turn; a connector not yet constructed holds  *)
(* up its task.                                                            *)
(***************************************************************************)
EXTENDS Naturals, Sequences, FiniteSets

CONSTANTS
    Lfdis,       \* the local devices, in the order of affected_lfdis
    GroupOf,     \* device -> its connector's relay_group
    Scopes,      \* the affected_lfdis there can be
    None,
    MaxChanges,  \* bound: edits, changes of scope and of state
    MaxPolls,    \* bound: polls
    MaxFails     \* bound: notifications and constructions that raise

Groups == {GroupOf[l] : l \in {Lfdis[i] : i \in DOMAIN Lfdis}}
Streams == {"control", "doe"}

VARIABLES
    content,   \* the control: its setpoint, its envelope (0: none), its state and scope
    snapshots, \* _relay_snapshots: stream -> the content last sent
    ready,     \* the tasks that can run: [stream, note, todo, targets, to]
    waiting,   \* those that wait for a connector, in order
    built,     \* devices whose connector is constructed
    got,       \* group, stream -> the note it was last given
    missed,    \* history: groups a relay failed for
    overtaken, \* history: a relay ran while an earlier one waited
    lastSent,  \* history: stream -> the note last sent
    repeated,  \* history: a poll sent that again
    changes, polls, fails

sent == <<lastSent, repeated>>
vars == <<content, snapshots, ready, waiting, built, got, missed, overtaken, sent, changes, polls, fails>>

(* ScheduleNotification, for one stream: the scope and what _emit_relay's  *)
(* content_sig compares.                                                   *)
Note(c, s) == [scope |-> c.scope, state |-> c.state, envelope |-> c.envelope,
               setpoint |-> IF s = "control" THEN c.setpoint ELSE 0]

TypeOK ==
    /\ content.scope \in Scopes /\ content.setpoint \in 0..MaxChanges /\ content.envelope \in 0..MaxChanges + 1
    /\ \A s \in Streams : snapshots[s] = None \/ snapshots[s].scope \in Scopes
    /\ \A i \in DOMAIN ready : ready[i].stream \in Streams /\ ready[i].targets \subseteq Groups
    /\ built \subseteq {Lfdis[i] : i \in DOMAIN Lfdis} /\ missed \subseteq Groups
    /\ overtaken \in BOOLEAN /\ repeated \in BOOLEAN

Init ==
    /\ content \in [scope : Scopes, state : {"scheduled"}, setpoint : {0}, envelope : {0, 1}]
    /\ snapshots = [s \in Streams |-> None] /\ ready = <<>> /\ waiting = <<>>
    /\ built \in SUBSET {Lfdis[i] : i \in DOMAIN Lfdis}
    /\ got = [g \in Groups, s \in Streams |-> None] /\ missed = {} /\ overtaken = FALSE
    /\ lastSent = snapshots /\ repeated = FALSE /\ changes = 0 /\ polls = 0 /\ fails = 0

-----------------------------------------------------------------------------
Relay(s) == [stream |-> s, note |-> Note(content', s), targets |-> {}, to |-> None,
             todo |-> SelectSeq(Lfdis, LAMBDA l : l \in content'.scope)]

(* Mutant: the scope is no part of the content. *)
SameButScope(s) == snapshots[s] # None /\ [snapshots[s] EXCEPT !.scope = content'.scope] = Note(content', s)
(* _emit_relay: nothing new since the last one. *)
Unchanged(s) == snapshots[s] = Note(content', s)

(* Mutant: only an update is recorded. *)
RecordsUpdates(out, dedup) ==
    snapshots' = [s \in Streams |-> IF s \in out /\ dedup THEN Note(content', s) ELSE snapshots[s]]
Record(out, dedup) ==
    snapshots' = [s \in Streams |-> IF s \in out THEN Note(content', s) ELSE snapshots[s]]

(* _relay_control_event: the control, and its envelope when it has one.    *)
Emit(dedup) ==
    LET due == {"control"} \cup (IF content'.envelope > 0 THEN {"doe"} ELSE {})
        out == IF dedup THEN {s \in due : ~Unchanged(s)} ELSE due
        of(s) == IF s \in out THEN <<Relay(s)>> ELSE <<>>
    IN  /\ Record(out, dedup)
        /\ ready' = ready \o of("control") \o of("doe")
        /\ lastSent' = [s \in Streams |-> IF s \in out THEN Note(content', s) ELSE lastSent[s]]
        /\ repeated' = (repeated \/ (dedup /\ \E s \in out : lastSent[s] = Note(content', s)))
        /\ UNCHANGED <<waiting, built, got, missed, overtaken>>

(* A poll of a control the store knows: what the server now has of it. *)
Poll(c) ==
    /\ polls < MaxPolls /\ polls' = polls + 1 /\ content' = c
    /\ c = content \/ changes < MaxChanges
    /\ changes' = IF c = content THEN changes ELSE changes + 1
    /\ Emit(TRUE) /\ UNCHANGED fails

(* A transition of the event, which always goes out. *)
Transition ==
    /\ content.state = "scheduled" /\ content' = [content EXCEPT !.state = "active"]
    /\ Emit(FALSE) /\ UNCHANGED <<changes, polls, fails>>

(* relay_schedule_notification, up to the first connector that is not      *)
(* constructed, or to the notifications of its groups.                     *)
Run ==
    LET t == Head(ready)
        stop == {i \in DOMAIN t.todo : t.todo[i] \notin built}
        upto == IF stop = {} THEN Len(t.todo) ELSE (CHOOSE i \in stop : \A j \in stop : i <= j) - 1
        found == t.targets \cup {GroupOf[t.todo[i]] : i \in 1..upto}
        after == [t EXCEPT !.targets = found, !.todo = SubSeq(@, upto + 1, Len(@))]
        call(g) == IF g \in found THEN <<[t EXCEPT !.to = g]>> ELSE <<>>
        calls == LET From[i \in 0..Len(Lfdis)] ==  \* one call per group, in order
                         IF i = 0 THEN <<>>
                         ELSE IF \E j \in 1..(i-1) : GroupOf[Lfdis[j]] = GroupOf[Lfdis[i]] THEN From[i-1]
                         ELSE From[i-1] \o call(GroupOf[Lfdis[i]])
                 IN From[Len(Lfdis)]
    IN  /\ ready # <<>> /\ t.to = None
        /\ IF stop = {} THEN ready' = Tail(ready) \o calls /\ UNCHANGED waiting
           ELSE ready' = Tail(ready) /\ waiting' = Append(waiting, after)
        /\ overtaken' = (overtaken \/ waiting # <<>>)
        /\ UNCHANGED <<content, snapshots, built, got, missed, sent, changes, polls, fails>>

(* The connector is constructed, or refuses for good: its waiters go on. *)
Construct(l, ok) ==
    LET mine(t) == Head(t.todo) = l
        go == SelectSeq(waiting, mine)
        next(t) == IF ok THEN t ELSE [t EXCEPT !.todo = Tail(@)]
    IN  /\ go # <<>>
        /\ built' = IF ok THEN built \cup {l} ELSE built
        /\ ready' = ready \o [i \in DOMAIN go |-> next(go[i])]
        /\ waiting' = SelectSeq(waiting, LAMBDA t : ~mine(t))
        /\ overtaken' = (overtaken \/ ready # <<>>)
        /\ IF ok THEN UNCHANGED <<fails, missed>>
           ELSE fails < MaxFails /\ fails' = fails + 1 /\ missed' = missed \cup {GroupOf[l]}
        /\ UNCHANGED <<content, snapshots, got, sent, changes, polls>>

(* _notify_one: what it raises stays with that connector. *)
Notify(ok) ==
    LET t == Head(ready) IN
    /\ ready # <<>> /\ t.to # None /\ ready' = Tail(ready)
    /\ IF ok THEN got' = [got EXCEPT ![<<t.to, t.stream>>] = t.note] /\ UNCHANGED <<fails, missed>>
       ELSE fails < MaxFails /\ fails' = fails + 1 /\ missed' = missed \cup {t.to} /\ UNCHANGED got
    /\ UNCHANGED <<content, snapshots, waiting, built, overtaken, sent, changes, polls>>

Next ==
    \/ Transition \/ Run
    \/ \E s \in Scopes : Poll([content EXCEPT !.scope = s])
    \/ Poll([content EXCEPT !.setpoint = changes + 1]) \/ Poll([content EXCEPT !.envelope = changes + 2])
    \/ Poll([content EXCEPT !.envelope = 0])
    \/ \E ok \in BOOLEAN : Notify(ok) \/ \E i \in DOMAIN Lfdis : Construct(Lfdis[i], ok)
Spec == Init /\ [][Next]_vars

-----------------------------------------------------------------------------
(* When the relays of the polls so far have run out, every connector in    *)
(* the control's scope has the control as the last poll had it, and the    *)
(* envelope of its own stream if there is one.  Not a connector a      *)
(* relay failed for (the content counts as sent), nor where one connector  *)
(* was constructed while later relays ran.  And a poll sends nothing twice *)
(* over (_emit_relay, relay_schedule_notification).                        *)
Settled == ready = <<>> /\ waiting = <<>> /\ lastSent["control"] # None
InformedOf(s) == \A l \in content.scope : GroupOf[l] \notin missed => got[GroupOf[l], s] = Note(content, s)
Informed ==
    /\ Settled /\ ~overtaken => /\ InformedOf("control")
                                /\ content.envelope > 0 => InformedOf("doe")
    /\ ~repeated

(* relay_schedule_notification's docstring: "one slow connector can't      *)
(* delay delivery to the others".                                          *)
InformedInOrder == Settled => InformedOf("control")
=============================================================================
