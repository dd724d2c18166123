---------------------------- MODULE ResourceTree ----------------------------
(***************************************************************************)
(* The resource tree the client keeps (client/discovery.py,                *)
(* client/state.py): each EndDevice's FunctionSetAssignments, the          *)
(* DERPrograms they name, and the mapping of programs to devices, with the *)
(* readers that keep it current: discovery, the fsa and derp polls, and    *)
(* the full re-polls of notifications and of an operator's poll_now        *)
(* (client/csip_client.py).                                                *)
(*                                                                         *)
(* A step is one list read and what is done with it before the next await. *)
(* A list that is iterated across awaits is the live one, by index, as a   *)
(* Python list is: a reader that replaces its entries moves what the       *)
(* iteration meets next.  A list is the set of its entries, each with its  *)
(* Position.  A program stands for its one event.                          *)
(***************************************************************************)
EXTENDS Naturals, FiniteSets

CONSTANTS
    Devices,    \* EndDevices
    Fsas,       \* FunctionSetAssignments
    Owner,      \* the EndDevice of each
    Position,   \* where an EndDevice or FSA stands in its list
    Programs,
    Lists,      \* the DERProgramLists the server may serve for an FSA
    Fallback,   \* the DERProgramList of DeviceCapability
    Handlers,   \* tasks of notifications and of poll_now
    MaxChanges, \* bound: changes at the server
    MaxFaults   \* bound: reads that fail

NoOrigin == "none"

ASSUME ConstantsAssumption ==
    /\ IsFiniteSet(Fsas) /\ NoOrigin \notin Fsas
    /\ "derp" \notin Handlers /\ "rediscovery" \notin Handlers
    /\ Owner \in [Fsas -> Devices] /\ Position \in [Fsas \cup Devices -> Nat]
    /\ \A f, g \in Fsas : Position[f] = Position[g] => f = g
    /\ \A d, e \in Devices : Position[d] = Position[e] => d = e
    /\ Fallback \subseteq Programs /\ Lists \subseteq SUBSET Programs
    /\ MaxChanges \in Nat /\ MaxFaults \in Nat

VARIABLES
    assigned,  \* FSAs the server lists (external)
    lists,     \* the DERProgramList of each FSA (external)
    state,     \* DiscoveredState: [fsas, origin, mapping]
    fsaPoll,   \* _do_poll_fsa: EndDevices still to read, programs of removed FSAs
    walk,      \* the tasks inside refresh_der_programs and what they have seen
    redis,     \* where trigger_rediscovery is
    previous,  \* its previous_programs
    event,     \* EventStore: the event of each program
    withdrawn, \* history: programs no FSA listed at some time
    excused,   \* history: programs whose lists were misread
    changes, faults

vars == <<assigned, lists, state, fsaPoll, walk, redis, previous, event, withdrawn, excused,
          changes, faults>>

Walkers == {"derp", "rediscovery"} \cup Handlers

(* A list's first entry, and its entry of index i, from 0. *)
First(L) == CHOOSE x \in L : \A y \in L : Position[x] <= Position[y]
Before(L, x) == {y \in L : Position[y] < Position[x]}
Entry(L, i) == CHOOSE x \in L : Cardinality(Before(L, x)) = i

(* What the server lists now. *)
Listed(d) == {f \in assigned : Owner[f] = d}
Assigned == UNION {lists[f] : f \in assigned}
Pairs == UNION {lists[f] \X {Owner[f]} : f \in assigned}

(* state.clear(). *)
Nothing == [x \in {} |-> {}]
Empty == [fsas |-> Nothing, origin |-> Nothing, mapping |-> {}]
Known == DOMAIN state.origin  \* state.der_programs
Off == [pc |-> "off", todo |-> {}, at |-> 0, own |-> Nothing, detached |-> FALSE, seen |-> {},
        unreachable |-> {}, missed |-> {}]
Quiet == [on |-> FALSE, todo |-> {}, removed |-> {}]

Partial(S, T) == UNION {[D -> T] : D \in SUBSET S}
Trees == [fsas : Partial(Devices, SUBSET Fsas), origin : Partial(Programs, Fsas \cup {NoOrigin}),
          mapping : SUBSET (Programs \X Devices)]
Walks == [pc : {"off", "walk", "controls"}, todo : SUBSET Devices, at : Nat,
          own : Partial(Devices, SUBSET Fsas), detached : BOOLEAN, seen : SUBSET Programs,
          unreachable : SUBSET Fsas, missed : SUBSET Programs]

TypeOK ==
    /\ assigned \subseteq Fsas /\ lists \in [Fsas -> SUBSET Programs]
    /\ state \in Trees
    /\ fsaPoll \in [on : BOOLEAN, todo : SUBSET Devices, removed : SUBSET Programs]
    /\ walk \in [Walkers -> Walks]
    /\ redis \in {"off", "discover", "refresh"} /\ previous \subseteq Programs
    /\ event \in [Programs -> {"none", "running", "cancelled"}]
    /\ withdrawn \subseteq Programs /\ excused \subseteq Programs
    /\ changes \in 0..MaxChanges /\ faults \in 0..MaxFaults

(* The programs an EndDevice with the FSAs fs is given, and the FSA each   *)
(* comes from, the first to name it (_discover_programs_from_pages).  A    *)
(* device without FSAs has those of DeviceCapability, of no origin.        *)
Names(fs) == IF fs = {} THEN Fallback ELSE UNION {lists[f] : f \in fs}
FirstNaming(fs, p) == IF fs = {} THEN NoOrigin ELSE First({f \in fs : p \in lists[f]})

(* A device whose FSA list reads fs and whose program lists read ps, added *)
(* to st: a program known already keeps its origin.                        *)
AddDevice(st, d, fs, ps) ==
    [fsas    |-> [x \in DOMAIN st.fsas \cup {d} |-> IF x = d THEN fs ELSE st.fsas[x]],
     origin  |-> [p \in DOMAIN st.origin \cup ps |->
                     IF p \in DOMAIN st.origin THEN st.origin[p] ELSE FirstNaming(fs, p)],
     mapping |-> st.mapping \cup (ps \X {d})]

(* The tree with every device added, in list order. *)
Tree ==
    LET first(p) == First({d \in Devices : p \in Names(Listed(d))})
    IN  [fsas    |-> [d \in Devices |-> Listed(d)],
         origin  |-> [p \in UNION {Names(Listed(d)) : d \in Devices} |->
                         FirstNaming(Listed(first(p)), p)],
         mapping |-> UNION {Names(Listed(d)) \X {d} : d \in Devices}]

(* connect: discovery has completed and every listed event is running. *)
Init ==
    /\ assigned = Fsas /\ lists \in [Fsas -> Lists]
    /\ state = Tree
    /\ fsaPoll = Quiet /\ walk = [t \in Walkers |-> Off] /\ redis = "off" /\ previous = {}
    /\ event = [p \in Programs |-> IF p \in Assigned THEN "running" ELSE "none"]
    /\ withdrawn = Programs \ Assigned /\ excused = {}
    /\ changes = 0 /\ faults = 0

-----------------------------------------------------------------------------
Fault == faults < MaxFaults /\ faults' = faults + 1
server == <<assigned, lists, withdrawn, changes>>

(* EventProcessor.cancel_program, for each of ps. *)
CancelProgram(ps) ==
    event' = [p \in Programs |-> IF p \in ps /\ event[p] = "running" THEN "cancelled" ELSE event[p]]

(* EventProcessor.process_controls, for each of ps: an event not met       *)
(* before is started; one that is recorded stays as it is.                 *)
ProcessControls(ps) ==
    event' = [p \in Programs |-> IF p \in ps /\ event[p] = "none" THEN "running" ELSE event[p]]

Without(st, ps) ==
    [st EXCEPT !.origin = [p \in DOMAIN st.origin \ ps |-> st.origin[p]],
               !.mapping = {m \in st.mapping : m[1] \notin ps}]

(* Where the walk of t stands: edev_state.fsa_list is the state's own, or  *)
(* one left behind by a clear. *)
Device(t) == First(walk[t].todo)
Held(t, fsas) == IF walk[t].detached THEN walk[t].own ELSE fsas
ListOf(t) == Held(t, state.fsas)[Device(t)]
Current(t) == Entry(ListOf(t), walk[t].at)
AtFsa(t) == walk[t].pc = "walk" /\ walk[t].todo # {} /\ walk[t].at < Cardinality(ListOf(t))

(* An FSA that the walk of t will come to, by its index, when the state    *)
(* holds the lists fsas; and the programs of those it would have come to   *)
(* and will not, once the entries of the lists it reads are replaced. *)
Ahead(t, f, fsas) ==
    LET held == Held(t, fsas)
    IN  /\ walk[t].pc = "walk" /\ Owner[f] \in walk[t].todo /\ f \in held[Owner[f]]
        /\ Owner[f] = Device(t) => Cardinality(Before(held[Owner[f]], f)) >= walk[t].at
PassedOver(fsas) ==
    UNION {lists[f] : f \in {g \in assigned : \E t \in Walkers :
                                Ahead(t, g, state.fsas) /\ ~Ahead(t, g, fsas)}}

-----------------------------------------------------------------------------
(* _do_poll_fsa: refresh_function_set_assignments, a device at a time. *)

FsaBegin ==
    /\ ~fsaPoll.on /\ redis = "off" /\ DOMAIN state.fsas # {}
    /\ fsaPoll' = [on |-> TRUE, todo |-> DOMAIN state.fsas, removed |-> {}]
    /\ UNCHANGED <<server, state, walk, redis, previous, event, excused, faults>>

(* programs_from_fsa. *)
ProgramsFrom(fs) == {p \in Known : state.origin[p] \in fs}

(* The FSA list of d is read: its entries are replaced, and the programs   *)
(* first met through an FSA that is gone are to be cancelled. *)
FsaRead(d) ==
    LET gone == state.fsas[d] \ Listed(d)
    IN  /\ d \in fsaPoll.todo
        /\ state' = [state EXCEPT !.fsas[d] = Listed(d)]
        /\ fsaPoll' = [fsaPoll EXCEPT !.todo = @ \ {d},
                                      !.removed = @ \cup ProgramsFrom(gone)]
        /\ excused' = excused \cup PassedOver([state.fsas EXCEPT ![d] = Listed(d)])
        /\ UNCHANGED <<server, walk, redis, previous, event, faults>>

(* The list stops between two pages (_paging_fault): the one held is kept. *)
FsaPagingFault(d) ==
    /\ d \in fsaPoll.todo /\ Fault
    /\ fsaPoll' = [fsaPoll EXCEPT !.todo = @ \ {d}]
    /\ UNCHANGED <<server, state, walk, redis, previous, event, excused>>

(* Any other error leaves the poll, and with it the programs collected. *)
FsaRaises ==
    /\ fsaPoll.todo # {} /\ Fault /\ fsaPoll' = Quiet
    /\ UNCHANGED <<server, state, walk, redis, previous, event, excused>>

(* The programs of removed FSAs are cancelled and dropped; the device      *)
(* mapping keeps them. *)
FsaEnd ==
    /\ fsaPoll.on /\ fsaPoll.todo = {}
    /\ CancelProgram(fsaPoll.removed)
    /\ state' = [state EXCEPT !.origin = [p \in Known \ fsaPoll.removed |-> @[p]]]
    /\ fsaPoll' = Quiet
    /\ UNCHANGED <<server, walk, redis, previous, excused, faults>>

-----------------------------------------------------------------------------
(* refresh_der_programs, for the derp poll, a full re-poll and the         *)
(* rediscovery.                                                            *)

(* A refresh sets out for the EndDevices in the tree.  The programs listed *)
(* by no FSA the tree holds it will not meet.                              *)
SetOut(fsas) ==
    [Off EXCEPT !.pc = "walk", !.todo = DOMAIN fsas,
        !.missed = Assigned \ UNION {lists[f] : f \in {g \in assigned :
                                         Owner[g] \in DOMAIN fsas /\ g \in fsas[Owner[g]]}}]

(* _do_poll_derp starts.  A rediscovery stops the derp poll, and a         *)
(* notification looks whether one is running before it fetches its         *)
(* program, not when that has failed and it polls them all; poll_now does  *)
(* not look.  Without EndDevices there is nothing to prune.                *)
WalkBegin(t) ==
    /\ walk[t].pc = "off" /\ DOMAIN state.fsas # {}
    /\ t \in Handlers \/ (t = "derp" /\ redis = "off")
    /\ walk' = [walk EXCEPT ![t] = SetOut(state.fsas)]
    /\ UNCHANGED <<server, state, fsaPoll, redis, previous, event, excused, faults>>

(* Mutant: only a program that is new is mapped to the device. *)
MapsNewOnly(t, ps) ==
    [state EXCEPT !.origin = [p \in Known \cup ps |-> IF p \in Known THEN @[p] ELSE Current(t)],
                  !.mapping = @ \cup ((ps \ Known) \X {Device(t)})]

(* The listed programs are mapped to the device; those not known are       *)
(* discovered, with this FSA as their origin (_discover_program). *)
MapPrograms(t, ps) ==
    [state EXCEPT !.origin = [p \in Known \cup ps |-> IF p \in Known THEN @[p] ELSE Current(t)],
                  !.mapping = @ \cup (ps \X {Device(t)})]

(* The DERProgramList is read.  get_list turns a 404 or 204 on the first   *)
(* page into an empty list, which is what a withdrawn FSA's list gives. *)
ListRead(t) ==
    LET ps == IF Current(t) \in assigned THEN lists[Current(t)] ELSE {} IN
    /\ AtFsa(t)
    /\ walk' = [walk EXCEPT ![t].at = @ + 1, ![t].seen = @ \cup ps]
    /\ state' = MapPrograms(t, ps)
    /\ UNCHANGED <<server, fsaPoll, redis, previous, event, excused, faults>>

(* The server answers 404 for a list it will serve again. *)
ListAbsent(t) ==
    /\ AtFsa(t) /\ Fault
    /\ walk' = [walk EXCEPT ![t].at = @ + 1]
    /\ excused' = excused \cup lists[Current(t)]
    /\ UNCHANGED <<server, state, fsaPoll, redis, previous, event>>

(* Mutant: a list that stops between pages is passed over. *)
PagingIgnored(t) ==
    /\ AtFsa(t) /\ Fault
    /\ walk' = [walk EXCEPT ![t].at = @ + 1]
    /\ UNCHANGED <<server, state, fsaPoll, redis, previous, event, excused>>

(* The list stops between pages: its programs cannot be verified. *)
ListPagingFault(t) ==
    /\ AtFsa(t) /\ Fault
    /\ walk' = [walk EXCEPT ![t].at = @ + 1, ![t].unreachable = @ \cup {Current(t)}]
    /\ UNCHANGED <<server, state, fsaPoll, redis, previous, event, excused>>

(* A rediscovery ends with its refresh. *)
EndsWith(t) ==
    IF t = "rediscovery" THEN redis' = "off" /\ previous' = {} ELSE UNCHANGED <<redis, previous>>

(* Any other error ends the refresh before it prunes; a rediscovery ends   *)
(* with it and starts the polls again. *)
ListRaises(t) ==
    /\ AtFsa(t) /\ Fault
    /\ walk' = [walk EXCEPT ![t] = Off]
    /\ EndsWith(t)
    /\ UNCHANGED <<server, state, fsaPoll, event, excused>>

NextDevice(t) ==
    /\ walk[t].pc = "walk" /\ walk[t].todo # {} /\ ~AtFsa(t)
    /\ walk' = [walk EXCEPT ![t].todo = @ \ {Device(t)}, ![t].at = 0]
    /\ UNCHANGED <<server, state, fsaPoll, redis, previous, event, excused, faults>>

(* Programs no list named are dropped, unless they came from an FSA whose  *)
(* list could not be read, and their events cancelled.  A rediscovery also *)
(* cancels the programs it knew before and has not found. *)
Prune(t) ==
    LET stale == {p \in Known \ walk[t].seen : state.origin[p] \notin walk[t].unreachable}
        lost == IF t = "rediscovery" THEN previous \ (Known \ stale) ELSE {}
    IN  /\ walk[t].pc = "walk" /\ walk[t].todo = {}
        /\ state' = Without(state, stale)
        /\ CancelProgram(stale \cup lost)
        /\ walk' = [walk EXCEPT ![t] = [Off EXCEPT !.pc = "controls"]]
        /\ excused' = excused \cup ((stale \cup lost) \cap
               (walk[t].missed \cup UNION {lists[f] : f \in walk[t].unreachable}))
        /\ UNCHANGED <<server, fsaPoll, redis, previous, faults>>

(* refresh_der_controls, and process_controls for every program. *)
Controls(t) ==
    /\ walk[t].pc = "controls"
    /\ ProcessControls(Known)
    /\ walk' = [walk EXCEPT ![t] = Off]
    /\ EndsWith(t)
    /\ UNCHANGED <<server, state, fsaPoll, excused, faults>>

-----------------------------------------------------------------------------
(* trigger_rediscovery: the polls are cancelled and the state cleared.  A  *)
(* re-poll under way goes on with the lists it was walking. *)
Rediscover ==
    /\ redis = "off"
    /\ redis' = "discover" /\ previous' = Known /\ state' = Empty /\ fsaPoll' = Quiet
    /\ walk' = [t \in Walkers |->
           IF t = "derp" THEN Off
           ELSE IF walk[t].pc = "walk" /\ ~walk[t].detached
                THEN [walk[t] EXCEPT !.detached = TRUE, !.own = state.fsas] ELSE walk[t]]
    /\ UNCHANGED <<server, event, excused, faults>>

Undiscovered == Devices \ DOMAIN state.fsas

(* discover walks the next EndDevice. *)
DiscoverDevice ==
    /\ redis = "discover" /\ Undiscovered # {}
    /\ LET d == First(Undiscovered) IN state' = AddDevice(state, d, Listed(d), Names(Listed(d)))
    /\ UNCHANGED <<server, fsaPoll, walk, redis, previous, event, excused, faults>>

(* The EndDevice's FSA list, or all its program lists, stop between two    *)
(* pages: they are skipped. *)
DiscoverPagingFault ==
    /\ redis = "discover" /\ Undiscovered # {} /\ Fault
    /\ LET d == First(Undiscovered) IN
       \/ state' = AddDevice(state, d, {}, Fallback)
       \/ state' = AddDevice(state, d, Listed(d), {})
    /\ UNCHANGED <<server, fsaPoll, walk, redis, previous, event, excused>>

(* discover raises: the state stays as far as it got, the polls start. *)
DiscoverRaises ==
    /\ redis = "discover" /\ Fault /\ redis' = "off" /\ previous' = {}
    /\ UNCHANGED <<server, state, fsaPoll, walk, event, excused>>

(* discover is done: the FSA lists are read once more and the programs     *)
(* walked. *)
Discovered ==
    LET read == [d \in Devices |-> Listed(d)] IN
    /\ redis = "discover" /\ DOMAIN state.fsas = Devices
    /\ redis' = "refresh"
    /\ state' = [state EXCEPT !.fsas = read]
    /\ walk' = [walk EXCEPT !["rediscovery"] = SetOut(read)]
    /\ excused' = excused \cup PassedOver(read)
    /\ UNCHANGED <<server, fsaPoll, previous, event, faults>>

-----------------------------------------------------------------------------
(* The programs an FSA ceases to name while another one does. *)
Moved == {p \in UNION {lists'[f] : f \in assigned'} :
            \E f \in assigned : p \in lists[f] /\ ~(f \in assigned' /\ p \in lists'[f])}

(* The server withdraws or grants an FSA, or changes its program list. *)
ServerChange ==
    /\ changes < MaxChanges /\ changes' = changes + 1
    /\ \/ \E f \in Fsas :
             assigned' = (assigned \ {f}) \cup ({f} \ assigned) /\ UNCHANGED lists
       \/ \E f \in Fsas, ps \in Lists : lists' = [lists EXCEPT ![f] = ps] /\ UNCHANGED assigned
    /\ withdrawn' = withdrawn \cup (Programs \ UNION {lists'[f] : f \in assigned'})
    /\ excused' = excused \cup Moved
    /\ UNCHANGED <<state, fsaPoll, walk, redis, previous, event, faults>>

FsaStep == FsaBegin \/ FsaEnd \/ (\E d \in Devices : FsaRead(d) \/ FsaPagingFault(d)) \/ FsaRaises
WalkStep(t) ==
    \/ ListRead(t) \/ ListAbsent(t) \/ ListPagingFault(t) \/ ListRaises(t)
    \/ NextDevice(t) \/ Prune(t) \/ Controls(t)
DiscoveryStep == DiscoverDevice \/ DiscoverPagingFault \/ DiscoverRaises \/ Discovered

Next ==
    \/ FsaStep \/ DiscoveryStep \/ Rediscover \/ ServerChange
    \/ \E t \in Walkers : WalkBegin(t) \/ WalkStep(t)

(* The polls recur at their rates and every read ends by its timeout.      *)
(* Nothing makes a rediscovery or a notification happen. *)
Fairness ==
    /\ WF_vars(FsaStep) /\ WF_vars(DiscoveryStep)
    /\ WF_vars(WalkBegin("derp")) /\ \A t \in Walkers : WF_vars(WalkStep(t))
Spec == Init /\ [][Next]_vars /\ Fairness

-----------------------------------------------------------------------------
(* An event is cancelled with its program only if the server did not list  *)
(* the program at some time since it started, also when lists cannot be    *)
(* read and whichever readers overlap (refresh_der_programs,               *)
(* refresh_function_set_assignments, trigger_rediscovery) - but for the    *)
(* programs of five misreadings, `excused`: one that moves between FSAs,   *)
(* whose lists are read one after the other; those of a list answered 404; *)
(* those of a list that stopped between pages and is not the one they were *)
(* first met through; those of an FSA that a shrinking list moves behind   *)
(* the refresh that walks it; and those that no FSA in the tree listed     *)
(* when a refresh set out, in the middle of a discovery or after one that  *)
(* failed.                                                                 *)
CancelledOnlyIfWithdrawn ==
    \A p \in Programs : event[p] = "cancelled" => p \in withdrawn \cup excused

(* discovery.py, refresh_der_programs: "Prunes programs that are no longer *)
(* present in any FSA's DER program list.  Programs from FSAs whose DERP   *)
(* list returned 404 are preserved". *)
AbsentListPreserves == \A p \in Programs : event[p] = "cancelled" => p \in withdrawn

(* Once the server stays as it is, every program an FSA assigns to a       *)
(* device comes to be known and mapped to it, and again after whatever     *)
(* undoes it (DeviceMapping.add, refresh_der_programs) - unless a failed   *)
(* discovery has left the state without the device.                        *)
AssignmentsReach ==
    []<>(DOMAIN state.fsas # Devices \/ (Pairs \subseteq state.mapping /\ Assigned \subseteq Known))
=============================================================================
