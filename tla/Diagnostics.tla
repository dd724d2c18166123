---------------------------- MODULE Diagnostics ----------------------------
(***************************************************************************)
(* What the operator is shown: DiagnosticsStore (diagnostics.py), a        *)
(* bounded list per level with one entry per key, and a condition that     *)
(* clears itself, a device without a connector, which the dispatcher       *)
(* reports once and remembers on its own (_resolve_connector_by_lfdi).     *)
(* Other conditions are reported each time they are met.                   *)
(***************************************************************************)
EXTENDS Naturals, Sequences, FiniteSets, SequencesExt

CONSTANTS
    Devices, Others, \* the keys: no_connector of a device, and other conditions
    None,            \* no key
    MaxEntries,      \* max_entries
    MaxReports       \* bound: reports, dismissals and changes of configuration

Levels == {"errors", "warnings"}

VARIABLES
    entries,   \* level -> its DiagnosticEntry records, oldest first
    nextId,
    missing,   \* _missing_connector_reported
    connected, \* the devices the registry has a connector for
    removed,   \* history: devices whose entry the operator or the bound took away
    refired,   \* history: of those, met without a connector since
    steps

vars == <<entries, nextId, missing, connected, removed, refired, steps>>

Entry(k, id) == [key |-> k, id |-> id, count |-> 1]

TypeOK ==
    /\ \A l \in Levels : /\ Len(entries[l]) <= MaxEntries
                         /\ \A i \in DOMAIN entries[l] : entries[l][i].key \in Devices \cup Others \cup {None}
    /\ missing \subseteq Devices /\ connected \subseteq Devices
    /\ removed \subseteq Devices /\ refired \subseteq Devices /\ steps \in 0..MaxReports

Init ==
    /\ entries = [l \in Levels |-> <<>>] /\ nextId = 1 /\ missing = {} /\ connected \in SUBSET Devices
    /\ removed = {} /\ refired = {} /\ steps = 0

-----------------------------------------------------------------------------
KeyAt(l, k) == {i \in DOMAIN entries[l] : entries[l][i].key = k}
Keys(q) == {q[i].key : i \in DOMAIN q}
Gone(q, r) == {d \in Devices : d \in Keys(q) /\ d \notin Keys(r)}

(* Mutant: each report makes an entry. *)
Appended(l, k) == Append(entries[l], Entry(k, nextId))
(* add: an entry with the key counts up where it stands; a new one goes to *)
(* the end, and the deque drops its oldest when full.                      *)
Added(l, k) ==
    IF k # None /\ KeyAt(l, k) # {}
    THEN [i \in DOMAIN entries[l] |-> IF i \in KeyAt(l, k) THEN [entries[l][i] EXCEPT !.count = @ + 1]
                                      ELSE entries[l][i]]
    ELSE LET q == Append(entries[l], Entry(k, nextId)) IN
         IF Len(q) > MaxEntries THEN Tail(q) ELSE q
Report(l, k) ==
    /\ entries' = [entries EXCEPT ![l] = Added(l, k)] /\ nextId' = nextId + 1

(* Mutant: the entry stays until the operator dismisses it. *)
LeftStanding(k) == entries
(* resolve_dedup: of the first level that has the key. *)
ResolveDedup(k) ==
    LET l == IF KeyAt("errors", k) # {} THEN "errors" ELSE "warnings" IN
    [entries EXCEPT ![l] = SelectSeq(@, LAMBDA e : e.key # k)]

Counts == steps < MaxReports /\ steps' = steps + 1

(* A condition that is reported whenever it is met. *)
Condition(l, k) ==
    /\ Counts /\ Report(l, k)
    /\ removed' = removed \cup Gone(entries[l], Added(l, k))
    /\ UNCHANGED <<missing, connected, refired>>

(* _resolve_connector_by_lfdi. *)
Dispatch(d) ==
    /\ Counts
    /\ IF d \in connected
       THEN /\ missing' = missing \ {d}
            /\ entries' = IF d \in missing THEN ResolveDedup(d) ELSE entries
            /\ removed' = removed \ {d} /\ refired' = refired \ {d} /\ UNCHANGED nextId
       ELSE IF d \in missing
       THEN /\ refired' = IF d \in removed THEN refired \cup {d} ELSE refired
            /\ UNCHANGED <<entries, nextId, missing, removed>>
       ELSE /\ missing' = missing \cup {d} /\ Report("warnings", d)
            /\ removed' = removed \cup Gone(entries["warnings"], Added("warnings", d))
            /\ UNCHANGED refired
    /\ UNCHANGED connected

(* The operator: dismiss one entry, clear_level, or give a device its      *)
(* connector or take it away.                                              *)
Dismiss(l, i) ==
    /\ Counts /\ i \in DOMAIN entries[l]
    /\ entries' = [entries EXCEPT ![l] = RemoveAt(@, i)]
    /\ removed' = removed \cup Gone(entries[l], RemoveAt(entries[l], i))
    /\ UNCHANGED <<nextId, missing, connected, refired>>
ClearLevel(l) ==
    /\ Counts /\ entries' = [entries EXCEPT ![l] = <<>>] /\ removed' = removed \cup Gone(entries[l], <<>>)
    /\ UNCHANGED <<nextId, missing, connected, refired>>
Configure(d) ==
    /\ Counts /\ connected' = IF d \in connected THEN connected \ {d} ELSE connected \cup {d}
    /\ UNCHANGED <<entries, nextId, missing, removed, refired>>

Next == \/ \E l \in Levels, k \in Others \cup {None} : Condition(l, k)
        \/ \E d \in Devices : Dispatch(d) \/ Configure(d)
        \/ \E l \in Levels : ClearLevel(l) \/ \E i \in 1..MaxEntries : Dismiss(l, i)
Spec == Init /\ [][Next]_vars

-----------------------------------------------------------------------------
(* The two memories agree: a device stands in the list just when the       *)
(* dispatcher has reported it and nobody took the entry away, so a warning *)
(* neither lingers after its device was served nor is missing; and a key   *)
(* has one entry at a level (add, resolve_dedup,                           *)
(* _resolve_connector_by_lfdi).                                            *)
ListTrue ==
    /\ \A d \in Devices : d \in missing <=> (d \in Keys(entries["warnings"]) \/ d \in removed)
    /\ \A l \in Levels : \A i, j \in DOMAIN entries[l] :
           entries[l][i].id = entries[l][j].id \/ (entries[l][i].key # None /\ entries[l][i].key = entries[l][j].key)
               => i = j

(* dismiss's docstring: "if the underlying condition re-fires, the next    *)
(* add() call (with the same dedup_key) will create a fresh entry".        *)
DismissedComesBack == \A d \in refired : d \in Keys(entries["warnings"])
=============================================================================
