------------------------------ MODULE Editions ------------------------------
(***************************************************************************)
(* Which edition of IEEE 2030.5 the client speaks (server_profile.py,      *)
(* schema_editions.py).  The base is configured, or read from each         *)
(* DeviceCapability and taken for 2018 until then; what the client builds  *)
(* is cut down to it when it is serialized, and the bytes may be sent      *)
(* again by a retry.                                                       *)
(*                                                                         *)
(* A body is the set of its items: fields, attributes and mode bits, each  *)
(* inside another or at the root.                                          *)
(***************************************************************************)
EXTENDS Naturals, FiniteSets

CONSTANTS
    Items,      \* item -> [in (its parent, or None), new (2023 added it), feature, required]
    Features,   \* the features a configuration may enable
    None,
    MaxReads,   \* bound: DeviceCapability reads
    MaxChanges  \* bound: servers that take another's place

Editions2030 == {2018, 2023}
All == DOMAIN Items
Root == None

VARIABLES
    server,     \* the edition the server implements
    declares,   \* its schemaVer: none, old (below 2.2), new
    configured, \* the configured base, None for auto
    features,
    base,       \* the profile's base, None until known
    known,      \* history: the base was read from this server, or is configured for it
    code,       \* the status of a Response that was built, 251 or another; 0 for none
    body,       \* None, or the items of the bytes to send
    aware,      \* history: whether the body was made knowing its server
    misfit,     \* history: a server got what its edition does not have
    reads, changes

settings == <<configured, features>>
vars == <<server, declares, settings, base, known, code, body, aware, misfit, reads, changes>>

Whole(m) == \A i \in m : Items[i].in = Root \/ Items[i].in \in m
Bodies == {m \in SUBSET All : Whole(m)}

TypeOK ==
    /\ server \in Editions2030 /\ declares \in {"none", "old", "new"}
    /\ configured \in Editions2030 \cup {None} /\ features \subseteq Features
    /\ base \in Editions2030 \cup {None} /\ known \in BOOLEAN
    /\ code \in {0, 1, 251, 252} /\ (body = None \/ body \in Bodies)
    /\ aware \in BOOLEAN /\ misfit \in BOOLEAN /\ reads \in 0..MaxReads /\ changes \in 0..MaxChanges

Init ==
    /\ server \in Editions2030 /\ declares = (IF server = 2023 THEN "new" ELSE "none")
    /\ configured \in {None, server} /\ features \in SUBSET Features
    /\ base = configured /\ known = (configured # None) /\ code = 0 /\ body = None
    /\ aware = FALSE /\ misfit = FALSE /\ reads = 0 /\ changes = 0

-----------------------------------------------------------------------------
(* base_from_schema_ver: only 2.2 or higher is 2023. *)
BaseFromSchemaVer(ver) == IF ver = "new" THEN 2023 ELSE 2018

(* Mutant: the first answer is kept for good. *)
ResolvedOnce(ver) == IF base # None THEN base ELSE BaseFromSchemaVer(ver)
(* resolve_from_device_capability, of the configured profile each time. *)
Resolve(ver) == IF configured # None THEN configured ELSE BaseFromSchemaVer(ver)

(* observe_device_capability. *)
ReadDcap ==
    /\ reads < MaxReads /\ reads' = reads + 1
    /\ base' = Resolve(declares) /\ known' = (configured \in {None, server})
    /\ UNCHANGED <<server, declares, settings, code, body, aware, misfit, changes>>

Edition == IF base = None THEN 2018 ELSE base
(* permits_item: anything 2018 has, all of it for 2023, else by a feature. *)
Permits(i) == ~Items[i].new \/ Edition = 2023 \/ Items[i].feature \in features

(* Mutant: a field is kept though what it is inside is left out. *)
RestrictFlat(m) == {i \in m : Items[i].required \/ Permits(i)}
(* restrict, _restrict, _restrict_modes2: what is not permitted goes, with *)
(* all that is inside it; a required field stays.                          *)
Restrict(m) ==
    UNION {b \in SUBSET {i \in m : Items[i].required \/ Permits(i)} : Whole(b)}

(* wire_response_code, when a Response is built. *)
WireResponseCode(c) == IF Edition = 2018 /\ c = 251 THEN 252 ELSE c

Built(m, c) ==
    /\ body' = Restrict(m) /\ code' = WireResponseCode(c) /\ aware' = known
    /\ UNCHANGED <<server, declares, settings, base, known, misfit, reads, changes>>
(* to_xml in post and put: the profile at that moment. *)
Serialize == body = None /\ \E m \in Bodies, c \in {0, 1, 251} : Built(m, c)

(* What a 2018 server takes: nothing 2023 added, except what an enabled    *)
(* feature covers and what a type requires, and no status it reserves.     *)
Fits(m, c) ==
    server = 2018 =>
        /\ m \in Bodies /\ c # 251
        /\ \A i \in m : ~Items[i].new \/ Items[i].feature \in features \/ Items[i].required

(* The bytes go out, and go out again when the answer was lost. *)
Send(again) ==
    /\ body # None
    /\ misfit' = (misfit \/ (aware /\ ~Fits(body, code)))
    /\ IF again THEN UNCHANGED <<body, code, aware>>
       ELSE body' = None /\ code' = 0 /\ aware' = FALSE
    /\ UNCHANGED <<server, declares, settings, base, known, reads, changes>>

(* Another server answers at the URL; bytes under way were made for the    *)
(* one before.                                                             *)
ServerChanges(e, d) ==
    /\ changes < MaxChanges /\ changes' = changes + 1
    /\ d \in (IF e = 2023 THEN {"new", "none"} ELSE {"old", "none"})
    /\ server' = e /\ declares' = d /\ known' = (configured = e) /\ aware' = FALSE
    /\ UNCHANGED <<settings, base, code, body, misfit, reads>>

Next ==
    \/ ReadDcap \/ Serialize \/ (\E b \in BOOLEAN : Send(b))
    \/ \E e \in Editions2030, d \in {"none", "old", "new"} : ServerChanges(e, d)
Spec == Init /\ [][Next]_vars

-----------------------------------------------------------------------------
(* A 2018 server whose DeviceCapability the client has read is sent        *)
(* nothing 2023 added unless a feature covers it, no status it reserves    *)
(* and no part of what was left out; also once it has taken the place of a *)
(* 2023 one (restrict, wire_response_code, observe_device_capability).     *)
SpeaksEdition == ~misfit

(* Its inductive strengthening: the base known of a 2018 server is 2018,   *)
(* and bytes made for the server that is there fit it.                     *)
Shape ==
    /\ server \in Editions2030 /\ configured \in Editions2030 \cup {None}
    /\ base \in Editions2030 \cup {None}
BaseRight ==
    /\ server = 2018 => declares # "new"
    /\ configured # None => base = configured
    /\ known /\ server = 2018 => Edition = 2018
IInv == Shape /\ BaseRight /\ (body # None /\ aware => Fits(body, code)) /\ SpeaksEdition
=============================================================================
