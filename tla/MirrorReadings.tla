--------------------------- MODULE MirrorReadings ---------------------------
(***************************************************************************)
(* How a device's readings become MirrorMeterReadings (telemetry/mup.py):  *)
(* the mRID each is posted under, the ReadingType it is registered with,   *)
(* and the value.  A ReadingType never changes under an mRID, while a poll *)
(* may lack any reading and a value may change its sign.                   *)
(*                                                                         *)
(* Values are in tenths of the unit.  Every reading leaves flowDirection   *)
(* and multiplier to the library.                                          *)
(***************************************************************************)
EXTENDS Integers, Sequences, FiniteSets

CONSTANTS
    Devices,  \* the devices considered: sequences of [uom, phase], in the connector's order
    Values,   \* bound: what a reading may show
    None

Profiles ==
    [profile : {"default"}, direction : {"default", "net", "split"}, role : {"der"}, declares : {FALSE}]
    \cup [profile : {"load"}, direction : {"default"}, role : {"der", "site"}, declares : {FALSE}]
    \cup [profile : {"reported"}, direction : {"default"}, role : {"der"}, declares : BOOLEAN]

VARIABLES
    device, config,
    registered, \* mRID -> the ReadingType's flow and phase, after the last MUP POST
    posted,     \* the readings of the last list: measurement, raw value, mRID, value
    meaning     \* history: what each mRID was posted for, since the wiring is known

vars == <<device, config, registered, posted, meaning>>

Measurements == 1..Len(device)
TypeOK ==
    /\ device \in Devices /\ config \in Profiles
    /\ \A r \in DOMAIN registered : registered[r].flow \in {"forward", "reverse", "net", "none"}
    /\ \A p \in posted : p.m \in Measurements /\ p.mrid \in DOMAIN registered
    /\ DOMAIN meaning \subseteq DOMAIN registered

Init ==
    /\ device \in Devices /\ config \in Profiles
    /\ registered = [r \in {} |-> None] /\ posted = {} /\ meaning = [r \in {} |-> None]

-----------------------------------------------------------------------------
(* _LINE_OF_PHASE, _LINE_2_3_PHASES, _MULTI_PHASE_TOTAL_PHASES. *)
Line(phase) == CASE phase = 128 -> 1 [] phase = 64 -> 2 [] phase = 32 -> 3 [] OTHER -> 0
TotalUoms == {"W", "var"}
Multi(uom, phase) == phase \in {64, 32} \/ (phase \in {132, 224} /\ uom \in TotalUoms)

SlotMrid(n) == [slot |-> n, of |-> None]
SlotOfLine1 == SlotMrid(10)

(* Mutant: the poll alone tells the wiring. *)
MultiByPoll(ms, reg) == \E m \in ms : Multi(device[m].uom, device[m].phase)
(* _is_multi_phase: the poll shows it, or what is registered does. *)
IsMultiPhase(ms, reg) ==
    \/ \E m \in ms : Multi(device[m].uom, device[m].phase)
    \/ SlotOfLine1 \in DOMAIN reg
    \/ \E r \in DOMAIN reg : Multi(reg[r].uom, reg[r].phase)

(* The slot tables: _system_entries and _per_line_entries, by profile.     *)
TotalPhases(multi) ==
    IF config.profile # "load" THEN {0} ELSE IF multi THEN {0, 132, 224} ELSE {0, 128, 132, 224}
Slot(m, multi) ==
    LET uom == device[m].uom  phase == device[m].phase
        total == IF uom \in TotalUoms THEN phase \in TotalPhases(multi) ELSE phase = 0
        base == IF total THEN CASE uom = "W" -> 1 [] uom = "var" -> 2 [] OTHER -> 5
                ELSE 10 + 6 * (Line(phase) - 1)
                     + (CASE uom = "W" -> 0 [] uom = "var" -> 1 [] OTHER -> 3)
        offset == IF config.profile = "reported" THEN 70 ELSE 0
    IN IF total \/ Line(phase) > 0 THEN base + offset ELSE None

(* _line_of: a reading in a slot takes the line of its slot. *)
LineOf(m, multi) ==
    LET s == Slot(m, multi) IN
    IF s = None THEN Line(device[m].phase)
    ELSE LET n == IF config.profile = "reported" THEN s - 70 ELSE s
         IN IF n \in 10..27 THEN (n - 10) \div 6 + 1 ELSE 0

(* PowerDirection: the variants a reading is posted in. *)
Directed(m) == config.direction # "default" /\ device[m].uom \in TotalUoms
Flows(m) ==
    IF ~Directed(m) THEN {None}
    ELSE IF config.direction = "net" THEN {"net"} ELSE {"forward", "reverse"}

(* _legacy_slot, _create_mrid, _hashed_mrid.  The profile salts a hash. *)
Mrid(m, flow, multi) ==
    LET s == Slot(m, multi)
        first == CASE flow = "net" -> 31 [] flow = "forward" -> 41 [] OTHER -> 51
        offset == CASE s = 1 -> 0 [] s = 2 -> 1 [] s = 10 -> 2 [] s = 11 -> 3
                    [] s = 16 -> 4 [] s = 17 -> 5 [] s = 22 -> 6 [] OTHER -> 7
    IN IF s = None THEN [slot |-> None, of |-> <<config.profile, device[m].uom, device[m].phase, flow>>]
       ELSE SlotMrid(IF flow = None THEN s ELSE first + offset)

(* _posted_readings: each mRID once, for the first reading that has it. *)
PostedReadings(ms, multi) ==
    {p \in {[m |-> m, flow |-> f, mrid |-> Mrid(m, f, multi)] : m \in ms, f \in {None, "net", "forward", "reverse"}} :
        /\ p.flow \in Flows(p.m)
        /\ \A o \in ms : o < p.m => \A f \in Flows(o) : Mrid(o, f, multi) # p.mrid}

-----------------------------------------------------------------------------
Abs(x) == IF x < 0 THEN -x ELSE x
Signed(x, a) == IF x < 0 THEN -a ELSE a
(* The scale of a unit's default multiplier: 0 for W and var, -3 for PF. *)
Scale(uom, x) == IF uom = "PF" THEN x * 1000 ELSE x
ScaleTruncated(uom, x) == Signed(x, Abs(Scale(uom, x)) \div 10)
ScaleHalfAway(uom, x) == Signed(x, (Abs(Scale(uom, x)) + 5) \div 10)

(* _registration_flow under the default profile, the stated one otherwise. *)
RegistrationFlow(p, x) ==
    CASE p.flow # None -> p.flow
      [] config.profile # "default" -> "none"
      [] OTHER -> IF ScaleTruncated(device[p.m].uom, x) < 0 THEN "reverse" ELSE "forward"

(* plan_registration keeps every type that is registered. *)
Keep(reg, fresh) == [r \in (DOMAIN reg \cup DOMAIN fresh) |->
                        IF r \in DOMAIN reg THEN reg[r] ELSE fresh[r]]
(* With declared_readings, a placeholder of 0 for each that is missing. *)
PlanRegistration(raw) ==
    LET ms == IF config.declares THEN Measurements ELSE DOMAIN raw
        ps == PostedReadings(ms, IsMultiPhase(ms, registered))
        Of(r) == CHOOSE p \in ps : p.mrid = r
        Raw(m) == IF m \in DOMAIN raw THEN raw[m] ELSE 0
    IN Keep(registered, [r \in {p.mrid : p \in ps} |->
                [flow |-> RegistrationFlow(Of(r), Raw(Of(r).m)),
                 uom |-> device[Of(r).m].uom, phase |-> device[Of(r).m].phase]])

(* _default_value: a magnitude, signed under Net, split by direction. *)
DefaultValue(p, x) ==
    LET v == ScaleTruncated(device[p.m].uom, x) IN
    CASE p.flow = "net" -> v
      [] p.flow = "forward" -> IF v > 0 THEN v ELSE 0
      [] p.flow = "reverse" -> IF v < 0 THEN -v ELSE 0
      [] OTHER -> Abs(v)
(* Mutant: the role does not matter to the sign. *)
ByAnyRole(v) == -v
(* The load convention: what a DER delivers is negative, import positive. *)
ByRole(v) == IF config.role = "site" THEN v ELSE -v
(* _signed_load_value: PF takes the sign of the var of its line. *)
SignedLoadValue(p, raw, multi) ==
    LET uom == device[p.m].uom
        v == ScaleHalfAway(uom, raw[p.m])
        vars0 == {o \in DOMAIN raw : device[o].uom = "var" /\ LineOf(o, multi) = LineOf(p.m, multi)}
    IN IF uom \in TotalUoms THEN ByRole(v)
       ELSE IF \E o \in vars0 : ByRole(ScaleHalfAway("var", raw[o])) < 0 THEN -Abs(v) ELSE Abs(v)
(* _as_reported_value. *)
AsReportedValue(p, x) == ScaleHalfAway(device[p.m].uom, x)

(* create_meter_reading_list: what the poll supplied and the MUP holds. *)
MeterReadingList(raw, reg) ==
    LET multi == IsMultiPhase(DOMAIN raw, reg)
        Value(p) == CASE config.profile = "load" -> SignedLoadValue(p, raw, multi)
                      [] config.profile = "reported" -> AsReportedValue(p, raw[p.m])
                      [] OTHER -> DefaultValue(p, raw[p.m])
    IN {[m |-> p.m, raw |-> raw[p.m], mrid |-> p.mrid, value |-> Value(p)] :
            p \in {q \in PostedReadings(DOMAIN raw, multi) : q.mrid \in DOMAIN reg}}

(* The wiring is known: the MUP shows it, or there is one phase only. *)
SeveralPhases == \E m \in Measurements : Multi(device[m].uom, device[m].phase)
WiringKnown(reg) ==
    SeveralPhases => \E r \in DOMAIN reg : r = SlotOfLine1 \/ Multi(reg[r].uom, reg[r].phase)

(* A metering cycle: the MUP is POSTed when it has grown, and may fail;    *)
(* then the readings.                                                      *)
Poll(raw, accepted) ==
    LET plan == PlanRegistration(raw)
        reg == IF accepted THEN plan ELSE registered
    IN /\ posted = {} /\ registered' = reg
       /\ posted' = MeterReadingList(raw, reg)
       /\ meaning' = IF ~WiringKnown(reg) THEN meaning
                     ELSE [r \in DOMAIN meaning \cup {p.mrid : p \in posted'} |->
                              (IF r \in DOMAIN meaning THEN meaning[r] ELSE {})
                              \cup {p.m : p \in {q \in posted' : q.mrid = r}}]
       /\ UNCHANGED <<device, config>>

(* The list is POSTed, or lost: the next one replaces it. *)
Send == posted # {} /\ posted' = {} /\ UNCHANGED <<device, config, registered, meaning>>

Next == Send \/ \E ms \in SUBSET Measurements :
                    \E raw \in [ms -> Values], ok \in BOOLEAN : Poll(raw, ok)
Spec == Init /\ [][Next]_vars

-----------------------------------------------------------------------------
(* Once the MUP shows how the device is wired, each mRID stands for one    *)
(* measurement for good: no poll that lacks lines 2 and 3 posts line 1 as  *)
(* the total (_is_multi_phase, _posted_readings).                          *)
OneMeaning == \A r \in DOMAIN meaning : Cardinality(meaning[r]) <= 1

(* A server that takes the registered type and the profile's convention    *)
(* gets back what was measured, to the last digit posted and with its sign *)
(* (plan_registration, _default_value, _signed_load_value,                 *)
(* _as_reported_value).  Under the default direction a value that changed  *)
(* its sign is posted under the first one, as PowerDirection says.         *)
Sign(p) ==
    LET flow == registered[p.mrid].flow IN
    CASE flow = "reverse" -> -1
      [] config.profile = "load" /\ config.role = "der" -> -1
      [] OTHER -> 1
(* A PF without the var of its line is a magnitude; its sign is the var's. *)
TrueLine(m) == IF SeveralPhases THEN Line(device[m].phase) ELSE 0
Unsigned(p) ==
    /\ config.profile = "load" /\ device[p.m].uom = "PF"
    /\ \A q \in posted : device[q.m].uom = "var" /\ TrueLine(q.m) = TrueLine(p.m)
                           => (q.raw < 0) # (p.raw < 0)
DecodesRight ==
    \A m \in {p.m : p \in posted} :
        LET mine == {p \in posted : p.m = m}
            p == CHOOSE q \in mine : \A o \in mine : Abs(o.value) <= Abs(q.value)
            off == Abs(Sign(p) * p.value * 10 - Scale(device[m].uom, p.raw))
        IN \/ off < 10
           \/ Unsigned(p) \/ ~WiringKnown(registered)
           \/ config.profile = "default" /\ ~Directed(m)
              /\ (registered[p.mrid].flow = "reverse") # (p.raw < 0)
           \/ config.direction = "split" /\ Cardinality(mine) = 1  \* the other not registered yet
=============================================================================
