------------------------------ MODULE DerReport ------------------------------
(***************************************************************************)
(* What the server is told of a DER: DERCapability, DERSettings and        *)
(* DERStatus, built from what the connector returns (telemetry/            *)
(* der_capability.py, der_settings.py, der_status.py, scale_factor.py) and *)
(* PUT whole.  A quantity becomes a 16-bit integer and a power of ten; the *)
(* modes are cut to what device and edition have; an alarm bitmap with     *)
(* reserved bits is left out.                                              *)
(*                                                                         *)
(* A number is n * 10^e.  One rating stands for each of the fields.        *)
(***************************************************************************)
EXTENDS Integers, FiniteSets

CONSTANTS
    Ratings,    \* what a connector may give: [kind, n, e, m]
    Modes2,     \* DERControlType2 bits
    Alarms,     \* alarm bits 0 to 10
    None,
    Reserved,   \* a bitmap with a bit that is not defined
    MaxChanges  \* bound: changes of the device

VARIABLES
    edition,   \* of the server's profile
    always,    \* always_send_alarm_status
    keeps,     \* whether the server takes an absent alarmStatus for no change
    given,     \* what the connector returns: rating, modes and bitmaps
    cap, set, stat, \* the resources as the server holds them
    fresh,     \* history: those PUT since the device last changed
    misled,    \* history: a bitmap that was rejected changed the server's alarms
    changes

context == <<edition, always, keeps>>
held == <<cap, set, stat>>
vars == <<context, given, held, fresh, misled, changes>>

TypeOK ==
    /\ edition \in {2018, 2023} /\ always \in BOOLEAN /\ keeps \in BOOLEAN
    /\ given \in [rating : Ratings, supported2 : SUBSET Modes2, enabled2 : SUBSET Modes2 \cup {None},
                 alarms : SUBSET Alarms \cup {Reserved, None}]
    /\ cap # None => cap.value \in -32768..32767 /\ cap.multiplier \in -128..127
    /\ stat.alarms \subseteq Alarms /\ fresh \subseteq {"cap", "set", "stat"}
    /\ misled \in BOOLEAN /\ changes \in 0..MaxChanges

Init ==
    /\ edition \in {2018, 2023} /\ always \in BOOLEAN /\ keeps \in BOOLEAN
    /\ given \in [rating : Ratings, supported2 : SUBSET Modes2, enabled2 : {None}, alarms : {{}}]
    /\ cap = None /\ set = None /\ stat = [alarms |-> {}] /\ fresh = {} /\ misled = FALSE /\ changes = 0

-----------------------------------------------------------------------------
Abs(x) == IF x < 0 THEN -x ELSE x
(* round(v / 10), to even from the middle. *)
RoundTenth(v) ==
    LET q == Abs(v) \div 10  r == Abs(v) % 10
        a == IF r > 5 \/ (r = 5 /\ q % 2 = 1) THEN q + 1 ELSE q
    IN IF v < 0 THEN -a ELSE a

Fits(v) == -32768 <= v /\ v <= 32767
(* Mutant: the value is cut down and the multiplier stays. *)
ShrunkOnly(p) == [p EXCEPT !.value = RoundTenth(@)]
(* One turn of _clamp_int16's loop. *)
Shrink(p) == [value |-> RoundTenth(p.value), multiplier |-> p.multiplier + 1]
ClampInt16(p) ==
    LET Clamped[q \in [value : Int, multiplier : Int]] == IF Fits(q.value) THEN q ELSE Clamped[Shrink(q)]
    IN Clamped[p]

(* float_to_int: as many decimals as the number has. *)
FloatToInt(n, e) ==
    LET Stripped[k \in 0..9] ==  \* n without k trailing zeros
            IF k = 0 THEN n ELSE Stripped[k-1] \div 10
        zeros == CHOOSE k \in 0..(-e) :
            /\ \A j \in 0..(k-1) : Stripped[j] % 10 = 0
            /\ k = -e \/ Stripped[k] % 10 # 0
    IN ClampInt16([value |-> Stripped[zeros], multiplier |-> e + zeros])

(* get_sf, _convert_dict_sf.  A pair is {value, multiplier}. *)
GetSf(r) ==
    CASE r.kind = "number" -> FloatToInt(r.n, r.e)
      [] r.kind = "pair" -> ClampInt16([value |-> r.n, multiplier |-> r.m])
      [] r.kind = "float_pair" -> FloatToInt(r.n, r.e)
      [] OTHER -> None

(* mask_modes2: a 2018 server has none of them. *)
Permitted(ms) == IF edition = 2018 THEN {} ELSE ms
(* Mutant: the profile alone limits the modes. *)
AnyMode == Permitted(Modes2)
(* Of what the connector supports. *)
Available == Permitted(given.supported2)

(* build_der_capability: without rtgMaxW there is none. *)
PutCapability ==
    /\ GetSf(given.rating) # None
    /\ cap' = [value |-> GetSf(given.rating).value, multiplier |-> GetSf(given.rating).multiplier,
               modes2 |-> Available]
    /\ fresh' = fresh \cup {"cap"}
    /\ UNCHANGED <<context, given, set, stat, misled, changes>>

(* build_der_settings: modesEnabled2 where some mode is available. *)
PutSettings ==
    /\ GetSf(given.rating) # None
    /\ set' = [enabled2 |-> IF given.enabled2 = None \/ Available = {} THEN None
                            ELSE given.enabled2 \cap Available]
    /\ fresh' = fresh \cup {"set"}
    /\ UNCHANGED <<context, given, cap, stat, misled, changes>>

(* Mutant: rejected bits are sent as none. *)
RejectedAsNone == {}
(* build_der_status: a bitmap with reserved bits is left out, and so is an *)
(* empty one, unless it is always sent.                                    *)
Rejected == None
AlarmStatus ==
    CASE given.alarms = Reserved -> Rejected
      [] given.alarms \notin {Reserved, None, {}} -> given.alarms
      [] OTHER -> IF always THEN {} ELSE None
PutStatus ==
    /\ stat' = [alarms |-> IF AlarmStatus # None THEN AlarmStatus
                           ELSE IF keeps THEN stat.alarms ELSE {}]
    /\ fresh' = fresh \cup {"stat"}
    /\ misled' = (misled \/ (given.alarms = Reserved /\ keeps /\ stat'.alarms # stat.alarms))
    /\ UNCHANGED <<context, given, cap, set, changes>>

(* The device: a mode is switched, an alarm comes or goes. *)
DeviceChanges(g) ==
    /\ changes < MaxChanges /\ changes' = changes + 1 /\ g # given /\ given' = g /\ fresh' = {}
    /\ UNCHANGED <<context, held, misled>>

Next ==
    \/ PutCapability \/ PutSettings \/ PutStatus
    \/ \E ms \in SUBSET Modes2 : DeviceChanges([given EXCEPT !.enabled2 = ms])
    \/ \E as \in SUBSET Alarms \cup {Reserved, None} : DeviceChanges([given EXCEPT !.alarms = as])
Spec == Init /\ [][Next]_vars

-----------------------------------------------------------------------------
(* 10^k for what is compared, and a number in hundredths. *)
Power[k \in 0..9] == IF k = 0 THEN 1 ELSE 10 * Power[k-1]
Hundredths(n, e) == n * Power[e + 2]

(* The rating the server reads is the device's, to the last digit kept,    *)
(* and keeps four digits (_clamp_int16, float_to_int); a mode is enabled   *)
(* only where the device and the edition have it, and one disabled is seen *)
(* to be (build_der_settings); alarms are the device's where the server    *)
(* can tell (build_der_status).                                            *)
ReportTrue ==
    /\ "cap" \in fresh /\ given.rating.kind # "float_pair" =>
           LET r == given.rating
               x == Hundredths(r.n, IF r.kind = "pair" THEN r.m ELSE r.e)
           IN /\ Abs(Hundredths(cap.value, cap.multiplier) - x) < Hundredths(1, cap.multiplier)
              /\ Hundredths(cap.value, cap.multiplier) # x => Abs(cap.value) >= 3276
    /\ "set" \in fresh /\ set.enabled2 # None =>
           /\ set.enabled2 \subseteq given.supported2 /\ edition = 2023
           /\ set.enabled2 = given.enabled2 \cap given.supported2
    /\ "stat" \in fresh /\ (always \/ ~keeps) /\ given.alarms \notin {Reserved, None} =>
           stat.alarms = given.alarms
    /\ ~misled

(* A rating given as {value, multiplier} is that number, also where the    *)
(* value has decimals (_convert_dict_sf, docs/connectors.md).              *)
PairTrue ==
    "cap" \in fresh /\ given.rating.kind = "float_pair" =>
        Hundredths(cap.value, cap.multiplier) = Hundredths(given.rating.n, given.rating.e + given.rating.m)
=============================================================================
