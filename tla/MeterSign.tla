------------------------------ MODULE MeterSign ------------------------------
(***************************************************************************)
(* Which sign of a SunSpec meter's real power is import                    *)
(* (connectors/sunspec/_meter.py).  The models do not say, so              *)
(* PowerSignCalibrator watches which energy total rises while W is not     *)
(* zero; a reading may come just after the flow has turned, a total may be *)
(* missing or start again from zero, and one operator sets the sign.       *)
(***************************************************************************)
EXTENDS Integers

CONSTANTS
    CALIBRATION_OBSERVATIONS,
    MaxWh,     \* bound: what a total may reach
    MaxTurns,  \* bound: times the flow changes
    MaxGaps,   \* bound: readings without the totals, and resets
    None

VARIABLES
    importSign, \* the vendor's: 1 when positive W is import
    role, setting, \* the configuration: auto, or the sign an operator sets
    flow,       \* real power at the meter: 1 import, -1 export, 0 none
    imp, exp,   \* TotWhImp, TotWhExp
    sign, candidate, agreements, totals, \* PowerSignCalibrator
    shown,      \* what the last reading reported for W, in the role's frame
    flowed,     \* history: the directions energy was counted in since the last reading
    straddles,  \* history: readings taken after the flow had turned
    turns, gaps

meter == <<importSign, role, setting>>
calibrator == <<sign, candidate, agreements, totals>>
counts == <<imp, exp>>
vars == <<meter, flow, counts, calibrator, shown, flowed, straddles, turns, gaps>>

Signs == {1, -1}
TypeOK ==
    /\ importSign \in Signs /\ role \in {"site_meter", "der_meter"} /\ setting \in Signs \cup {None}
    /\ flow \in {-1, 0, 1} /\ imp \in 0..MaxWh /\ exp \in 0..MaxWh /\ sign \in Signs \cup {None}
    /\ candidate \in Signs \cup {None} /\ agreements \in 0..CALIBRATION_OBSERVATIONS
    /\ totals # None => totals \in (0..MaxWh) \X (0..MaxWh)
    /\ shown \in {None, -1, 0, 1} /\ flowed \subseteq Signs

(* __init__; an operator who sets the sign knows the meter. *)
Init ==
    /\ importSign \in Signs /\ role \in {"site_meter", "der_meter"}
    /\ setting \in {None, importSign} /\ sign = setting
    /\ candidate = None /\ agreements = 0 /\ totals = None
    /\ flow = 0 /\ imp = 0 /\ exp = 0 /\ shown = None /\ flowed = {} /\ straddles = 0
    /\ turns = 0 /\ gaps = 0

-----------------------------------------------------------------------------
(* The meter: the flow turns, a total counts, the totals start again. *)
Turn(d) ==
    /\ turns < MaxTurns /\ d # flow /\ flow' = d /\ turns' = turns + 1 /\ shown' = None
    /\ UNCHANGED <<meter, counts, calibrator, flowed, straddles, gaps>>
Count ==
    /\ flow # 0 /\ flowed' = flowed \cup {flow}
    /\ IF flow = 1 THEN imp < MaxWh /\ imp' = imp + 1 /\ UNCHANGED exp
       ELSE exp < MaxWh /\ exp' = exp + 1 /\ UNCHANGED imp
    /\ UNCHANGED <<meter, flow, calibrator, shown, straddles, turns, gaps>>
Reset ==
    /\ gaps < MaxGaps /\ gaps' = gaps + 1 /\ imp' = 0 /\ exp' = 0
    /\ UNCHANGED <<meter, flow, calibrator, shown, flowed, straddles, turns>>

(* _evidence, of W and what the totals rose by since the last reading: one *)
(* rose, the other did not change.                                         *)
Evidence(w) ==
    LET up == imp - totals[1]  down == exp - totals[2]  positive == IF w > 0 THEN 1 ELSE -1
    IN CASE totals = None \/ w = 0 -> None
         [] up > 0 /\ down = 0 -> positive
         [] down > 0 /\ up = 0 -> -positive
         [] OTHER -> None

(* Mutant: the first observation decides. *)
EnoughAtOnce(n) == n >= 1
(* _learn: so many agree. *)
Enough(n) == n >= CALIBRATION_OBSERVATIONS
(* observe: a sign in use is only ever doubted in the log. *)
Learn(e) ==
    LET n == IF e = candidate THEN agreements + 1 ELSE 1 IN
    IF e = None \/ sign # None THEN UNCHANGED <<sign, candidate, agreements>>
    ELSE /\ candidate' = e /\ agreements' = n
         /\ sign' = IF Enough(n) THEN e ELSE None

(* Mutant: a meter on a DER's circuit is read like the premises'. *)
SameFrame(s) == s
(* read_meter: the role's frame, import for a site, output for a DER. *)
Factor(s) == IF role = "site_meter" THEN s ELSE -s

(* read_meter.  W and the totals are registers of one model. *)
Read(complete) ==
    LET w == flow * importSign IN
    /\ IF complete
       THEN Learn(Evidence(w)) /\ totals' = <<imp, exp>> /\ UNCHANGED gaps
       ELSE gaps < MaxGaps /\ gaps' = gaps + 1 /\ totals' = None
            /\ UNCHANGED <<sign, candidate, agreements>>
    /\ shown' = IF sign' = None THEN None ELSE w * Factor(sign')
    /\ straddles' = IF -flow \in flowed /\ flow # 0 THEN straddles + 1 ELSE straddles
    /\ flowed' = {}
    /\ UNCHANGED <<meter, flow, counts, turns>>

Next == Count \/ Reset \/ (\E d \in {-1, 0, 1} : Turn(d)) \/ \E b \in BOOLEAN : Read(b)
Spec == Init /\ [][Next]_vars

-----------------------------------------------------------------------------
(* Power is reported in the frame of the meter's role, import positive for *)
(* a site and output for a DER's meter, or not at all; one reading taken   *)
(* while the flow turned does not make a sign of it                        *)
(* (CALIBRATION_OBSERVATIONS, _evidence, read_meter).                      *)
FrameRight ==
    straddles <= 1 => shown \in {None, IF role = "site_meter" THEN flow ELSE -flow}
=============================================================================
