---------------------------- MODULE PowerLimits ----------------------------
(***************************************************************************)
(* The active-power limits of the SunSpec connector                        *)
(* (connectors/sunspec/_modbus.py): five controls that share the registers *)
(* of models 702 and 704.                                                  *)
(*                                                                         *)
(*   any   opModMaxLimW          a share of WMax                           *)
(*   inj   opModMaxLimWInject    watts                                     *)
(*   gen   opModGenLimW          watts (CSIP-AUS)                          *)
(*   abs   opModMaxLimWAbsorb    watts                                     *)
(*   load  opModLoadLimW         watts (CSIP-AUS)                          *)
(*                                                                         *)
(* An update runs under the connector's lock, so it is one step; it may    *)
(* raise after any of its Modbus writes, `cut` says after how many.  A     *)
(* percent is the exact fraction <<n, d>>: the registers' rounding is left *)
(* out.                                                                    *)
(***************************************************************************)
EXTENDS Naturals, FiniteSets

CONSTANTS
    Rating,     \* WMaxRtg, also WChaRteMaxRtg
    OwnWMax,    \* the WMax the device was configured with
    Watts,      \* the watts a server asks for
    Shares,     \* the fractions a server asks for
    Devices,    \* which registers a device implements: [wmax, dis, cha]
    None,       \* no limit: Python's None
    MaxFaults   \* bound: updates that raise, and restarts

Controls == {"any", "inj", "gen", "abs", "load"}
PctSlots == {"any", "inj", "gen"}  \* _P_LIM_PCT_CONTROLS

VARIABLES
    dev,     \* the device
    reg,     \* its registers: wmax, dis, cha, ena (WMaxLimPctEna), pct (WMaxLimPct)
    slots,   \* _p_lim_slots
    genW,    \* _gen_lim_watts
    unsure,  \* _gen_lim_unconfirmed
    charge,  \* _charge_limits
    base,    \* _wmax_baseline
    told,    \* the limits the server was told are in force
    failed,  \* history: controls whose last update raised
    excused, \* history: what the connector could not keep (LimitsHeld, LimitsReleased)
    faults

memory == <<slots, genW, unsure, charge, base>>
vars == <<dev, reg, memory, told, failed, excused, faults>>

NoSlots == [s \in PctSlots |-> None]
NoCharge == [s \in {"abs", "load"} |-> None]
Fractions == {<<n, d>> : n, d \in 0..Rating}

TypeOK ==
    /\ dev \in Devices
    /\ reg \in [wmax : 0..Rating, dis : 0..Rating, cha : 0..Rating, ena : BOOLEAN, pct : Fractions]
    /\ slots \in [PctSlots -> Fractions \cup {None}]
    /\ genW \in Watts \cup {None} /\ unsure \in BOOLEAN
    /\ charge \in [{"abs", "load"} -> Watts \cup {None}] /\ base \in 0..Rating \cup {None}
    /\ DOMAIN told = Controls /\ told["any"] \in Shares \cup {None}
    /\ \A c \in Controls \ {"any"} : told[c] \in Watts \cup {None}
    /\ failed \subseteq Controls /\ excused \subseteq {"gen", "cap", "wmax"} /\ faults \in 0..MaxFaults

(* A device without limits, scanned and read. *)
Init ==
    /\ dev \in Devices
    /\ reg = [wmax |-> OwnWMax, dis |-> Rating, cha |-> Rating, ena |-> FALSE, pct |-> <<1, 1>>]
    /\ slots = NoSlots /\ genW = None /\ unsure = FALSE /\ charge = NoCharge /\ base = None
    /\ told = [c \in Controls |-> None] /\ failed = {} /\ excused = {} /\ faults = 0

-----------------------------------------------------------------------------
Lesser(x, y) == IF x < y THEN x ELSE y
LeqFrac(p, q) == p[1] * q[2] <= q[1] * p[2]

(* _watts_as_pct_of_wmax: WMax, or the nameplate where there is none,      *)
(* clamped to the whole.                                                   *)
BaseOf(r) == IF dev.wmax /\ r.wmax > 0 THEN r.wmax ELSE Rating
PctOfWMax(w, r) == <<Lesser(w, BaseOf(r)), BaseOf(r)>>

(* Mutant: the slot written last decides. *)
AnyOfThem(sl) ==
    LET set == {s \in PctSlots : sl[s] # None}
    IN  IF set = {} THEN None ELSE sl[CHOOSE s \in set : TRUE]

(* _compute_merged_inject_pct: the most restrictive of the slots in use. *)
Merged(sl) ==
    LET set == {sl[s] : s \in {t \in PctSlots : sl[t] # None}}
    IN  IF set = {} THEN None ELSE CHOOSE p \in set : \A q \in set : LeqFrac(p, q)

(* _apply_inject_pct_slot: the enable point, then the percent beside it.   *)
(* A merge of nothing lowers the enable and leaves the percent.            *)
PctWrites(sl) == IF Merged(sl) = None THEN 1 ELSE 2
WritePct(r, sl, n) ==
    [r EXCEPT !.ena = IF n = 0 THEN @ ELSE Merged(sl) # None,
              !.pct = IF n < 2 \/ Merged(sl) = None THEN @ ELSE Merged(sl)]

(* The update raises after `cut` of its n writes; past them it succeeds. *)
Cut(n, cut) == cut \in 0..(n + 1) /\ (cut <= n => faults < MaxFaults)
Raised(n, cut) == cut <= n
Outcome(c, v, n, cut) ==
    /\ faults' = faults + (IF Raised(n, cut) THEN 1 ELSE 0)
    /\ told' = [told EXCEPT ![c] = IF Raised(n, cut) THEN None ELSE v]
    /\ failed' = IF Raised(n, cut) THEN failed \cup {c} ELSE failed \ {c}

-----------------------------------------------------------------------------
(* _update_p_lim_sync.  The slot is recorded before anything is written. *)
UpdateAny(v, cut) ==
    LET sl == [slots EXCEPT !["any"] = v]
        n == PctWrites(sl)
    IN  /\ Cut(n, cut) /\ Outcome("any", v, n, cut)
        /\ slots' = sl /\ reg' = WritePct(reg, sl, cut)
        /\ UNCHANGED <<dev, genW, unsure, charge, base, excused>>

(* _apply_gen_lim_slot: recorded only once the device has it. *)
RecordGen(sl, w, raised) ==
    /\ slots' = IF raised THEN [sl EXCEPT !["gen"] = slots["gen"]] ELSE sl
    /\ genW' = (IF raised THEN genW ELSE w) /\ unsure' = raised

UpdateGen(w, cut) ==
    LET sl == [slots EXCEPT !["gen"] = PctOfWMax(w, reg)]
        n == PctWrites(sl)
    IN  /\ Cut(n, cut) /\ Outcome("gen", w, n, cut)
        /\ reg' = WritePct(reg, sl, cut) /\ RecordGen(sl, w, Raised(n, cut))
        /\ excused' = (IF Raised(n, cut) THEN excused ELSE excused \ {"gen"})
        /\ UNCHANGED <<dev, charge, base>>

(* Mutant: a clear is skipped whenever no limit is recorded. *)
NothingRecorded == slots["gen"] = None

(* _update_gen_lim_sync: a clear of what is neither recorded nor in doubt  *)
(* writes nothing. *)
NothingToClear == slots["gen"] = None /\ ~unsure

ClearGen(cut) ==
    LET sl == [slots EXCEPT !["gen"] = None]
        n == IF NothingToClear THEN 0 ELSE PctWrites(sl)
    IN  /\ IF n = 0 THEN cut = 1 ELSE Cut(n, cut)
        /\ Outcome("gen", None, n, cut)
        /\ IF n = 0 THEN genW' = None /\ UNCHANGED <<reg, slots, unsure, excused>>
           ELSE /\ reg' = WritePct(reg, sl, cut) /\ RecordGen(sl, None, Raised(n, cut))
                /\ excused' = (IF Raised(n, cut) THEN excused ELSE excused \ {"gen"})
        /\ UNCHANGED <<dev, charge, base>>

-----------------------------------------------------------------------------
(* _refresh_gen_lim_pct on registers r, n writes done: the slots and the   *)
(* registers after it.  Without a generation limit there is nothing to do. *)
Refreshed(r) ==
    IF genW = None THEN slots ELSE [slots EXCEPT !["gen"] = PctOfWMax(genW, r)]
RefreshWrites(r) == IF genW = None THEN 0 ELSE PctWrites(Refreshed(r))
AfterRefresh(r, n) == IF genW = None THEN r ELSE WritePct(r, Refreshed(r), n)
(* The refresh began and raised, or ended. *)
RefreshRecords(r, began, raised) ==
    IF ~began \/ genW = None THEN UNCHANGED <<slots, genW, unsure>>
    ELSE RecordGen(Refreshed(r), genW, raised)

(* The generation limit is out of step with WMax from a refresh that       *)
(* raised to one that ended.                                               *)
Refresh(began, raised) ==
    IF ~began \/ genW = None THEN excused
    ELSE IF raised THEN excused \cup {"gen"} ELSE excused \ {"gen"}

(* Mutant: the baseline is the WMax found at each write. *)
LastWMax == reg.wmax

(* _mirror_inject_onto_wmax: the device's own WMax, taken once. *)
Baseline == IF base = None THEN reg.wmax ELSE base

(* _update_p_lim_w_sync for "inj" with the rate setting: one write of      *)
(* WDisChaRteMax and WMax, then the generation limit against the new WMax. *)
Mirrored(w) ==
    [reg EXCEPT !.dis = w, !.wmax = IF dev.wmax THEN Lesser(w, Rating) ELSE @]
UpdateInj(w, cut) ==
    LET r == Mirrored(w)
        n == 1 + RefreshWrites(r)
    IN  /\ dev.dis /\ Cut(n, cut) /\ Outcome("inj", w, n, cut)
        /\ base' = IF dev.wmax THEN Baseline ELSE base
        /\ reg' = IF cut = 0 THEN reg ELSE AfterRefresh(r, cut - 1)
        /\ RefreshRecords(r, cut > 0, Raised(n, cut))
        /\ excused' = Refresh(cut > 0, Raised(n, cut))
        /\ UNCHANGED <<dev, charge>>

(* _apply_p_lim_w_without_register: the limit joins WMaxLimPct. *)
UpdateInjPct(w, cut) ==
    LET sl == [slots EXCEPT !["inj"] = PctOfWMax(w, reg)]
        n == PctWrites(sl)
    IN  /\ ~dev.dis /\ Cut(n, cut) /\ Outcome("inj", w, n, cut)
        /\ slots' = sl /\ reg' = WritePct(reg, sl, cut)
        /\ UNCHANGED <<dev, genW, unsure, charge, base, excused>>

(* _restore_mirrored_wmax, then the slot of the indirect route. *)
ClearInj(cut) ==
    LET r == IF base = None THEN reg ELSE [reg EXCEPT !.wmax = base]
        sl == [slots EXCEPT !["inj"] = None]
        n == IF base # None THEN 1 + RefreshWrites(r)
             ELSE IF slots["inj"] # None THEN PctWrites(sl) ELSE 0
    IN  /\ IF n = 0 THEN cut = 1 ELSE Cut(n, cut)
        /\ Outcome("inj", None, n, cut)
        /\ IF base # None
           THEN /\ reg' = IF cut = 0 THEN reg ELSE AfterRefresh(r, cut - 1)
                /\ RefreshRecords(r, cut > 0, Raised(n, cut))
                /\ base' = IF Raised(n, cut) THEN base ELSE None
                /\ excused' = Refresh(cut > 0, Raised(n, cut))
           ELSE /\ IF n = 0 THEN UNCHANGED <<reg, slots>>
                   ELSE slots' = sl /\ reg' = WritePct(reg, sl, cut)
                /\ excused' = IF n > 0 /\ Raised(n, cut) THEN excused \cup {"cap"} ELSE excused
                /\ UNCHANGED <<genW, unsure, base>>
        /\ UNCHANGED <<dev, charge>>

-----------------------------------------------------------------------------
(* Mutant: clearing one limit puts the register at its rating. *)
RatingOnClear(lims, v) ==
    LET active == {lims[s] : s \in {t \in DOMAIN lims : lims[t] # None}}
    IN  IF v = None \/ active = {} THEN Rating
        ELSE Lesser(CHOOSE w \in active : \A x \in active : w <= x, Rating)

(* _set_charge_limit: the lower of the two limits, or the rating. *)
ChargeTarget(lims, v) ==
    LET active == {lims[s] : s \in {t \in DOMAIN lims : lims[t] # None}}
    IN  IF active = {} THEN Rating
        ELSE Lesser(CHOOSE w \in active : \A x \in active : w <= x, Rating)

(* "abs" or "load", set or cleared; recorded only when written.  A device  *)
(* that declares no charge-rate limiting declines "load", lets "abs" pass  *)
(* unapplied, and is never written to. *)
UpdateCharge(c, v, cut) ==
    LET lims == [charge EXCEPT ![c] = v] IN
    /\ IF dev.cha
       THEN /\ Cut(1, cut) /\ Outcome(c, v, 1, cut)
            /\ reg' = IF cut = 0 THEN reg ELSE [reg EXCEPT !.cha = ChargeTarget(lims, v)]
            /\ charge' = IF Raised(1, cut) THEN charge ELSE lims
       ELSE /\ cut = 0 /\ UNCHANGED <<reg, told, failed, charge, faults>>
    /\ UNCHANGED <<dev, slots, genW, unsure, base, excused>>

(* The process restarts: the registers stay, the connector's memory is     *)
(* gone, and no limit is in force until it is applied again. *)
Restart ==
    /\ faults < MaxFaults /\ faults' = faults + 1
    /\ slots' = NoSlots /\ genW' = None /\ unsure' = FALSE /\ charge' = NoCharge /\ base' = None
    /\ told' = [c \in Controls |-> None] /\ failed' = Controls
    /\ excused' = (excused \ {"gen"}) \cup (IF base = None THEN {} ELSE {"wmax"})
    /\ UNCHANGED <<dev, reg>>

Update(c, cut) ==
    CASE c = "any" -> \E v \in Shares \cup {None} : UpdateAny(v, cut)
      [] c = "gen" -> ClearGen(cut) \/ \E w \in Watts : UpdateGen(w, cut)
      [] c = "inj" -> ClearInj(cut) \/ \E w \in Watts : UpdateInj(w, cut) \/ UpdateInjPct(w, cut)
      [] OTHER -> \E v \in Watts \cup {None} : UpdateCharge(c, v, cut)

Next == Restart \/ \E c \in Controls, cut \in 0..4 : Update(c, cut)
Spec == Init /\ [][Next]_vars

-----------------------------------------------------------------------------
(* Each limit the server was told is in force is on the device, whatever   *)
(* the other controls that share its registers have done since, and after  *)
(* updates that raised halfway (_compute_merged_inject_pct,                *)
(* _refresh_gen_lim_pct, _set_charge_limit).  Excused: the generation      *)
(* limit while a refresh after WMax moved has raised.                      *)
PctHolds(frac) == reg.ena /\ LeqFrac(reg.pct, frac)
WattsHold(w) == reg.ena /\ reg.pct[1] * (IF dev.wmax THEN reg.wmax ELSE Rating) <= w * reg.pct[2]
LimitsHeld ==
    /\ told["any"] # None => PctHolds(told["any"])
    /\ told["gen"] # None /\ "gen" \notin excused => WattsHold(told["gen"])
    /\ told["inj"] # None => IF dev.dis THEN reg.dis <= told["inj"] ELSE WattsHold(told["inj"])
    /\ \A c \in {"abs", "load"} : told[c] # None => reg.cha <= told[c]

(* When every limit has ended and the last update of each went through,    *)
(* the device is as it was: nothing is left enabled, WMax is its own and   *)
(* it may charge at its rating (_restore_mirrored_wmax,                    *)
(* _gen_lim_unconfirmed, _set_charge_limit).  Excused: WMax after a        *)
(* restart that lost the baseline, and the cap of an inject limit's        *)
(* indirect route whose clear raised.  WDisChaRteMax keeps its value.      *)
Ended == failed = {} /\ \A c \in Controls : told[c] = None
LimitsReleased ==
    Ended => /\ "cap" \in excused \/ ~reg.ena
             /\ "wmax" \in excused \/ reg.wmax = OwnWMax
             /\ reg.cha = Rating

(* What the comment in _update_p_lim_w_sync says: the clear of an inject   *)
(* limit takes back "an inject cap the fallback route installed on 704     *)
(* WMaxLimPct, which would otherwise outlive the event that imposed it".   *)
InjectCapTakenBack == Ended => ~reg.ena
=============================================================================
