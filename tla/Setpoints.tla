----------------------------- MODULE Setpoints -----------------------------
(***************************************************************************)
(* The setpoint controls of the SunSpec connector                          *)
(* (connectors/sunspec/connector.py, _ieee2030_5.py, _modbus.py).  Several *)
(* control elements share one write: the two fixed power factors, the      *)
(* connect and energize states (Controls keeps their merge), and the two   *)
(* active-power setpoints share the WSet registers.                        *)
(*                                                                         *)
(* SunSpecConnector._apply holds its lock from the merge to the write's    *)
(* result, so an update is one step; it may raise after `cut` of its       *)
(* Modbus writes.  The value 0 withdraws an element.                       *)
(***************************************************************************)
EXTENDS Naturals, Sequences, FiniteSets

CONSTANTS
    Elements,   \* the elements the server uses
    Values,     \* the values it asks for
    Devices,    \* what a device implements, a set of subsets of Points
    Scopes,     \* the sets of methods a behaviour uses: their registers are apart
    TooLong,    \* a curve with more points than the model holds
    Unmapped,   \* a fixed var with a reference the device has no register for
    MaxFaults   \* bound: updates that raise

(* CORE_METHOD: the write each element travels in. *)
Method(e) ==
    CASE e \in {"pfInj", "pfAbs"} -> "const_pf"
      [] e \in {"connect", "energize"} -> "connect"
      [] e \in {"fixedW", "targetW"} -> "wset"
      [] OTHER -> e   \* "fixedVar", "curve"
Methods == {Method(e) : e \in Elements}
Points == {"PFWInjEna", "PFWInj", "PFWAbsEna", "PFWAbs", "ES", "WSetEna", "WSet",
           "VarSetEna", "VarSet", "CrvEna", "Crv"}
Off == 0

VARIABLES
    dev,     \* the points the device implements
    scope,   \* the methods this behaviour uses
    reg,     \* the registers, as <<element, value>>, enables as <<"", 0 or 1>>
    merged,  \* Controls: the latest value of the elements that share a write
    told,    \* the value of each element the server was last told is in force
    holder,  \* history: which of fixedW and targetW last wrote to WSet
    clean,   \* history: methods whose last update went through
    faults

vars == <<dev, scope, reg, merged, told, holder, clean, faults>>

Bit(b) == <<"", b>>
Neutral(e) == IF Method(e) = "connect" THEN 1 ELSE Off

TypeOK ==
    /\ dev \in Devices /\ scope \in Scopes
    /\ reg \in [Points -> (Elements \cup {""}) \X (Values \cup {0, 1})]
    /\ merged \in [Elements -> Values \cup {0, 1}] /\ told \in [Elements -> Values \cup {0, 1}]
    /\ holder \in {"fixedW", "targetW"}
    /\ clean \subseteq Methods /\ faults \in 0..MaxFaults

(* A device in service with no setpoint. *)
Init ==
    /\ dev \in Devices /\ scope \in Scopes
    /\ reg = [p \in Points |-> Bit(IF p = "ES" THEN 1 ELSE 0)]
    /\ merged = [e \in Elements |-> Neutral(e)] /\ told = merged
    /\ holder = "fixedW" /\ clean = Methods /\ faults = 0

-----------------------------------------------------------------------------
(* Each _update_*_sync as the writes it makes, in order, and whether it    *)
(* then refuses the control.                                               *)
Writes(ops) == [ops |-> ops, refused |-> FALSE]
Refuses(ops) == [ops |-> ops, refused |-> TRUE]

(* Mutant: a side without a power factor is left alone. *)
OnlySetSides(e, v, ena, val) ==
    IF v = Off THEN Writes(<<>>)
    ELSE IF val \in dev THEN Writes(<< <<ena, Bit(1)>>, <<val, <<e, v>>>> >>) ELSE Refuses(<<>>)

(* _update_const_pf_sync, one side: enabled and written, or lowered. *)
PfSide(e, v, ena, val) ==
    IF v = Off THEN Writes(IF ena \in dev THEN << <<ena, Bit(0)>> >> ELSE <<>>)
    ELSE IF val \in dev THEN Writes(<< <<ena, Bit(1)>>, <<val, <<e, v>>>> >>) ELSE Refuses(<<>>)

UpdateConstPf(m) ==
    LET inj == PfSide("pfInj", m["pfInj"], "PFWInjEna", "PFWInj")
        abs == PfSide("pfAbs", m["pfAbs"], "PFWAbsEna", "PFWAbs")
    IN  IF inj.refused THEN inj ELSE [abs EXCEPT !.ops = inj.ops \o @]

(* _update_connect_sync: service is permitted when every element permits it. *)
UpdateConnect(m) ==
    IF "ES" \notin dev THEN Refuses(<<>>)
    ELSE Writes(<< <<"ES", Bit(IF \E e \in Elements : Method(e) = "connect" /\ m[e] = 0
                              THEN 0 ELSE 1)>> >>)

(* _update_fixed_w_sync, _update_target_w_sync: the registers are checked  *)
(* before the enable. *)
UpdateWSet(e, v) ==
    IF v = Off THEN Writes(<< <<"WSetEna", Bit(0)>> >>)
    ELSE IF "WSet" \in dev THEN Writes(<< <<"WSetEna", Bit(1)>>, <<"WSet", <<e, v>>>> >>)
    ELSE Refuses(<<>>)

(* _update_const_q_sync: an unmapped reference is logged and not applied. *)
UpdateConstQ(e, v) ==
    CASE v = Off -> Writes(<< <<"VarSetEna", Bit(0)>> >>)
      [] v = Unmapped -> Writes(<<>>)
      [] OTHER -> IF "VarSet" \in dev
                  THEN Writes(<< <<"VarSetEna", Bit(1)>>, <<"VarSet", <<e, v>>>> >>)
                  ELSE Refuses(<<>>)

(* _update_qv_sync, _update_pv_sync, _update_qp_sync, _update_pf_sync: the *)
(* enable, then the capacity check, the points and the adoption. *)
UpdateCurve(e, v) ==
    CASE v = Off -> Writes(<< <<"CrvEna", Bit(0)>> >>)
      [] v = TooLong -> Refuses(<< <<"CrvEna", Bit(1)>> >>)
      [] OTHER -> Writes(<< <<"CrvEna", Bit(1)>>, <<"Crv", <<e, v>>>> >>)

Plan(e, v, m) ==
    CASE Method(e) = "const_pf" -> UpdateConstPf(m)
      [] Method(e) = "connect" -> UpdateConnect(m)
      [] Method(e) = "wset" -> UpdateWSet(e, v)
      [] Method(e) = "fixedVar" -> UpdateConstQ(e, v)
      [] OTHER -> UpdateCurve(e, v)

(* The registers after the first n writes. *)
After(ops, n) ==
    [p \in Points |->
        LET hits == {i \in 1..n : ops[i][1] = p}
        IN  IF hits = {} THEN reg[p] ELSE ops[CHOOSE i \in hits : \A j \in hits : j <= i][2]]

(* Mutant: a refused element stays in the merge. *)
StaysMerged(m) == m

(* SunSpecConnector._apply: a write that raised puts the merge back. *)
PutBack(m) == merged

(* One element's update: translated, merged and written. *)
Apply(e, v, cut) ==
    LET m == [merged EXCEPT ![e] = v]
        plan == Plan(e, v, m)
        n == Len(plan.ops)
        raised == plan.refused \/ cut <= n
        written == IF cut < n THEN cut ELSE n
    IN  /\ plan.refused => cut = n
        /\ cut \in 0..(n + 1) /\ (cut <= n /\ ~plan.refused => faults < MaxFaults)
        /\ reg' = After(plan.ops, written)
        /\ merged' = IF raised THEN PutBack(m) ELSE m
        /\ told' = [told EXCEPT ![e] = IF raised THEN @ ELSE v]
        /\ clean' = IF raised \/ (e = "fixedVar" /\ v = Unmapped)
                    THEN clean \ {Method(e)} ELSE clean \cup {Method(e)}
        /\ holder' = IF Method(e) = "wset" /\ written > 0 THEN e ELSE holder
        /\ faults' = faults + (IF raised /\ ~plan.refused THEN 1 ELSE 0)
        /\ UNCHANGED <<dev, scope>>

(* The connect elements take true (1) or false (0); a withdrawal is true. *)
Asked(e) == IF Method(e) = "connect" THEN {0, 1} ELSE Values \cup {Off}
Next ==
    \E e \in {x \in Elements : Method(x) \in scope}, cut \in 0..5 :
        \E v \in Asked(e) : Apply(e, v, cut)
Spec == Init /\ [][Next]_vars

-----------------------------------------------------------------------------
(* After an update that went through, all the elements that travel in its  *)
(* write are on the device as the server was told: one refused or failed   *)
(* in between is not carried there by a later write of its neighbour, and  *)
(* a withdrawn one is no longer enabled (SunSpecConnector._apply, Controls,*)
(* _update_const_pf_sync).  Of fixedW and targetW, the one that wrote last *)
(* holds the registers.                                                    *)
Holds(e, ena, val) ==
    IF told[e] = Off THEN reg[ena] = Bit(0)
    ELSE reg[ena] = Bit(1) /\ reg[val] = <<e, told[e]>>
SetpointsAgree ==
    /\ "const_pf" \in clean => /\ Holds("pfInj", "PFWInjEna", "PFWInj")
                               /\ Holds("pfAbs", "PFWAbsEna", "PFWAbs")
    /\ "connect" \in clean => reg["ES"] = Bit(IF told["connect"] = 0 \/ told["energize"] = 0
                                              THEN 0 ELSE 1)
    /\ "wset" \in clean => Holds(holder, "WSetEna", "WSet")
    /\ "fixedVar" \in clean => Holds("fixedVar", "VarSetEna", "VarSet")
    /\ "curve" \in clean => Holds("curve", "CrvEna", "Crv")
=============================================================================
