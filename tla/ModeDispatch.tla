---------------------------- MODULE ModeDispatch ----------------------------
(***************************************************************************)
(* What an event's elements do to the devices it is for: the translation   *)
(* of a DERControlBase into connector calls (connectors/modes.py), the     *)
(* fan-out to the local devices of a group (EventProcessor                 *)
(* ._dispatch_by_lfdi_group) and the revert at the event's end, which      *)
(* writes the default and disables what it does not name                   *)
(* (_apply_dderc_fallback).  One event runs over one program; EventLifecycle *)
(* has several events, with modes as model values.                         *)
(*                                                                         *)
(* A write sets an element from the event or the default, or withdraws it, *)
(* which leaves the device's own setting.                                  *)
(***************************************************************************)
EXTENDS Naturals, Sequences, FiniteSets, SequencesExt

CONSTANTS
    Order,     \* CONTROL_ELEMENTS and DOE_ELEMENTS, in the table's order
    Curves,    \* the elements that link to a curve
    Second,    \* the elements of DERControlType2
    Envelope,  \* the CSIP-AUS limits
    Kept,      \* _KEPT_AT_EVENT_END
    Devices,   \* the program's devices
    Supports,  \* device -> the elements its connector implements
    Events, DefaultControls, Roles, \* bound: the choices of base, dflt and role
    MaxFails   \* bound: writes that raise

Elements == ToSet(Order)

VARIABLES
    grouped,  \* a group lookup maps one EndDevice to all Devices
    role,     \* device -> "der", "meter", or "gated": another interface commands it
    base, dflt, \* the event's DERControlBase and the default's
    held,     \* of event and default, whose curves the client holds
    phase,
    work,     \* device -> the calls its dispatch has still to make
    outcome,  \* device -> how its dispatch ended
    told,     \* href -> the response posted for it
    modes,    \* ModeTracker: href -> the modes registered
    device,   \* device -> element -> whose setting it has
    broke,    \* history: a write of the revert raised
    fails

given == <<grouped, role, base, dflt, held>>
vars == <<given, phase, work, outcome, told, modes, device, broke, fails>>

(* DercontrolBase: each element absent, set, or disabled="true", which an  *)
(* envelope limit cannot be.                                               *)
Bases == {b \in [Elements -> {"absent", "set", "disabled"}] : \A e \in Envelope : b[e] # "disabled"}

Meters == {d \in Devices : role[d] = "meter"}
(* The devices a default or a disable is written to. *)
Commanded == {d \in Devices : role[d] = "der"}

Hrefs == IF grouped THEN {"group"} ELSE Devices
(* _group_local_lfdis: the meters are left out of a group. *)
LocalLfdis(h) == IF grouped THEN Devices \ Meters ELSE {h}

TypeOK ==
    /\ grouped \in BOOLEAN /\ role \in Roles /\ base \in Bases /\ dflt \in Bases
    /\ held \subseteq {"event", "default"} /\ phase \in {"idle", "dispatch", "active", "default", "withdraw", "ended"}
    /\ outcome \in [Devices -> {"none", "pending", "ok", "failed", "slow"}]
    /\ told \in [Hrefs -> {"nothing", "active", "rejected"}]
    /\ modes \in [Hrefs -> SUBSET Elements]
    /\ device \in [Devices -> [Elements -> {"own", "event", "default"}]]
    /\ \A d \in Devices : work[d] \in Seq(Elements \X {"own", "event", "default"})
    /\ broke \in BOOLEAN /\ fails \in 0..MaxFails

Init ==
    /\ grouped \in BOOLEAN /\ role \in Roles /\ base \in Events /\ dflt \in DefaultControls
    /\ held \in SUBSET {"event", "default"} /\ phase = "idle" /\ work = [d \in Devices |-> <<>>]
    /\ outcome = [d \in Devices |-> "none"] /\ told = [h \in Hrefs |-> "nothing"]
    /\ modes = [h \in Hrefs |-> {}]
    /\ device = [d \in Devices |-> [e \in Elements |->
                     IF dflt[e] = "set" /\ e \in Supports[d] /\ d \in Commanded
                        /\ (e \in Curves => "default" \in held) THEN "default" ELSE "own"]]
    /\ broke = FALSE /\ fails = 0

-----------------------------------------------------------------------------
(* Mutant: an element whose curve is not held is passed over. *)
CurveOrNothing(b, e, from) ==
    IF b[e] = "absent" \/ (b[e] = "set" /\ e \in Curves /\ from \notin held) THEN "absent"
    ELSE IF b[e] = "disabled" THEN "own" ELSE from
(* _element_params: disabled, or linked to a curve that is not held, the   *)
(* element is withdrawn.                                                   *)
ElementParams(b, e, from) ==
    CASE b[e] = "absent" -> "absent"
      [] b[e] = "disabled" \/ (e \in Curves /\ from \notin held) -> "own"
      [] OTHER -> from

(* _control_support: what the connector has no method for is skipped.      *)
Supported(d, e) == e \in Supports[d]

(* translate_controls, for one device.                                     *)
Translate(d, b, from) ==
    LET named == SelectSeq(Order, LAMBDA e : ElementParams(b, e, from) # "absent" /\ Supported(d, e))
    IN [i \in DOMAIN named |-> <<named[i], ElementParams(b, named[i], from)>>]

(* Mutant: the extension elements are forgotten. *)
FirstOnly(b) == {e \in Elements \ (Second \cup Envelope) : b[e] # "absent"}
(* get_active_mode_names: the elements of DERControlType and the envelope  *)
(* limits.                                                                 *)
ActiveModeNames(b) == {e \in Elements \ Second : b[e] # "absent"}

(* _apply_control_to_devices: the modes are registered before the outcome  *)
(* is known, and each device's dispatch starts.  A meter refuses the       *)
(* control, the gate every write of it.                                    *)
Activate ==
    /\ phase = "idle" /\ phase' = "dispatch"
    /\ modes' = [h \in Hrefs |-> ActiveModeNames(base)]
    /\ LET refused == {d \in Devices : d \in Meters
                                       \/ (role[d] = "gated" /\ Translate(d, base, "event") # <<>>)}
           calls == [d \in Devices |-> IF d \in refused THEN <<>> ELSE Translate(d, base, "event")]
       IN /\ work' = calls
          /\ outcome' = [d \in Devices |-> IF d \in refused THEN "failed"
                                           ELSE IF calls[d] = <<>> THEN "ok" ELSE "pending"]
    /\ UNCHANGED <<given, told, device, broke, fails>>

(* _apply_one, of an activation or a revert: the next call of a device     *)
(* returns, or raises, which ends its dispatch.                            *)
Write(d, ok) ==
    LET w == Head(work[d])  last == ~ok \/ Len(work[d]) = 1 IN
    /\ work[d] # <<>>
    /\ device' = IF ok THEN [device EXCEPT ![d][w[1]] = w[2]] ELSE device
    /\ work' = [work EXCEPT ![d] = IF ok THEN Tail(@) ELSE <<>>]
    /\ outcome' = IF outcome[d] # "pending" \/ ~last THEN outcome
                  ELSE [outcome EXCEPT ![d] = IF ok THEN "ok" ELSE "failed"]
    /\ IF ok THEN UNCHANGED fails ELSE fails < MaxFails /\ fails' = fails + 1
    /\ broke' = (broke \/ (~ok /\ phase \in {"default", "withdraw"}))
    /\ UNCHANGED <<given, phase, told, modes>>

(* _dispatch_one: the deadline passes, and the write goes on. *)
Deadline(d) ==
    /\ phase = "dispatch" /\ outcome[d] = "pending" /\ outcome' = [outcome EXCEPT ![d] = "slow"]
    /\ UNCHANGED <<given, phase, work, told, modes, device, broke, fails>>

(* Mutant: one device that failed rejects the event for the group. *)
AnyFailed(h) == \E d \in LocalLfdis(h) : outcome[d] # "ok"
(* _dispatch_by_lfdi_group: rejected only where every device failed, or    *)
(* none takes controls.                                                    *)
AllFailed(h) == \A d \in LocalLfdis(h) : outcome[d] # "ok"

(* respond: a device that rejected the event holds no modes of it. *)
Respond(h) ==
    /\ phase = "dispatch" /\ told[h] = "nothing" /\ \A d \in LocalLfdis(h) : outcome[d] # "pending"
    /\ told' = [told EXCEPT ![h] = IF AllFailed(h) THEN "rejected" ELSE "active"]
    /\ modes' = IF AllFailed(h) THEN [modes EXCEPT ![h] = {}] ELSE modes
    /\ phase' = IF \A g \in Hrefs : told'[g] # "nothing" THEN "active" ELSE phase
    /\ UNCHANGED <<given, work, outcome, device, broke, fails>>

(* The event ends; a late write has come to its end by then.               *)
(* _apply_dderc_fallback writes the default to each device. *)
End ==
    /\ phase = "active" /\ \A d \in Devices : work[d] = <<>>
    /\ phase' = "default"
    /\ work' = [d \in Devices |-> IF d \notin Commanded THEN <<>>
                                  ELSE Translate(d, dflt, "default")]
    /\ UNCHANGED <<given, outcome, told, modes, device, broke, fails>>

(* _disable_modes_on_connector, of the modes the event released and the    *)
(* default does not carry, but for those kept.                             *)
Disables(d, h) ==
    LET off == SelectSeq(Order, LAMBDA e : /\ e \in modes[h] \ ActiveModeNames(dflt)
                                           /\ e \notin Kept /\ Supported(d, e))
    IN [i \in DOMAIN off |-> <<off[i], "own">>]
Withdraw ==
    /\ phase = "default" /\ \A d \in Devices : work[d] = <<>>
    /\ phase' = "withdraw"
    /\ work' = [d \in Devices |-> IF d \notin Commanded THEN <<>>
                                  ELSE Disables(d, IF grouped THEN "group" ELSE d)]
    /\ UNCHANGED <<given, outcome, told, modes, device, broke, fails>>
Done ==
    /\ phase = "withdraw" /\ \A d \in Devices : work[d] = <<>>
    /\ phase' = "ended" /\ modes' = [h \in Hrefs |-> {}]
    /\ UNCHANGED <<given, work, outcome, told, device, broke, fails>>

Next == \/ Activate \/ End \/ Withdraw \/ Done
        \/ \E d \in Devices, ok \in BOOLEAN : Write(d, ok)
        \/ \E d \in Devices : Deadline(d)
        \/ \E h \in Hrefs : Respond(h)
Spec == Init /\ [][Next]_vars

-----------------------------------------------------------------------------
(* What the server is told of an event is so, element by element: a device *)
(* whose dispatch went through has each element it implements as the event *)
(* sets it, and one whose link leads to no curve is not left on an older   *)
(* curve; some device did where the event was reported started, and none   *)
(* where it was rejected (_element_params, _dispatch_by_lfdi_group).       *)
Translated(d) ==
    \A e \in Supports[d] : base[e] # "absent" =>
        device[d][e] = IF base[e] = "disabled" \/ (e \in Curves /\ "event" \notin held) THEN "own" ELSE "event"
ToldTrue ==
    phase \in {"dispatch", "active"} =>
        /\ \A d \in Devices : outcome[d] = "ok" => Translated(d)
        /\ \A h \in Hrefs :
               /\ told[h] = "active" => \E d \in LocalLfdis(h) : Translated(d)
               /\ told[h] = "rejected" => \A d \in LocalLfdis(h) : outcome[d] # "ok"

(* After an event that ran, when no write of its revert failed, no device  *)
(* of the group has anything from it, those on which its own write broke   *)
(* off included; except what only the default may undo (Kept), and the     *)
(* elements of DERControlType2 (_apply_dderc_fallback).                    *)
Reverted(d, e) == device[d][e] # "event"
NothingLeft ==
    phase = "ended" /\ ~broke =>
        \A h \in Hrefs : told[h] = "active" =>
            \A d \in LocalLfdis(h), e \in Elements \ (Kept \cup Second) : Reverted(d, e)

(* What the comment at the withdrawal says: the modes the default does not *)
(* carry "would stay in effect on the device unless they are disabled      *)
(* here".  All of them.                                                    *)
AllReverted ==
    phase = "ended" /\ ~broke =>
        \A h \in Hrefs : told[h] = "active" =>
            \A d \in LocalLfdis(h), e \in Elements \ Kept : Reverted(d, e)
=============================================================================
