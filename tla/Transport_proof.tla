-------------------------- MODULE Transport_proof --------------------------
(***************************************************************************)
(* Proofs about Transport, for any requests, retry limits and number of    *)
(* windows and outages.                                                    *)
(*                                                                         *)
(* NeverStranded, Isolated and Attribution are not inductive by            *)
(* themselves.  What is missing is who holds the lifecycle lock when the   *)
(* two gates differ (GatesAgree, OneHolder), that the drain of the         *)
(* notification handlers is settled before the requests' (HandlersDrained),*)
(* that _in_flight counts the requests in flight (CountExact), and that    *)
(* the health forgets no failure it should have attributed                 *)
(* (NoneUnattributed).                                                     *)
(***************************************************************************)
EXTENDS Transport, FiniteSetTheorems, TLAPS

(* _in_flight is the number of requests between _acquire and _release. *)
CountExact == inFlight = Cardinality(InFlight)

(* The two gates are opened and closed together, except while              *)
(* simulate_comm_loss has suspended the notifications and not yet armed.   *)
GatesAgree ==
    /\ armed => suspended
    /\ suspended /\ ~armed => call = "suspend"
    /\ call \in {"suspend", "arm"} => suspended
    /\ call = "arm" => armed

(* The lifecycle lock has one holder, and whoever recovers has disarmed. *)
OneHolder ==
    /\ call # "none" => timer.pc # "recover"
    /\ call = "recover" \/ timer.pc = "recover" => ~armed /\ ~suspended

(* Once the gate has closed no handler starts. *)
HandlersDrained == armed /\ call # "suspend" /\ drained.handlers => ~handlers
RequestsDrained == armed /\ call = "none" /\ drained.requests => InFlight = {}

(* With no silence under way only a write between its attempts failed. *)
NoneUnattributed == silence = "none" => genuine \subseteq {"write"}

IInv ==
    /\ TypeOK /\ CountExact
    /\ GatesAgree /\ OneHolder /\ NeverStranded
    /\ HandlersDrained /\ RequestsDrained
    /\ NoneUnattributed /\ Attribution

-----------------------------------------------------------------------------
LEMMA InFlightFinite == IsFiniteSet(InFlight) /\ Cardinality(InFlight) \in Nat
                        /\ Cardinality(InFlight) <= Cardinality(Requests)
  BY ConstantsAssumption, FS_Subset, FS_CardinalityType DEF InFlight

(* What a request becomes when an attempt of it fails is a request that is *)
(* not in flight.                                                          *)
LEMMA AfterFailure ==
    ASSUME TypeOK, NEW r \in Requests
    PROVE  \A a \in {AfterTransient(r), AfterTls(r), Idle} :
              /\ a \in [pc : {"idle", "ready", "flight"},
                        transient : 0..(MaxTransient - 1), tls : 0..(MaxTls - 1)]
              /\ a.pc # "flight"
  <1> DEFINE Places == [pc : {"idle", "ready", "flight"},
                        transient : 0..(MaxTransient - 1), tls : 0..(MaxTls - 1)]
  <1>1. Idle \in Places /\ Idle.pc # "flight"
    BY ConstantsAssumption DEF Idle
  <1>2. req[r] \in Places
    BY DEF TypeOK
  <1>3. AfterTransient(r) \in Places /\ AfterTransient(r).pc # "flight"
    <2>1. CASE RetriesTransient(r)
      <3>1. AfterTransient(r) = [req[r] EXCEPT !.pc = "ready", !.transient = req[r].transient + 1]
        BY <2>1 DEF AfterTransient
      <3>2. req[r].transient + 1 \in 0..(MaxTransient - 1)
        BY <1>2, <2>1, ConstantsAssumption DEF RetriesTransient
      <3> QED BY <1>2, <3>1, <3>2
    <2> QED BY <1>1, <2>1 DEF AfterTransient
  <1>4. AfterTls(r) \in Places /\ AfterTls(r).pc # "flight"
    <2>1. CASE RetriesTls(r)
      <3>1. AfterTls(r) = [req[r] EXCEPT !.pc = "ready", !.tls = req[r].tls + 1]
        BY <2>1 DEF AfterTls
      <3>2. req[r].tls + 1 \in 0..(MaxTls - 1)
        BY <1>2, <2>1, ConstantsAssumption DEF RetriesTls
      <3> QED BY <1>2, <3>1, <3>2
    <2> QED BY <1>1, <2>1 DEF AfterTls
  <1> QED BY <1>1, <1>3, <1>4

(* A request that was not in flight goes out: the count stays exact. *)
LEMMA CountsSend ==
    ASSUME TypeOK, CountExact, NEW r \in Requests, Send(r)
    PROVE  CountExact' /\ inFlight' \in 0..Cardinality(Requests)
  <1>1. InFlight' = InFlight \cup {r} /\ r \notin InFlight
    BY DEF TypeOK, Send, InFlight
  <1>2. Cardinality(InFlight') = Cardinality(InFlight) + 1
    BY <1>1, InFlightFinite, FS_AddElement
  <1>3. InFlight' \subseteq Requests
    BY DEF InFlight
  <1>4. Cardinality(InFlight') <= Cardinality(Requests)
    BY <1>3, ConstantsAssumption, FS_Subset
  <1> QED BY <1>2, <1>4, InFlightFinite, ConstantsAssumption, FS_CardinalityType
          DEF CountExact, Send

(* A request in flight comes back: the count stays exact. *)
LEMMA CountsRelease ==
    ASSUME TypeOK, CountExact, NEW r \in Requests, req[r].pc = "flight",
           NEW a, a.pc # "flight", req' = [req EXCEPT ![r] = a], Release(r)
    PROVE  CountExact' /\ inFlight' \in 0..Cardinality(Requests)
  <1>1. InFlight' = InFlight \ {r} /\ r \in InFlight
    BY DEF TypeOK, InFlight
  <1>2. Cardinality(InFlight') = Cardinality(InFlight) - 1
    BY <1>1, InFlightFinite, FS_RemoveElement
  <1>3. Cardinality(InFlight) # 0
    BY <1>1, InFlightFinite, FS_EmptySet
  <1> QED BY <1>2, <1>3, InFlightFinite, ConstantsAssumption, FS_CardinalityType
          DEF CountExact, Release

(* A request that is not in flight, before and after, is not counted. *)
LEMMA CountsNothing ==
    ASSUME TypeOK, CountExact, NEW r \in Requests, req[r].pc # "flight",
           NEW a, a.pc # "flight", req' = [req EXCEPT ![r] = a], UNCHANGED inFlight
    PROVE  CountExact' /\ InFlight' = InFlight
  <1>1. InFlight' = InFlight
    BY DEF TypeOK, InFlight
  <1> QED BY <1>1 DEF CountExact

-----------------------------------------------------------------------------
LEMMA InitIInv == Init => IInv
  <1> SUFFICES ASSUME Init PROVE IInv
    OBVIOUS
  <1>1. InFlight = {}
    BY DEF Init, InFlight, Idle
  <1>2. CountExact
    BY <1>1, FS_EmptySet DEF Init, CountExact
  <1>3. TypeOK
    <2>1. inFlight \in 0..Cardinality(Requests)
      BY ConstantsAssumption, FS_CardinalityType DEF Init
    <2>2. req \in [Requests -> [pc : {"idle", "ready", "flight"},
                                transient : 0..(MaxTransient - 1), tls : 0..(MaxTls - 1)]]
      BY ConstantsAssumption DEF Init, Idle
    <2>3. gen \in 0..MaxWindows /\ downs \in 0..MaxDowns
          /\ timer \in [pc : {"none", "asleep", "waiting", "recover"}, gen : 0..MaxWindows]
      BY ConstantsAssumption DEF Init, NoTimer
    <2> QED BY <2>1, <2>2, <2>3 DEF Init, TypeOK
  <1>4. GatesAgree /\ OneHolder /\ NeverStranded /\ HandlersDrained /\ RequestsDrained
    BY DEF Init, GatesAgree, OneHolder, NeverStranded, HandlersDrained, RequestsDrained
  <1>5. NoneUnattributed /\ Attribution
    BY DEF Init, NoneUnattributed, Attribution
  <1> QED BY <1>2, <1>3, <1>4, <1>5 DEF IInv

(* A step of a request leaves the window and the gates to their holders.   *)
LEMMA WindowUntouched ==
    ASSUME IInv, UNCHANGED <<windowVars, handlers>>, InFlight' \subseteq InFlight \/ ~armed
    PROVE  /\ GatesAgree' /\ OneHolder' /\ NeverStranded'
           /\ HandlersDrained' /\ RequestsDrained'
  BY DEF IInv, windowVars, GatesAgree, OneHolder, NeverStranded, HandlersDrained, RequestsDrained

LEMMA BeginStep == ASSUME IInv, NEW r \in Requests, Begin(r) PROVE IInv'
  <1> USE DEF IInv
  <1> DEFINE a == [req[r] EXCEPT !.pc = "ready"]
  <1>1. a.pc # "flight" /\ req' = [req EXCEPT ![r] = a] /\ req[r].pc # "flight"
    BY DEF TypeOK, Begin
  <1>2. CountExact' /\ InFlight' = InFlight
    <2> HIDE DEF a
    <2> QED BY <1>1, CountsNothing DEF Begin
  <1>3. TypeOK'
    BY DEF TypeOK, Begin, windowVars
  <1>4. NoneUnattributed' /\ Attribution'
    BY DEF NoneUnattributed, Attribution, Begin
  <1> QED BY <1>2, <1>3, <1>4, WindowUntouched DEF Begin

(* The gate's own failure: RecordFailure(TRUE). *)
LEMMA GatedStep == ASSUME IInv, NEW r \in Requests, Gated(r) PROVE IInv'
  <1> USE DEF IInv
  <1>1. CountExact' /\ InFlight' = InFlight
    BY AfterFailure, CountsNothing DEF Gated
  <1>2. TypeOK'
    <2>1. req' \in [Requests -> [pc : {"idle", "ready", "flight"},
                                 transient : 0..(MaxTransient - 1), tls : 0..(MaxTls - 1)]]
      BY AfterFailure DEF TypeOK, Gated
    <2>2. alive' \in BOOLEAN /\ failing' \in BOOLEAN /\ silence' \in {"none", "simulated", "genuine"}
      BY DEF TypeOK, Gated, RecordFailure
    <2> QED BY <2>1, <2>2 DEF TypeOK, Gated, windowVars
  <1>3. NoneUnattributed' /\ Attribution'
    BY DEF TypeOK, NoneUnattributed, Attribution, Gated, RecordFailure
  <1> QED BY <1>1, <1>2, <1>3, WindowUntouched DEF Gated

LEMMA SendStep == ASSUME IInv, NEW r \in Requests, Send(r) PROVE IInv'
  <1> USE DEF IInv
  <1>1. CountExact' /\ inFlight' \in 0..Cardinality(Requests)
    BY CountsSend
  <1>2. TypeOK'
    BY <1>1 DEF TypeOK, Send, windowVars
  <1>3. NoneUnattributed' /\ Attribution'
    BY DEF NoneUnattributed, Attribution, Send
  <1> QED BY <1>1, <1>2, <1>3, WindowUntouched DEF Send

(* Contact clears the silence and the history of failures with it. *)
LEMMA ContactStep ==
    ASSUME IInv, NEW r \in Requests, Answered(r) \/ Throttled(r)
    PROVE  IInv'
  <1> USE DEF IInv
  <1> PICK a \in {AfterTransient(r), Idle} : req' = [req EXCEPT ![r] = a]
    BY DEF Answered, Throttled
  <1>1. /\ req[r].pc = "flight" /\ Release(r) /\ RecordContact /\ genuine' = {}
        /\ UNCHANGED <<up, windowVars, lost, handlers, dropped, downs>>
    BY DEF Answered, Throttled
  <1>2. a.pc # "flight"
    BY AfterFailure
  <1>3. CountExact' /\ inFlight' \in 0..Cardinality(Requests)
    BY <1>1, <1>2, CountsRelease
  <1>4. InFlight' \subseteq InFlight
    BY <1>2 DEF TypeOK, InFlight
  <1>5. TypeOK'
    <2>1. req' \in [Requests -> [pc : {"idle", "ready", "flight"},
                                 transient : 0..(MaxTransient - 1), tls : 0..(MaxTls - 1)]]
      BY AfterFailure DEF TypeOK
    <2>2. alive' \in BOOLEAN /\ failing' \in BOOLEAN /\ silence' \in {"none", "simulated", "genuine"}
      BY <1>1 DEF RecordContact
    <2>3. genuine' \subseteq {"get", "write", "raw"}
      BY <1>1
    <2> QED BY <1>1, <1>3, <2>1, <2>2, <2>3 DEF TypeOK, windowVars
  <1>6. NoneUnattributed' /\ Attribution'
    BY <1>1 DEF NoneUnattributed, Attribution, RecordContact
  <1> QED BY <1>1, <1>3, <1>4, <1>5, <1>6, WindowUntouched

(* A real failure: a GET and a raw request record it at once, so the       *)
(* silence is genuine from then on; a write may hold it back.              *)
LEMMA FailsStep ==
    ASSUME IInv, NEW r \in Requests, TransportFails(r) \/ TlsFails(r)
    PROVE  IInv'
  <1> USE DEF IInv
  <1>1. PICK a \in {AfterTransient(r), AfterTls(r)}, retries \in BOOLEAN :
           Fails(r, a, retries) /\ (retries => r \notin Raws)
    BY DEF TransportFails, TlsFails, RetriesTransient, RetriesTls
  <1>2. a.pc # "flight"
    BY AfterFailure
  <1>3. CountExact' /\ inFlight' \in 0..Cardinality(Requests)
    BY <1>1, <1>2, CountsRelease DEF Fails
  <1>4. InFlight' \subseteq InFlight
    BY <1>1, <1>2 DEF Fails, TypeOK, InFlight
  <1>5. Kind(r) \in {"get", "write", "raw"}
    BY DEF Kind
  <1>6. TypeOK'
    <2>1. req' \in [Requests -> [pc : {"idle", "ready", "flight"},
                                 transient : 0..(MaxTransient - 1), tls : 0..(MaxTls - 1)]]
      BY <1>1, AfterFailure DEF TypeOK, Fails
    <2>2. alive' \in BOOLEAN /\ failing' \in BOOLEAN /\ silence' \in {"none", "simulated", "genuine"}
      BY <1>1 DEF TypeOK, Fails, RecordFailure
    <2>3. genuine' \subseteq {"get", "write", "raw"}
      BY <1>1, <1>5 DEF TypeOK, Fails
    <2> QED BY <1>1, <1>3, <2>1, <2>2, <2>3 DEF TypeOK, Fails, windowVars
  <1>7. genuine' = genuine \cup {Kind(r)}
    BY <1>1 DEF Fails
  <1>8. NoneUnattributed' /\ Attribution'
    <2>1. CASE RecordsAttempt(r, ~retries)
      <3>1. silence' = "genuine"
        BY <1>1, <2>1 DEF Fails, RecordFailure
      <3> QED BY <1>7, <3>1 DEF NoneUnattributed, Attribution
    <2>2. CASE ~RecordsAttempt(r, ~retries)
      <3>1. Kind(r) = "write" /\ silence' = silence
        BY <1>1, <2>2, ConstantsAssumption DEF RecordsAttempt, Kind, Requests, Fails
      <3> QED BY <1>7, <3>1 DEF NoneUnattributed, Attribution
    <2> QED BY <2>1, <2>2
  <1> QED BY <1>1, <1>3, <1>4, <1>6, <1>8, WindowUntouched DEF Fails

-----------------------------------------------------------------------------
(* The steps that leave the requests and their health alone. *)
LEMMA HttpUntouched ==
    ASSUME IInv, UNCHANGED httpVars
    PROVE  CountExact' /\ NoneUnattributed' /\ Attribution' /\ InFlight' = InFlight
  <1>1. InFlight' = InFlight
    BY DEF httpVars, InFlight
  <1> QED BY <1>1 DEF IInv, httpVars, CountExact, NoneUnattributed, Attribution

LEMMA SimulateStep == ASSUME IInv, Simulate PROVE IInv'
  <1> USE DEF IInv
  <1>1. TypeOK'
    BY ConstantsAssumption DEF TypeOK, Simulate, CancelTimer, NoTimer, httpVars
  <1>2. GatesAgree' /\ OneHolder' /\ NeverStranded'
    BY DEF Simulate, Free, CancelTimer, NoTimer, GatesAgree, OneHolder, NeverStranded
  <1>3. HandlersDrained' /\ RequestsDrained'
    BY DEF Simulate, HandlersDrained, RequestsDrained
  <1> QED BY <1>1, <1>2, <1>3, HttpUntouched DEF Simulate

LEMMA ArmStep == ASSUME IInv, Arm PROVE IInv'
  <1> USE DEF IInv
  <1>1. TypeOK'
    BY DEF TypeOK, Arm, httpVars
  <1>2. GatesAgree' /\ OneHolder' /\ NeverStranded'
    BY DEF Arm, GatesAgree, OneHolder, NeverStranded
  <1>3. HandlersDrained' /\ RequestsDrained'
    BY DEF TypeOK, Arm, HandlersDrained, RequestsDrained
  <1> QED BY <1>1, <1>2, <1>3, HttpUntouched DEF Arm

(* wait_until_idle reads a count of zero exactly when nothing is out. *)
LEMMA ReportStep == ASSUME IInv, Report PROVE IInv'
  <1> USE DEF IInv
  <1>1. TypeOK'
    <2>1. timer' \in [pc : {"none", "asleep", "waiting", "recover"}, gen : 0..MaxWindows]
      BY DEF TypeOK, Report
    <2>2. drained' \in [requests : BOOLEAN, handlers : BOOLEAN]
      BY DEF TypeOK, Report
    <2> QED BY <2>1, <2>2 DEF TypeOK, Report, httpVars
  <1>2. GatesAgree' /\ OneHolder' /\ NeverStranded'
    BY DEF Report, GatesAgree, OneHolder, NeverStranded
  <1>3. inFlight = 0 => InFlight = {}
    BY InFlightFinite, FS_EmptySet DEF CountExact
  <1>4. drained'.handlers = drained.handlers /\ (drained'.requests <=> inFlight = 0)
    BY DEF TypeOK, Report
  <1>5. HandlersDrained' /\ RequestsDrained'
    BY <1>3, <1>4, HttpUntouched DEF Report, HandlersDrained, RequestsDrained
  <1> QED BY <1>1, <1>2, <1>5, HttpUntouched DEF Report

LEMMA AbortStep == ASSUME IInv, Abort PROVE IInv'
  <1> USE DEF IInv
  <1>1. TypeOK'
    BY DEF TypeOK, Abort, httpVars
  <1>2. GatesAgree' /\ OneHolder' /\ NeverStranded'
    BY DEF Abort, GatesAgree, OneHolder, NeverStranded
  <1>3. HandlersDrained' /\ RequestsDrained'
    BY DEF Abort, HandlersDrained, RequestsDrained
  <1> QED BY <1>1, <1>2, <1>3, HttpUntouched DEF Abort

LEMMA ClearStep == ASSUME IInv, Clear PROVE IInv'
  <1> USE DEF IInv
  <1>1. TypeOK'
    <2>1. timer' \in [pc : {"none", "asleep", "waiting", "recover"}, gen : 0..MaxWindows]
      BY ConstantsAssumption DEF TypeOK, Clear, CancelTimer, NoTimer
    <2> QED BY <2>1 DEF TypeOK, Clear, Disarm, httpVars
  <1>2. GatesAgree' /\ OneHolder' /\ NeverStranded'
    BY DEF Clear, Free, Disarm, CancelTimer, NoTimer, GatesAgree, OneHolder, NeverStranded
  <1>3. HandlersDrained' /\ RequestsDrained'
    BY DEF Clear, Disarm, HandlersDrained, RequestsDrained
  <1> QED BY <1>1, <1>2, <1>3, HttpUntouched DEF Clear

LEMMA DeadlineStep == ASSUME IInv, Deadline PROVE IInv'
  <1> USE DEF IInv
  <1>1. TypeOK'
    BY DEF TypeOK, Deadline, httpVars
  <1>2. timer'.pc = "waiting" /\ timer'.gen = timer.gen
    BY DEF TypeOK, Deadline
  <1>3. GatesAgree' /\ OneHolder' /\ NeverStranded'
    BY <1>2 DEF Deadline, GatesAgree, OneHolder, NeverStranded
  <1>4. HandlersDrained' /\ RequestsDrained'
    BY HttpUntouched DEF Deadline, HandlersDrained, RequestsDrained
  <1> QED BY <1>1, <1>3, <1>4, HttpUntouched DEF Deadline

(* The timer that finds a window open finds its own: the `else` branch     *)
(* meets closed gates only.                                                *)
LEMMA ExpireStep == ASSUME IInv, Expire PROVE IInv'
  <1> USE DEF IInv
  <1>1. CASE timer.gen = gen /\ armed
    <2>1. Disarm /\ timer' = [timer EXCEPT !.pc = "recover"] /\ Free
          /\ UNCHANGED <<call, gen, drained, up, httpVars, lost, handlers, dropped, downs>>
      BY <1>1 DEF Expire
    <2>2. TypeOK'
      BY <2>1 DEF TypeOK, Disarm, httpVars
    <2>3. GatesAgree' /\ OneHolder' /\ NeverStranded'
      BY <2>1 DEF TypeOK, Free, Disarm, GatesAgree, OneHolder, NeverStranded
    <2>4. HandlersDrained' /\ RequestsDrained'
      BY <2>1 DEF Disarm, HandlersDrained, RequestsDrained
    <2> QED BY <2>1, <2>2, <2>3, <2>4, HttpUntouched
  <1>2. CASE ~(timer.gen = gen /\ armed)
    <2>1. timer' = NoTimer /\ Free /\ UNCHANGED <<armed, phase, suspended>>
          /\ UNCHANGED <<call, gen, drained, up, httpVars, lost, handlers, dropped, downs>>
      BY <1>2 DEF Expire
    <2>2. TypeOK'
      BY <2>1, ConstantsAssumption DEF TypeOK, NoTimer, httpVars
    <2>3. ~armed /\ ~suspended
      BY <1>2, <2>1 DEF Free, GatesAgree, NeverStranded
    <2>4. GatesAgree' /\ OneHolder' /\ NeverStranded'
      BY <2>1, <2>3 DEF NoTimer, Free, GatesAgree, OneHolder, NeverStranded
    <2>5. HandlersDrained' /\ RequestsDrained'
      BY <2>1, <2>3 DEF HandlersDrained, RequestsDrained
    <2> QED BY <2>1, <2>2, <2>4, <2>5, HttpUntouched
  <1> QED BY <1>1, <1>2

LEMMA RecoverStep == ASSUME IInv, NEW complete \in BOOLEAN, Recover(complete) PROVE IInv'
  <1> USE DEF IInv
  <1>1. ~armed /\ ~suspended
    BY DEF Recover, OneHolder
  <1>2. TypeOK'
    <2>1. timer' \in [pc : {"none", "asleep", "waiting", "recover"}, gen : 0..MaxWindows]
      BY ConstantsAssumption DEF TypeOK, Recover, NoTimer
    <2>2. lost' \in BOOLEAN /\ dropped' \in BOOLEAN
          /\ phase' \in {"inactive", "active", "recovering", "recovered", "recovery_failed"}
      BY DEF Recover, Recovered
    <2> QED BY <2>1, <2>2 DEF TypeOK, Recover, httpVars
  <1>3. GatesAgree' /\ OneHolder' /\ NeverStranded'
    BY <1>1 DEF Recover, NoTimer, GatesAgree, OneHolder, NeverStranded
  <1>4. HandlersDrained' /\ RequestsDrained'
    BY <1>1 DEF Recover, HandlersDrained, RequestsDrained
  <1> QED BY <1>2, <1>3, <1>4, HttpUntouched DEF Recover

-----------------------------------------------------------------------------
(* The steps of the loss-of-communications probe and of the server. *)
LEMMA OutsideStep ==
    ASSUME IInv, EnterLoss \/ ProbeRecovers \/ ServerDown \/ ServerUp
    PROVE  IInv'
  <1> USE DEF IInv
  <1>1. UNCHANGED <<httpVars, windowVars, handlers>>
    BY DEF EnterLoss, ProbeRecovers, ServerDown, ServerUp
  <1>2. TypeOK'
    <2>1. up' \in BOOLEAN /\ lost' \in BOOLEAN /\ dropped' \in BOOLEAN
      BY Zenon DEF TypeOK, EnterLoss, ProbeRecovers, ServerDown, ServerUp
    <2>2. downs' \in 0..MaxDowns
      BY ConstantsAssumption DEF TypeOK, EnterLoss, ProbeRecovers, ServerDown, ServerUp
    <2> QED BY <1>1, <2>1, <2>2 DEF TypeOK, httpVars, windowVars
  <1> QED BY <1>1, <1>2, HttpUntouched, WindowUntouched

(* Only a notification that comes while the gate is open gets a handler. *)
LEMMA NotificationStep == ASSUME IInv, Notified \/ Handled PROVE IInv'
  <1> USE DEF IInv
  <1>1. UNCHANGED <<httpVars, windowVars>> /\ (handlers' => handlers \/ ~suspended)
    BY DEF TypeOK, Notified, Handled
  <1>2. TypeOK'
    <2>1. handlers' \in BOOLEAN /\ dropped' \in BOOLEAN /\ UNCHANGED <<up, lost, downs>>
      BY DEF TypeOK, Notified, Handled
    <2> QED BY <1>1, <2>1 DEF TypeOK, httpVars, windowVars
  <1>3. GatesAgree' /\ OneHolder' /\ NeverStranded'
    BY <1>1 DEF windowVars, GatesAgree, OneHolder, NeverStranded
  <1>4. HandlersDrained' /\ RequestsDrained'
    BY <1>1, HttpUntouched DEF windowVars, GatesAgree, HandlersDrained, RequestsDrained
  <1> QED BY <1>1, <1>2, <1>3, <1>4, HttpUntouched

(* reset_session keeps the run of silence: nothing is attributed anew. *)
LEMMA ResetStep == ASSUME IInv, ResetSession PROVE IInv'
  <1> USE DEF IInv
  <1>1. InFlight' = InFlight
    BY DEF ResetSession, InFlight
  <1>2. TypeOK'
    <2>1. alive' \in BOOLEAN /\ failing' \in BOOLEAN
      BY DEF ResetSession
    <2> QED BY <2>1 DEF TypeOK, ResetSession, windowVars
  <1>3. CountExact' /\ NoneUnattributed' /\ Attribution'
    BY <1>1 DEF ResetSession, CountExact, NoneUnattributed, Attribution
  <1> QED BY <1>1, <1>2, <1>3, WindowUntouched DEF ResetSession

LEMMA NextIInv == IInv /\ [Next]_vars => IInv'
  <1> SUFFICES ASSUME IInv, [Next]_vars PROVE IInv'
    OBVIOUS
  <1>1. ASSUME NEW r \in Requests, Begin(r) \/ Attempt(r) PROVE IInv'
    BY <1>1, BeginStep, GatedStep, SendStep, ContactStep, FailsStep DEF Attempt
  <1>2. CASE Simulate \/ Clear \/ Abort
    BY <1>2, SimulateStep, ClearStep, AbortStep
  <1>3. CASE Window
    BY <1>3, ArmStep, ReportStep, DeadlineStep, ExpireStep, RecoverStep DEF Window
  <1>4. CASE EnterLoss \/ ProbeRecovers \/ ServerDown \/ ServerUp
    BY <1>4, OutsideStep
  <1>5. CASE Notified \/ Handled \/ ResetSession
    BY <1>5, NotificationStep, ResetStep
  <1>6. CASE UNCHANGED vars
    <2>1. TypeOK'
      BY <1>6 DEF IInv, TypeOK, vars, httpVars, windowVars
    <2> QED BY <1>6, <2>1, HttpUntouched, WindowUntouched DEF IInv, vars
  <1> QED BY <1>1, <1>2, <1>3, <1>4, <1>5, <1>6 DEF Next

(* IInv holds in every state: the count, the gate, the window's generation *)
(* and the health agree with the requests.                                 *)
THEOREM Invariance == Spec => []IInv
  BY InitIInv, NextIInv, PTL DEF Spec

(* Every variable keeps its type; in particular _in_flight never goes      *)
(* below zero and no request exceeds its retries.                          *)
THEOREM TypeCorrect == Spec => []TypeOK
  <1>1. IInv => TypeOK
    BY DEF IInv
  <1> QED BY Invariance, <1>1, PTL

(* simulate_comm_loss never leaves a gate closed that nothing will open,   *)
(* whatever its drains, cancellations and rival calls do.                  *)
THEOREM WindowsCloseable == Spec => []NeverStranded
  <1>1. IInv => NeverStranded
    BY DEF IInv
  <1> QED BY Invariance, <1>1, PTL

(* A window that was reported drained is isolated from the server.         *)
THEOREM DrainedIsIsolated == Spec => []Isolated
  <1>1. IInv => Isolated
    BY DEF IInv, Isolated, HandlersDrained, RequestsDrained
  <1> QED BY Invariance, <1>1, PTL

(* The health attributes a silence to the simulation only when no GET and  *)
(* no raw request really failed, and to the server only when one did.      *)
THEOREM SilenceAttributed == Spec => []Attribution
  <1>1. IInv => Attribution
    BY DEF IInv
  <1> QED BY Invariance, <1>1, PTL

(* wait_until_idle waits for the right thing: the count is zero exactly    *)
(* when no request is out.                                                 *)
THEOREM InFlightCounts == Spec => [](CountExact /\ (inFlight = 0 <=> InFlight = {}))
  <1>1. IInv => CountExact /\ (inFlight = 0 <=> InFlight = {})
    BY InFlightFinite, FS_EmptySet DEF IInv, CountExact
  <1> QED BY Invariance, <1>1, PTL
=============================================================================
