------------------------ MODULE ResponseTracker_proof ------------------------
(***************************************************************************)
(* Proofs about ResponseTracker, for any tasks, events, devices and codes. *)
(*                                                                         *)
(* The invariants of the module are not inductive by themselves.  What is  *)
(* missing is how _sent and _in_flight relate: a claimed key is not sent,  *)
(* a sent key was delivered, and an entry of _sent accounts for the one    *)
(* delivery that neither a lost answer nor an eviction does.               *)
(***************************************************************************)
EXTENDS ResponseTracker, TLAPS

(* mark_sent drops the claim it sends under. *)
ClaimedNotSent == \A k \in Keys : inFlight[k] # NoCaller => sent[k] = Never

InSent(k) == IF sent[k] = Never THEN 0 ELSE 1

(* Every delivery of a key is in _sent, was forgotten from it, or was      *)
(* never seen to succeed.                                                  *)
DeliveriesAccounted ==
    \A k \in Keys : delivered[k] <= unproved[k] + forgotten[k] + InSent(k)

SentWasDelivered == \A k \in Keys : sent[k] # Never => delivered[k] >= 1

WonWasDelivered == \A c \in Callers : pc[c] = "won" => delivered[key[c]] >= 1

(* A task inside the call holds a key its event asks for. *)
KeyAllowed(k) ==
    /\ RequiredBitFor(k[2]) \in RequestedBits(k[1]) /\ k[1] \in ReplyTo
    /\ ~(Is2018 /\ k[2] = "NOT_SUPPORTED")

KeysAllowed == \A c \in Callers : pc[c] # "idle" => KeyAllowed(key[c])

IInv ==
    /\ TypeOK
    /\ ClaimMatchesPoster
    /\ WaiterHasHolder
    /\ ClaimedNotSent
    /\ DeliveriesAccounted
    /\ SentWasDelivered
    /\ WonWasDelivered
    /\ SkippedWasDelivered
    /\ KeysAllowed

-----------------------------------------------------------------------------
(* The code that reaches the wire is a response code. *)
LEMMA WireCodeType ==
    ASSUME NEW m \in Mrids, NEW code \in Codes
    PROVE  ResolveWireCode(m, code) \in Codes
  BY DEF ResolveWireCode, TranslateCodeForRevision, Codes

(* Under 2030.5-2018 the reserved code never reaches the wire. *)
LEMMA WireCodeNotReserved ==
    ASSUME NEW m \in Mrids, NEW code \in Codes
    PROVE  ~(Is2018 /\ ResolveWireCode(m, code) = "NOT_SUPPORTED")
  BY ConstantsAssumption DEF ResolveWireCode, TranslateCodeForRevision, Codes

(* There is a key for Init to choose. *)
LEMMA SomeKey == (CHOOSE k \in Keys : TRUE) \in Keys
  <1>1. PICK m \in Mrids, l \in Lfdis : TRUE
    BY ConstantsAssumption
  <1>2. <<m, "COMPLETED", l>> \in Keys
    BY <1>1 DEF Keys, Codes
  <1> QED BY <1>2

LEMMA KeyFields ==
    ASSUME NEW m \in Mrids, NEW code \in Codes, NEW l \in Lfdis
    PROVE  /\ <<m, code, l>> \in Keys
           /\ <<m, code, l>>[1] = m /\ <<m, code, l>>[2] = code
  BY DEF Keys

-----------------------------------------------------------------------------
LEMMA InitIInv == Init => IInv
  <1> SUFFICES ASSUME Init PROVE IInv
    OBVIOUS
  <1>1. TypeOK
    BY SomeKey, ConstantsAssumption DEF Init, TypeOK, Places, Verdicts, Never
  <1>2. ClaimMatchesPoster /\ WaiterHasHolder /\ ClaimedNotSent
    BY <1>1 DEF Init, TypeOK, ClaimMatchesPoster, WaiterHasHolder, ClaimedNotSent
  <1>3. DeliveriesAccounted /\ SentWasDelivered /\ WonWasDelivered
    BY <1>1 DEF Init, TypeOK, DeliveriesAccounted, SentWasDelivered,
                WonWasDelivered, InSent, Never
  <1>4. SkippedWasDelivered /\ KeysAllowed
    BY <1>1 DEF Init, SkippedWasDelivered, KeysAllowed
  <1> QED BY <1>1, <1>2, <1>3, <1>4 DEF IInv

(* reserve() on an allowed key: what PostResponse and a retry share. *)
LEMMA ReserveStep ==
    ASSUME IInv, NEW c \in Callers, NEW k \in Keys,
           pc[c] \in {"idle", "lost"}, KeyAllowed(k),
           Reserve(c, k), key' = [key EXCEPT ![c] = k],
           stamp' \in [Callers -> 0..MaxTime], calls' \in [Callers -> 0..MaxCalls],
           UNCHANGED <<now, sent, repeats, ghostVars>>
    PROVE  IInv'
  <1> USE DEF IInv, ghostVars
  <1>1. TypeOK'
    <2>1. /\ now' = now /\ sent' = sent /\ delivered' = delivered
          /\ unproved' = unproved /\ forgotten' = forgotten /\ repeats' = repeats
      OBVIOUS
    <2>2. inFlight' \in [Keys -> Callers \cup {NoCaller}]
      BY DEF Reserve, TypeOK
    <2>3. pc' \in [Callers -> Places] /\ verdict' \in [Callers -> Verdicts]
      BY DEF Reserve, TypeOK, Places, Verdicts
    <2>4. key' \in [Callers -> Keys]
      BY DEF TypeOK
    <2> QED BY <2>1, <2>2, <2>3, <2>4 DEF TypeOK
  <1>2. ClaimMatchesPoster'
    BY <1>1, ConstantsAssumption DEF Reserve, TypeOK, ClaimMatchesPoster, Places
  <1>3. WaiterHasHolder'
    BY <1>1, ConstantsAssumption DEF Reserve, TypeOK, ClaimMatchesPoster, WaiterHasHolder
  <1>4. ClaimedNotSent'
    BY <1>1 DEF Reserve, TypeOK, ClaimedNotSent
  <1>5. DeliveriesAccounted' /\ SentWasDelivered'
    BY DEF DeliveriesAccounted, SentWasDelivered, InSent
  <1>6. WonWasDelivered' /\ SkippedWasDelivered'
    BY <1>1 DEF Reserve, TypeOK, WonWasDelivered, SkippedWasDelivered, SentWasDelivered
  <1>7. KeysAllowed'
    BY <1>1 DEF Reserve, TypeOK, KeysAllowed
  <1> QED BY <1>1, <1>2, <1>3, <1>4, <1>5, <1>6, <1>7

LEMMA PostResponseStep ==
    ASSUME IInv, NEW c \in Callers, NEW m \in Mrids, NEW code \in AskedCodes,
           NEW lfdi \in Lfdis, PostResponse(c, m, code, lfdi)
    PROVE  IInv'
  <1> DEFINE wire == ResolveWireCode(m, code)
             k    == <<m, wire, lfdi>>
  <1>1. code \in Codes /\ wire \in Codes
    BY ConstantsAssumption, WireCodeType
  <1>2. k \in Keys /\ k[1] = m /\ k[2] = wire
    BY <1>1, KeyFields
  <1>3. /\ stamp' \in [Callers -> 0..MaxTime]
        /\ calls' \in [Callers -> 0..MaxCalls]
        /\ key' = [key EXCEPT ![c] = k]
        /\ pc[c] = "idle"
        /\ UNCHANGED <<now, sent, repeats, ghostVars>>
    BY ConstantsAssumption DEF PostResponse, IInv, TypeOK
  <1>4. CASE Allowed(m, wire)
    <2>1. KeyAllowed(k)
      BY <1>1, <1>2, <1>4, WireCodeNotReserved
         DEF KeyAllowed, Allowed, ResponseRequiredAllows
    <2>2. Reserve(c, k)
      BY <1>4 DEF PostResponse
    <2> HIDE DEF k
    <2> QED BY <1>2, <1>3, <2>1, <2>2, ReserveStep
  <1>5. CASE ~Allowed(m, wire)
    <2>1. /\ verdict' = [verdict EXCEPT ![c] = "gated"]
          /\ UNCHANGED <<inFlight, pc>>
      BY <1>5 DEF PostResponse
    <2> HIDE DEF k
    <2> USE <1>2, <1>3, <2>1 DEF IInv, ghostVars
    <2>2. TypeOK'
      BY DEF TypeOK, Verdicts
    <2>3. ClaimMatchesPoster' /\ WaiterHasHolder' /\ ClaimedNotSent'
      BY ConstantsAssumption DEF TypeOK, ClaimMatchesPoster, WaiterHasHolder, ClaimedNotSent
    <2>4. DeliveriesAccounted' /\ SentWasDelivered' /\ WonWasDelivered'
      BY DEF TypeOK, DeliveriesAccounted, SentWasDelivered, WonWasDelivered, InSent
    <2>5. SkippedWasDelivered' /\ KeysAllowed'
      BY DEF TypeOK, SkippedWasDelivered, KeysAllowed
    <2> QED BY <2>2, <2>3, <2>4, <2>5
  <1> QED BY <1>4, <1>5

(* An attempt that with_retry repeats leaves the claim; if the server      *)
(* processed it, the client saw it fail.                                   *)
LEMMA AttemptLostStep ==
    ASSUME IInv, NEW c \in Callers, AttemptLost(c)
    PROVE  IInv'
  <1> USE DEF IInv, AttemptLost, trackerVars
  <1>1. TypeOK'
    BY ConstantsAssumption DEF TypeOK
  <1>2. ClaimMatchesPoster' /\ WaiterHasHolder' /\ ClaimedNotSent'
    BY DEF ClaimMatchesPoster, WaiterHasHolder, ClaimedNotSent
  <1>3. DeliveriesAccounted'
    BY <1>1 DEF TypeOK, DeliveriesAccounted, InSent
  <1>4. SentWasDelivered' /\ WonWasDelivered' /\ SkippedWasDelivered' /\ KeysAllowed'
    BY <1>1 DEF TypeOK, SentWasDelivered, WonWasDelivered, SkippedWasDelivered, KeysAllowed
  <1> QED BY <1>1, <1>2, <1>3, <1>4

LEMMA MarkSentStep ==
    ASSUME IInv, NEW c \in Callers, MarkSent(c)
    PROVE  IInv'
  <1> USE DEF IInv, MarkSent, Resolve, Resumed
  <1> DEFINE k == key[c]
  <1>1. k \in Keys /\ inFlight[k] = c /\ sent[k] = Never
    BY ConstantsAssumption DEF TypeOK, ClaimMatchesPoster, ClaimedNotSent
  <1>2. TypeOK'
    BY <1>1, ConstantsAssumption DEF TypeOK, Places, Verdicts
  <1>3. ClaimMatchesPoster'
    BY <1>1, <1>2, ConstantsAssumption DEF TypeOK, ClaimMatchesPoster
  <1>4. WaiterHasHolder'
    BY <1>1, <1>2, ConstantsAssumption DEF TypeOK, WaiterHasHolder
  <1>5. ClaimedNotSent'
    BY <1>1, <1>2 DEF TypeOK, ClaimedNotSent
  <1>6. DeliveriesAccounted'
    BY <1>1, <1>2 DEF TypeOK, DeliveriesAccounted, InSent, Never
  <1>7. SentWasDelivered' /\ WonWasDelivered' /\ SkippedWasDelivered'
    BY <1>1, <1>2 DEF TypeOK, SentWasDelivered, WonWasDelivered, SkippedWasDelivered
  <1>8. KeysAllowed'
    BY <1>2 DEF TypeOK, KeysAllowed
  <1> QED BY <1>2, <1>3, <1>4, <1>5, <1>6, <1>7, <1>8

LEMMA ReleaseStep ==
    ASSUME IInv, NEW c \in Callers, NEW how \in {"failed", "cancelled"},
           Release(c, how)
    PROVE  IInv'
  <1> USE DEF IInv, Release, Resolve, Resumed
  <1> DEFINE k == key[c]
  <1>1. k \in Keys /\ inFlight[k] = c /\ sent[k] = Never
    BY ConstantsAssumption DEF TypeOK, ClaimMatchesPoster, ClaimedNotSent
  <1>2. TypeOK'
    BY <1>1, ConstantsAssumption DEF TypeOK, Places, Verdicts
  <1>3. ClaimMatchesPoster'
    BY <1>1, <1>2, ConstantsAssumption DEF TypeOK, ClaimMatchesPoster
  <1>4. WaiterHasHolder'
    BY <1>1, <1>2, ConstantsAssumption DEF TypeOK, WaiterHasHolder
  <1>5. ClaimedNotSent'
    BY <1>1, <1>2 DEF TypeOK, ClaimedNotSent
  <1>6. DeliveriesAccounted'
    BY <1>1, <1>2 DEF TypeOK, DeliveriesAccounted, InSent
  <1>7. SentWasDelivered' /\ WonWasDelivered' /\ SkippedWasDelivered'
    BY <1>1, <1>2 DEF TypeOK, SentWasDelivered, WonWasDelivered, SkippedWasDelivered
  <1>8. KeysAllowed'
    BY <1>2 DEF TypeOK, KeysAllowed
  <1> QED BY <1>2, <1>3, <1>4, <1>5, <1>6, <1>7, <1>8

(* A waiter that leaves reserve() without taking the key: it skips, or it  *)
(* is cancelled.                                                           *)
LEMMA WaiterLeavesStep ==
    ASSUME IInv, NEW c \in Callers, WaiterSkips(c) \/ CancelWaiter(c)
    PROVE  IInv'
  <1> USE DEF IInv, WaiterSkips, CancelWaiter, trackerVars, ghostVars
  <1>1. TypeOK'
    BY DEF TypeOK, Places, Verdicts
  <1>2. ClaimMatchesPoster' /\ WaiterHasHolder' /\ ClaimedNotSent'
    BY <1>1, ConstantsAssumption
    DEF TypeOK, ClaimMatchesPoster, WaiterHasHolder, ClaimedNotSent
  <1>3. DeliveriesAccounted' /\ SentWasDelivered' /\ WonWasDelivered'
    BY <1>1 DEF TypeOK, DeliveriesAccounted, SentWasDelivered, WonWasDelivered, InSent
  <1>4. SkippedWasDelivered' /\ KeysAllowed'
    BY <1>1 DEF TypeOK, WonWasDelivered, SkippedWasDelivered, KeysAllowed
  <1> QED BY <1>1, <1>2, <1>3, <1>4

LEMMA WaiterRetriesStep ==
    ASSUME IInv, NEW c \in Callers, WaiterRetries(c)
    PROVE  IInv'
  <1>1. key[c] \in Keys /\ KeyAllowed(key[c]) /\ pc[c] = "lost"
    BY DEF WaiterRetries, IInv, TypeOK, KeysAllowed
  <1>2. /\ key' = [key EXCEPT ![c] = key[c]]
        /\ stamp' \in [Callers -> 0..MaxTime]
        /\ calls' \in [Callers -> 0..MaxCalls]
        /\ UNCHANGED <<now, sent, repeats, ghostVars>>
        /\ Reserve(c, key[c])
    BY DEF WaiterRetries, IInv, TypeOK
  <1> QED BY <1>1, <1>2, ReserveStep

(* prune and retain_mrids drop entries of _sent only, and count them. *)
LEMMA EvictStep ==
    ASSUME IInv, NEW gone \in SUBSET {k \in Keys : sent[k] # Never}, Evict(gone)
    PROVE  IInv'
  <1> USE DEF IInv, Evict, taskVars
  <1>1. TypeOK'
    BY DEF TypeOK
  <1>2. ClaimMatchesPoster' /\ WaiterHasHolder' /\ ClaimedNotSent'
    BY <1>1 DEF TypeOK, ClaimMatchesPoster, WaiterHasHolder, ClaimedNotSent
  <1>3. DeliveriesAccounted'
    BY <1>1 DEF TypeOK, DeliveriesAccounted, InSent
  <1>4. SentWasDelivered' /\ WonWasDelivered' /\ SkippedWasDelivered' /\ KeysAllowed'
    BY <1>1 DEF TypeOK, SentWasDelivered, WonWasDelivered, SkippedWasDelivered, KeysAllowed
  <1> QED BY <1>1, <1>2, <1>3, <1>4

(* Neither the clock nor a stuttering step touches what IInv speaks of. *)
LEMMA QuietStep ==
    ASSUME IInv, UNCHANGED <<trackerVars, taskVars, ghostVars>>,
           now' \in 0..MaxTime
    PROVE  IInv'
  BY DEF IInv, TypeOK, ClaimMatchesPoster, WaiterHasHolder, ClaimedNotSent,
         DeliveriesAccounted, InSent, SentWasDelivered, WonWasDelivered,
         SkippedWasDelivered, KeysAllowed, trackerVars, taskVars, ghostVars

LEMMA NextIInv == IInv /\ [Next]_vars => IInv'
  <1> SUFFICES ASSUME IInv, [Next]_vars PROVE IInv'
    OBVIOUS
  <1>1. CASE \E c \in Callers, m \in Mrids, code \in AskedCodes, lfdi \in Lfdis :
                PostResponse(c, m, code, lfdi)
    BY <1>1, PostResponseStep
  <1>2. CASE \E c \in Callers : AttemptLost(c) \/ MarkSent(c)
    BY <1>2, AttemptLostStep, MarkSentStep
  <1>3. CASE \E c \in Callers, how \in {"failed", "cancelled"} : Release(c, how)
    BY <1>3, ReleaseStep
  <1>4. CASE \E c \in Callers : WaiterSkips(c) \/ CancelWaiter(c)
    BY <1>4, WaiterLeavesStep
  <1>5. CASE \E c \in Callers : WaiterRetries(c)
    BY <1>5, WaiterRetriesStep
  <1>6. CASE Prune
    BY <1>6, EvictStep DEF Prune
  <1>7. CASE \E live \in SUBSET Mrids : RetainMrids(live)
    BY <1>7, EvictStep DEF RetainMrids
  <1>8. CASE Tick
    <2>1. now' \in 0..MaxTime
      BY <1>8, ConstantsAssumption DEF Tick, IInv, TypeOK
    <2> QED BY <1>8, <2>1, QuietStep DEF Tick
  <1>9. CASE UNCHANGED vars
    <2>1. now' \in 0..MaxTime
      BY <1>9 DEF vars, IInv, TypeOK
    <2> QED BY <1>9, <2>1, QuietStep DEF vars
  <1> QED BY <1>1, <1>2, <1>3, <1>4, <1>5, <1>6, <1>7, <1>8, <1>9 DEF Next

(* IInv is an invariant of every instance. *)
THEOREM Inductive == Spec => []IInv
  BY InitIInv, NextIInv, PTL DEF Spec

-----------------------------------------------------------------------------
(* The state of the tracker and of its callers keeps its type. *)
THEOREM TypeCorrect == Spec => []TypeOK
  <1>1. IInv => TypeOK
    BY DEF IInv
  <1> QED BY Inductive, <1>1, PTL

(* Exactly the task inside http.post() holds the claim on its key, and     *)
(* nobody waits in reserve() on a claim without a holder.                  *)
THEOREM ClaimsCorrect == Spec => [](ClaimMatchesPoster /\ WaiterHasHolder)
  <1>1. IInv => ClaimMatchesPoster /\ WaiterHasHolder
    BY DEF IInv
  <1> QED BY Inductive, <1>1, PTL

(* For any number of concurrent callers the server processes a response    *)
(* once, plus once per attempt the client saw fail after reaching it, be   *)
(* it repeated within the POST or its last, and once per eviction by prune *)
(* or retain_mrids.                                                        *)
THEOREM NoDuplicates == Spec => []NoDuplicateResponse
  <1>1. IInv => NoDuplicateResponse
    <2> SUFFICES ASSUME IInv, NEW k \in Keys
                 PROVE  delivered[k] <= 1 + unproved[k] + forgotten[k]
      BY DEF NoDuplicateResponse
    <2>1. /\ delivered[k] \in Nat /\ unproved[k] \in Nat /\ forgotten[k] \in Nat
          /\ delivered[k] <= unproved[k] + forgotten[k] + InSent(k)
      BY DEF IInv, TypeOK, DeliveriesAccounted
    <2>2. InSent(k) \in {0, 1}
      BY DEF InSent
    <2> QED BY <2>1, <2>2
  <1> QED BY Inductive, <1>1, PTL

(* A caller that reserve() turned away is told so only for a response the  *)
(* server has.                                                             *)
THEOREM SkipsAreSafe == Spec => []SkippedWasDelivered
  <1>1. IInv => SkippedWasDelivered
    BY DEF IInv
  <1> QED BY Inductive, <1>1, PTL

(* Whatever code a caller asks for, what is being posted is asked for by   *)
(* responseRequired and not reserved by the server's revision.             *)
THEOREM WireCodesRequested == Spec => []OnlyRequestedCodesOnWire
  <1>1. IInv => OnlyRequestedCodesOnWire
    BY DEF IInv, KeysAllowed, KeyAllowed, OnlyRequestedCodesOnWire
  <1> QED BY Inductive, <1>1, PTL

(* A claim ends with the call that holds it, never by anyone else's step.  *)
THEOREM ClaimsHeld == Spec => ClaimHeldUntilOutcome
  <1>1. IInv /\ [Next]_vars => [ClaimsKept]_vars
    <2> SUFFICES ASSUME IInv, Next, NEW k \in Keys,
                        inFlight[k] # NoCaller, inFlight'[k] # inFlight[k]
                 PROVE  inFlight'[k] = NoCaller /\ pc'[inFlight[k]] = "idle"
      BY DEF ClaimsKept
    <2>1. CASE \E c \in Callers, m \in Mrids, code \in AskedCodes, lfdi \in Lfdis :
                  PostResponse(c, m, code, lfdi)
      <3>1. PICK c \in Callers, m \in Mrids, code \in AskedCodes, lfdi \in Lfdis :
                  PostResponse(c, m, code, lfdi)
        BY <2>1
      <3>2. <<m, ResolveWireCode(m, code), lfdi>> \in Keys
        BY WireCodeType, KeyFields, ConstantsAssumption
      <3> QED BY <3>1, <3>2 DEF PostResponse, Reserve, IInv, TypeOK
    <2>2. CASE \E c \in Callers : MarkSent(c) \/ \E how \in {"failed", "cancelled"} :
                                     Release(c, how)
      BY <2>2, ConstantsAssumption
      DEF MarkSent, Release, Resolve, Resumed, IInv, TypeOK, ClaimMatchesPoster
    <2>3. CASE \E c \in Callers : WaiterRetries(c)
      BY <2>3 DEF WaiterRetries, Reserve, IInv, TypeOK
    <2>4. CASE \/ \E c \in Callers : AttemptLost(c) \/ WaiterSkips(c) \/ CancelWaiter(c)
               \/ Prune \/ (\E live \in SUBSET Mrids : RetainMrids(live)) \/ Tick
      BY <2>4 DEF AttemptLost, WaiterSkips, CancelWaiter, Prune, RetainMrids, Evict, Tick, trackerVars
    <2> QED BY <2>1, <2>2, <2>3, <2>4 DEF Next
  <1> QED BY Inductive, <1>1, PTL DEF Spec, ClaimHeldUntilOutcome

-----------------------------------------------------------------------------
(* The refinement.  What is being posted is what is claimed, so the map    *)
(* can be read off _in_flight, before a step and after it.                 *)
LEMMA PostingIsClaimed ==
    ASSUME IInv, IInv'
    PROVE  /\ Posting = {k \in Keys : inFlight[k] # NoCaller}
           /\ Posting' = {k \in Keys : inFlight'[k] # NoCaller}
  <1>1. Posting = {k \in Keys : inFlight[k] # NoCaller}
    BY ConstantsAssumption DEF IInv, TypeOK, ClaimMatchesPoster, Posting
  <1>2. Posting' = {k \in Keys : inFlight'[k] # NoCaller}
    BY ConstantsAssumption DEF IInv, TypeOK, ClaimMatchesPoster, Posting
  <1> QED BY <1>1, <1>2

LEMMA InitRefines == Init => Once!Init
  <1> SUFFICES ASSUME Init PROVE Once!Init
    OBVIOUS
  <1>1. Posting = {} /\ Known = {}
    BY DEF Init, Posting, Known
  <1> QED BY <1>1 DEF Init, Once!Init

(* reserve() takes a key that nobody has and that has not arrived, or      *)
(* leaves what the map sees alone.                                         *)
LEMMA ReserveRefines ==
    ASSUME IInv, IInv', NEW c \in Callers, NEW k \in Keys, KeyAllowed(k), Reserve(c, k),
           UNCHANGED <<sent, delivered>>
    PROVE  Once!Next \/ UNCHANGED Once!vars
  <1>1. Known' = Known
    BY DEF Known
  <1>2. /\ Posting = {j \in Keys : inFlight[j] # NoCaller}
        /\ Posting' = {j \in Keys : inFlight'[j] # NoCaller}
    BY PostingIsClaimed
  <1>3. CASE UNCHANGED inFlight
    <2>1. Posting' = Posting
      BY <1>2, <1>3
    <2> QED BY <1>1, <2>1 DEF Once!vars
  <1>4. CASE sent[k] = Never /\ inFlight[k] = NoCaller /\ inFlight' = [inFlight EXCEPT ![k] = c]
    <2>1. k \in Due \ (Posting \cup Known)
      BY <1>2, <1>4 DEF Due, KeyAllowed, Known
    <2>2. Posting' = Posting \cup {k}
      BY <1>2, <1>4, ConstantsAssumption DEF IInv, TypeOK
    <2>3. Once!Begin(k)
      BY <1>1, <2>1, <2>2 DEF Once!Begin
    <2> QED BY <2>3 DEF Once!Next
  <1> QED BY <1>3, <1>4 DEF Reserve

(* The end of a POST takes its key, and no other, out of the map. *)
LEMMA ResolveRefines ==
    ASSUME IInv, IInv', NEW c \in Callers, pc[c] = "posting", NEW outcome, Resolve(c, outcome)
    PROVE  key[c] \in Posting /\ Posting' = Posting \ {key[c]} /\ key[c] \in Keys
  <1>1. key[c] \in Keys /\ key[c] \in Posting
    BY DEF IInv, TypeOK, Posting
  <1>2. /\ Posting = {j \in Keys : inFlight[j] # NoCaller}
        /\ Posting' = {j \in Keys : inFlight'[j] # NoCaller}
    BY PostingIsClaimed
  <1> QED BY <1>1, <1>2 DEF Resolve, IInv, TypeOK

LEMMA AttemptLostRefines ==
    ASSUME IInv, IInv', NEW c \in Callers, AttemptLost(c)
    PROVE  Once!Next \/ UNCHANGED Once!vars
  <1>1. key[c] \in Posting /\ key[c] \in Keys
    BY DEF AttemptLost, IInv, TypeOK, Posting
  <1>2. Posting' = Posting /\ Known' = Known
    BY PostingIsClaimed DEF AttemptLost, Known, trackerVars
  <1>3. CASE UNCHANGED delivered
    BY <1>2, <1>3 DEF Once!vars
  <1>4. CASE delivered' = [delivered EXCEPT ![key[c]] = @ + 1]
    <2>1. Once!Repeat(key[c])
      BY <1>1, <1>2, <1>4 DEF Once!Repeat
    <2> QED BY <1>1, <2>1 DEF Once!Next
  <1> QED BY <1>3, <1>4 DEF AttemptLost

LEMMA MarkSentRefines ==
    ASSUME IInv, IInv', NEW c \in Callers, MarkSent(c)
    PROVE  Once!Next
  <1>1. key[c] \in Posting /\ Posting' = Posting \ {key[c]} /\ key[c] \in Keys
    BY ResolveRefines DEF MarkSent
  <1>2. Known' = Known \cup {key[c]}
    BY <1>1, ConstantsAssumption DEF MarkSent, Known, IInv, TypeOK, Never
  <1>3. Once!Arrive(key[c])
    BY <1>1, <1>2 DEF MarkSent, Once!Arrive
  <1> QED BY <1>1, <1>3 DEF Once!Next

LEMMA ReleaseRefines ==
    ASSUME IInv, IInv', NEW c \in Callers, NEW how, Release(c, how)
    PROVE  Once!Next
  <1>1. key[c] \in Posting /\ Posting' = Posting \ {key[c]} /\ key[c] \in Keys
    BY ResolveRefines DEF Release
  <1>2. Known' = Known
    BY DEF Release, Known
  <1>3. Once!Lose(key[c])
    BY <1>1, <1>2 DEF Release, Once!Lose
  <1> QED BY <1>1, <1>3 DEF Once!Next

(* prune and retain_mrids only forget; the rest the map does not see. *)
LEMMA EvictRefines ==
    ASSUME IInv, IInv', NEW gone, Evict(gone)
    PROVE  Once!Next
  <1>1. Posting' = Posting
    BY DEF Evict, taskVars, Posting
  <1>2. Known' \in SUBSET Known
    BY DEF Evict, Known
  <1> QED BY <1>1, <1>2 DEF Evict, Once!Next, Once!Forget

LEMMA QuietRefines ==
    ASSUME IInv, IInv', UNCHANGED <<sent, inFlight, delivered>>
    PROVE  UNCHANGED Once!vars
  <1>1. Posting' = Posting
    BY PostingIsClaimed
  <1> QED BY <1>1 DEF Known, Once!vars

LEMMA StepRefines == IInv /\ IInv' /\ [Next]_vars => [Once!Next]_(Once!vars)
  <1> SUFFICES ASSUME IInv, IInv', [Next]_vars PROVE Once!Next \/ UNCHANGED Once!vars
    OBVIOUS
  <1>1. ASSUME NEW c \in Callers, NEW m \in Mrids, NEW code \in AskedCodes, NEW lfdi \in Lfdis,
               PostResponse(c, m, code, lfdi)
        PROVE  Once!Next \/ UNCHANGED Once!vars
    <2> DEFINE wire == ResolveWireCode(m, code)
               k    == <<m, wire, lfdi>>
    <2>1. code \in Codes /\ wire \in Codes
      BY ConstantsAssumption, WireCodeType
    <2>2. k \in Keys /\ k[1] = m /\ k[2] = wire
      BY <2>1, KeyFields
    <2>3. CASE Allowed(m, wire)
      <3>1. KeyAllowed(k)
        BY <2>1, <2>2, <2>3, WireCodeNotReserved DEF KeyAllowed, Allowed, ResponseRequiredAllows
      <3>2. Reserve(c, k) /\ UNCHANGED <<sent, delivered>>
        BY <1>1, <2>3 DEF PostResponse, ghostVars
      <3> HIDE DEF k
      <3> QED BY <2>2, <3>1, <3>2, ReserveRefines
    <2>4. CASE ~Allowed(m, wire)
      <3>1. UNCHANGED <<sent, inFlight, delivered>>
        BY <1>1, <2>4 DEF PostResponse, ghostVars
      <3> QED BY <3>1, QuietRefines
    <2> QED BY <2>3, <2>4
  <1>2. ASSUME NEW c \in Callers, WaiterRetries(c)
        PROVE  Once!Next \/ UNCHANGED Once!vars
    <2>1. key[c] \in Keys /\ KeyAllowed(key[c])
      BY <1>2 DEF WaiterRetries, IInv, TypeOK, KeysAllowed
    <2>2. Reserve(c, key[c]) /\ UNCHANGED <<sent, delivered>>
      BY <1>2 DEF WaiterRetries, ghostVars
    <2> QED BY <2>1, <2>2, ReserveRefines
  <1>3. ASSUME NEW c \in Callers, WaiterSkips(c) \/ CancelWaiter(c)
        PROVE  UNCHANGED Once!vars
    <2>1. UNCHANGED <<sent, inFlight, delivered>>
      BY <1>3 DEF WaiterSkips, CancelWaiter, trackerVars, ghostVars
    <2> QED BY <2>1, QuietRefines
  <1>4. ASSUME Tick \/ UNCHANGED vars
        PROVE  UNCHANGED Once!vars
    <2>1. UNCHANGED <<sent, inFlight, delivered>>
      BY <1>4 DEF Tick, vars, trackerVars, ghostVars
    <2> QED BY <2>1, QuietRefines
  <1>5. CASE Prune \/ \E live \in SUBSET Mrids : RetainMrids(live)
    BY <1>5, EvictRefines DEF Prune, RetainMrids
  <1> QED BY <1>1, <1>2, <1>3, <1>4, <1>5, AttemptLostRefines, MarkSentRefines, ReleaseRefines DEF Next

(* For any number of tasks, events, devices and codes the response path    *)
(* implements ResponseOnce: a response goes out only if it is due, by one  *)
(* task at a time, in as many attempts as its POST takes, and not again    *)
(* while _sent has it.                                                     *)
THEOREM Refines == Spec => ImplementsResponseOnce
  BY Inductive, InitRefines, StepRefines, PTL DEF Spec, ImplementsResponseOnce, Once!Spec
=============================================================================
