--------------------------- MODULE ResponseTracker ---------------------------
(***************************************************************************)
(* The response path of the event processors: post_der_response and        *)
(* post_price_response over one ResponseTracker (events/response.py).      *)
(*                                                                         *)
(* All callers are tasks of one asyncio loop: a step is the code between   *)
(* two awaits.  A call awaits in two places, in reserve() on the future of *)
(* whoever is posting the same key, and in http.post().  Both awaits can   *)
(* be cancelled (EventTimerManager.cancel, shutdown).  One http.post() is  *)
(* several attempts: with_retry repeats the ones that time out or lose     *)
(* their connection, and each of these may have been processed all the     *)
(* same, as may the one an error or a cancellation ends the call with.     *)
(***************************************************************************)
EXTENDS Integers, FiniteSets

CONSTANTS
    Callers,       \* the tasks that post responses
    NoCaller,      \* no task holds the claim
    Mrids,         \* the events (or tariff intervals) responded to
    Lfdis,         \* the devices responded for
    ReceivedAsked, SpecificAsked, EnduserAsked, \* the events with each bit of responseRequired
    ReplyTo,       \* the events that carry a replyTo
    AskedCodes,    \* bound: the codes the tasks ask to report
    Is2018,        \* the server follows IEEE 2030.5-2018
    MaxTime,       \* bound: last instant of the clock
    MaxAge,        \* prune's max_age
    MaxCalls,      \* bound: calls each task makes
    MaxRepeats     \* attempts of one POST that with_retry repeats

(* The responseRequired bits and the response codes that exercise them; the *)
(* other "specific" codes behave as COMPLETED does.                         *)
Bits  == {"received", "specific", "enduser"}
Codes == {"ACKNOWLEDGED", "COMPLETED", "OPT_OUT", "NOT_SUPPORTED",
          "NOT_APPLICABLE"}
Keys  == Mrids \X Codes \X Lfdis

ASSUME ConstantsAssumption ==
    /\ NoCaller \notin Callers
    /\ Mrids # {} /\ Lfdis # {}
    /\ (ReceivedAsked \cup SpecificAsked \cup EnduserAsked) \subseteq Mrids
    /\ ReplyTo \subseteq Mrids
    /\ AskedCodes \subseteq Codes
    /\ Is2018 \in BOOLEAN
    /\ MaxTime \in Nat /\ MaxAge \in Nat /\ MaxCalls \in Nat /\ MaxRepeats \in Nat

VARIABLES
    now,       \* the (server timebase) clock
    sent,      \* _sent: when each key was marked sent, or Never
    inFlight,  \* _in_flight: the task whose unresolved future holds the key
    pc,        \* where each task is suspended
    key,       \* the key of each task's current or last call
    stamp,     \* now_ts, read by the caller before it calls
    calls,     \* calls made, up to MaxCalls
    verdict,   \* how the last call of each task ended
    repeats,   \* with_retry: attempts of each task's POST repeated so far
    delivered, \* history: attempts to POST each key the server processed
    unproved,  \* history: of those, the ones the client saw fail
    forgotten  \* history: times an eviction dropped the key from sent

trackerVars == <<sent, inFlight>>
taskVars    == <<pc, key, stamp, calls, verdict, repeats>>
ghostVars   == <<delivered, unproved, forgotten>>
vars        == <<now, trackerVars, taskVars, ghostVars>>

Never == -1

(* "won" and "lost" are a waiter whose future has been resolved with True  *)
(* or False and whose task the loop has not resumed yet.                   *)
Places   == {"idle", "posting", "waiting", "won", "lost"}
Verdicts == {"none", "posted", "skipped", "failed", "gated", "cancelled"}

TypeOK ==
    /\ now \in 0..MaxTime
    /\ sent \in [Keys -> (0..MaxTime) \cup {Never}]
    /\ inFlight \in [Keys -> Callers \cup {NoCaller}]
    /\ pc \in [Callers -> Places]
    /\ key \in [Callers -> Keys]
    /\ stamp \in [Callers -> 0..MaxTime]
    /\ calls \in [Callers -> 0..MaxCalls]
    /\ verdict \in [Callers -> Verdicts]
    /\ repeats \in [Callers -> 0..MaxRepeats]
    /\ delivered \in [Keys -> Nat]
    /\ unproved \in [Keys -> Nat]
    /\ forgotten \in [Keys -> Nat]

-----------------------------------------------------------------------------
(* The status code that goes on the wire, and the gate on it.              *)

RequiredBitFor(code) ==
    IF code = "ACKNOWLEDGED" THEN "received"
    ELSE IF code = "OPT_OUT" THEN "enduser"
    ELSE "specific"

(* The bits of an event's responseRequired. *)
RequestedBits(m) ==
    {b \in Bits : m \in (CASE b = "received" -> ReceivedAsked
                          [] b = "specific" -> SpecificAsked
                          [] b = "enduser" -> EnduserAsked)}

ResponseRequiredAllows(m, code) == RequiredBitFor(code) \in RequestedBits(m)

(* What both kinds of response ask for before they reserve. *)
Allowed(m, code) == ResponseRequiredAllows(m, code) /\ m \in ReplyTo

(* Mutant: the code goes out as the caller gave it. *)
TranslateNothing(code) == code

(* 2030.5-2018 reserves 251, so NOT_SUPPORTED goes out as 252. *)
TranslateCodeForRevision(code) ==
    IF Is2018 /\ code = "NOT_SUPPORTED" THEN "NOT_APPLICABLE" ELSE code

(* An opt-out nobody asked for is reported as a capability limit. *)
ResolveWireCode(m, code) ==
    TranslateCodeForRevision(
        IF code = "OPT_OUT" /\ ~ResponseRequiredAllows(m, "OPT_OUT")
        THEN "NOT_SUPPORTED" ELSE code)

-----------------------------------------------------------------------------
Init ==
    /\ now = 0
    /\ sent = [k \in Keys |-> Never]
    /\ inFlight = [k \in Keys |-> NoCaller]
    /\ pc = [c \in Callers |-> "idle"]
    /\ key \in [Callers -> {CHOOSE k \in Keys : TRUE}]
    /\ stamp = [c \in Callers |-> 0]
    /\ calls = [c \in Callers |-> 0]
    /\ verdict = [c \in Callers |-> "none"]
    /\ repeats = [c \in Callers |-> 0]
    /\ delivered = [k \in Keys |-> 0]
    /\ unproved = [k \in Keys |-> 0]
    /\ forgotten = [k \in Keys |-> 0]

(* Mutant: a reserve() that looks at _sent only. *)
ReserveWithoutClaim(c, k) ==
    \/ /\ sent[k] # Never
       /\ pc' = [pc EXCEPT ![c] = "idle"]
       /\ verdict' = [verdict EXCEPT ![c] = "skipped"]
       /\ UNCHANGED inFlight
    \/ /\ sent[k] = Never
       /\ inFlight' = [inFlight EXCEPT ![k] = c]
       /\ pc' = [pc EXCEPT ![c] = "posting"]
       /\ UNCHANGED verdict

(* The loop of reserve() up to its return or its await. *)
Reserve(c, k) ==
    \/ /\ sent[k] # Never
       /\ pc' = [pc EXCEPT ![c] = "idle"]
       /\ verdict' = [verdict EXCEPT ![c] = "skipped"]
       /\ UNCHANGED inFlight
    \/ /\ sent[k] = Never
       /\ inFlight[k] = NoCaller
       /\ inFlight' = [inFlight EXCEPT ![k] = c]
       /\ pc' = [pc EXCEPT ![c] = "posting"]
       /\ UNCHANGED verdict
    \/ /\ sent[k] = Never
       /\ inFlight[k] # NoCaller
       /\ pc' = [pc EXCEPT ![c] = "waiting"]
       /\ UNCHANGED <<inFlight, verdict>>

(* post_der_response up to its first await; post_price_response is the     *)
(* same but for the translation, and only ever acknowledges.               *)
PostResponse(c, m, code, lfdi) ==
    LET wire == ResolveWireCode(m, code)
        k    == <<m, wire, lfdi>>
    IN /\ pc[c] = "idle"
       /\ calls[c] < MaxCalls
       /\ calls' = [calls EXCEPT ![c] = @ + 1]
       /\ key' = [key EXCEPT ![c] = k]
       /\ stamp' = [stamp EXCEPT ![c] = now]
       /\ \/ /\ Allowed(m, wire)
             /\ Reserve(c, k)
          \/ /\ ~Allowed(m, wire)
             /\ verdict' = [verdict EXCEPT ![c] = "gated"]
             /\ UNCHANGED <<inFlight, pc>>
       /\ UNCHANGED <<now, sent, repeats, ghostVars>>

Resumed(c, outcome) ==
    [d \in Callers |-> IF d = c THEN "idle"
                       ELSE IF pc[d] = "waiting" /\ key[d] = key[c] THEN outcome
                       ELSE pc[d]]

(* Mutants: a POST that fails leaves its claim behind; a claim dropped     *)
(* without resolving its future; a failed claim resolved like a sent one.  *)
ResolveOnSuccess(c, outcome) ==
    /\ inFlight' = [inFlight EXCEPT ![key[c]] = IF outcome = "won" THEN NoCaller ELSE @]
    /\ pc' = Resumed(c, outcome)
ResolveWakesNobody(c, outcome) ==
    /\ inFlight' = [inFlight EXCEPT ![key[c]] = NoCaller]
    /\ pc' = [pc EXCEPT ![c] = "idle"]
ResolveAlwaysWon(c, outcome) ==
    /\ inFlight' = [inFlight EXCEPT ![key[c]] = NoCaller]
    /\ pc' = Resumed(c, "won")

(* The claim's future resolves: every task awaiting it is scheduled to     *)
(* resume, and c itself has returned.                                      *)
Resolve(c, outcome) ==
    /\ inFlight' = [inFlight EXCEPT ![key[c]] = NoCaller]
    /\ pc' = Resumed(c, outcome)

(* Mutant: the entry is stamped ahead of the clock. *)
MarkSentAhead(c) ==
    /\ pc[c] = "posting"
    /\ sent' = [sent EXCEPT ![key[c]] = stamp[c] + 1]
    /\ Resolve(c, "won")
    /\ verdict' = [verdict EXCEPT ![c] = "posted"]
    /\ delivered' = [delivered EXCEPT ![key[c]] = @ + 1]
    /\ repeats' = [repeats EXCEPT ![c] = 0]
    /\ UNCHANGED <<now, key, stamp, calls, unproved, forgotten>>

(* An attempt timed out or lost its connection and with_retry makes        *)
(* another: the claim stays, and the server may have processed this one.   *)
AttemptLost(c) ==
    /\ pc[c] = "posting"
    /\ repeats[c] < MaxRepeats
    /\ repeats' = [repeats EXCEPT ![c] = @ + 1]
    /\ \/ UNCHANGED <<delivered, unproved>>
       \/ /\ delivered' = [delivered EXCEPT ![key[c]] = @ + 1]
          /\ unproved' = [unproved EXCEPT ![key[c]] = @ + 1]
    /\ UNCHANGED <<now, trackerVars, pc, key, stamp, calls, verdict, forgotten>>

(* The attempt is answered with success and http.post() returns: mark_sent. *)
MarkSent(c) ==
    /\ pc[c] = "posting"
    /\ sent' = [sent EXCEPT ![key[c]] = stamp[c]]
    /\ Resolve(c, "won")
    /\ verdict' = [verdict EXCEPT ![c] = "posted"]
    /\ delivered' = [delivered EXCEPT ![key[c]] = @ + 1]
    /\ repeats' = [repeats EXCEPT ![c] = 0]
    /\ UNCHANGED <<now, key, stamp, calls, unproved, forgotten>>

(* http.post() raised, on an error status or on the last attempt, or the   *)
(* posting task was cancelled: the finally clause releases the claim.  The *)
(* attempt under way may have reached the server.                          *)
Release(c, how) ==
    /\ pc[c] = "posting"
    /\ Resolve(c, "lost")
    /\ verdict' = [verdict EXCEPT ![c] = how]
    /\ \/ UNCHANGED <<delivered, unproved>>
       \/ /\ delivered' = [delivered EXCEPT ![key[c]] = @ + 1]
          /\ unproved' = [unproved EXCEPT ![key[c]] = @ + 1]
    /\ repeats' = [repeats EXCEPT ![c] = 0]
    /\ UNCHANGED <<now, sent, key, stamp, calls, forgotten>>

(* A waiter resumes after its future was resolved with True: skip. *)
WaiterSkips(c) ==
    /\ pc[c] = "won"
    /\ pc' = [pc EXCEPT ![c] = "idle"]
    /\ verdict' = [verdict EXCEPT ![c] = "skipped"]
    /\ UNCHANGED <<now, trackerVars, key, stamp, calls, repeats, ghostVars>>

(* A waiter resumes after its future was resolved with False: it goes back *)
(* around the loop of reserve().                                           *)
WaiterRetries(c) ==
    /\ pc[c] = "lost"
    /\ Reserve(c, key[c])
    /\ UNCHANGED <<now, sent, key, stamp, calls, repeats, ghostVars>>

(* A task cancelled in reserve(): the shield keeps the future alive. *)
CancelWaiter(c) ==
    /\ pc[c] \in {"waiting", "won", "lost"}
    /\ pc' = [pc EXCEPT ![c] = "idle"]
    /\ verdict' = [verdict EXCEPT ![c] = "cancelled"]
    /\ UNCHANGED <<now, trackerVars, key, stamp, calls, repeats, ghostVars>>

(* Mutant: an eviction that also empties _in_flight. *)
EvictClaims(gone) ==
    /\ gone # {}
    /\ sent' = [k \in Keys |-> IF k \in gone THEN Never ELSE sent[k]]
    /\ inFlight' = [k \in Keys |-> NoCaller]
    /\ forgotten' = [k \in Keys |->
                        IF k \in gone THEN forgotten[k] + 1 ELSE forgotten[k]]
    /\ UNCHANGED <<now, taskVars, delivered, unproved>>

(* Eviction of a set of entries of _sent. *)
Evict(gone) ==
    /\ gone # {}
    /\ sent' = [k \in Keys |-> IF k \in gone THEN Never ELSE sent[k]]
    /\ forgotten' = [k \in Keys |->
                        IF k \in gone THEN forgotten[k] + 1 ELSE forgotten[k]]
    /\ UNCHANGED <<now, inFlight, taskVars, delivered, unproved>>

(* The event processor's tracker is pruned by age, the tariff processor's  *)
(* by the intervals still listed; either may run beside any call.          *)
Prune == Evict({k \in Keys : sent[k] # Never /\ now - sent[k] > MaxAge})

RetainMrids(live) == Evict({k \in Keys : sent[k] # Never /\ k[1] \notin live})

Tick ==
    /\ now < MaxTime
    /\ now' = now + 1
    /\ UNCHANGED <<trackerVars, taskVars, ghostVars>>

Next ==
    \/ \E c \in Callers, m \in Mrids, code \in AskedCodes, lfdi \in Lfdis :
          PostResponse(c, m, code, lfdi)
    \/ \E c \in Callers : AttemptLost(c)
    \/ \E c \in Callers : MarkSent(c)
    \/ \E c \in Callers, how \in {"failed", "cancelled"} : Release(c, how)
    \/ \E c \in Callers : WaiterSkips(c)
    \/ \E c \in Callers : WaiterRetries(c)
    \/ \E c \in Callers : CancelWaiter(c)
    \/ Prune
    \/ \E live \in SUBSET Mrids : RetainMrids(live)
    \/ Tick

Spec == Init /\ [][Next]_vars

(* The loop resumes every ready task, and every POST ends: Sep2Client gives *)
(* each attempt a timeout and with_retry a number of attempts.  A waiter    *)
(* whose future is unresolved gets no fairness.                            *)
Fairness ==
    \A c \in Callers :
        /\ WF_vars(MarkSent(c) \/ Release(c, "failed"))
        /\ WF_vars(WaiterSkips(c))
        /\ WF_vars(WaiterRetries(c))

FairSpec == Spec /\ Fairness

-----------------------------------------------------------------------------
(* PROPERTIES                                                              *)

(* Each claim in _in_flight belongs to exactly the task that is inside     *)
(* http.post() for that key: no two tasks post one key at once, and no     *)
(* claim outlives its poster, whether the POST landed, failed or was       *)
(* cancelled ("nothing prunes it").                                        *)
ClaimMatchesPoster ==
    /\ \A c \in Callers : pc[c] = "posting" => inFlight[key[c]] = c
    /\ \A k \in Keys : inFlight[k] # NoCaller =>
          pc[inFlight[k]] = "posting" /\ key[inFlight[k]] = k

(* A task suspended in reserve() always waits on a claim somebody holds:   *)
(* no wake-up is lost when a claim is resolved and taken again.            *)
WaiterHasHolder ==
    \A c \in Callers : pc[c] = "waiting" => inFlight[key[c]] # NoCaller

(* The server processes a key once, plus once for each attempt to POST it  *)
(* the client saw fail and once for each eviction of the dedup entry:      *)
(* concurrency alone never duplicates a response.                          *)
NoDuplicateResponse ==
    \A k \in Keys : delivered[k] <= 1 + unproved[k] + forgotten[k]

(* A caller turned away by reserve() is turned away because the response   *)
(* really is the server's: a failed or cancelled POST of somebody else     *)
(* never silences it.                                                      *)
SkippedWasDelivered ==
    \A c \in Callers : verdict[c] = "skipped" /\ pc[c] = "idle"
        => delivered[key[c]] >= 1

(* No response goes out under the code 2030.5-2018 reserves, nor one whose *)
(* responseRequired bit is clear, whatever the caller asked to report.     *)
OnlyRequestedCodesOnWire ==
    \A c \in Callers : pc[c] = "posting" =>
        /\ RequiredBitFor(key[c][2]) \in RequestedBits(key[c][1])
        /\ ~(Is2018 /\ key[c][2] = "NOT_SUPPORTED")

(* Once a task calls, it returns: every POST releases the waiters behind   *)
(* it, also the ones that queued behind a retry.                           *)
EveryCallReturns == \A c \in Callers : pc[c] # "idle" ~> pc[c] = "idle"

(* A claim that goes away goes with the call that held it. *)
ClaimsKept ==
    \A k \in Keys : inFlight[k] # NoCaller /\ inFlight'[k] # inFlight[k] =>
        inFlight'[k] = NoCaller /\ pc'[inFlight[k]] = "idle"

(* A POST in flight keeps its claim until its own task ends it; no prune,  *)
(* eviction or other caller takes it away.                                 *)
ClaimHeldUntilOutcome == [][ClaimsKept]_vars

(* The responses some event asks for, under codes the revision has. *)
Due == {k \in Keys : /\ RequiredBitFor(k[2]) \in RequestedBits(k[1]) /\ k[1] \in ReplyTo
                     /\ ~(Is2018 /\ k[2] = "NOT_SUPPORTED")}
Posting == {key[c] : c \in {d \in Callers : pc[d] = "posting"}}
Known == {k \in Keys : sent[k] # Never}
Once == INSTANCE ResponseOnce WITH told <- delivered, posting <- Posting, known <- Known

(* The tracker and its callers implement ResponseOnce: only responses the  *)
(* server asked for are posted, each by one task at a time and not again   *)
(* while _sent has it, whoever waits, fails, is cancelled or is pruned     *)
(* meanwhile.                                                              *)
ImplementsResponseOnce == Once!Spec
=============================================================================
