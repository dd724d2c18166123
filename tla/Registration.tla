---------------------------- MODULE Registration ----------------------------
(***************************************************************************)
(* In-band registration of the client's own EndDevice: at startup, and in  *)
(* each recovery from a loss of communications, the scheduled probe's or   *)
(* the operator's.  Each asks the server's EndDeviceList and POSTs if it   *)
(* is not there.  The scheduler's lock keeps the recoveries apart, and     *)
(* every rediscovery replaces the scheduler.                               *)
(***************************************************************************)
EXTENDS Naturals, FiniteSets

CONSTANTS
    None,
    MaxOutages,
    MaxTries,   \* attempts of one POST
    MaxRedis,   \* rediscoveries
    MaxLost     \* answers lost

Recoveries == {"probe", "operator"}
Actors == Recoveries \cup {"start"}

VARIABLES
    at,         \* actor -> where its registration is
    on,         \* actor -> the scheduler whose lock it holds or waits for
    tries,
    active,     \* _comms_loss.active
    sched,      \* the PollScheduler in use, by number
    armed,      \* its polls run
    locks,      \* scheduler -> holder of its "comms_loss" lock
    redis,      \* who runs a rediscovery (_rediscovery_lock)
    edevs,      \* EndDevices of this client at the server
    missed,     \* history: since the outage a recovery could not register
    outages, losts,
    lost,       \* history: an answer to a POST was lost
    swapped     \* history: recoveries overlapped, their locks not the same

client == <<at, on, tries>>
polls == <<sched, armed, locks, redis>>
history == <<missed, lost, swapped>>
vars == <<client, active, polls, edevs, outages, losts, history>>

Free == [s \in 0..MaxRedis |-> None]

TypeOK ==
    /\ at \in [Actors -> {"idle", "waiting", "list", "post", "sent", "rediscover", "walk", "done"}]
    /\ on \in [Actors -> 0..MaxRedis] /\ tries \in [Actors -> 0..MaxTries]
    /\ active \in BOOLEAN /\ sched \in 0..MaxRedis /\ armed \in BOOLEAN
    /\ locks \in [0..MaxRedis -> Recoveries \cup {None}] /\ redis \in Actors \cup {"notification", None}
    /\ edevs \in Nat /\ outages \in 0..MaxOutages /\ losts \in 0..MaxLost
    /\ missed \in BOOLEAN /\ lost \in BOOLEAN /\ swapped \in BOOLEAN

Init ==
    /\ at = [a \in Actors |-> IF a = "start" THEN "list" ELSE "idle"]
    /\ on = [a \in Actors |-> 0] /\ tries = [a \in Actors |-> 0] /\ active = FALSE
    /\ sched = 0 /\ armed = TRUE /\ locks = Free /\ redis = None /\ edevs \in {0, 1}
    /\ missed = FALSE /\ outages = 0 /\ losts = 0 /\ lost = FALSE /\ swapped = FALSE

-----------------------------------------------------------------------------
Goto(a, pc) == at' = [at EXCEPT ![a] = pc]

(* A recovery begins under the lock of s while another is under way. *)
Beside(other, s) == at[other] \notin {"idle", "waiting"} /\ on[other] # s

(* _comms_loss_probe: a tick whose lock is held is skipped. *)
ProbeTick ==
    /\ armed /\ active /\ at["probe"] = "idle" /\ locks[sched] = None
    /\ Goto("probe", "list") /\ on' = [on EXCEPT !["probe"] = sched]
    /\ locks' = [locks EXCEPT ![sched] = "probe"] /\ swapped' = (swapped \/ Beside("operator", sched))
    /\ UNCHANGED <<tries, active, sched, armed, redis, edevs, outages, losts, missed, lost>>

(* Mutant: the operator's recovery takes no lock. *)
Regardless(s) == TRUE
Granted(s) == locks[s] = None
(* Inside the lock: a recovery only while the mode is on. *)
Enters(s) ==
    IF active
    THEN /\ Goto("operator", "list") /\ locks' = [locks EXCEPT ![s] = "operator"]
         /\ swapped' = (swapped \/ Beside("probe", s))
    ELSE Goto("operator", "idle") /\ UNCHANGED <<locks, swapped>>
(* recover_from_comms_loss_now: the lock of the scheduler in use when it   *)
(* is called is taken, or waited for (run_exclusive).                      *)
RecoverNow ==
    /\ at["operator"] = "idle" /\ on' = [on EXCEPT !["operator"] = sched]
    /\ IF Granted(sched) THEN active /\ Enters(sched)
       ELSE Goto("operator", "waiting") /\ UNCHANGED <<locks, swapped>>
    /\ UNCHANGED <<tries, active, sched, armed, redis, edevs, outages, losts, missed, lost>>
Locked ==
    /\ at["operator"] = "waiting" /\ Granted(on["operator"]) /\ Enters(on["operator"])
    /\ UNCHANGED <<on, tries, active, sched, armed, redis, edevs, outages, losts, missed, lost>>

(* Mutant: the server is not asked first. *)
NeverListed == FALSE
(* _server_lists_end_device. *)
Listed == edevs > 0
List(a) ==
    /\ at[a] = "list"
    /\ \/ Listed /\ Goto(a, IF a = "start" THEN "done" ELSE "rediscover") /\ UNCHANGED <<tries, missed>>
       \/ ~Listed /\ Goto(a, "post") /\ tries' = [tries EXCEPT ![a] = 0] /\ UNCHANGED missed
       \/ Goto(a, IF a = "start" THEN "done" ELSE "rediscover") /\ missed' = TRUE /\ UNCHANGED tries
    /\ UNCHANGED <<on, active, polls, edevs, outages, losts, lost, swapped>>

(* register_end_device's POST, retried where no answer comes. *)
Send(a) ==
    /\ at[a] = "post" /\ tries[a] < MaxTries /\ tries' = [tries EXCEPT ![a] = @ + 1]
    /\ Goto(a, "sent") /\ edevs' = edevs + 1
    /\ UNCHANGED <<on, active, polls, outages, losts, history>>
Refused(a) ==
    /\ at[a] = "post" /\ Goto(a, IF a = "start" THEN "done" ELSE "rediscover") /\ missed' = TRUE
    /\ UNCHANGED <<on, tries, active, polls, edevs, outages, losts, lost, swapped>>
Answered(a) ==
    /\ at[a] = "sent" /\ Goto(a, "rediscover")
    /\ UNCHANGED <<on, tries, active, polls, edevs, outages, losts, history>>
AnswerLost(a) ==
    /\ at[a] = "sent" /\ losts < MaxLost /\ losts' = losts + 1 /\ lost' = TRUE /\ Goto(a, "post")
    /\ UNCHANGED <<on, tries, active, polls, edevs, outages, missed, swapped>>

-----------------------------------------------------------------------------
(* trigger_rediscovery: the polls end, and another scheduler follows, with *)
(* locks of its own.  The probe is among those polls: its own call ends    *)
(* with it, and no scheduler follows.                                      *)
Ends(a) == IF a = "start" THEN "done" ELSE "idle"
Released(a) == [s \in DOMAIN locks |-> IF locks[s] = a THEN None ELSE locks[s]]
Replaces(caller) ==
    /\ redis' = caller /\ sched' = sched + 1 /\ armed' = FALSE
    /\ at' = [a \in Actors |-> IF a = "probe" THEN "idle" ELSE IF a = caller THEN "walk" ELSE at[a]]
    /\ locks' = Released("probe") /\ lost' = (lost \/ at["probe"] = "sent")

Rediscover(a) ==
    /\ at[a] = "rediscover"
    /\ \/ /\ redis # None \/ a = "probe"
          /\ Goto(a, Ends(a)) /\ locks' = Released(a) /\ armed' = (armed /\ redis # None)
          /\ UNCHANGED <<redis, sched, lost>>
       \/ redis = None /\ a # "probe" /\ sched < MaxRedis /\ Replaces(a)
    /\ UNCHANGED <<on, tries, active, edevs, outages, losts, missed, swapped>>
Notified ==
    /\ redis = None /\ sched < MaxRedis /\ Replaces("notification")
    /\ UNCHANGED <<on, tries, active, edevs, outages, losts, missed, swapped>>

(* It ends, and the polls start; a recovery whose rediscovery completed    *)
(* leaves the mode.                                                        *)
Rediscovered(ok) ==
    /\ redis # None /\ redis' = None /\ armed' = TRUE
    /\ IF redis = "notification" THEN UNCHANGED <<at, locks, active>>
       ELSE /\ Goto(redis, Ends(redis)) /\ locks' = Released(redis)
            /\ active' = (active /\ ~(ok /\ redis \in Recoveries))
    /\ UNCHANGED <<on, tries, sched, edevs, outages, losts, history>>

(* Communications are lost; some servers drop the EndDevice meanwhile.     *)
(* Startup's requests have come to their end before the threshold is met.  *)
Outage ==
    /\ outages < MaxOutages /\ ~active /\ at["start"] = "done" /\ outages' = outages + 1 /\ active' = TRUE
    /\ edevs' \in {0, edevs} /\ missed' = FALSE
    /\ UNCHANGED <<client, polls, losts, lost, swapped>>

Next == \/ ProbeTick \/ RecoverNow \/ Locked \/ Notified \/ Outage
        \/ \E ok \in BOOLEAN : Rediscovered(ok)
        \/ \E a \in Actors : \/ List(a) \/ Send(a) \/ Refused(a) \/ Answered(a)
                             \/ AnswerLost(a) \/ Rediscover(a)
Spec == Init /\ [][Next]_vars

-----------------------------------------------------------------------------
(* However startup, outages, both recoveries and other rediscoveries meet: *)
(* the server is given one EndDevice for this client, unless the answer to *)
(* a POST was lost; and the mode is left only with the EndDevice there,    *)
(* where it could be registered (_recover_from_comms_loss,                 *)
(* register_end_device, run_exclusive).  Not the first once a rediscovery  *)
(* replaced the lock under a recovery and another began: NeverTwice.       *)
RegisteredOnce ==
    /\ ~lost /\ ~swapped => edevs <= 1
    /\ outages > 0 /\ ~active /\ ~missed => edevs >= 1

(* run_exclusive: "the scheduled recovery and the manual one both          *)
(* reregister an EndDevice and would otherwise send the head-end two       *)
(* registration POSTs."                                                    *)
NeverTwice == ~lost => edevs <= 1

-----------------------------------------------------------------------------
Busy(a) == at[a] \in {"list", "post", "sent", "rediscover", "walk"}

Shape ==
    /\ at \in [Actors -> {"idle", "waiting", "list", "post", "sent", "rediscover", "walk", "done"}]
    /\ on \in [Actors -> 0..MaxRedis] /\ sched \in 0..MaxRedis
    /\ locks \in [0..MaxRedis -> Recoveries \cup {None}] /\ redis \in Actors \cup {"notification", None}
    /\ edevs \in Nat /\ outages \in Nat
    /\ at["start"] # "idle" /\ \A r \in Recoveries : at[r] # "done"

(* A recovery holds the lock it took and no other, whatever scheduler has  *)
(* come since; two overlap only if those differ.                           *)
LocksHeld ==
    /\ \A r \in Recoveries : Busy(r) => locks[on[r]] = r
    /\ \A s \in 0..MaxRedis : locks[s] # None => Busy(locks[s])
    /\ Busy("probe") /\ Busy("operator") => swapped

(* Recoveries follow startup, and run while the mode is on; the probe      *)
(* never while a rediscovery does.                                         *)
InMode ==
    /\ active \/ (\E r \in Recoveries : at[r] # "idle") => at["start"] = "done"
    /\ \A r \in Recoveries : Busy(r) => active
    /\ redis # None => ~armed /\ at["probe"] = "idle"
    /\ redis \in Actors => at[redis] = "walk"

(* Who is about to POST found no EndDevice, and nobody else has since.     *)
PostsFirst ==
    ~lost /\ ~swapped => edevs <= 1 /\ \A a \in Actors : at[a] = "post" => edevs = 0

(* Whoever is past its POST, or found the EndDevice, left one, as did the  *)
(* recovery that ended the mode.                                           *)
LeftOne ==
    ~missed =>
        /\ \A r \in Recoveries : at[r] \in {"sent", "rediscover", "walk"} => edevs >= 1
        /\ outages > 0 /\ ~active => edevs >= 1

(* The inductive invariant RegisteredOnce follows from. *)
IInv == Shape /\ LocksHeld /\ InMode /\ PostsFirst /\ LeftOne
=============================================================================
