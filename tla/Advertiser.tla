----------------------------- MODULE Advertiser -----------------------------
(***************************************************************************)
(* Announcing this client on the local network (MulticastAdvertiser,       *)
(* client/dnssd/advertise.py): a thread opens the group's socket,          *)
(* announces its records, answers queries within limits, and takes them    *)
(* back with a goodbye.  A neighbour keeps what it last heard until its    *)
(* TTL runs out.                                                           *)
(***************************************************************************)
EXTENDS Naturals

CONSTANTS
    ANNOUNCE_COUNT,
    ANNOUNCE_INTERVAL,      \* in ticks
    MULTICAST_MIN_INTERVAL,
    UNICAST_WINDOW,
    UNICAST_BURST,
    MaxTime,                \* bound: ticks
    MaxQueries              \* bound: queries on the group

VARIABLES
    now,
    caller,   \* idle, starting (start waits), running, stopping (join), stopped
    thread,   \* none, opening, serving, goodbye, dead
    stop,     \* _stop
    started,  \* _started
    announcements, nextAnnouncement,
    lastMulticast, windowStart, unicastSent,  \* _Binding; the times are 0 for -inf
    cached,   \* the records a neighbour that hears everything holds
    groupAt,  \* history: when records were last multicast; 0 before
    tooSoon,  \* history: two answers on the group within the interval
    queries

limits == <<lastMulticast, windowStart, unicastSent>>
plan == <<announcements, nextAnnouncement>>
heard == <<cached, groupAt, tooSoon>>
vars == <<now, caller, thread, stop, started, plan, limits, heard, queries>>

TypeOK ==
    /\ now \in 1..MaxTime /\ caller \in {"idle", "starting", "running", "stopping", "stopped"}
    /\ thread \in {"none", "opening", "serving", "goodbye", "dead"}
    /\ stop \in BOOLEAN /\ started \in BOOLEAN /\ cached \in BOOLEAN /\ tooSoon \in BOOLEAN
    /\ announcements \in 0..ANNOUNCE_COUNT /\ unicastSent \in 0..UNICAST_BURST
    /\ lastMulticast \in 0..now /\ windowStart \in 0..now /\ groupAt \in 0..now
    /\ queries \in 0..MaxQueries /\ nextAnnouncement \in Nat

Init ==
    /\ now = 1 /\ caller = "idle" /\ thread = "none" /\ stop = FALSE /\ started = FALSE
    /\ announcements = 0 /\ nextAnnouncement = 0 /\ lastMulticast = 0 /\ windowStart = 0
    /\ unicastSent = 0 /\ cached = FALSE /\ groupAt = 0 /\ tooSoon = FALSE /\ queries = 0

-----------------------------------------------------------------------------
(* start: the thread, and the wait until its sockets are open. *)
Start ==
    /\ caller = "idle" /\ caller' = "starting" /\ thread' = "opening"
    /\ UNCHANGED <<now, stop, started, plan, limits, heard, queries>>
Started ==
    /\ caller = "starting" /\ started /\ caller' = "running"
    /\ UNCHANGED <<now, thread, stop, started, plan, limits, heard, queries>>
(* stop: the join may time out, and the process ends anyway. *)
Stop ==
    /\ caller = "running" /\ stop' = TRUE /\ caller' = "stopping"
    /\ UNCHANGED <<now, thread, started, plan, limits, heard, queries>>
Joined ==
    /\ caller = "stopping" /\ thread = "dead" /\ caller' = "stopped"
    /\ UNCHANGED <<now, thread, stop, started, plan, limits, heard, queries>>

(* _run, _open: sockets for some group, or none. *)
Open(ok) ==
    /\ thread = "opening" /\ started' = TRUE /\ thread' = IF ok THEN "serving" ELSE "dead"
    /\ nextAnnouncement' = now
    /\ UNCHANGED <<now, caller, stop, announcements, limits, heard, queries>>

(* may_respond on the group. *)
MayMulticast == lastMulticast = 0 \/ now - lastMulticast >= MULTICAST_MIN_INTERVAL

(* Records reach the group; an answer too soon after others is noted. *)
OnGroup(answer) ==
    /\ cached' = TRUE /\ groupAt' = now
    /\ tooSoon' = (tooSoon \/ (answer /\ groupAt > 0 /\ now - groupAt < MULTICAST_MIN_INTERVAL))

(* _serve: an announcement, at its time, marks the budget. *)
Announce ==
    /\ thread = "serving" /\ ~stop /\ announcements < ANNOUNCE_COUNT /\ now >= nextAnnouncement
    /\ announcements' = announcements + 1 /\ nextAnnouncement' = now + ANNOUNCE_INTERVAL
    /\ lastMulticast' = IF MayMulticast THEN now ELSE lastMulticast
    /\ OnGroup(FALSE)
    /\ UNCHANGED <<now, caller, thread, stop, started, windowStart, unicastSent, queries>>

(* _handle, a query for our names.  One asked from another port, or with   *)
(* the QU bit, is answered to its sender within the burst.                 *)
Query(unicast) ==
    LET fresh == windowStart = 0 \/ now - windowStart >= UNICAST_WINDOW
        used == IF fresh THEN 0 ELSE unicastSent
    IN /\ thread = "serving" /\ queries < MaxQueries /\ queries' = queries + 1
       /\ IF unicast
          THEN /\ windowStart' = IF fresh THEN now ELSE windowStart
               /\ unicastSent' = IF used < UNICAST_BURST THEN used + 1 ELSE used
               /\ UNCHANGED <<lastMulticast, groupAt, tooSoon>>
               /\ cached' = (cached \/ used < UNICAST_BURST)
          ELSE /\ IF MayMulticast THEN lastMulticast' = now /\ OnGroup(TRUE)
                  ELSE UNCHANGED <<lastMulticast, heard>>
               /\ UNCHANGED <<windowStart, unicastSent>>
       /\ UNCHANGED <<now, caller, thread, stop, started, plan>>

(* Mutant: the thread ends without taking its records back. *)
LeavesQuietly == UNCHANGED cached
(* _say_goodbye: every record again with TTL 0. *)
SayGoodbye == cached' = FALSE

(* The loop sees the event; whatever it was doing is done. *)
StopSeen ==
    /\ thread = "serving" /\ stop /\ thread' = "goodbye"
    /\ UNCHANGED <<now, caller, stop, started, plan, limits, heard, queries>>
Goodbye ==
    /\ thread = "goodbye" /\ SayGoodbye /\ thread' = "dead"
    /\ UNCHANGED <<now, caller, stop, started, plan, limits, groupAt, tooSoon, queries>>

Tick == now < MaxTime /\ now' = now + 1
        /\ UNCHANGED <<caller, thread, stop, started, plan, limits, heard, queries>>

Thread == Announce \/ StopSeen \/ Goodbye \/ \E b \in BOOLEAN : Open(b)
Caller == Start \/ Started \/ Joined
Done == caller = "stopped" /\ UNCHANGED vars
Next == Thread \/ Caller \/ Stop \/ (\E u \in BOOLEAN : Query(u)) \/ Tick \/ Done

(* The thread and its caller run; the select of the loop times out.        *)
Spec == Init /\ [][Next]_vars /\ WF_vars(Thread) /\ WF_vars(Caller)

-----------------------------------------------------------------------------
(* A client that has stopped is listed nowhere: no announcement and no     *)
(* answer comes after its goodbye, and stop() waits for it (stop, _serve,  *)
(* _say_goodbye).                                                          *)
GoneWhenStopped == caller = "stopped" => ~cached

(* An answer does not put the records on the group again within the        *)
(* second after an announcement (_serve, "Marks the multicast budget, so   *)
(* an announcement and an answer to a query arriving right after it do not *)
(* put the same records on the group twice inside a second").  It may: an  *)
(* announcement that itself follows an answer is sent but not marked.      *)
AnnouncementMarked == ~tooSoon

(* The inductive invariant GoneWhenStopped follows from: only a thread     *)
(* that serves, or is about to say goodbye, has records out.               *)
IInv ==
    /\ cached => thread \in {"serving", "goodbye"}
    /\ caller = "idle" => thread = "none"
    /\ caller = "stopped" => thread = "dead"
=============================================================================
