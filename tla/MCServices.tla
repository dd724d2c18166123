----------------------------- MODULE MCServices -----------------------------
(***************************************************************************)
(* The parts of the client around the event processor, for TLC.  They      *)
(* share no state, and each behaviour runs one of them, the one `part`     *)
(* names; so they share the variables of this module too, which each       *)
(* INSTANCE gives the part's own names.  The bounds are those of the parts *)
(* one by one.                                                             *)
(***************************************************************************)
EXTENDS Integers, Sequences, FiniteSets

CONSTANTS
    None, Reserved, a1, a2,
    (* Session, and the changes of a server or its lists for Editions and Tariffs too *)
    Requests, Gets, Certs, CAs, LoadableCerts, LoadableCAs, MaxTries, MaxUpdates, MaxChanges,
    (* Listener, Editions *)
    Notes, Mode, MaxWindows, MaxSwaps, Items, Features, MaxReads,
    (* Dispatch, and the requests that fail for Tariffs too *)
    Calls, Modes, MeteredCalls, Gated, Ttl, MaxTransient, MaxFails, MaxCancels,
    (* Tariffs, Runner *)
    Intervals, Pollers, MaxTime, MaxPolls, MaxAttempts, MaxRequests, MaxRediscovers,
    (* Timebase *)
    Scopes, TimeHrefs, HrefOf, PollTicks, FloorTicks, MaxClock, MaxTurns,
    (* DnsDiscovery, Advertiser *)
    Servers, Transports, MaxReplies, MAX_INSTANCES,
    ANNOUNCE_COUNT, ANNOUNCE_INTERVAL, MULTICAST_MIN_INTERVAL, UNICAST_WINDOW, UNICAST_BURST,
    MaxTicks, MaxQueries,
    (* Registration, Shutdown *)
    MaxOutages, MaxRedis, MaxLost, HostCalls, MaxPasses

(* What the proofs need of them; none of the bounds. *)
ASSUME PartsAssumption ==
    /\ LoadableCerts \subseteq Certs /\ LoadableCAs \subseteq CAs
    /\ None \notin {"rejected", "unreadable", "dropped"} /\ None \notin {2018, 2023}
    /\ None \notin Pollers
    /\ None \notin [all : SUBSET DOMAIN Intervals, off : SUBSET DOMAIN Intervals]
    /\ Len(TimeHrefs) \in Nat \ {0} /\ "global" \notin Scopes
    /\ \A s \in Scopes : \E i \in 1..Len(TimeHrefs) : HrefOf[s] = TimeHrefs[i]
    /\ PollTicks \in Nat \ {0} /\ FloorTicks \in Nat
    /\ IsFiniteSet(DOMAIN Servers) /\ \A s \in DOMAIN Servers : Servers[s].volunteers \in BOOLEAN
    /\ MAX_INSTANCES \in Nat
    /\ None \notin {"start", "probe", "operator", "notification"} /\ MaxRedis \in Nat
    /\ None \notin Notes \cup HostCalls

VARIABLES part, x1, x2, x3, x4, x5, x6, x7, x8, x9, x10, x11, x12, x13, x14, x15, x16, x17, x18

-----------------------------------------------------------------------------
(* Devices with and without WMax, the discharge and the charge rate. *)
LimitDevices ==
    {[wmax |-> w, dis |-> d, cha |-> TRUE] : w, d \in BOOLEAN}
        \cup {[wmax |-> TRUE, dis |-> TRUE, cha |-> FALSE]}
Limits == INSTANCE PowerLimits WITH
        Rating <- 4, OwnWMax <- 4, Watts <- {1, 3}, Shares <- {<<1, 2>>}, Devices <- LimitDevices,
        MaxFaults <- 1, dev <- x1, reg <- x2, slots <- x3, genW <- x4, unsure <- x5, charge <- x6,
        base <- x7, told <- x8, failed <- x9, excused <- x10, faults <- x11

(* Devices without a power factor, an active-power setpoint, a service     *)
(* switch or a reactive-power setpoint; the methods two by two.            *)
SetpointElements ==
    {"pfInj", "pfAbs", "connect", "energize", "fixedW", "targetW", "fixedVar", "curve"}
Points == {"PFWInjEna", "PFWInj", "PFWAbsEna", "PFWAbs", "ES", "WSetEna", "WSet",
           "VarSetEna", "VarSet", "CrvEna", "Crv"}
SetpointDevices ==
    {Points, Points \ {"PFWAbs"}, Points \ {"WSet", "ES"}, Points \ {"VarSet"}}
SetpointScopes == {{"const_pf", "connect"}, {"wset", "connect"}, {"fixedVar", "curve"}}
Setpoints == INSTANCE Setpoints WITH
        Elements <- SetpointElements, Values <- {1, 2}, Devices <- SetpointDevices,
        Scopes <- SetpointScopes, TooLong <- 2, Unmapped <- 2, MaxFaults <- 2, dev <- x1,
        scope <- x2, reg <- x3, merged <- x4, told <- x5, holder <- x6, clean <- x7, faults <- x8

(* One element of each kind; a device that implements all, one that        *)
(* implements two.  Events that set everything, or some of it.             *)
ModeOrder == <<"connect", "maxLimW", "voltVar", "maxLimWInject", "expLimW">>
ModeElements == {ModeOrder[i] : i \in DOMAIN ModeOrder}
ModeSupport == [a |-> ModeElements, b |-> {"maxLimW", "expLimW"}]
ModeEvents ==
    {[e \in ModeElements |-> "set"]}
        \cup {b \in [ModeElements -> {"absent", "set", "disabled"}] :
                /\ b["connect"] = "absent" /\ b["expLimW"] = "set" /\ b["maxLimWInject"] = "set"
                /\ b["voltVar"] # "disabled"}
ModeDefaults ==
    {b \in [ModeElements -> {"absent", "set"}] :
        b["connect"] = "absent" /\ b["maxLimWInject"] = "absent" /\ b["maxLimW"] = b["expLimW"]}
ModeRoles == {[a |-> "der", b |-> r] : r \in {"der", "meter", "gated"}}
                 \cup {[a |-> "meter", b |-> "meter"]}
Controls == INSTANCE ModeDispatch WITH
        Order <- ModeOrder, Curves <- {"voltVar"}, Second <- {"maxLimWInject"},
        Envelope <- {"expLimW"}, Kept <- {"connect"}, Devices <- {"a", "b"},
        Supports <- ModeSupport, Events <- ModeEvents, DefaultControls <- ModeDefaults,
        Roles <- ModeRoles, MaxFails <- 1, grouped <- x1, role <- x2, base <- x3, dflt <- x4,
        held <- x5, phase <- x6, work <- x7, outcome <- x8, told <- x9, modes <- x10, device <- x11,
        broke <- x12, fails <- x13

Relay == INSTANCE ScheduleRelay WITH
        Lfdis <- <<"a", "b">>, GroupOf <- [a |-> "g", b |-> "h"], Scopes <- {{"a", "b"}, {"b"}},
        MaxChanges <- 1, MaxPolls <- 2, MaxFails <- 1, content <- x1, snapshots <- x2, ready <- x3,
        waiting <- x4, built <- x5, got <- x6, missed <- x7, overtaken <- x8, lastSent <- x9,
        repeated <- x10, changes <- x11, polls <- x12, fails <- x13

(* Two successive events, with offsets of both signs no larger than the    *)
(* store's grace.                                                          *)
Retention == INSTANCE EventRetention WITH
        Events <- {"e1", "e2"}, RawStart <- [e1 |-> 1, e2 |-> 3],
        RawDuration <- [e1 |-> 2, e2 |-> 2], RandomStart <- [e1 |-> 1, e2 |-> -1],
        RandomDuration <- [e1 |-> 1, e2 |-> -1], StoreGrace <- 3, RandGrace <- 2, MaxAge <- 20,
        AddedInOrder <- TRUE, MaxTime <- 11, now <- x1, listed <- x2, everListed <- x3, todo <- x4,
        passing <- x5, store <- x6, cache <- x7, sent <- x8, told <- x9, starts <- x10

Reads == INSTANCE SunSpecReads WITH
        Retries <- 2, StorageRetry <- 2, MaxTime <- 2, MaxFaults <- 2, role <- x1, phase <- x2,
        attempts <- x3, told <- x4, scanned <- x5, sock <- x6, storageAt <- x7, op <- x8, out <- x9,
        has <- x10, lost <- x11, link <- x12, populated <- x13, value <- x14, now <- x15,
        faults <- x16, held <- x17, steady <- x18

Meter == INSTANCE MeterSign WITH
        CALIBRATION_OBSERVATIONS <- 2, MaxWh <- 3, MaxTurns <- 3, MaxGaps <- 1, importSign <- x1,
        role <- x2, setting <- x3, flow <- x4, imp <- x5, exp <- x6, sign <- x7, candidate <- x8,
        agreements <- x9, totals <- x10, shown <- x11, flowed <- x12, straddles <- x13,
        turns <- x14, gaps <- x15

Cycles == INSTANCE Readings WITH
        Devices <- {"d", "e"}, MaxTime <- 2, MaxReads <- 2, MaxStops <- 1, now <- x1, on <- x2,
        sequence <- x3, last <- x4, cycle <- x5, posted <- x6, held <- x7, failed <- x8,
        issued <- x9, reads <- x10, stops <- x11

(* Ratings inside and outside the 16 bits of a value, as numbers n * 10^e  *)
(* and as pairs with a multiplier.                                         *)
Number(n, e) == [kind |-> "number", n |-> n, e |-> e, m |-> 0]
Pair(n, m) == [kind |-> "pair", n |-> n, e |-> 0, m |-> m]
ReportRatings ==
    {Number(314, -2), Number(32768, 0), Number(-32769, 0), Number(327675, 0),
     Number(500000, -1), Pair(5, 3), Pair(-45675, 2),
     [kind |-> "absent", n |-> 0, e |-> 0, m |-> 0],
     [kind |-> "float_pair", n |-> 15, e |-> -1, m |-> 3]}
Report == INSTANCE DerReport WITH
        Ratings <- ReportRatings, Modes2 <- {"m1", "m2"}, Alarms <- {"a"}, Reserved <- Reserved,
        MaxChanges <- 2, edition <- x1, always <- x2, keeps <- x3, given <- x4, cap <- x5,
        set <- x6, stat <- x7, fresh <- x8, misled <- x9, changes <- x10

(* A single-phase and two multi-phase devices. *)
Of(uom, phase) == [uom |-> uom, phase |-> phase]
MirrorDevices ==
    {<<Of("W", 128), Of("var", 128), Of("PF", 0)>>,
     <<Of("W", 224), Of("W", 128), Of("var", 128)>>,
     <<Of("W", 0), Of("PF", 128), Of("W", 64), Of("var", 128)>>}
Mirror == INSTANCE MirrorReadings WITH
        Devices <- MirrorDevices, Values <- {-15, 24}, device <- x1, config <- x2, registered <- x3,
        posted <- x4, meaning <- x5

Energy == INSTANCE History WITH
        Interval <- 2, MaxGap <- 2, MaxTime <- 3, QueueMax <- 1, MaxFails <- 1, MaxFlushes <- 1,
        MaxReads <- 1, at <- x1, clock <- x2, open <- x3, amount <- x4, batch <- x5, queue <- x6,
        queued <- x7, written <- x8, table <- x9, lost <- x10, closed <- x11, reader <- x12,
        fails <- x13, flushes <- x14, reads <- x15

Events == INSTANCE EventHistory WITH
        Start <- 1, End <- 2, MaxTime <- 3, MaxRestarts <- 1, MaxParts <- 1, now <- x1,
        withdrawn <- x2, store <- x3, optedOut <- x4, pending <- x5, from <- x6, timer <- x7,
        seen <- x8, trail <- x9, since <- x10, ran <- x11, overtaken <- x12, again <- x13,
        restarts <- x14, parts <- x15

Recording == INSTANCE Records WITH
        Attempts <- {a1, a2}, QueueSize <- 2, MaxAudits <- 1, TimesOut <- TRUE, scope <- x1,
        seq <- x2, emitFailures <- x3, queue <- x4, closed <- x5, abandon <- x6, closer <- x7,
        thread <- x8, record <- x9, dropped <- x10, failures <- x11, delivered <- x12,
        offered <- x13

Diagnosing == INSTANCE Diagnostics WITH
        Devices <- {"d", "e"}, Others <- {"k"}, MaxEntries <- 2, MaxReports <- 6, entries <- x1,
        nextId <- x2, missing <- x3, connected <- x4, removed <- x5, refired <- x6, steps <- x7

(* The server's Time and those of two FSAs. *)
ClockHrefs == <<"tm", "ta", "tb">>
ClockFsas == [a |-> "ta", b |-> "tb"]
Clock == INSTANCE Timebase WITH
        Hrefs <- TimeHrefs, clock <- x1, answer <- x2, known <- x3, seen <- x4, poll <- x5, due <- x6,
        rediscovery <- x7, since <- x8, turns <- x9

Sessions == INSTANCE Session WITH
        config <- x1, ssl <- x2, lfdi <- x3, session <- x4, orphans <- x5,
        pool <- x6, req <- x7, tries <- x8, validated <- x9, resets <- x10, chain <- x11,
        made <- x12, updates <- x13, changes <- x14, failed <- x15, accepted <- x16

Listening == INSTANCE Listener WITH
        at <- x1,
        cert <- x2, body <- x3, status <- x4, running <- x5, begun <- x6, suspended <- x7,
        draining <- x8, drained <- x9, windows <- x10, observed <- x11, noted <- x12,
        watched <- x13, swaps <- x14, records <- x15

(* Elements of both editions, of a feature, required ones and nested ones. *)
Item(in, new, feature, required) ==
    [in |-> in, new |-> new, feature |-> feature, required |-> required]
EditionItems ==
    [connectStatus |-> Item(None, TRUE, None, FALSE), limit |-> Item(None, TRUE, "limits", FALSE),
     limitValue |-> Item("limit", FALSE, None, TRUE),
     limitUnit |-> Item("limitValue", FALSE, None, FALSE), modes2 |-> Item(None, TRUE, "limits", FALSE),
     bit7 |-> Item("modes2", TRUE, "limits", FALSE), bit0 |-> Item("modes2", TRUE, None, FALSE)]
Speaking == INSTANCE Editions WITH
        server <- x1,
        declares <- x2, configured <- x3, features <- x4, base <- x5, known <- x6, code <- x7,
        body <- x8, aware <- x9, misfit <- x10, reads <- x11, changes <- x12

(* The client's own server on one and on two transports, another, and one  *)
(* whose address cannot be used.                                           *)
Serving(endpoint, on, own, usable, volunteers) ==
    [endpoint |-> endpoint, on |-> on, own |-> own, usable |-> usable, volunteers |-> volunteers]
DnsServers ==
    [own |-> Serving(1, {"mdns"}, TRUE, TRUE, FALSE),
     twin |-> Serving(2, {"mdns", "xmdns"}, TRUE, TRUE, TRUE),
     both |-> Serving(2, {"mdns", "xmdns"}, FALSE, TRUE, TRUE),
     plain |-> Serving(3, {"mdns"}, TRUE, FALSE, TRUE)]
DnsTransports == <<"mdns", "xmdns">>
Finding == INSTANCE DnsDiscovery WITH
        question <- x1, transport <- x2, round <- x3, inbox <- x4, named <- x5, found <- x6,
        heard <- x7

Advertising == INSTANCE Advertiser WITH
        MaxTime <- MaxTicks, now <- x1,
        caller <- x2, thread <- x3, stop <- x4, started <- x5, announcements <- x6,
        nextAnnouncement <- x7, lastMulticast <- x8, windowStart <- x9, unicastSent <- x10,
        cached <- x11, groupAt <- x12, tooSoon <- x13, queries <- x14

Registering == INSTANCE Registration WITH
        at <- x1, on <- x2,
        tries <- x3, active <- x4, sched <- x5, armed <- x6, locks <- x7, redis <- x8, edevs <- x9,
        missed <- x10, outages <- x11, losts <- x12, lost <- x13, swapped <- x14

Stopping == INSTANCE Shutdown WITH
        Calls <- HostCalls, stage <- x1, waiting <- x2,
        listener <- x3, tracked <- x4, pc <- x5, lock <- x6, pending <- x7, passes <- x8,
        sched <- x9, armed <- x10, session <- x11, late <- x12

(* The activities that use one device. *)
DispatchCalls ==
    [c \in {"event", "default", "metered", "operator", "cycle"} |->
        CASE c = "event" -> [modes |-> <<"m1", "m2">>, repeats |-> FALSE]
          [] c \in {"default", "metered"} -> [modes |-> <<"m1">>, repeats |-> FALSE]
          [] c = "operator" -> [modes |-> <<"m2">>, repeats |-> TRUE]
          [] OTHER -> [modes |-> <<>>, repeats |-> TRUE]]
Dispatching == INSTANCE Dispatch WITH
        Meters <- MeteredCalls, pc <- x1, todo <- x2,
        refused <- x3, instance <- x4, lock <- x5, cached <- x6, threads <- x7, broken <- x8,
        writers <- x9, device <- x10, history <- x11, built <- x12, transients <- x13, fails <- x14,
        cancels <- x15, loose <- x16, unseen <- x17

(* Two intervals that overlap, the later one newer. *)
PriceIntervals == [a |-> [start |-> 0, end |-> 2, created |-> 1, acked |-> TRUE],
                   b |-> [start |-> 1, end |-> 3, created |-> 2, acked |-> TRUE]]
Pricing == INSTANCE Tariffs WITH
        served <- x1, now <- x2, tree <- x3, run <- x4, sent <- x5,
        claims <- x6, active <- x7, told <- x8, acks <- x9, missed <- x10, fails <- x11,
        polls <- x12, changes <- x13

Running == INSTANCE Runner WITH
        config <- x1, pc <- x2, stop <- x3,
        reconnect <- x4, connect <- x5, attempts <- x6, phase <- x7, open <- x8, spare <- x9,
        lost <- x10, manager <- x11, shown <- x12, hook <- x13, fault <- x14, code <- x15,
        requests <- x16, rediscovers <- x17

-----------------------------------------------------------------------------
(* The variables from the nth on, which a part with n - 1 does not use. *)
from18 == <<x18>>
from17 == <<x17, from18>>
from16 == <<x16, from17>>
from15 == <<x15, from16>>
from14 == <<x14, from15>>
from13 == <<x13, from14>>
from12 == <<x12, from13>>
from11 == <<x11, from12>>
from10 == <<x10, from11>>
from9 == <<x9, from10>>
from8 == <<x8, from9>>
from7 == <<x7, from8>>
from6 == <<x6, from7>>
vars == <<part, x1, x2, x3, x4, x5, x6, from7>>

Off18 == x18 = None
Off17 == x17 = None /\ Off18
Off16 == x16 = None /\ Off17
Off15 == x15 = None /\ Off16
Off14 == x14 = None /\ Off15
Off13 == x13 = None /\ Off14
Off12 == x12 = None /\ Off13
Off11 == x11 = None /\ Off12
Off10 == x10 = None /\ Off11
Off9 == x9 = None /\ Off10
Off8 == x8 = None /\ Off9
Off7 == x7 = None /\ Off8
Off6 == x6 = None /\ Off7

Init ==
    \/ part = "limits" /\ Limits!Init /\ Off12
    \/ part = "setpoints" /\ Setpoints!Init /\ Off9
    \/ part = "modes" /\ Controls!Init /\ Off14
    \/ part = "relay" /\ Relay!Init /\ Off14
    \/ part = "retention" /\ Retention!Init /\ Off11
    \/ part = "reads" /\ Reads!Init
    \/ part = "meter" /\ Meter!Init /\ Off16
    \/ part = "cycles" /\ Cycles!Init /\ Off12
    \/ part = "report" /\ Report!Init /\ Off11
    \/ part = "mirror" /\ Mirror!Init /\ Off6
    \/ part = "intervals" /\ Energy!Init /\ Off16
    \/ part = "events" /\ Events!Init /\ Off16
    \/ part = "records" /\ Recording!Init /\ Off14
    \/ part = "diagnostics" /\ Diagnosing!Init /\ Off8
    \/ part = "clock" /\ Clock!Init /\ Off10
    \/ part = "session" /\ Sessions!Init /\ Off17
    \/ part = "listener" /\ Listening!Init /\ Off16
    \/ part = "editions" /\ Speaking!Init /\ Off13
    \/ part = "dns" /\ Finding!Init /\ Off8
    \/ part = "advertiser" /\ Advertising!Init /\ Off15
    \/ part = "registration" /\ Registering!Init /\ Off15
    \/ part = "shutdown" /\ Stopping!Init /\ Off13
    \/ part = "dispatch" /\ Dispatching!Init /\ Off18
    \/ part = "tariffs" /\ Pricing!Init /\ Off14
    \/ part = "command" /\ Running!Init /\ Off18

Next ==
    \/ part = "limits" /\ Limits!Next /\ UNCHANGED <<part, from12>>
    \/ part = "setpoints" /\ Setpoints!Next /\ UNCHANGED <<part, from9>>
    \/ part = "modes" /\ Controls!Next /\ UNCHANGED <<part, from14>>
    \/ part = "relay" /\ Relay!Next /\ UNCHANGED <<part, from14>>
    \/ part = "retention" /\ Retention!Next /\ UNCHANGED <<part, from11>>
    \/ part = "reads" /\ Reads!Next /\ UNCHANGED part
    \/ part = "meter" /\ Meter!Next /\ UNCHANGED <<part, from16>>
    \/ part = "cycles" /\ Cycles!Next /\ UNCHANGED <<part, from12>>
    \/ part = "report" /\ Report!Next /\ UNCHANGED <<part, from11>>
    \/ part = "mirror" /\ Mirror!Next /\ UNCHANGED <<part, from6>>
    \/ part = "intervals" /\ Energy!Next /\ UNCHANGED <<part, from16>>
    \/ part = "events" /\ Events!Next /\ UNCHANGED <<part, from16>>
    \/ part = "records" /\ Recording!Next /\ UNCHANGED <<part, from14>>
    \/ part = "diagnostics" /\ Diagnosing!Next /\ UNCHANGED <<part, from8>>
    \/ part = "clock" /\ Clock!Next /\ UNCHANGED <<part, from10>>
    \/ part = "session" /\ Sessions!Next /\ UNCHANGED <<part, from17>>
    \/ part = "listener" /\ Listening!Next /\ UNCHANGED <<part, from16>>
    \/ part = "editions" /\ Speaking!Next /\ UNCHANGED <<part, from13>>
    \/ part = "dns" /\ Finding!Next /\ UNCHANGED <<part, from8>>
    \/ part = "advertiser" /\ Advertising!Next /\ UNCHANGED <<part, from15>>
    \/ part = "registration" /\ Registering!Next /\ UNCHANGED <<part, from15>>
    \/ part = "shutdown" /\ Stopping!Next /\ UNCHANGED <<part, from13>>
    \/ part = "dispatch" /\ Dispatching!Next /\ UNCHANGED <<part, from18>>
    \/ part = "tariffs" /\ Pricing!Next /\ UNCHANGED <<part, from14>>
    \/ part = "command" /\ Running!Next /\ UNCHANGED <<part, from18>>

Spec == Init /\ [][Next]_vars

-----------------------------------------------------------------------------
(* Every variable of the part that runs keeps its type. *)
TypeOK ==
    /\ part = "limits" => Limits!TypeOK
    /\ part = "setpoints" => Setpoints!TypeOK
    /\ part = "modes" => Controls!TypeOK
    /\ part = "relay" => Relay!TypeOK
    /\ part = "retention" => Retention!TypeOK
    /\ part = "reads" => Reads!TypeOK
    /\ part = "meter" => Meter!TypeOK
    /\ part = "cycles" => Cycles!TypeOK
    /\ part = "report" => Report!TypeOK
    /\ part = "mirror" => Mirror!TypeOK
    /\ part = "intervals" => Energy!TypeOK
    /\ part = "events" => Events!TypeOK
    /\ part = "records" => Recording!TypeOK
    /\ part = "diagnostics" => Diagnosing!TypeOK
    /\ part = "clock" => Clock!TypeOK
    /\ part = "session" => Sessions!TypeOK
    /\ part = "listener" => Listening!TypeOK
    /\ part = "editions" => Speaking!TypeOK
    /\ part = "dns" => Finding!TypeOK
    /\ part = "advertiser" => Advertising!TypeOK
    /\ part = "registration" => Registering!TypeOK
    /\ part = "shutdown" => Stopping!TypeOK
    /\ part = "dispatch" => Dispatching!TypeOK
    /\ part = "tariffs" => Pricing!TypeOK
    /\ part = "command" => Running!TypeOK

(* A SunSpec device has what the server was told it has: a limit told in   *)
(* force is on it, limits that have all ended leave it as it was           *)
(* (PowerLimits), and elements that share a write agree (Setpoints).       *)
WritesHold ==
    /\ part = "limits" => Limits!LimitsHeld /\ Limits!LimitsReleased
    /\ part = "setpoints" => Setpoints!SetpointsAgree

(* An event reaches the devices element by element as the server was told, *)
(* and leaves nothing on them (ModeDispatch); connectors hear of each      *)
(* change once (ScheduleRelay); and an event is started once, told of once *)
(* and follows its predecessor without a gap, however long the server      *)
(* lists it (EventRetention).                                              *)
ControlsTold ==
    /\ part = "modes" => Controls!ToldTrue /\ Controls!NothingLeft
    /\ part = "relay" => Relay!Informed
    /\ part = "retention" => Retention!StartedOnce /\ Retention!ToldOnce /\ Retention!NoGap

(* What is reported of a device is what it measured, when and in the sense *)
(* it was measured: over its own connection (SunSpecReads), in one frame   *)
(* (MeterSign), marked when old (Readings), in the units, bits and types   *)
(* the server decodes it by (DerReport, MirrorReadings).                   *)
ReportsTrue ==
    /\ part = "reads" => Reads!FetchTrue
    /\ part = "meter" => Meter!FrameRight
    /\ part = "cycles" => Cycles!OldIsMarked /\ Cycles!NothingHeldOverOutage
    /\ part = "report" => Report!ReportTrue
    /\ part = "mirror" => Mirror!OneMeaning /\ Mirror!DecodesRight

(* The records are those of what happened: each interval's energy once     *)
(* (History), an event's outcome (EventHistory), every exchange, audit and *)
(* loss accounted for in order (Records), and the faults that stand        *)
(* (Diagnostics).                                                          *)
RecordsTrue ==
    /\ part = "intervals" => Energy!ReadExact
    /\ part = "events" => Events!SummaryTrue
    /\ part = "records" => Recording!Accounted /\ Recording!InOrder /\ Recording!OneExchangeEach
    /\ part = "diagnostics" => Diagnosing!ListTrue

(* While Time is polled, events are timed by a clock that is current, and  *)
(* by the FSA's own while it answers (Timebase).                           *)
ClockTrue == part = "clock" => Clock!OffsetCurrent /\ Clock!OwnClockKept

(* Requests go out under the identity they claim (Session), notifications  *)
(* are acted on as answered (Listener), and bodies hold what the server's  *)
(* edition knows (Editions).                                               *)
ExchangesAgree ==
    /\ part = "session" => Sessions!IdentityAgrees
    /\ part = "listener" => Listening!NotificationsTrue
    /\ part = "editions" => Speaking!SpeaksEdition

(* The client is on the network as it should be: at the server it was      *)
(* provisioned for (DnsDiscovery), registered there once (Registration),   *)
(* and gone once stopped (Advertiser, Shutdown).                           *)
PresenceTrue ==
    /\ part = "dns" => Finding!ChoiceSound
    /\ part = "registration" => Registering!RegisteredOnce
    /\ part = "advertiser" => Advertising!GoneWhenStopped
    /\ part = "shutdown" => Stopping!StoppedForGood

(* The last write the history has as applied is on the device, or one      *)
(* whose caller was cancelled while a thread made it (Dispatch:            *)
(* _apply_one, _keep_write).                                               *)
HistoryIsDevice == part = "dispatch" => Dispatching!HistoryIsDevice

(* The server gets one response per price interval, and one more for each  *)
(* attempt it may have taken in and the client saw fail (Tariffs:          *)
(* _ack_received, ResponseTracker.reserve, with_retry).                    *)
AckedOnce == part = "tariffs" => Pricing!AckedOnce

(* A process that ends closed everything it opened, in an order that loses *)
(* no interval, its exit code is true, and the management API always shows *)
(* the metering manager in use (Runner: run, _run_client).                 *)
EndsInOrder ==
    part = "command" => Running!AllClosed /\ Running!ExitCodeTrue /\ Running!ApiSeesTelemetry
=============================================================================
