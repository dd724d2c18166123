# Specifications of py20305

TLA+ specifications of [py20305](../src/README.md), an IEEE 2030.5 / CSIP client
in Python: it discovers a utility server's resources, follows the DERControl
events that apply to its devices, writes the resulting setpoints to them and
reports back. The hand-written code is under `src/src/py20305` (paths below are
relative to it). Nearly everything runs as tasks of **one asyncio loop**, so a
step of a model is the code between two awaits, and every await is a place where
another task may run or where the task may be cancelled. Threads exist at three
places: connector calls (Modbus), the database and observer writers, and the
mDNS advertiser; those interleave at every step.

`PROJECT.json` lists the components, the runs, the source lines each definition
models, the mutants each property is tested with, the findings, the hazards and
the theorems.

## 1. Inventory

| Component | State | Operations | Correct when |
|---|---|---|---|
| Responses (`events/response.py`) | `_sent`, `_in_flight` | post_der_response, post_price_response, reserve, release, mark_sent, prune, retain_mrids | no response is sent twice by concurrency, none is dropped because another task failed, only requested codes reach the wire |
| Event processor (`events/processor.py`) | records, passes, opt-outs, last relayed content | process_controls, activation, completion, cancellation, supersession, dispatch, fallback, relay, comms-loss opt-out | every event ends, devices run what the highest-priority running event asks, the server and the connectors are told what happened |
| Store, timers, trackers (`events/state_machine.py`, `timers.py`, `active_modes.py`, `dderc.py`, `comms_loss.py`) | `_events`, `_tasks`, per-device modes, defaults applied | upsert, transition, schedule, cancel, prune | records, timers and registrations agree |
| Randomization, supersession (`events/randomization.py`, `supersession.py`) | offsets per mRID | get, override, prune; compute_supersession | drawn once, no gap; lower primacy wins, then the later creation |
| Rediscovery and polling (`client/csip_client.py`, `polling.py`) | scheduler tasks and locks, `_state_ready`, pending flag, failure counts | trigger_rediscovery, polls, probes, recovery, registration, notification routing, shutdown | polls are armed and the gate open whenever no rediscovery runs; no notified change is lost; stopped is stopped |
| Comms-loss simulation (`client/comm_loss_simulation.py`) | gate, window, generation, phase | simulate, clear, expire, drain | the window always closes, only its own; nothing gets out of it |
| HTTP session and retry (`client/http.py`, `retry.py`, `connector.py`, `exchange.py`) | session, TLS context, LFDI, contact health | request, retry, reset, update certificate | bounded retries; requests under one identity; failures put down to their cause |
| Discovery, state (`client/discovery.py`, `state.py`) | resource tree, mapping | discover, refresh, prune | the mapping matches the tree; an unread list is not an empty one |
| Timebase (`client/timebase.py`) | offset per FSA and server | observe, forget, now | stale clocks fall back, live ones are used |
| Subscriptions (`subscription/manager.py`, `notification_server.py`) | subscriptions, dedup cache, handler tasks | subscribe, renew, reconcile, cancel, notify, suspend | each resource is polled or subscribed, none neither |
| Telemetry (`telemetry/*.py`, `readings.py`) | usage points, registered types, baselines, checkpoint, sent bodies, last snapshots | register, post, put, restore | the server holds what was measured, under a type that never changes |
| Connectors and dispatch (`connectors/`) | constructed connectors, cached failures, locks | resolve, apply, clear, relay | a control becomes the writes its elements need, and its outcome is known |
| SunSpec (`connectors/sunspec/`) | limit slots, merged setpoints, scanned models, meter sign | update_*, fetch_*, scan, reconnect | registers shared by several controls hold what was told |
| Tariffs (`events/tariff.py`) | tree, active interval per rate | walk, acknowledge, relay | the price in effect is told, each interval acknowledged once |
| History, observers, diagnostics | tables, queues, open intervals, entries | append, write, read, close, report, dismiss | each record once, in order, or counted as lost |
| DNS-SD (`client/dnssd/`) | replies, announcements | query, choose; announce, answer, goodbye | the provisioned server is chosen; a stopped client is gone |
| Command, configuration, API (`cli.py`, `config.py`, `api/`) | what is open, stop and reconnect requests | run, connect with retries, stop | a signal ends it, and everything is closed in order |
| `models/sep` | none | generated data classes | not modelled |

Interactions. The scheduler's poll tasks and the notification handlers call
`process_controls`, two at once if a notification arrives during a poll. Timers
call back into the processor after waiting for the `_state_ready` gate that
rediscovery closes. Rediscovery cancels the scheduler's tasks at whatever await
they are in and clears the resource state the processor reads its device
mapping and LFDIs from. The comms-loss probe opts out of running events and
recovers through registration and rediscovery. All responses, of events and of
prices, go through a ResponseTracker. Every request passes the simulation's gate
and records the health the probe decides by. The event processor, the default
reapply, the comms-loss clear, an operator and the telemetry cycles meet at one
connector per device. The management API changes certificates, simulates
outages, reconnects and rediscovers while all of this runs.

What is hard: handlers that read a record, await a POST and then act on it; a
set of supersession results applied one by one with POSTs between; timers that
fire as their event is being cancelled; cancellation of a task by a task it
awaits; three retention periods for one event; a notification that arrives
during or just after the rediscovery it should cause; lists replaced under a
reader that iterates them; a renewal whose answer is lost; a generation of an
outage whose timer outlives it; registers shared by five limits whose writes
fail halfway; a server that forgets what it was told. The hazards in
`PROJECT.json` place each at its line.

## 2. Modules

| Module | Models |
|---|---|
| `ResponseTracker` | the response path: calls, claims, waiters, failing and cancelled POSTs, evictions, gating and code translation |
| `ResponseOnce` | what it promises the server, without tasks' waiting, futures or dictionaries |
| `EventLifecycle` | EventProcessor composed with its store, timers, mode tracker, default tracker, and the parts of rediscovery and comms loss that touch them |
| `EventRetention` | what is remembered of an event and for how long; randomization; successive events |
| `ModeDispatch` | one event element by element: translation, group fan-out, revert and disable |
| `ScheduleRelay` | the relay of a control to connectors and their groups |
| `Rediscovery` | trigger_rediscovery, the scheduler it tears down and re-arms, the probes and the recovery |
| `Registration` | in-band registration at startup and in both recoveries, over schedulers that replace each other |
| `Shutdown` | shutdown against polls, rediscoveries, handlers and sessions opened anew |
| `ResourceTree` | discovery, the fsa and derp polls and the re-polls notifications and operators ask for, on one tree |
| `Subscriptions` | SubscriptionManager under the client's use of it, and the polls it suppresses |
| `Listener` | the notification server's requests, tasks, suspension and observers |
| `Transport` | requests, retries, contact health and the simulated outage |
| `Session` | TLS context, LFDI, pooled connections, chain audit, swaps of certificates |
| `Timebase` | the server's and the FSAs' clocks |
| `Metering`, `DerResources` | the two reporting loops of a device, a server that loses what it held, restart |
| `Readings`, `MirrorReadings`, `DerReport` | how a measurement or rating becomes what the server decodes |
| `Dispatch` | construction of a connector and the writes of several callers to it |
| `PowerLimits`, `Setpoints` | the SunSpec controls that share registers |
| `SunSpecReads`, `MeterSign` | scan, reconnect and fetches; the sign of a meter |
| `Tariffs` | the Pricing function set |
| `History`, `EventHistory` | interval roller over the database's writer; audit records and their summary |
| `Records`, `Diagnostics` | exchange and audit records through a bounded queue; the operator's list |
| `DnsDiscovery`, `Advertiser` | finding a server; being found |
| `Editions` | which edition a body may use |
| `Runner` | the command from start to exit |
| `MCServices`, `MCProgress` | compose the smaller parts for TLC (below) |
| other `MC*` | instances for TLC; `ResponseTracker`, `Subscriptions` and `Rediscovery` are run as they are |
| `ResponseTracker_proof`, `Transport_proof`, `Rediscovery_proof`, `ResourceTree_proof`, `EventLifecycle_proof` | theorems about these modules (and `ResponseOnce`), section 4 |
| `Registrations_proof` | who unregisters what, for `EventLifecycle` |
| `Services_proof`, `Presence_proof` | theorems about seven and four of the parts of `MCServices` |

Definitions keep the source's names in TLA+ case (`_handle_late_discovery` is
`LateDiscovery`, `prune_expired` is `Kept`). Definitions marked *Mutant* are not
part of any specification: each is a plausible bug of the definition that
follows it, and the property tested with it must fail under it. Variables that
record what an operation did to the outside, or which excuse a property allows
for, are history: no guard of an action of the program reads them.

### ResponseTracker and ResponseOnce

`sent` and `inFlight` are `_sent` and `_in_flight`; a future in `_in_flight` is
named by the task that holds it. A task is `idle`, `posting` (in `http.post`),
`waiting` (in `reserve`, on somebody's future), or `won`/`lost` (its future is
resolved, the loop has not resumed it). `PostResponse` is the code up to the
first await, `MarkSent` and `Release` the two ends of a POST, `WaiterSkips`,
`WaiterRetries` and `CancelWaiter` the three of a wait. `http.post` runs under
`with_retry`, so one POST is several attempts: `AttemptLost` is one that went
unanswered and is repeated (`MaxRepeats` times), and like the last attempt of a
POST that fails or is cancelled it may have reached the server. `delivered`,
`unproved` and `forgotten` are history: what the server took in, what of it the
client could not see, and what was evicted. So "once" is meant but for those:
nothing in the code, and no identifier it sends, lets it do better.
`ResponseOnce` keeps four facts per response: whether it is due, who posts it,
whether it is known to have arrived, how often the server processed it. The
refinement maps them to `Due`, `Posting`, `Known` and `delivered`; waiting, waking
and skipping are stutters.

### EventLifecycle

`task[t].pc` is what task `t` does next; `task[t].run` says it has not awaited
since its last step, and then only `t` steps (`TaskStep`): a handler is atomic
between awaits although it takes several steps here. Tasks are the passes of
`process_controls`, an activation, a completion and a wind-down timer per
event, and the task that enters comms-loss mode. `CancelTimers` is
`EventTimerManager.cancel`, which spares the calling task and ignores events
with no entry in `_tasks` (`pend`). `wq` holds the writes to a device that have
not landed: the connector serializes writes per device, an activation that
outruns its deadline is reported rejected while its write is still queued, and
may land later.

Abstractions: all events set one control mode, so "released", "owned" and
"carried" mode sets are one element or empty, and a setpoint is the event, or
the program whose default was, written last; `ModeDispatch` has the elements,
for one event. Offsets are zero here (`EventRetention` has them); responses land
and are deduplicated (`ResponseTracker`). The clock is coarse: a due timer fires
before the next unit passes unless its callback waits at the gate. One
assumption is not enforced by the code: no single handler outlasts the end of
its event plus the store's grace (60 s).

### Rediscovery, Registration, Shutdown

In `Rediscovery`, `pc` is where each task of the scheduler, and each task
outside it, is. `BeginPass` to `Again` are the loop of `trigger_rediscovery`;
`Aborted` is its caller being one of the tasks it has just cancelled. `server`
and `seen` are versions of the resource tree, so a missed change is
`seen # server`. `probeLock` is the comms_loss lock of the *current* scheduler;
`Registration` follows what the loss of that lock does to two recoveries that
both look for the client's EndDevice and POST it. `Shutdown` gives each await of
`CsipClient.shutdown` a stage, and lets polls, rediscoveries and calls of the
management API run between any two.

### ResourceTree

A step is one list read and what is done with it before the next await. A list
is the set of its entries, each with a fixed `Position`: the server lists what
it lists in one order. A list that the code iterates across awaits is read by
index from the live one (`Entry`, `walk[t].at`), as a Python list is, so an
entry that goes moves what the iteration meets next. A program stands for its
one event: pruning the program cancels it. `withdrawn` are the programs the
server really stopped listing, `excused` those that a reader may take for
withdrawn: that moved between FSAs, whose lists are read one after the other;
whose list was answered 404; whose list stopped between pages and is not the one
they were first met through; whose FSA an FSA list that shrinks under a walk
moves behind its index (`PassedOver`); and that no FSA in the tree listed when a
refresh set out (`missed`). The last happens in the middle of a discovery: the
derp poll is cancelled by a rediscovery, but `poll_now`, and the full re-poll a
notification handler falls back to, do not look whether one runs (`Handlers`),
and prune by the EndDevices found so far.

### Transport and Session

`Transport`: a request is at the gate, in flight or waiting to try again; a GET
records its health per attempt, a write once. `gen` numbers the windows; a timer
carries the generation it was made for. `Session` has what `Transport` leaves
out: whose certificate a connection was made with, and which session a retry
picks up after `reset_session`.

### Timebase and Runner

`Timebase`: a rediscovery cancels the Time poll and clears what was known of the
FSAs (`Trigger`); its end (`Rediscover`) schedules the poll again only if
`discover` got through, since the rate is set at its very end, and an FSA's Time
resource that answers anything but 404 or 204 raises before that. `Runner`: a
`connect` that raises is retried, refused (1) or unusable (2: an `OSError`, a
`ValueError` or an `SSLError`, such as the notification port in use); `CodeTrue`
says when each exit code is told.

### Subscriptions and Listener

A subscription's URI is the resource and how many the server has made for it, so
an adopted, a renewed and a stale one differ. A renewal is carried out, refused
(`RenewRejected`: 401 or 404 asks for a rediscovery), or carried out under a new
URI in an answer that is lost (`RenewUnanswered`: nothing is asked for, and the
old URI stays on record). The server answers a POST for a
resource it has a subscription for with that one. Polls are due when not
suppressed or at the heartbeat. `Listener` is a request from the accept to the
task it starts.

### Devices

`Dispatch` interleaves the callers of one device at every await and thread; a
caller cancelled in the middle of a write frees both locks, keeps no entry and
leaves the write in its thread (`loose`), to reach the device at any time (`Land`);
`ModeDispatch` what an event's elements do to a group; `PowerLimits` and
`Setpoints` make an update one step (the connector's lock is held) that may be
cut after any of its Modbus writes. `reg` are the device's registers, `told` what
the server was told. `SunSpecReads` has one fetch at a time against a device that
restarts, loses a block or drops off. `MeterSign` calibrates against totals that
may be missing or start over.

### Reports and records

`Metering` follows the usage point, the registered types and the checkpoint over
restarts and a server that loses them; a reading is its identity, and its type
the flow direction. `DerResources` compares bodies, which are version numbers.
`DerReport` and `MirrorReadings` compute values as n * 10^e and decode them as
the server does. `History` measures an interval by the seconds it covers;
`EventHistory` folds the records of one event; `Records` numbers what is offered
and what is delivered; `Diagnostics` keeps one entry per key and level.

### MCServices and MCProgress

The parts these modules compose share no state with one another, so each
behaviour runs one of them, named by `part`, and the module's variables are
pooled: `x1`, `x2`, ... carry the running part's variables, by INSTANCE ... WITH;
the rest are `None`. That is the same as a run of each part with its own bounds
(named in the module). A property of the composition is the conjunction, over the
parts it speaks of, of theirs; each conjunct is commented in its part's module
and each was seen to fail under that module's mutants. The constants of the
parts the theorems speak of are parameters of `MCServices`, with what the
proofs need of them in `PartsAssumption`; those of the other parts are given
where the part is instantiated. `MCProgress` does the same as `MCServices` for
the parts with liveness properties: since `part` never changes, weak fairness of
a disjunction over parts is weak fairness of the running part's action.

## 3. Runs

Each passing run, what it shows, and why its bounds are enough for the cases the
hazards name to happen:

| Run | Shows | Bounds |
|---|---|---|
| `response_tracker` | claims, dedup, skips, every call returns, and ResponseOnce is implemented | three callers (one posts, one waits, one arrives between resolve and resume), two postable keys of one event and a gated event, an attempt repeated within each POST, entries that expire in the next unit of time |
| `lifecycle` | nothing is left on a device, no registration leaks, an ended event stays ended | two overlapping events of two programs, both with a default; one device in both programs, one in the second only; writes on time or late; three passes (list, cancel, after the end) |
| `lifecycle_faults` | running events stay in force and a completed one is not cancelled, under faults | one outage, one rediscovery that may fail, one removal of a program, a wind-down |
| `lifecycle_two_passes` | every event ends, and COMPLETED is said only of devices it ran on, when a poll and a notification interleave | two pass tasks; writes succeed, fail or are late; default writes may fail |
| `rediscovery` | polls re-armed, no change missed, rediscovery ends | one poll, both probes, two outside tasks, two changes, two outages, three passes, polls answered 404 or failing up to the threshold |
| `transport` | the simulated window closes and isolates, silences are attributed | one GET and one write with two transient and two TLS faults, two windows (one may replace or outlive the other), one real outage |
| `subscriptions` | no dead subscription stays, every change of a control list is read | an FSA list and a DERControlList, two server-side events and one fault: enough for a lost answer (of a POST or of a renewal), a renumbered URI, a drop and a rediscovery to meet |
| `resource_tree` | cancelled only if withdrawn, assignments are mapped | two devices with an FSA each, one program either or both may name, one change, one fault, all four readers, also in the middle of a discovery; the safety part is proved for any number of each |
| `progress` | reports arrive, types stay, a repaired device is used, prices told, a signal heeded | per part, in `MCProgress`: two readings or two alarms, one server fault and one restart; two device revisions and two href moves; three callers of one device; two price intervals and two pollers; two connection attempts |
| `services` | what is told, reported, recorded and written is what happened | per part, in `MCServices`: two of each thing that can differ, one or two faults, time past every timeout in ticks |

The properties of `services` and `progress` gather, per question, the properties
of their parts:

| Property | Conjuncts |
|---|---|
| `TypeOK` | the type invariant of every part |
| `WritesHold` | `PowerLimits!LimitsHeld`, `LimitsReleased`; `Setpoints!SetpointsAgree` |
| `ControlsTold` | `ModeDispatch!ToldTrue`, `NothingLeft`; `ScheduleRelay!Informed`; `EventRetention!StartedOnce`, `ToldOnce`, `NoGap` |
| `ReportsTrue` | `SunSpecReads!FetchTrue`; `MeterSign!FrameRight`; `Readings!OldIsMarked`, `NothingHeldOverOutage`; `DerReport!ReportTrue`; `MirrorReadings!OneMeaning`, `DecodesRight` |
| `RecordsTrue` | `History!ReadExact`; `EventHistory!SummaryTrue`; `Records!Accounted`, `InOrder`, `OneExchangeEach`; `Diagnostics!ListTrue` |
| `ClockTrue` | `Timebase!OffsetCurrent`, `OwnClockKept` |
| `ExchangesAgree` | `Session!IdentityAgrees`; `Listener!NotificationsTrue`; `Editions!SpeaksEdition` |
| `PresenceTrue` | `DnsDiscovery!ChoiceSound`; `Registration!RegisteredOnce`; `Advertiser!GoneWhenStopped`; `Shutdown!StoppedForGood` |
| `HistoryIsDevice`, `AckedOnce` | `Dispatch`, `Tariffs` |
| `EndsInOrder` | `Runner!AllClosed`, `ExitCodeTrue`, `ApiSeesTelemetry` |
| `ReportsArrive` | `Metering!MupHeld`, `AlarmsTold`; `DerResources!ServerCurrent` |

The events of the lifecycle runs start inside one another, end within the bound
on time and are forgotten by the store before it, so every handler runs early,
late and not at all. Deadlock is not checked where the bounds end a behaviour
(the clock stops, the calls are used up, the command has exited); it is checked
in the rediscovery run, whose polls never stop.

Fairness, and why the code gives it:

- `ResponseTracker`: POSTs end (the HTTP client has timeouts) and ready tasks
  are resumed; a waiter gets no fairness of its own.
- `EventLifecycle`: each task, each write (the connector has timeouts), a
  rediscovery and the clock go on.
- `Rediscovery`: requests end, scheduled tasks run, an outage ends.
- `Transport`: a request's attempts end, and the window's own task (drain with a
  timeout, sleep, recovery) goes on.
- `Subscriptions`: requests and handlers end, polls and the reconcile poll come
  round; nothing is assumed of the daily renewal.
- `ResourceTree`: discovery and the polls go on; nothing is assumed of
  notifications.
- `MCProgress`: cycles run at their rates and their requests end; a construction
  thread ends and a cached failure ages; the poll loop runs while the client
  does; the command's own steps go on. A server that stays down is allowed where
  the property does not need it.

Nothing is assumed anywhere of the server's notifications, of operators, or that
faults stop, other than by their bound.

### Findings

Runs that expect a violation; `PROJECT.json` quotes the line each disagrees
with.

| Run | What TLC shows |
|---|---|
| `wind_down` | the revert scheduled after a cancelled event's wind-down is skipped, because the timer does not fire for a CANCELLED record; its entry also holds back the default |
| `poll_rediscovers` | a poll that triggers rediscovery is cancelled by it, and nothing is re-armed |

### Where the properties stop

A property is listed for the runs it holds in. The same models show what breaks
it elsewhere; each row is one change to a configuration, or one more property of
the module, and TLC gives the behaviour.

| Property, and the change | What TLC shows |
|---|---|
| `NoControlLeftBehind` with `DefaultsFail = TRUE` | a default written while an event was scheduled stays on record through it, so a write that fails at its end is never made up for (`processor.py:402`; the docstring at 1785 has the pass "ensure devices are in their default operating state") |
| `EveryEventEnds` with `MaxRediscoveries = 1` | a poll cancelled between storing a record and scheduling its timer leaves an event that never starts or never ends (`csip_client.py:1835`) |
| `NoControlLeftBehind` in `lifecycle_two_passes` | a late event cancelled by the other pass during its ACKNOWLEDGED POST is dispatched all the same |
| `NoControlLeftBehind` with `MaxOutages = 1` | the same for an opt-out during that POST |
| `NoControlLeftBehind` without its condition on a default | a write that lands after its rejection stays on a device no program gives a default to |
| `CompletedNotCancelled` with two events of one program (`MCSameProg`, `MCBackToBack`) | rule p cancels an event that completed while another's cancellation was posted; it holds where rule p comes to each before its end (`RemovesInTime`), as the theorem `OneEnd` has it |
| `NoDuplicateResponse` without `unproved`, `AckedOnce` without it | an attempt the server processed and did not answer is repeated by `with_retry`, or by the next caller, under the same content |
| `HistoryIsDevice` without `unseen` | the write of a cancelled caller lands after a later one was kept as applied |
| `TimeRetried` of `Timebase` | a discovery that meets an FSA's dead Time resource raises, and then, as after one cut short, no Time poll is scheduled, although the href is recorded first so that "an endpoint that is down right now is retried on the next poll" (`discovery.py:717`); the healthy FSAs keep their last offsets too |
| `CompletedOnlyWhereItRan` with `MaxRediscoveries = 1` | a dispatch that returns while the LFDIs are cleared posts no ACTIVE, but the event's COMPLETED is posted |
| `ResumeAfterBoundary` with `MaxOutages = 1` | an event scheduled before an outage starts inside the window opted out of |
| `NoLeakedRegistration` with `MaxRemovals = 1` | `cancel_program` neither reverts nor unregisters |
| `StateRebuilt` of `Rediscovery` | after a discovery that fails early no resource poll has a rate, so nothing rebuilds the state (the comment at `csip_client.py:1938` has "a later successful poll" do it) |
| `NoChangeMissed` with `Bursts = TRUE` | a second change within the dedup window, after rediscovery ended, is dropped |
| `NoChangeMissed` without `~cutShort` | a change coalesced into a rediscovery that cancels itself is lost |
| `RecoveriesSerialized` | an operator's recovery and the probe's hold the locks of two different schedulers |
| `NeverTwice` of `Registration` | so both may register, although `run_exclusive` (`polling.py`) is there to keep them apart; `RegisteredOnce` holds where the scheduler was not replaced and no answer lost |
| `ShutdownStopsPolling` of `Shutdown` | a rediscovery the host calls for while shutdown waits arms its polls afterwards, and a request opens the session again |
| `StartedOnce` with offsets wider than the store's grace | offsets dropped 10 s after an event's end are drawn again, and the completed event looks new (`randomization.py:44`) |
| `ToldOnce` with `MaxAge = 4` | an event listed longer than the tracker remembers is reported EXPIRED after COMPLETED |
| `NoGap` with `AddedInOrder = FALSE` | a predecessor listed after its successor leaves a gap |
| `AllReverted` of `ModeDispatch` | ten elements of the 2023 control type have no mode bit, and are not disabled at an event's end |
| `InformedInOrder` of `ScheduleRelay` | a connector still being constructed lets a later notification overtake an earlier one |
| `AbsentListPreserves` of `ResourceTree` | a program list answered 404 as a whole prunes its programs, which the docstring of `refresh_der_programs` says are preserved |
| `CancelledOnlyIfWithdrawn` without `excused` | a program that moves to an FSA whose list was read already is pruned, with two changes also if it is listed all the time; so is one listed by an FSA that slides under the index of a walk when the list shrinks, and one of an FSA a discovery that failed, or has not come to it yet, leaves out of the tree; a list that stops between pages protects only the programs first met through it |
| `EveryChangeObserved`, `CancellationHonoured` of `Subscriptions` | FSA lists have no heartbeat; a cancelled subscription is made again by a rediscovery |
| `EveryFailureInjected`, `RecoveredIsReread` of `Transport` | a write that failed before the window counts as simulated; a recovery cut short is shown as recovered |
| `HeaderIsCertificates` of `Session` with three updates | a swap that failed halfway leaves a session of one certificate and the header of another |
| `FactoryOnce` of `Dispatch` | a caller cancelled while its thread constructs lets the next one construct again |
| `InjectCapTakenBack` of `PowerLimits` | an inject cap written to WMaxLimPct by the fallback route may outlive every limit |
| `AttemptsReported` of `SunSpecReads` | a scan that fails for good after transient failures is reported as one attempt |
| `SequenceIdentifies` of `Readings` | a sequence number is used again after a device is released |
| `PairTrue` of `DerReport` | the decimals of a value given with a multiplier are lost |
| `ForHowLong` of `EventHistory` | records made in another order than the event's own, or before a restart, give another duration |
| `DismissedComesBack` of `Diagnostics` | a dismissed warning of a missing connector is not shown again: the dispatcher remembers it as reported |
| `AnnouncementMarked` of `Advertiser` | an announcement that follows an answer is not counted against the multicast limit, so the next answer repeats it within a second |

Limits found while modelling that no definition states, by module. They bound
what the properties may say, and the properties' conditions name them:

- `Metering`, `DerResources`: a server that sends no Location and loses the usage
  point before it was looked up is not given it again; a restart takes alarms as
  clear, so a return to normal is not sent; a settings PUT in flight over a
  change of capability is not repeated.
- `Subscriptions`: the derp key stays suppressed for a cancelled control list
  while its sibling is subscribed; the checkpoint leaves out whether a
  subscription is on a list.
- `ResourceTree`: a mapping outlives the FSA it came from until the program goes;
  programs of the dcap fallback are pruned by the first refresh.
- `PowerLimits`, `Setpoints`: devices without WMaxLimPct are not in the
  instance; a slot is recorded although its write raised; a
  refresh that fails after WMax was raised loosens the generation limit; an enable
  is written before its value; the inject side of a power factor is rewritten
  before the absorb side is refused.
- `Dispatch`: the clear of comms loss stops at the first mode that fails.
- `Tariffs`: a walk that failed or overlapped acknowledges and relays again; the
  tree is empty between clear and refill.
- `History`: a batch queued as the database closes is lost, as is what is pending
  at a crash.
- `DnsDiscovery`: of an instance named twice the first message is kept.
- `MirrorReadings`: a three-phase device whose first polls lack two lines posts
  line 1 as the total.
- `MeterSign`: two readings that straddle a turn with a silent one between fix a
  wrong sign.
- `Listener`: an observer attached in the middle of a request hears nothing of it.
- `Session`: Python before 3.13 skips the chain audits.

## 4. Proofs

`ResponseTracker_proof` proves, for all sets of tasks, events, devices and
codes and all bounds (from `ConstantsAssumption` only): `TypeCorrect`,
`ClaimsCorrect`, `NoDuplicates`, `SkipsAreSafe`, `WireCodesRequested`, the
action property `ClaimsHeld`, and the refinement `Refines`.

The argument is one inductive invariant, `IInv`. The properties alone are not
inductive: nothing in them stops a state in which a key is claimed although it
is sent, from which a second delivery follows. `IInv` adds how the two
dictionaries relate: `ClaimedNotSent` (a claimed key is not in `_sent`),
`DeliveriesAccounted` (each delivery is in `_sent`, was evicted from it, or was
of an attempt never seen to succeed), `SentWasDelivered`, `WonWasDelivered` (a
waiter that was told True was told the truth) and `KeysAllowed`. There is one
lemma per action; `ReserveStep` is shared by a call and by a waiter that goes
round the loop.

`Refines` (`Spec => ImplementsResponseOnce`) uses `IInv` twice. That the posts
of the tracker are posts by one task at a time is `PostingIsClaimed`, from the
agreement of `_in_flight` with the tasks; that a claim is taken only of a key
not known to have arrived is the check in `reserve`. Then each action is one
step of `ResponseOnce` or a stutter: `ReserveRefines`, `ResolveRefines`,
`AttemptLostRefines`, `MarkSentRefines`, `ReleaseRefines`, `EvictRefines`, and
`QuietRefines` for the steps that leave the three mapped functions alone;
`StepRefines` collects them.

`Transport_proof`, for all requests, retry limits and numbers of windows and
outages: `TypeCorrect`, `WindowsCloseable` (`NeverStranded`),
`DrainedIsIsolated` (`Isolated`), `SilenceAttributed` (`Attribution`) and
`InFlightCounts`. What the properties lack to be inductive is who holds the
lifecycle lock while the notification server's gate and the requests' differ
(`GatesAgree`, `OneHolder`): without it a timer could recover under an
activation. `HandlersDrained` and `RequestsDrained` split `Isolated` at the two
drains, and the second needs that `_in_flight` is the number of requests in
flight (`CountExact`, by cardinality of finite sets). `NoneUnattributed` says
that between silences nothing but a write between attempts has failed.

`Rediscovery_proof`, for all polls and tasks, thresholds and bounds:
`TypeCorrect`, `PollsAlwaysRearmed` (`PollsRearmed`), `OneRediscovery`,
`GateReopens`, `EmptyIsReported`, and `ChangesSeen` (`NoChangeMissed`) from
`~Bursts`, the condition under which the run checks it too: the dedup cache drops
a second change within its window (section 3). All rest on `LockHeld`: the one
task inside the loop of `trigger_rediscovery` is the holder of the lock, also
when that task cancels itself. `Covered` says what a pass that runs with nothing
pending knows of the server; `NoChangeMissed` is what is left of it when the pass
ends.

`ResourceTree_proof`, for all devices, FSAs, programs, lists and positions and
any number of changes and faults: `TypeCorrect`, `NoneCancelledByMistake`
(`CancelledOnlyIfWithdrawn`) and `TreeKeepsListed`. A program that was never
withdrawn or excused is `Stable`; the heart of `IInv` is `Followed`: some FSA
that names it is in the tree, and every walk has seen the program, has found that
FSA unreadable, or has the FSA still ahead of its index (`Noted`, `Ahead`). It
survives the replacement of the list under the walk because what is moved behind
the index is excused, and a walk that sets out without it, in a discovery half
done, has it among its `missed`. `OriginNames` carries it
over the pruning of lists that could not be read, `RemovedLost` over the fsa
poll, `SeenKnown` over the comparison with `previous_programs`, `Readers` and
`Walkable` say which readers run together and on which lists. The proof found
that the property as it stood before, which excused moved programs only under
some readers, held at one change of the server and failed at two.

`EventLifecycle_proof`, for all events, programs, devices, tasks and times:
`EndedNotTakenAgain` and `EndedNotTakenAgainByOne` (the action property
`EndedStaysEnded`), `OneEnd` (`CompletedNotCancelled`) and `CompletedWhereItRan`
(`CompletedOnlyWhereItRan`). The first rests on `Forgotten`: what the store has
dropped had ended, by the clock, and by the clock of every pass that still has
it to look at, so `SeeNew` cannot take it for new. That a pass reads the clock
once and then awaits is why the hypothesis `[]ShortPasses` is there: a pass that
starts after another and prunes while the other, more than the store's grace (60
s) older, has events left could drop what the older one then takes on. With one
task running `process_controls` it holds of itself (`EndedNotTakenAgainByOne`).
`OneEnd` adds `EndPosted` (COMPLETED and CANCELLED are posted when the record
has ended) and the hypothesis `[]RemovesInTime`: an event that rule p is still
to cancel has not reached its end. Rule p looks at the clock once and then
awaits a POST per event, so with several events of a program the hypothesis is
not for nothing: without it the property is false (section 3), and with it TLC
finds it true of the same instance. `CompletedWhereItRan` takes, besides
`[]ShortPasses`, the hypothesis `[]discovered`: the LFDIs stay known, so no
rediscovery clears them; with one it is false (section 3), while removals,
supersessions, rejections and the outages entered are all allowed. Its invariant
`StartInv` says that one task at a time has the turn of starting an event
(`OneTurn`: the pass that acknowledged it, its activation timer, the one that
prepares and then dispatches it), which ends when the completion timer is set
and before any COMPLETED (`TurnFirst`); that each device is awaited, applied or
rejected, and never two of these (`SettlesOnce`); that what a device was told is
on the record (`ToldOnRecord`); and that an event without targets was announced
to those who will hear of its end (`Announced`). Most steps only give up turns
(`Frame`, lemma `Settled`); the nine that take on, start or complete an event
touch that event alone (`StepsAbout`). `Shape` is the part of `TypeOK` these
proofs need.

`Registrations_proof` proves `EndedEventsReleased` (`NoLeakedRegistration`) for
`EventLifecycle`, for all events, programs, devices and times: when no handler
is under way, no device has an event registered that is over. The invariant adds
`RegInv` to `StartInv`; of each event, `Accounted` says who takes its
registrations away. A registration is of a running event of that device's group,
or a task is about to give it up (`RegistrationOwned`); a control is prepared
for a running event only, or for one taken over altogether (`PreparedRuns`);
whoever cancels an event stops the timer that would start it (`TurnTracked`,
`TurnOwner`); a live event has a task that moves it on before the store may
forget it (`Driven`, `InTime`); nobody supersedes it while the POSTs of its
completion are awaited (`Completing`); what is released is over
(`ReleasedAtEnd`), and only its own devices start it (`StartedInGroup`). The
hypotheses leave out what leaks, by section 3 or by TLC's counterexamples:

- a wind-down (`WindDown[e] = 0`), whose timer finds the event over (finding
  `wind_down`);
- rediscoveries, removals and outages (`[]Steady`): each clears what a handler
  needs to find the devices of its event;
- a second pass, which may cancel an event that the first dispatches, so one
  task runs `process_controls`;
- a pass that does not keep up with the clock (`[]TakenInTime`: it takes an event
  on while the store would keep it; `[]RemovedLive`: rule p cancels live events).

`Services_proof` and, for the last of them, `Presence_proof` prove six properties
of `services`, those of eleven parts, for all values of their constants (from
`PartsAssumption`: identifiers differ, bounds are numbers, every FSA's Time
resource is among those polled, a poll takes a tick). `IInv` in each part's module
is its inductive invariant.

- `ExchangesRight` (`ExchangesAgree`). `Session`: until an update raises, the
  configuration, the context, the LFDI and the open session's header are of one
  certificate; sessions are numbered as they are made; the pool holds connections
  whose chain conformed. `Listener`: nothing is known of a notification that was
  not answered, and what `suspend` waits for is all that runs. `Editions`: the
  base known of a 2018 server is 2018, and bytes made for the server that is
  there fit it. For this proof the restriction of a body had to go as deep as the
  code's recursion does; the earlier model stopped at two levels.
- `HistoryAgrees` (`HistoryIsDevice`): a write and its entry are one step of the
  connector's queue, and a cancelled write that still runs is among those nobody
  saw end (`LooseUnseen`).
- `ResponsesOnce` (`AckedOnce`): of an interval never missed, the server, the
  tree and every walk have it, so no end of a poll forgets its response; what the
  server took in is the attempts that went unanswered and one more if the response
  is in `_sent` (`Counted`); a response is in flight only under its own
  poll's claim and before it is in `_sent`.
- `CommandEndsInOrder` (`EndsInOrder`): what is open at each point of the
  sequence, which exit code each way out must have given which part failed
  (`CodeTrue`), and that the API's manager is replaced with the client's.
- `OffsetsCurrent` (`ClockTrue`): while a Time resource answers, its scopes were
  read at most so long ago: one bound before the poll comes to it, one after, one
  until the next is due (`Renewed`). A rediscovery reads them anew and schedules
  the next poll, or raises and leaves none: the property speaks of the first
  (`Scheduled`), since of the second it is false (`TimeRetried`, section 3).
  The bound is the poll's rate and three ticks, which three polls, the threshold
  of staleness, exceed.
- `PresenceHolds` (`PresenceTrue`, in `Presence_proof`). `DnsDiscovery`: who was
  heard is among the instances or found, because the first message that names a
  server in the first round describes it if any does. Its hypothesis, that no
  more servers hold the EndDevice than `MAX_INSTANCES`, is the code's own limit:
  instances beyond it are dropped unread. `Registration`: a recovery under way
  holds the lock it took, two overlap only on two schedulers, and whoever is
  about to POST found nothing that anyone has made since. The proof showed that
  "recoveries overlapped" is needed only for the first half of `RegisteredOnce`,
  and the second no longer excepts it. `Advertiser`: what is cached is taken
  back by the thread's end. `Shutdown`: each stage leaves nothing alive that a
  later one relies on being gone.

Only model-checked: liveness (`EveryCallReturns`, `EveryEventEnds`,
`RediscoveryEnds`, `WindowCloses`, `NoDeadSubscription`, `ChangeObserved`,
`AssignmentsReach` and the temporal properties of `progress`), since liveness
under fairness and ENABLED are out of the prover's reach; `NoControlLeftBehind`
and `RunningEventInForce` of `EventLifecycle`, which speak of the order of writes
still queued for a device against the setpoints of all its programs and events;
`TypeOK`, `WritesHold`, `ControlsTold`, `ReportsTrue` and `RecordsTrue` of
`services`, whose parts compute over registers, number formats and folds of
sequences (induction over data is out of reach), in instances whose constants are
fixed.

## 5. Further work

Proofs: `ScheduleRelay` and `EventRetention` are the next parts of `services` that
have an inductive argument without induction over data. Abstract specifications
worth stating: "each resource is refreshed at its rate", for the scheduler under
suppression, and "a control is on a device from its start to its end", for the
lifecycle without timers and trackers; the second would carry
`RunningEventInForce`. Models: supersession over mode sets against a reference
definition, and `EventLifecycle` with two modes.

## 6. Not modelled

Wire formats (XML, JSON, DNS, Modbus layout), curve points, parsing and
validation of configuration, the API's routes and serializers, generated data
classes: encoding without state of its own, where no property tells the values
apart. Within modelled parts: several events with partial mode sets at once,
poll rates, jitter and delays (a delay is any time), redirects and 429 answers
to writes, the checkpoint of subscriptions, age pruning of the history, the relay
of baselines, the status cycle of DER resources, and handlers that outlast the
store's grace.
