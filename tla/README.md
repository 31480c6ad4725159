# A verification project for the UK Controller Plugin

The UK Controller Plugin is a DLL that the EuroScope radar client loads for VATSIM
controllers in the UK. It keeps operational state (release requests, holds, stands,
squawks, prenotes, ...) in step with a web API that every other controller's plugin
talks to as well. This directory holds TLA+ modules of its core, TLC configurations
that check them on small instances, and proofs for TLAPS.

Paths below are relative to `src/src/plugin/` unless they start with `utils/`, which is
`src/src/utils/`.

## 1. Inventory

### Threads

Three kinds of execution matter to every component.

- The **EuroScope thread** calls the plugin: flightplan, radar target and controller
  callbacks, tag and menu functions, and `OnTimer` once a second, from which all timed
  events (`timedevent/TimedEventCollection.cpp`) and the drained push events run. Two
  handlers never overlap, but a modal dialog or a popup menu lets time pass between the
  opening of a window and its answer.
- **Three workers** of `utils/task/TaskRunner.cpp` (`bootstrap/HelperBootstrap.cpp:27`)
  run closures. Nearly all of them call the API and then, when it has answered, change
  the state of a component directly: from a thread other than the one that owns it.
- The **API** and the other controllers act at any time. What they do reaches the
  plugin as push events, in the order of their ids.

### Components

| component | state | operations | interacts with | hard behaviour | what makes it correct |
|---|---|---|---|---|---|
| task runner `utils/task` | deque of closures, running flag, condition variable | queue, take, run, destroy | every component that calls the API | lost and spurious wakeups, shutdown | tasks taken once and in order; nobody sleeps on work; destructor returns |
| push events `push` | last event id, two in-progress flags, queue of raw events, subscriptions | sync, poll, fetch, drain, dispatch | API, task runner, all push event processors | flags set on one thread and cleared on another, failing calls, queue shared by two threads | every usable event reaches every subscriber once, in order |
| push proxy `push` | queue, window handle, synced flag | start, sync, receive, drain, close | the instance that polls, by window messages | two processes that start and stop at their own times | misses no event after its data was loaded |
| departure releases `releases` | map of requests, tag colours | request, acknowledge, approve, reject, cancel, expire, five push events | API by tasks, push events, dialogs | late answers, stale windows, lookups repeated without the guard | shows what the API holds; drops nothing live; acts on the right request |
| enroute releases `releases` | incoming and outgoing maps | choose, hand over, receive, clear | API, push events | edits after the release was sent | what was sent is cleared in time |
| prenotes `prenote` | set of messages | send, acknowledge, cancel, time out, three push events | API by tasks, push events | late answers, double lookups, set walked without the lock | shows what the API holds; nothing stays for ever |
| missed approaches `missedapproach` | set of alerts | trigger, acknowledge, expire, push events | API, integrations | check, then act after an API call; task against event | each is shown and announced, own ones as own |
| holds `hold` | aircraft -> holding record, hold -> aircraft | assign, unassign, enter and leave proximity, push events | API by tasks, displays | two indexes, lookups without the lock, late snapshots | indexes agree; API and display agree; who left is taken out |
| active callsigns, login `controller`, `login` | callsigns, callsigns by position, the user's own; connection status | add, remove, user callsign, flush | ownership, handoffs, altitudes | reconnects, change of position, logout | indexes agree; one user |
| airfield ownership `ownership` | providers per airfield | refresh on change | active callsigns | must follow each change | a function of the active callsigns |
| handoffs `handoff` | cache of resolutions | resolve, invalidate | active callsigns, runway dialog | stale cache | cached = resolved afresh |
| initial altitudes and headings, departure monitor | what was set for whom | assign, recycle, clear | login, ownership, handoffs | put off after login; cleared on departure | nobody due is forgotten; cleared only without a next controller |
| squawks `squawk`, stored flightplans | requests in flight, queue of allocations | force, request, delete, flush | API by tasks | a request ends before its allocation is flushed | the newest answer wins; nobody is stuck |
| stands `stands` | assignment per aircraft | assign, delete, request, sync, push events | API by tasks, integrations | snapshot against newer events | equals the API's assignments when quiet |
| approach sequence `approach` | linked list beside a list | add, remove, move | flightplans | links | links mirror the list; spacing behind the true leader |
| metars, pressures, min stack | METAR per airfield, derived levels | snapshot, push, acknowledge | push events | snapshot against newer events, two threads | newest METAR kept |
| flow measures `ecfmp` | measures per aircraft, aircraft per measure | activate, end, flightplan, callsign | a third-party library | lookups that throw | the maps mirror each other |
| integration server `integration`, cached codes `intention` | connections, clients, streams | accept, initialise, receive, send | event handlers on any thread | messages cut in pieces; events while a client joins | every message answered once; clients up to date |
| event bus | streams and handlers | publish | all | thread of delivery | a handler runs on the thread it asked for |
| API client, wake, notifications, static data, display, shell, platform, loader | I/O, lookup tables, rendering | - | - | - | - |

`PROJECT.json` lists each of them with its sources, and says which is modelled.

## 2. Modules

| module | models | role |
|---|---|---|
| `TaskRunner` | `utils/task/TaskRunner.cpp` | detailed |
| `EventStream` | - | abstract: what the push transport promises |
| `PushEvents` | `push/PollingPushEventConnection.cpp`, `PushEventProtocolHandler.cpp`, `PushEventProcessorCollection.cpp`, `InterpretPushEvent.cpp` | detailed; implements `EventStream` |
| `PushProxy` | `push/PushEventProxy*.cpp`, `ProxyPushDataSync.cpp` | composed with `PushEvents`: the instances that do not poll |
| `DepartureReleases` | `releases/DepartureReleaseEventHandler.cpp`, `DepartureReleaseRequest.cpp`, the collection in `utils/collection/Collection.tpp` | detailed, with the API as environment |
| `Squawks` | `squawk/`, the stored squawk and timeout in `flightplan/` | detailed, with the API and EuroScope as environment |
| `ActiveCallsigns` | `controller/ActiveCallsignCollection.cpp` | operators on a collection |
| `AirfieldOwnership` | `ownership/` | operators; who provides a service |
| `Departures` | the flightplans EuroScope lists | environment of the next three |
| `Handoffs` | `handoff/` | operators; resolution, cache, invalidation |
| `InitialAltitude` | `initialaltitude/`, `departure/UserShouldClearDepartureDataMonitor.cpp` | operators |
| `Controllers` | `controller/ActiveCallsignMonitor.cpp`, `login/`, `departure/DepartureMonitor.cpp`, the order of callbacks | composes the five above |
| `Stands` | `stands/StandEventHandler.cpp` | detailed, with the API as environment and an abstract transport of push events |
| `StandsOverPush` | `stands/StandEventHandler.cpp` as a processor of `push/` | composes `PushEvents` and `Stands`; implements `Stands` |
| `Holds` | `hold/HoldManager.cpp`, `HoldEventHandler.cpp` and the holding areas | detailed, with the API and the aircraft |
| `PrenoteMessages` | `prenote/` | detailed, with the API |
| `MissedApproaches` | `missedapproach/` | detailed, with the API |
| `EnrouteReleases` | `releases/EnrouteReleaseEventHandler.cpp` | detailed |
| `ApproachSequence` | `approach/` | detailed |
| `Metars` | `metar/` | detailed |
| `FlowMeasures` | `ecfmp/AircraftFlowMeasureMap.cpp` | detailed |
| `Integrations` | `integration/`, the caches of `handoff/` and `intention/` as seen from there | detailed, with the programs that connect |
| `MCFeatures` | - | `Controllers`, `Stands`, `StandsOverPush`, `Holds`, `PrenoteMessages`, `MissedApproaches`, `EnrouteReleases`, `ApproachSequence`, `Metars`, `FlowMeasures` and `Integrations` beside one another, for one run |
| `MC...` | - | the values TLC gets for the constants |
| `TaskRunnerProofs`, `PushEventsProofs`, `DepartureReleasesProofs`, `SquawksProofs`, `IntegrationsProofs` | - | theorems about the module named (`PushEventsProofs` also about `PushProxy`) |
| `ControllersProofs` | - | theorems about `Controllers` and the modules of operators it is composed of |
| `StandsAndHoldsProofs` | - | theorems about `Stands`, `Holds` and `StandsOverPush` |
| `FeaturesProofs` | - | theorems about `FlowMeasures`, `EnrouteReleases`, `Metars`, `PrenoteMessages`, `MissedApproaches` and `ApproachSequence` |

### TaskRunner

The mutex `asynchronousQueueLock` protects straight-line code, so a critical section is
one action: `QueueAsynchronousTask` with its `notify_one`; of the loop, the section from
the top (`LeaveLoop`, `Sleep`, `TakeAtTop`) and the one after the wait (`BackToTop`,
`TakeAfterWait`); `Destroy` with its `notify_all`. `FinishTask` is the return of the
closure, with or without an exception that the loop catches. The wait has no predicate in
the code, so it has none here: `SpuriousWakeup` wakes anybody. Tasks are numbered by the
order of queueing. The history `furtherTasks` counts what each worker takes once the destructor has begun: the code
reads `threadsRunning` at the top of the loop and not after the wait, so a woken worker takes a task more, and
`OneFurtherTaskEach` says that it is one, whoever wakes and however long the queue is. Nothing is queued after the destructor began except by a task that
still runs.

### PushEvents

`SyncEvents` and `GetLatestEvents` are the two branches of the polling timed event; each
queues a task that is a small state machine (`syncTask`, `fetchTask`) with its call, the
ways the answer can be bad, the loop over the answer under `inboundMessageQueueGuard`,
and the tail that clears its flag. `StartDraining`, `ProcessNextMessage`, `StopDraining`
are the protocol handler's loop. `ProcessEvent` computes which processors one event is
handed to, in the code's three rounds. `published` is the API's log and grows at any
time. The histories `received` and `cursor` record what subscribers got; the code does
not have them. What the processors do with an event is the business of their modules.

### PushProxy

Extends `PushEvents` by the plugin's other instances on the machine. `MainStep` is any step of
`PushEvents`; when it calls the processor `PushEventProxyHandler`, `SendMessage` puts the event into the queue of every
open window before it returns, so `SendToWindows` is part of the step. A proxy's window procedure and
timed events run on one thread, so no message arrives while its `PushEventProtocolHandler` loops, and
`DrainProxy` empties the queue. An instance starts and closes at any time; it synchronises once, and when the
API does not answer nobody asks again, as nothing forces `LoadProxy`. That nobody takes over when the first instance
ends is the code's way and is left out. `ProxiesMissNothing` says what "more or less" in
`push/ProxyPushDataSync.h` comes to: an instance that loaded its data before the first one
synchronised misses what was published between, and that alone. Without the condition on `attachedAt` the property fails.

### DepartureReleases

State: the map `releaseRequests` from ids to what the code can tell of a request
(decisions recorded, and which of its deadlines passed), the tasks queued or running,
the open window, and the API's own state. The API is external: it accepts any request,
refuses decisions and cancellations only for what is cancelled, publishes one event per
change. Other controllers act through it (`OtherController`).

Each handler of a push event is an action. The three decision handlers look a request up
twice, so they are two (`ValidateDecisionMessage`, `ProcessDecisionMessage`), and a
worker that does not take `releaseMapGuard` may run between. Each command queues a
task or opens a window; each task is a call (`CallApi`, `AnswerLost`, `ApiException`)
and, later, the change that follows it (`ApplyAnswer`).

Assumed, from `PushEvents`: events arrive once each, in order. Assumed of the user: one
position throughout. Not modelled: requests that were open before the plugin
synchronised, chat messages and display, the word-tearing kind of data race on a
request's fields. Two identical tasks at the same stage coincide.

### Squawks

State: the aircraft EuroScope lists and their squawks; the stored flightplans' squawk and
timeout; `squawkRequests`; the tasks; `allocationQueue`, a function of the callsign because
the `std::set` is ordered by the callsign alone; the failed deletions on the event bus.

Menu and tag functions are `ForceSquawkForAircraft` and `DeleteApiSquawkAndSetTo` (with a
squawk typed in, or one that counts as none, like 2000). `AttemptAssignSquawks` is the
timed event, `FlightPlanEvent` the two handlers of that callback in the order of their
registration; both make the attempts of `AttemptAssignment` in order. The rules of
`SquawkAssignment.cpp` look at positions, speeds, ownership and settings: where they do, the
attempt may be made or not. Where they look at the squawk they are guards. A task is one
record that moves from call to call: `lookup`, `create`, `answered`, `ending`, or `delete`,
`ending`. A failed automatic request leaves the holding squawk 7000, which counts as
assigned, so the timer does not retry it: the controller must.
A squawk that EuroScope reports and that does not count as assigned, such as 2000, is stored
all the same, and then counts as a previous squawk: the timer reassigns it, and makes
no request until a flightplan event resets the stored one. The model has both behaviours.

Histories: `due` is the squawk the last request comes to as far as is known, and
`calm` holds the aircraft whose last request began with no earlier answer waiting.

Not modelled: the values of positions; an answer of the API that is one of the squawks
with a meaning of its own; the selection of another aircraft between opening the popup for a
manual squawk and typing it in.

### Controllers and what is derived from them

One call of EuroScope goes a long way: a controller's report changes the active callsigns,
each change calls the handlers of ownership, initial altitudes and handoffs in the order
they were registered, and for the user's own report `Login` then looks at the connection
and may empty everything. The model takes such a call as one action, composed of operators that each
take a *world* (what the call changes) to a world: `Joined`, `Left`, `Replaced`,
`Flushed`, `Assigned`. The collection, the ownership rules, the handoff cache and the
assignment of altitudes are modules of operators without state, so that each is
readable by itself; `Controllers` holds the variables and the actions.

Which position a report matches, by frequency and callsign, is an input. The user's old
callsign is removed through a reference into the element being erased
(`controller/ActiveCallsignCollection.cpp:45`); what handlers read from it afterwards is
undefined, so `Left` lets them see the callsign or not, and `dangling` records that it happened:
the properties of ownership and handoffs hold until then.

`ServicesAsDocumented` states the comment of `ownership/AirfieldOwnershipManager.cpp:133` by types of position,
without the pass over the order that the code makes: who is Ground, Tower or Approach gives that service whoever else is online, the first approach
controller gives final approach, and in the absence of a type the first who can does. The comment and the code agree
unless, in the order of an airfield, one of those online stands before another of a lower type (`LowestFirst`): when an enroute
position comes before the only approach one, it gives final approach, which the comment gives to the approach controller
"regardless". The exception is as narrow as that: an airfield with such an order is within the property whenever the two are
not online together. The connection types are direct, by
proxy and playback; only a direct session is a login.

### Stands, Holds, PrenoteMessages, MissedApproaches

They share their shape with `DepartureReleases`: a map that the user's edits change, tasks that
tell the API before or after, push events in the order of the API's changes, a snapshot or late
answer written by a task. They differ in what comes first. A stand or a hold changes
at once and a failed call is not undone; a prenote or a missed approach is added only when
the API answered, and may then come after its own events. Tasks are kept in a bag:
two equal ones are two. The histories (`standsAdrift`, `holdsAdrift`, `prenotesLate`,
`...Overtaken`) say exactly when the code may come to show something else than the API
holds; the properties say that it shows the API's state in every other case.

A request with `ApiRequest` is performed and its handlers run where it is made
(`utils/api/ApiRequest.cpp:23`, `utils/api/ChainableRequest.cpp:7`: the continuable has no executor),
also one declared asynchronous. So an automatic stand is asked for on the EuroScope thread
while `DoStandAssignment` holds the lock of the stands (`stands/StandEventHandler.cpp:85`), no
event is processed and no list loaded until it is answered, and `AutoStand`, a request with its answer, is
one action; the displays and the push events wait for the API meanwhile. The request for a departure
stand does not return (`stands/StandEventHandler.cpp:625`), so an aircraft between two airfields
of the user makes both, as two steps; other steps may come between, which the held lock forbids in part.

`Stands` does not know how push events travel. Its transport has a place in the API's log once it has
attached (`standsAttached`); what was published before that is lost or, as far as the log reaches behind
the place, still to come, and what is published after it waits in `standEvents`, which `ProcessStandEvent`
hands over in order. `StandsSynced` tells the handler once, after the attachment, and the list of stands is asked
for. These are assumptions on the transport, and the next module shows that they hold.

### StandsOverPush

The stands with the transport they have. It extends `PushEvents` and `Stands` and gives each step of the
program as a step of both: the API's log (`standLog`, `standsUpTo`) gets a stand event for each change of a stand
(`ApiStep`, `AutoStep`) and others (`PublishOther`); one message of the queue is one `DrainStep`, which
applies the event if the handler is among the processors called; `AttachStep` is the assignment of `lastEventId`,
and `SyncedStep` the end of the same task, where `PluginEventsSynced` queues the list. Between the
two the EuroScope thread may poll, drain and hand out events. It edits no stand while it drains, as it is
one thread. `standsAttached` and `standEvents` are histories here: no action reads them, and they say
what the transport of `Stands` would hold. `StandsSpec` as a property of this module is therefore a
refinement with the identity as the mapping. `HandlerAssumption` names the processor; `RoomAssumption`, that
there are no more ids than `Stands` has room for events, relates two bounds of the models.

### Holds, and the double lookups

Push events are processed on the EuroScope thread (`push/PushEventBootstrap.cpp:36` registers the
protocol handler as a timed event), so between two lookups of one handler only the workers' tasks come.
In `Holds` the distance sweep is cut where it gives up the manager's lock: it adds an aircraft
to the proximity of a hold, and then looks the entry up again to mark it entered and uses it unseen
(`hold/HoldEventHandler.cpp:64`). If it were gone, `holdsUp` would become FALSE and the plugin stop. It
never is: workers add aircraft and assign holds, and none takes an entry away (`SweepFindsItsEntry`).
The double lookups of the three prenote handlers are modelled alike (`prenotesUp`, `prenoteLookup`), and there workers do
change what is looked up. The handlers of an acknowledgement and of a deletion use the second result, which is null
when the task of the user's own cancellation has taken the message out. The handler of a new
message (`FindNewPrenote`, `ProcessNewPrenote`) decides by the second result and uses the first, which is null when the task that sent the message
has added it in between. `PrenotesFallAboutOwn` says that nothing else leads to a null pointer, so that a message of
other controllers never does. Any controller at the target's position may acknowledge, and again, as
`prenote/AcknowledgePrenoteMessage.cpp` does not ask whether it was done; each acknowledgement starts the time of the
message anew (`PrenoteProlonged`), and `PrenotesEnd` excepts a message to which that happens for ever. The handler of a new missed approach is cut too, between the lookup and the addition
(`CheckMissedEvent`, `missedChecked`): the triggering task may add the entry in between.

### EnrouteReleases, ApproachSequence, Metars, FlowMeasures

`EnrouteReleases`: a changed type always replaces the release, because the code looks for an
aircraft called `callsign`; the model does what the code does. `ApproachSequence`: the list
and the two links of every aircraft, the operations as functions from links to links;
inserting before another aircraft is in the code though no caller uses it yet. The popup of
callsigns offers aircraft of the airfield as destination; a destination that changes while it is open is
left out. The list of targets (`OpenTargetList`, `targetList`) stays open while what the user does not do happens: an aircraft that
lands, disconnects or is redirected meanwhile is not found by the choice (`TargetSelected`), the null pointer is used
(`approach/TargetSelectorList.cpp:43`), and `approachUp` becomes FALSE. Whatever else the user clicks closes the list first
(`CloseTargetList`). `Metars`: the EuroScope thread, with a push event, and the task of the synchronisation
each store a METAR and then tell the monitor, two steps that interleave.
`FlowMeasures`: the guards say where `at` would throw; the property shows they are always
true, so that nothing is lost by having them as guards. To which aircraft a measure
applies is an input, as the rules of the library are outside the source.

### Integrations

A socket's two threads, its streams, the connection's buffer of incomplete messages, the steps from
connection to client, and the events sent to clients. A message arrives in two pieces, so that every
place where TCP may cut it relative to a read is covered. Everything runs on the EuroScope
thread but the loops of the socket and the events sent by workers. `InitialiseClient` resolves
what the client subscribed to, which may itself send an event of a changed resolution to
all clients, the new one included. Memory safety of the client list while a worker walks it is not
modelled.

### MCFeatures

The features share no state but for the stands, so one behaviour of all is one of each, and the run explores
each part with the others at rest; the initial state chooses which part moves: eleven parts in all. The stands move twice: by
themselves, with the abstract transport, and over the push events.

## 3. Runs

| run | bounds | what it asks |
|---|---|---|
| `task_runner` | 3 workers, 4 tasks | no task lost, repeated or overtaken; no lost wakeup; one further task each after the stop; shutdown ends; every task runs |
| `push_events` | 5 events (one malformed, one not interpretable), 3 processors, 1 instance beside the first | the queue is exactly the backlog; refinement of `EventStream`; every subscriber hears every usable event; the other instance misses nothing |
| `push_sync_flag` | same | expected violation: the sync flag comes down |
| `departure_releases` | 3 requests of 4 kinds, 3 events, 2 tasks | no phantom decision; only the user's own requests outlive their end; a settled display mirrors the API's live requests; a request leaves for a reason only; the request of a message under way vanishes by cancellation only |
| `departure_unknown`, `departure_cancel`, `departure_one_active` | same | expected violations, see Findings |
| `squawks` | 1 aircraft, 2 codes, 2 failed deletions waiting | no doubled request; every request ends; an orderly request leaves the squawk it came to |
| `squawks_chosen`, `squawks_previous` | same, no failed deletion | expected violations, see Findings |
| `departure_data_cleared` | 2 callsigns, 3 positions, 2 airfields, 1 flightplan | expected violation, see Findings |
| `plugin_features` | see below | `Controllers`: indexes agree, owners and cached handoffs are those of a fresh look, services as documented, initial altitudes assigned; the feature modules: convergence with the API, double books in step, unguarded lookups answered or exposed for the user's own messages only, answers once and in order, nothing left behind; `StandsOverPush` implements `Stands` |

Why the bounds suffice to be interesting. Three workers are what the plugin creates, and
with a fourth task one waits while all work. Five events allow a bad one
first, in the middle and a usable one after it, and two polls that overlap with draining.
Three releases allow a request, its replacement by the same controller or another, and a
third pair that must be left alone; three events allow request, decision and
cancellation or replacement; two tasks are enough for a command to race another.
Aircraft share nothing in `Squawks` but the flush of the queue, which treats each by itself,
so one is enough for the run (the proofs are for any number); two codes tell an older
answer from a newer one, and two failed deletions can overlap.
The controllers of `plugin_features` have two callsigns (the user and a colleague, who may
be at one position, or change it) and three positions, a tower, an approach and an enroute one, so that each pair of types is
online together; one airfield has them all from the lowest up, the other the enroute before the approach
position. There is one departure on two routes, one with an initial level and one without.
In the other parts of `plugin_features` one
aircraft with a stand or none, or with two holds, tells old from new, as aircraft do not touch each
other's entries; two tasks let a snapshot and an edit overlap, or two edits, and a list in `Holds`
is a set per hold. Over the push events three ids let a stand event
come before the sync and one after it, with an event of another channel between. Two prenotes or missed approaches are one of the user's
and one of another's. In the approach sequence three aircraft and two airfields are the least with which a swap or an
insertion has a neighbour to tell on either side and an aircraft comes from the other list; both neighbours at once are left to the theorem. Two airfield pressures and two METAR events
tell a fetched METAR from two newer ones. In the integrations three messages are the initialisation, one on either side of it, or two that a
client sends and that must be answered in their order, whole or in pieces that reach into each other's reads; one notice
may fall on either side of a client's initialisation. `CHECK_DEADLOCK FALSE` stands in these configurations because parts with a bounded
environment (a program that has sent its messages, missed approaches that have all expired) stop, and so does a plugin that followed a null pointer.
The bounds `MaxFailures`, `MaxTasks`, `MaxEventId`, `MaxReleases`, `MaxEvents` and those
of the features (`MaxStandTasks` and so on) stand in
the guards of the actions that would exceed them and nowhere else.
It also stands in the departure release configurations because there the
bounded environment may run out of things to do; the plugin then waits for ever, as it
should. In the other runs deadlock is checked.

### Fairness

- `TaskRunner`: weak fairness of each worker's loop. The operating system runs a runnable
  thread, and a closure ends because its HTTP call has a timeout. No fairness for queueing, for the
  destructor, or for spurious wakeups.
- `PushEvents`: `OnTimer` comes every second and triggers both timed events in turn, so
  each branch that stays possible again and again is taken (strong, because draining goes
  on in between); the tasks' steps are weakly fair because of `TaskRunner`; and a call
  that is made again and again is answered well once in a while (strong fairness of `SyncAnswered` and
  `FetchAnswered`). The last is an assumption on the API: without it nothing can be promised.
- `Squawks`: weak fairness of each aircraft's task (from `TaskRunner`; every HTTP call
  ends), of the flush every three seconds and of the event bus's drain. None for
  commands, EuroScope's callbacks, or the kind of answer the API gives.
- `Controllers`: weak fairness of the two timed events (`LoginTick`, `AssignmentTick`) and of the
  clock. None for EuroScope's reports.
- `Holds`: the second half of a sweep's step is weakly fair, and each distance check strongly, because the
  sweep visits each aircraft and navaid again and again while `EnterProximity` comes between.
- `PrenoteMessages`: the passing of a message's time and the second lookups are weakly fair. The timer is strongly
  fair: it comes round again and again whatever events the thread handles in between, and between the two
  lookups of an event it is not possible. None for tasks.
- The other modules have safety properties only. In `MCFeatures` a part that does not
  move stays in its initial state, where none of the fair steps is enabled, so that their fairness
  asks nothing of it.

## 4. Findings

- `push_sync_flag`: a sync with an invalid answer clears `updateInProgress` and leaves
  `syncInProgress` set (`push/PollingPushEventConnection.cpp:70`). No later sync is tried:
  push events never start. `SubscribersHear` therefore speaks of a plugin that synced.
- `departure_unknown`: the cancellation task removes a request between the validation of
  a decision message and its use; the handler dereferences null
  (`releases/DepartureReleaseEventHandler.cpp:565`).
- `departure_cancel`: the callback of the cancellation menu can choose another
  controller's request for the same aircraft and target (line 312).
- `departure_one_active`: the late answer to a request re-adds it after the pushed event
  of a newer one for the same pair was handled (line 73).
- `squawks_chosen`: a request ends before its answer is assigned. A squawk chosen in
  between is set and its API assignment deleted, and then the flush assigns the
  old code (`squawk/ApiSquawkAllocationHandler.cpp:56`). The same gap lets a second forced
  request end before the flush: its newer code is refused as a duplicate callsign (line 23).
- `squawks_previous`: `StoredFlightplanEventHandler` is registered before the squawk
  handler and replaces the stored squawk with that of the flightplan, so a flightplan
  event of an aircraft that came back without a squawk requests a new one
  (`flightplan/StoredFlightplanEventHandler.cpp:30`). Only the timer reassigns the old.
- `departure_data_cleared`: a handoff resolved to unicom because the user led the position stays in the
  cache when the user leaves it (`handoff/InvalidateHandoffsOnActiveCallsignChanges.cpp:45`: unicom is not the
  position left). A colleague at the position is next, and the level of a departure is cleared all the same.

Disagreements met while modelling that have no run of their own:

- `missedapproach/NewMissedApproachPushEventHandler.cpp:34` says "If we get to this point, the missed
  approach wasn't user-triggered". The event may come before the triggering task adds the entry: then the user's
  own is marked as somebody else's and announced twice. `MissedApproachesAnnounced` states what does hold.
- `releases/EnrouteReleaseEventHandler.cpp:170` compares with the literal `"callsign"`, so a new
  type drops the point and the clear time of a release that was sent.
- A change of the user's callsign empties the map of active flow measures
  (`ecfmp/AircraftFlowMeasureMap.cpp:155`), and nothing maps them again until each is activated anew.
- The integration guide says of messages before the initialisation's response that they
  will be ignored; each invalid one is answered with a failure, and an event that a
  worker sends between joining and success reaches the client before its success.
- `ownership/AirfieldOwnershipManager.cpp:143` says "If one Approach controller is online, they assume both Final approach and
  Approach services, regardless of whether other controllers (e.g. Enroute) is online". With an enroute position before the
  approach one in the order of an airfield, as `EGKK` has it in the runs, the enroute controller gives final approach (line 199).
  This is what the exception `LowestFirst` of `ServicesAsDocumented` stands for; without it the property is false in the run.
- `prenote/NewPrenotePushEventHandler.cpp:31` says "We might have created it, so don't duplicate it". The task that sent the
  message (`prenote/SendPrenoteMenu.cpp:122`) may add it between the two lookups: the handler then makes none, as it says,
  and dereferences the null result of the first lookup (line 49). `PrenotesFallAboutOwn` confines it to messages created here.
- `prenote/PrenoteAcknowledgedPushEventHandler.cpp:25`, and the deletion's handler, may follow a null pointer; by
  `PrenotesFallAboutOwn` only after the user's own cancellation.
- `approach/TargetSelectorList.cpp:43` looks the aircraft up again when a target is chosen and uses a null
  pointer if it left the sequence while the list was open.

## 5. Proofs

All theorems are about the specification of their module with the constants arbitrary under the named
assumptions of the modules: finite non-empty `Threads`, natural bounds, values such as `NoStand` or
`NoSocket` that are none of the real ones, the shape of subscriptions and of requests, and for the departures
that every route has an origin and an entry in the table of levels (`OriginAssumption`,
`LevelsAssumption`), with `OtherLevel` a level that is in no table. They do not depend on the bounds' values.

- **TaskRunner.** `TypeCorrect`; `TasksInOrderOnce` (`InOrderOnce`): inductive once the types are
  known, because the queue is the interval from `taken + 1` to `queued`. `NoWakeupIsLost`
  (`NoLostWakeup`): the count of awake idle workers is compared with the queue at each
  step; the proof adds that in a stopped pool nobody sleeps, which is what makes the
  statement survive the steps of a worker that leaves. `StopTakesOneEach`
  (`OneFurtherTaskEach`): a worker that has taken its further task is running it, at the top of the loop or out of it, and as
  nobody goes to sleep any more it is not woken again (`FurtherTasksRight`).
- **PushEvents.** `TypeCorrect`, `QueueIsBacklog` (`InboundIsBacklog`) and
  `PollingImplementsStream` (`StreamSpec`, the refinement). The inductive invariant has
  six parts: types; the backlog; at most one task of each sort with its flag
  (`OneTaskEach`); nothing fetched before the sync (`NothingBeforeSync`); a running
  fetch stands exactly at `lastEventId` up to malformed events (`PushingInOrder`); what
  is queued passed validation (`QueuedAreValid`). The backlog alone is not inductive: only
  the one-task part excludes two overlapping fetches of the same events. `ProxiesTold`
  (`ProxiesMissNothing`) rests on the refinement: a step of the first instance is a step of `EventStream`,
  which hands out the next usable event and skips none, so that what an instance got stays in order up to
  the cursor and complete after both beginnings (`Told`).
- **DepartureReleases.** `TypeCorrect`, `NoPhantoms`, `GhostsAreUsersOwn`,
  `RemovalsAreJustified`. The inductive invariant adds to the types: each published event
  is true of the API (`EventsAreTrue`); the event that announces a request precedes the
  others about it (`RequestsComeFirst`); the event being handled is the next one
  (`HandlingIsNext`); an answered task says what the API did (`AnswersAreTrue`).
  `UnknownAreWithdrawn` (`UnknownOnlyWhenWithdrawn`) and `CancellationsWhereAsked` (`CancelsWhereUserAsked`)
  bound two of the findings. The first needs that the request of the message under way is known or already cancelled at the
  API (`HeldOrWithdrawn`): of all steps only the answer to a cancellation takes it away. The
  second follows the pair of aircraft and controller from the menu into the task (`MenuIsUsers`,
  `TasksAreUsers`); the user's own request need no longer be there by then.
  `LiveRequestsMirrored` (`LiveRequestMirrored`) speaks of a settled plugin only, so its invariant says
  where everything is until then: all that was done to a request is in the log (`AllPublished`); a live
  request is shown, or its event is still to come (`LiveShown`); and so is each decision on it
  (`LiveDecided`). What takes a request off the display (a cancellation, a newer one for the pair, its time)
  also takes it out of the live ones; the events of the newer one must come first for that, which is
  where `RequestsComeFirst` is needed.
- **Squawks.** `TypeCorrect`; `OneRequestAtATime` (`OneRequestEach`), inductive once the
  types are known; `OrderlyAnswers` (`OrderlyAnswersStand`). That one is not inductive: it
  says nothing while a request is under way. The invariant (`AllInCourse`) follows a
  request through its stages: nothing waits for its aircraft while the API works on it; the
  answer in the task, then the one in the queue or on the bus, is what is due; and
  when nothing waits the squawk is. It needs `OneRequestEach`, or a second task could
  queue another answer.
- **Stands.** `StandsTyped`, `StandsConverged` (`StandsConverge`). Nothing is said while something is
  under way, so the invariant follows it, per aircraft: the last event to come says what the API holds
  (`LastSaysStand`); a list not yet loaded says what the API held, and whatever made it old is an event still to
  come or recorded as having overtaken it (`StandLoadRight`); with no event to come the map is right, or an edit is
  still to be told (`StandMapRight`). `NothingBeforeAttach` is what makes the loss of the events before the
  attachment harmless: until then no entry counts as right, and no list is asked for. One list at a time
  (`OneStandList`), or an older one could be loaded after a newer.
- **Stands over push events.** `StandsOverPushImplementsStands` (`StandsSpec`): a step of the program is a step of
  `Stands` or a stutter. `ApiStep`, `EditStep`, `AutoStep` and `TaskStep` are steps of the same name there, `AttachStep` is
  `StandsAttach`, `SyncedStep` is `StandsSynced`, a `DrainStep` that calls the handler is `ProcessStandEvent`, and every other
  is a stutter. The invariant (`OverPushIInv`) is that of `PushEvents`, from which it takes that the queue is the
  backlog in order and without gap, and four parts that relate it to the stands: the numbering of the log counts
  the stand events in it (`LogCounts`); the last event of an aircraft in the log says what the API holds
  (`LogEndsWithApi`), which is what `StandsAttach` asks of the events to come, wherever the place is; the
  events to come are those of the log behind the cursor (`ToCome`); and the list is asked for at the end of the one sync task
  (`ListAfterSync`). Then `StandsOverPushKeepsPush` (`SafetySpec`), `StandsOverPushTyped`, `StandsConvergeOverPush`
  (`StandsConverge`), which is `StandsConverged` carried over by the refinement, and `StandsMirrored`
  (`StandsMirrorApi`): a plugin that has read the log to its end shows, for an aircraft without a task, what the
  API holds. In that statement the histories of the transport do not occur. `StandsOverPush` assumes nothing
  of the delivery: that an event arrives once and in order is a consequence of the two modules.
- **Holds.** `HoldsTyped`; `HoldListsAgreed` (`HoldListsAgree`), inductive once the types are known, because each
  operation recomputes both indexes from the record it changed; `SweepsFindTheirEntry` (`SweepFindsItsEntry`), for which
  every step that is not the sweep's must leave the entry it is about to read (`CheckRight`), and with it the aircraft, as the indexes agree; `HoldsConverged` (`HoldsConverge`) along the
  argument of the stands, item by item of the list.
- **Flow measures.** `FlowTyped`; `FlowMapsMirrored` (`FlowMapsMirror`), inductive with the types.
- **Enroute releases.** `EnrouteTyped`, where the bags of mail under way must be shown to stay bags of what was sent;
  `SentReleasesCleared` (`SentReleasesClear`), for which the history must be shown to stand exactly where a clear
  time does.
- **Metars.** `MetarsTyped`; `MetarsConverged` (`MetarsConverge`): the last event of an airfield says what
  the API has (`LastMetarSays`); a METAR a worker or the fetching task still has to store is the latest, or
  something newer is recorded as having overtaken it (`UnderWayRight`, `OvertakenUnderWay`); and
  what is stored is right when neither is the case (`StoredRight`).
- **Prenotes.** `PrenotesTyped`; `PrenotesConverged` (`PrenotesConverge`). Whatever the display is behind with,
  an acknowledgement or a deletion, is an event, a lookup or a task still to come (`BehindPending`), and the
  event that announces a message comes before the others about it (`ReceivedFirst`). Without the latter an
  acknowledgement could pass before the message is there, and be lost. `PrenotesFall`
  (`PrenotesFallAboutOwn`): a deletion is asked for the user's own messages only (`CancelsOwn`), and only those are
  added by a task (`AddsOwn`); so while a handler is between its lookups, the second has the result of the first, or
  the message is one of the user's (`LookupRight`).
- **Missed approaches.** `MissedTyped`; `MissedConverged` (`MissedApproachesConverge`); `MissedAnnounced`
  (`MissedApproachesAnnounced`), for which the announcements made and those still to be made are
  counted together (`MissedCounted`).
- **Approach sequences.** `ApproachTyped`; `SequencesAlwaysSound` (`SequencesSound`). `WellLinked` says of
  the lists and links as one value that they agree; each operation (removing, adding at the end, inserting,
  swapping two neighbours) keeps it, and an aircraft that is added again is, between its removal and its
  insertion, in no list and linked to nothing (`Apart`). That the spacing
  suffices follows from the links, because the leader it is computed from is the one in the list.
- **Controllers.** `ControllersTyped`, `CallsignsAgreed` (`CallsignsAgree`), `OwnersFollowed`
  (`OwnersFollowCallsigns`), `ServicesDocumented` (`ServicesAsDocumented`), `HandoffsCurrent`
  (`HandoffsToControllersCurrent`). None of these is inductive as it stands, because a callback is a
  composition of steps. The invariant is a predicate of a *world* (`WorldRight`): the indexes agree (`Agrees`),
  the owners are those of a fresh refresh (`OwnersRight`) and the cached handoffs those of a fresh
  resolution (`HandoffsRight`), unless a handler was given a destroyed callsign. Each operator on worlds keeps it. That refreshing the airfields of
  one position is enough rests on this: a change of the collection leaves alone what `Lead` and `PositionActive`
  say of every other position (`SameBut`). The services are given in one pass over the
  top-down order; the proof says what has been given after each position (`ProvidedAfter`) and compares the end with the
  first who can and, under `LowestFirst`, with who is of the service's own type (`FirstIsOfType`, `ProvidersDocumented`).
- **Integrations.** `IntegrationsTyped`, `AnswersOrdered` (`AnswersInOrder`), `ClientsInformed`
  (`ClientsUpToDate`). The invariant says of each socket that there is a message `t` up to which it has been
  heard: what was read and not received follows message `t`, piece by piece (`ReadUpTo`, `Behind`); what
  was sent is a conversation about the messages up to `t` (`Conversing`); and it holds
  the cached resolution and the notices (`Informed`). `t` is not a variable, and cannot be computed from one
  once a message is discarded, so it is bound by a quantifier. `Received` and the processing of a client's
  messages are recursive functions: each is shown to exist, and to keep what is claimed of it,
  because there is no least place at which it would not.

Leaves that carry a prover's pragma with a time need most of the default time, or more, on a busy machine.

Induction. The theorems of the library that take a predicate cannot be used with these provers.
What is proved of the three recursive functions above (services, `Received`, the processing of messages)
goes by contradiction from a least counterexample, and is stated about that function each time.

Only model-checked: all liveness (`ShutdownCompletes`, `EveryTaskRuns`, `SubscribersHear`, `RequestsEnd`,
`InitialAltitudesAssigned`, `ProximityEnds`, `PrenotesEnd`), which is out of the prover's reach, like
`ENABLED`; and what the expected violations are about, which is false.
Of the safety properties of the passing runs none is without a theorem. The other way round, the type invariants of
`PushEvents`, `DepartureReleases`, `Squawks` and `Controllers`, `Integrations` and the feature modules, `StandsOverPushTypeOK`, `StandsMirrorApi`
and `CancelsWhereUserAsked` are proved and in no run.

To repeat: `tlc -config TaskRunner.cfg MCTaskRunner` and so on for each run of
`PROJECT.json`; `tlapm TaskRunnerProofs.tla` and so on.

## 6. Plan

1. Proofs: theorems about the modules' operators that are of use outside them (the lists of
   `ApproachSequence`, the hierarchies of `Handoffs`), and action properties of the features.
2. The other consumers over `PushEvents`, as `StandsOverPush` does it for the stands: the holds, and the departure releases, which read no list.
3. The event bus, with the thread a handler runs on.
4. The rules of the intention codes as a pure operator; the departure coordination list.

## 7. Not modelled

The plugin has some 67 000 lines, and the modules stand for a few thousand of them:
those that keep state which two actors change, or derive state from other state. Most
of the rest is rendering, dialogs and menus (`radarscreen`, `components`, `graphics`, every
`*Renderer`, `*Dialog`, `*Display` and `*Options`), parsing and serialising of data files, start-up wiring
(`*Module`, `bootstrap`), wrappers of Windows and EuroScope, HTTP, files and settings, and
lookup tables filled once. A model of them would restate assignments, and no property would
tell a right one from a wrong one.

Of components that are modelled in part, `PROJECT.json` says what is left out. Also
left out: the race of reading a `std::map` or set while another thread changes it (the
collections of prenotes, clients, enroute releases and streams of the event bus have
such places): each access is one step here; and exceptions other than `ApiException`
inside tasks, which the worker logs while the component keeps whatever flags were set.
Of the API client, the count of requests in progress (`utils/api/ApiRequestFactory.cpp:60`) is not
modelled: it goes down in the handlers `ChainableRequest` appends, except after a handler that throws something else than an
`ApiRequestException` (`utils/api/ChainableRequest.cpp:43`), and then `EuroScopeCleanup` waits its ten seconds for nothing.
The API is external throughout: what it is assumed to do is what the code relies on,
one event per change, in order.
