# TLA+ models of eebus-go

Specifications of the parts of eebus-go in which several actors share state:
the SPINE stack, the use cases, the goroutines they start, the application and
the remote devices. The stack itself (spine-go, ship-go) is not part of this
repository; what the code relies on is modelled from how the code and its tests
use it, and marked external in `PROJECT.json`.

## The system

eebus-go is a Go library in four layers.

| Part | State | Operations | Talks to |
| --- | --- | --- | --- |
| `service` | running flag, list of use cases, pairing flag | Setup, Start, Shutdown, AddUseCase; reports of the connection hub | ship-go hub, spine-go device, application |
| `usecases/usecase` | `availableEntityScenarios` | `HandleEvent` and readers | spine-go events, application callback |
| `usecases/cs/{lpc,lpp}` | pending limits and configurations by msgCounter, heartbeat client | write approval callbacks, `ApproveOrDeny…`, `Pending…`, setters, `AddFeatures` | local server features, the other CS use case through them, application |
| `usecases/eg/{lpc,lpp}` | response callbacks | reads and writes of limits and failsafe values | remote CS over client features |
| `usecases/cem/*` | none but subscriptions | limits per phase, charge plans, OHPCF requests | EV, EVSE, heat pump |
| `usecases/{ma,ca}/*` | none but subscriptions | accessors of remote data, some writes | meters, room and water heating |
| `usecases/mu/mpc`, `usecases/gcp/mgcp` | ids of what the configuration supports | `Update` of measurements | local server features |
| `features/server` | local descriptions and their ids | add description, update data | spine-go local feature |
| `features/client` | cached remote data (in the stack) | request, write, subscribe | spine-go remote feature |
| `features/internal`, `usecases/internal` | none | filters, lookups, permitted values | |

Hard behaviour: every write of a remote device meets several callbacks that
answer in any order; a msgCounter is unique only within a connection; timers
and disconnections race the application's decision; every event is handled in
a goroutine of its own; look-ups and updates of shared lists are separate
critical sections; results may arrive before someone waits for them; cached
remote data may be old. `PROJECT.json` lists each hazard at its line.

What makes the parts correct:

- write approval: nothing is stored without consent for each use case it
  concerns, a denial is final, each use case answers a write once, no write
  without an answer;
- use case base: one entry per entity, only present entities, the scenarios
  last announced, the application told of each change; and where overlapping
  handlers break the first two, only by the races the code is known to have;
- limit writes of the EG: one result per write delivered to its caller, the
  limits of others untouched;
- client data: whoever is told of data can read it, what a scenario promises
  is requested, and requests come to an end;
- ids: unique, stable, and found again by whoever uses them;
- heartbeat: silence is noticed, and the device that controls is listened to;
- algorithms: slots without gaps, values within the permitted sets, events for
  the data they are about.

## Modules

### CsWriteApproval: a write, two use cases, one count

The controllable system's LPC and LPP each register a callback on the
LoadControl and on the DeviceConfiguration server of the local entity
(`AddFeatures`). One step of the model is one callback, one goroutine's
approval, one decision of the application, or one thing the stack does.

| Model | Code |
| --- | --- |
| `received`, `Receive` | a write of a remote device, put on hold by the stack |
| `unchecked`, `WriteCB` | `loadControlWriteCB`, `deviceConfigurationWriteCB` |
| `pending[uc]` | `pendingLimits` and `pendingDeviceConfigs` of a use case; a message is in the map of its feature |
| `approving`, `AutoApprove` | the goroutine started for writes of no concern |
| `Grant`, `Refuse` | `ApproveOrDenyConsumptionLimit`, `ApproveOrDenyProductionLimit`, `ApproveOrDenyDeviceConfiguration` |
| `approvals`, `outcome`, `applied` | the stack's pending approvals, result, stored data |
| `Expire`, `Disconnect` | the stack's timer, loss of the connection |
| `granted`, `waived`, `refused` | history, read by properties only |

The contents of a write are the set of items it names: the limit or failsafe
limit of a use case, the failsafe duration both share, an item of nobody, an
item without an id. Values are left out: no decision of the code depends on
them. The stack keeps a held write by (SKI, msgCounter) until it is decided,
gives it up with its timer or forgets it with the connection; its
`ApproveOrDenyWrite` takes a message and no use case, so it counts approvals
anonymously (`integration_tests/cs_deviceconfiguration_approval_test.go`: both
use cases must approve, one denial rejects). The use cases keep messages by
msgCounter alone, and only a decision removes them.

A msgCounter is counted up by a device and starts again only with a new
connection (`NewInSession`); `ReuseCounters` says whether it does. Most
invariants speak of a write whose key no other write shares (`Unrepeated`):
for repeated keys the code does not keep them, see the findings below.
`EachAnswersOnce` holds of every write: a second approval of one use case would
be counted as the other's. That the stack sends one result, and "accepted" only with
the data stored, is how the stack is modelled; no property repeats it.

`WriteConsent` is the abstract specification of a single write: absent, open,
then accepted with the consent for every use case concerned, denied, timed out
or dropped. `Abstract(m)` maps the detailed state to it for each write `m`.

### UseCaseBase: the list of entities and scenarios

`HandleEvent` is a record with a phase for each critical section: `Begin`
(dispatch; what an update has to check, or what a removal finds), `Lookup`
(scenarios of the next entity and its index), `Store` (append or overwrite at
that index), `RemoveIndex`, `Notify` (the application reads the list). A
remote device is the entities, server features and use case data its device
object shows when a handler reads it; an event carries the object only, as in
the code. `InOrder` chooses between handlers that run one after the other as
published and handlers that overlap in any order.

The code lets handlers overlap, so what holds in order (`NoGhostEntities`,
`ListsAnnounced`, `NoPanic`) is only half of the story. For overlapping handlers
the module says how each kind of damage comes about, and that it comes about in no
other way:

| Property | Damage | Only after |
| --- | --- | --- |
| `OnlyTwoMissesDuplicate` | an entity of a device is listed twice | two updates that looked it up in vain are about to add it (`TwoMisses`) |
| `OnlyRemovalsMislead` | an index is out of range, or that of another entity | a removal and another handler have indices at once (`RemovalOverlaps`) |
| `OnlyRacesLeaveGhosts` | once all is handled, an entity that is gone is listed | `TwoMisses`, a removal of it overlaps another (`TwoRemovals`), or an update is about to add it when its removal has looked for it (`LateUpdate`) |

They have the form `[]~race => []good`. A behaviour may stop anywhere, as no
fairness is assumed, so it may stop before a race: the race must come before
the damage, it cannot be found in hindsight.

The list of entities to check is read in one step with the use case data. An
entity is identified by device and address; objects of the same address are
told apart by their connection only. Versions and formatting are left out.

### ListWrite: a list of a remote device, written by overlapping calls

The application calls a use case from any goroutine. A call is four steps,
between which messages arrive and other calls run.

| Model | Code |
| --- | --- |
| `WriteLoadControlLimit`, `WriteLoadControlPhaseLimits`, `WriteSetpoint` | the checks of the functions of these names (EG LPC and LPP; OPEV and OSCEV; CRHT) on the stack's copy of the list |
| `WriteLimitData`, `PrepareListWrite` | the message: the entries alone, or the whole list merged from the copy, and what a failed merge leads to |
| `Send` | `Sender().Write`, which assigns the msgCounter |
| `Register` | `AddResponseCallback` |
| `Process` | the stack processes results and lists: `Tell` is `resultCB`, `Refresh` the read after an accepted setpoint |
| `Answer`, `Change`, `Notice` | the device (external) |

The value a call writes is the call itself, so a value found anywhere tells who
wrote it; it is the call's msgCounter too. Time periods and their deletion are
part of an entry's value. A result callback is always given. A merge may fail
at any time, as `TestPrepareListWriteFailsClosedWhenCacheMergeFails` has it.
`WriteKeyValues` of the device configuration prepares as `WriteLimitData` does,
the HVAC lists as setpoints. A broken connection is left out: results that
never come leave the caller waiting, the code has no timer for them.

### RemoteData: how a client learns the data of a remote entity

All use cases that act as clients (MA, CA, EG, CEM) are built alike: a connect
method that subscribes, binds and sends first requests, and a `HandleEvent`
with a case for each function, which sends further requests or checks the data
and tells the application an event, which then calls an accessor. The order of
all this is decided by goroutines and by the answers of the device, and the
lists of requests, checks and lookups are written by hand in 23 use cases. So
there is one machine, and a table for each use case.

| Model | Code |
| --- | --- |
| `FeatureData` | what `features/client` can request; which cached functions each lookup of `features/internal` needs |
| `MaProfiles`, `CaProfiles`, `EgProfiles`, `EvProfiles`, `CemProfiles` | for each use case: scenarios and their server features (`usecase.go`), the connect method and the cases of `HandleEvent` with the events they raise (`events.go`), accessors and writes with what they look up (`public*.go`), the accessor each event names (`types.go`) |
| `Profiles` | the tables put together, the events that are declared, and which use cases can meet at an entity by its type (`Meeting`) |
| `ProfileOrder` | what the tables say of the order: what is sent before what, and what asks for what |
| `Connected`, `HandleEvent` | the next call of a connect method; one handler of one use case for one update |
| `subscribed`, `bound`, `Sent` | the guards `HasSubscription`, `HasBinding` and those of `requestData` |
| `wire`, `notifies`, `binds`, `device`, `Answer…`, `Accept`, `Reject`, `Change` | connection and device (external) |
| `cache` | the stack's copy of each remote function, as a version |
| `current`, `unread`, `pushed` | history: what the application was told, and found or did not find; which functions the device notified before they were read |

The named assumptions of `RemoteData` are all that its properties need of the
tables. They are stated of each combination of use cases in `Uses`; TLC evaluates
them for those of the run, and `MCRemoteData` has it evaluate the same conditions
for all use cases that can meet at one entity.

A function's data is a version: 0 is "not there", which is what makes a lookup
fail; filters on contents are left out. A request and its answer are messages
of one ordered connection. `HasSubscription` and `Subscribe` are one step here
and two in `Heartbeat`. Tables assume a device that answers CEVC with a request
to update its plan, and an update raises the events of all its keys, as
the filter of `features/internal/deviceconfiguration.go` lets it.

### LocalEntity: use cases that share the server features of one entity

MPC, MGCP, LPC and LPP add descriptions to the same features and allocate their
ids as "highest plus one". `BeginMonitor`, `AddQuantity` and `Fail` are the
`AddFeatures` of MPC and MGCP: `todo` has what each of their methods has still to
add, and the first that has something left adds one quantity of the configuration at a time (so
an error may leave it half done, as `Service.AddUseCase` does), `AddControlled`
that of LPC and LPP with its search for the total power and its connection.
`Update…`, `SetLimit`, `SetKey`, `SetNominalMax` are the setters, by the ids kept
or looked up. `RemoteLimit` and `SetKey` are also the writes a device makes.
Use cases are added one after the other. A value is the number of the call that
wrote it. Configurations that `MGCP` dereferences without having checked (an
optional source that is nil) are left out.

### Heartbeat: whom a controllable system listens to

`Begin`, `Subscribe` and `RequestHeartbeat` are the steps of `deviceConnected`
and `subscribeHeartbeatWorkaround` of LPC and LPP, which run in goroutines of
their own and share the local client feature. `Connect`, `Bind`, `Disconnect`,
`Beat`, `Answer`, `Receive` are devices and stack. Time is `Tick`: ages of
heartbeats grow, and `IsHeartbeatWithinDuration` compares one with `Duration`.
Clocks of the devices are taken to agree with the local one, as the code does
when it compares time stamps.

## Runs

| Run | Shows | Bounds |
| --- | --- | --- |
| `approval` | consent, refusal, nothing lost, one answer of each use case, and the inductive invariant | 2 use cases, 3 connections of 2 devices, 2 counters that may repeat, 2 writes of 3 kinds |
| `approval_fresh` | implements `WriteConsent`; every usable write is decided without the timer | 2 connections of one device, 2 writes of 3 kinds, counters never repeat |
| `scenarios` | no ghosts, scenarios as announced, no panic, application informed | 3 connections of 2 devices, 2 entities, 2 announcements, 2 feature sets, 5 events, in order |
| `scenarios_concurrent` | the application has read the final list; duplicates, wrong indices and ghosts come from the races named and nothing else | 2 connections of a device, 3 events, any interleaving |
| `list_write` | only accepted values are stored, where they belong; writes leave other entries alone; results reach their caller; accepted values come to be seen | 2 calls on 2 entries, both features, partial support or not, notices or not, 1 change of the device |
| `remote_data` | the application is told what the device offers and finds it in the accessor of the event; accessors of an available scenario find their data; writes that rest on answers come after their binding; requests end | each of 20 use cases alone and 5 combinations, with all or only the required features, one function missing, changed or written (two for OHPCF, MDT and OPEV with OSCEV; none for two large combinations) |
| `local_entity` | each use case reads what was written through it; ids are described once, for the quantity they are kept for; limits refer to the total power; constraints are published; a failed call writes nothing | all orders of adding 4 use cases, 4 pairs of configurations (`MCLocalEntity`), 2 calls |
| `heartbeat` | silence is noticed, both use cases watch the same server, the heartbeat of the device that is left comes to be seen | 2 connections of one or two devices, 2 entities, 1 binding, 1 message on its way, ages up to 2 ticks, handlers in order |
| `approval_waived`, `scenarios_duplicate`, `list_write_lost_result`, `local_entity_nominal` | what a comment says and the code does not keep (findings) | as above, smaller |

Why the bounds are enough: interference between writes needs two that share a
counter, a feature or a device, and each order of two writes, two use cases,
the timer and the connection is explored; the kinds of the two runs together
take each path through the callbacks. For the list, stale indices need two
entries and two handlers, and reconnection needs five events. Three events are enough
for each of the races of `scenarios_concurrent`: without `TwoMisses`, `LateUpdate` or
`RemovalOverlaps` on the left, TLC refutes the properties. `TwoRemovals` leaves a ghost
only with three entries, which is beyond the run and not beyond the theorem `Ghosts`. For list writes,
one call may carry or overwrite what another wrote or the device changed
meanwhile; a third call adds no new relation between two. That an entry is
fixed is met in `list_write_lost_result` only, as the check merely ends the
call. In `remote_data` use cases meet only through features they share; the
combinations are those that share features whose requests depend on each other,
and EVSOC, OPEV and OSCEV, which leave requests to other use cases for the same EV,
appear only in these. Trouble twice lets a device notify a value before the
binding and the application write then. What the run cannot reach, larger combinations
and more trouble, the theorems do. In `local_entity` two calls are one to write and one to disturb. In
`heartbeat` one earlier connection is enough to leave something behind.

Exceptions: `MCRemoteData` names the pairs of use case and event, accessor or
write for which the code does not keep a property, each set with its reason
(`KnownUntold`, `KnownUnread`, `KnownUnserved`, `NeverBound`). The run shows
the properties for all others; the reasons are listed under "Known gaps".

Symmetry: the two connections of the first device are interchangeable in runs
of invariants. Deadlock is checked, except where a panic ends the process
(`scenarios_concurrent`, `scenarios_duplicate`), where all messages are dealt
with (`remote_data`), and where the bound on calls is reached
(`local_entity`, `local_entity_nominal`).

Fairness. `approval_fresh`: callbacks and goroutines are scheduled, and an
application that was told of an entry decides on it, which is what the event
asks it for (`examples/hems/main.go`). The timer is given no fairness, so
`EveryWriteDecided` does not rest on it. Devices owe nothing. `list_write`:
the connection delivers and the device answers, as SPINE requires of it; calls
owe nothing, and a device that changes its list need not say so. `remote_data`:
goroutines run and the device answers; it need not change anything. `heartbeat`:
handlers run, messages are delivered and time passes; that a device sends in
time is the premise of `Supervised`, not an assumption on every device.

## Findings

1. A limit write that concerns a use case is approved without the application
   if its msgCounter is in the use case's map already, for example from a
   connection that broke before the application decided
   (`OnlyOthersWaived`). A configuration write in that place is dropped and
   left to the timer.
2. Overlapping updates list an entity twice (`OneEntryPerEntity`), for look-up
   and append are separate critical sections. The same gap lets an update
   resurrect a removed entity, and a removal make another handler's index one of another
   entity or out of range; `OnlyTwoMissesDuplicate`, `OnlyRemovalsMislead` and
   `OnlyRacesLeaveGhosts` say exactly when.
3. The result of a write that is processed before the callback is registered
   reaches nobody (`EveryResultTold`): the callback can only be registered
   after sending, which yields the msgCounter.
4. If MPC or MGCP is added before LPC or LPP, as the comment above `NewLPC`
   asks for, the nominal maximum is stored with the connection and the parameter
   of the total power, but looked for with connection 0 and parameter 0: it can
   be neither read nor set (`NominalSettable`).

## Known gaps

Met while modelling; each is part of the modules or of the exceptions above,
but has no run of its own.

- Approval: pending lists contain writes that were given up or whose device is
  gone. Deciding on them takes them out (`EachAnswersOnce`) and has no other effect,
  unless the device has come back and used the counter again: then it is counted
  for the new write. The event callback is
  optional, but called unguarded in the write callbacks (`crashed`); the runs
  assume one (`Observed`), the proofs do not.
- Scenarios: an entity that is announced for the use case no longer stays
  listed, even with events in order.
- Writes: a limit write whose merge failed is sent as a full list
  (`features/client/loadcontrol.go:98`), against the comment above
  `prepareListWrite`, and a limit write without partial support may be merged from an
  old copy. `TouchesOwnEntries` is stated of the other writes.
- CDT, CRHT: setpoints and constraints may be told before the relations that
  find them have come. CDSF, MDSF, CRHSF, MRHSF: modes and overruns are told
  although their descriptions were not requested yet. OPEV, OSCEV: limits are
  told while parameters or permitted values are missing; the permitted values
  are there only if EVCC asks for them. EVCEM: currents and powers are told
  for a vehicle without electrical connection, which neither EVSOC nor EVCEM requires, or without
  its parameters, and the list is then empty. EVSOC asks for nothing and learns nothing without
  EVCEM, as the comment in `cem/evsoc/events.go` says (`Unsupported` in `MCRemoteData`).
- EVCC: charge state and sleep mode are never told (a case on a type that is
  never the payload), and need a feature the scenario does not require. EVSECC
  never subscribes. OHPCF scenarios require no feature.
- CEVC: the energy demand is looked up right after the request for it; incentive
  constraints are never requested, so the request for a plan with incentives
  is never told; plan constraints are never told.
- CDT, CRHT, CDSF, CRHSF write without binding. A device that changes a value
  between subscription and binding notifies it, and an application that writes then is ahead
  of the binding; `WritesBound` speaks of writes that rest on answers alone (`pushed`).
  If MGCP and LPC or LPP meet at an entity of type CEM, MGCP may ask for the keys before LPC
  has bound the feature, and a failsafe value may be written too early
  (`AskedFirst` in `MCRemoteData`). Reads that fail are never repeated.
- LPC, LPP: adding the second sets the failsafe duration to 0. A setter of a use
  case that was not added finds limit id 0. Constraints of a second monitor
  replace those of the first, and MPC never passes on those of voltages.
  `MGCP.Update` with two factors writes the measurements and then fails.
- Heartbeat: a binding handled before its connection is not supervised
  (therefore `InOrder`); if the watched device leaves, another that is still
  connected is not watched instead.

## Proofs

`CsWriteApproval_proofs` proves, for any finite set of use cases and any sets
of connections, counters and contents, under the assumptions named in
`CsWriteApproval`:

- `TypeCorrect`: `Spec => []TypeOK`;
- `Inductive`: `Spec => []IInv`;
- `Consent`, `Refusal`, `Lossless`, `OneAnswerEach`: the other four invariants of the
  run `approval`, the last one with no condition on counters.

Why an inductive invariant is needed: that a stored write has everyone's
consent depends on the stack's number, which no step alone relates to the use
cases. `IInv` says that for a write whose key no other shares the number is
the count of use cases that approved it (`CountIsApproved`), that no use case
handles a write twice (`HandledOnce`), that only unconcerned use cases waive
(`WaivedUnconcerned`), and that two writes of a connection differ in their
counter (`UniqueInSession`). When the count reaches the number of use cases,
finiteness turns the count into the set (`OneMore`). There is one lemma for
each action; `ApproveStep` and `DenyStep` hold what approvals and denials do
to a write, `HeldIsOwn` why they meet no other.

`LocalEntity_proofs` proves, for every set of configurations and any number of
calls:

- `MeasurementsDescribed`: `Spec => []Measured`;
- `TypeCorrect`: `Spec => []TypeOK`;
- `FailedCallsWriteNothing`: `Spec => AllOrNone`;
- `ConstraintsPublished`: `Spec => []ConstraintsOfLast`;
- `ValuesOwned`: `Spec => []OwnValues`;
- `LimitsMeasured`: `Spec => []LimitMeasured`.

That an id is new when it is the highest plus one needs the shape of the lists:
ids of descriptions, and those of the parameters of each connection, are
`0 .. n - 1` (`NoGaps`, kept by `NextIdIsNew`). With it a new description
or parameter replaces none, which keeps `Measured`. `Lists` and `Adders` also say that
ids are those of descriptions and that a monitor has ids only after
`BeginMonitor`, so that its connection is not changed later. `Types` adds that
the limit which `LimitId` falls back to exists once a use case is added.

For `ConstraintsPublished`, `ConstraintsNoted` follows a monitor through its `AddFeatures`:
each of its quantities is still in `todo`, or has an id and, if constrained, is noted.

`ValuesOwned` needs to know where each value is kept. `Holds(item)` says that
the place an item owns (a measurement id, a key, a limit or a characteristic) has
what was written last; no place has two owners (`OneOwner`), because measurement ids
of all monitors differ (`IdsDistinct`) and because LPC and LPP each find one
limit, key and characteristic of their direction, name and type, none before
they are added (`AllFound`); and each accessor reads the place its item owns
(`ReadWhereKept`). A monitor that is being added has written nothing
(`AddingWritesNothing`), so a new id takes no value from an item. The key of the failsafe
duration is shared by LPC and LPP; `OwnValues` has it as one item of the device, which
the second of them sets back to 0.

For `LimitsMeasured`, `Refers` states what a limit referred to when its use case was added,
and `RefersKept` that later steps do not change it: a monitor that begins later is not
before it in `order`, and only the last monitor gets ids. When the limit is added, the
descriptions of the total power are exactly those that monitors keep (`AllKept`), so
`GetPowerTotalMeasurementId` finds one if one monitor has it (`FindsTotal`), and, if there is no
other monitor, its connection and parameter too (`FindsParameter`). Otherwise the limit has
the id 50, which must not become that of a measurement later: each quantity is
added once (`AddedOnce`, as no two methods add the same, `MethodsDisjoint`), so
there are no more descriptions than quantities (`FewDescriptions`), and the assumption
`FewQuantities` of `LocalEntity` says that a configuration has at most 50. With the three phases
of the code the methods of MPC and MGCP add at most 29.

The same module proves `Implements`: if no connection repeats a counter
of another (`~ReuseCounters`), `Spec => ImplementsWriteConsent`, the refinement
that `approval_fresh` checks. Each step maps to a step of `WriteConsent` for the write
it concerns and to a stutter for the others, under `Abstract`. The hypothesis is
the one of that run, and `approval_waived` shows that it is needed. On top
of `IInv` the argument needs that no two writes share a key at all (`AllApart`), and
that a use case asks the application only about writes that concern it
(`AskedIfConcerned`).

`ListWrite_proofs` proves, for any set of calls, any ids and
any number of changes of the device:

- `TypeCorrect`: `Spec => []TypeOK`;
- `ToldOwnResult`: `Spec => []OwnResult`;
- `HeldWasAccepted`: `Spec => []OnlyAccepted`;
- `OthersUntouched`: the action property `TouchesOwnEntries`.

That a caller is told its own result needs the messages on their way: a queued
write is the only one of its call and not yet answered (`WritesOnTheWay`), a queued
result is the answer (`ResultsAreAnswers`). That only accepted values are held needs
a statement on every copy of the list, on the device, in the cache or
on its way (`Copies`), and on every list a call has prepared: its own value in its own entries, accepted
values elsewhere (`Payloads`). The same two say of a copy that a version of now
has the contents of now, from which the action property follows.

`Heartbeat_proofs` proves, for any devices, any finite set of entities and any duration:

- `TypeCorrect`: `Spec => []TypeOK`;
- `SilenceIsNoticed`: `Spec => []SilenceNoticed`;
- `SameServerWatched`: `Spec => []SameServer`.

The first two rest on `HeartbeatInv`: no heartbeat received or on its way looks
younger than the last one made. `SameServer` speaks of two queues that are worked
off independently; `OrderInv` says that there is one sequence of events, and one
course of states along it, such that each use case stands somewhere on this
course with the rest of the events in its queue. Then both agree when their queues
are empty.

`UseCaseBase_proofs` proves, for any devices, entities, scenarios and sequence
of events:

- `TypeCorrect`: `Spec => []TypeOK`;
- `ApplicationInformed`: `Spec => []Informed`;
- `Duplicates`: `Spec => OnlyTwoMissesDuplicate`;
- `Mislead`: `Spec => OnlyRemovalsMislead`;
- `Ghosts`: `Spec => OnlyRacesLeaveGhosts`.

None of them assumes an order of handlers: they run in goroutines (`usecase/events.go:31`),
and a theorem that had them run one by one would leave out what the hazards are about.

`TypeInv` adds to the types what each phase of a handler relies on
(`WellFormed`), without which the next phase is not even defined. `Informed` needs that
a list the application has not read has a handler that will notify it (`Told`). For the other three
a step of a handler is one of seven kinds, by what it does to the list and the handlers (`StepOf`:
`Crashes`, `Passes`, `LooksUp`, `Seeks`, `Adds`, `Rewrites`, `Takes`), and each has an
invariant that is kept by every step taken while the race is not on.

- `IndexInv`: every index a handler has is in range and that of what it looked for.
  Adding and rewriting leave indices alone; a removal takes its highest one first (`AllSorted`),
  which leaves its own others valid, and while none overlaps there are no others.
- `ClaimInv(s, e)`: the entity is listed at most once, and not at all while a handler that
  missed it is about to add it. The handler that adds it is the only such one while
  there are no `TwoMisses`. It does not matter what stale indices do to the list: every
  entry that stays has its entity still (`Stays`).
- `HauntInv(s, e)`: an entry of an entity that is gone has a handler that begins to remove it,
  or has its index. A removal that begins finds it (`SoughtEntry`), for it
  is the only entry of the entity, by `ClaimInv`.

The order of positions matters for `AllSorted`, so the model has `Ascending(S)`, the
sequence of a finite set of numbers in order, stated by what it is instead of
how it is computed; the lemma `AscendingOf` shows that it exists.

`RemoteData_proofs` proves, for any combinations of use cases, any number of changes and
writes, and any number of functions that the device does not offer:

- `TypeCorrect`: `Spec => []TypeOK`;
- `ToldEventsReadable`: `Spec => []ToldReadable`, under `ReadingAssumption`;
- `WritesAreBound`: `Spec => []WritesBound`, under `BindingAssumption`;
- `AccessorsServed`: `Spec => []Served`, under `ServingAssumption`;
- `ApplicationKnows`: `Spec => []AppKnows`, under `TellingAssumption`.

All rest on `TroubleAssumption` and `TablesAssumption`, which say that the constants and the
tables are well formed. The other four are conditions on one combination of tables and know no
state: `EventsLed`, `WritesLed`, `AccessorsAsked` and `EventsRaised`. They replace the
enumeration: `Meeting` has every combination of use cases that can handle the events
of one entity, by the entity types each is made for, 119 in all and up to six at once.
With the exceptions named in `MCRemoteData` the tables are well formed and
`EventsLed` holds of all of them, `WritesLed` of all but MGCP with LPC or LPP
(`AskedFirst`), and `EventsRaised` and `AccessorsAsked` of all but EVSOC without EVCEM
(`Unsupported`). So each theorem applies to every combination an
application can bring about, apart from these, where the code does not keep the property.

The argument is about order on the way from a use case to the device. `Ordered(m, later)` says
that m stays before the messages in `later`: one of them is on the wire only behind m or after m was
handled; m was sent once a connect method has passed it; and none of them is answered before
m is done. It is kept because each connect method that sends one of them sends m
first, and because what is asked for later is asked for by handlers of something that was already behind
m (`OrderStays`). `LedInv`, `SubscribedInv` and `BoundInv` are its three uses: what leads a
feature, the subscription before the reads, the binding before a read that a write needs.
`SentInv` adds that what is in the local list of subscriptions or bindings is done or on
the wire, since the second use case of a feature sends nothing. A value that was notified is an answer to
nothing, but its feature was subscribed (`Pushes`), which is why `CachedLed` holds of these as
well, and why `WritesBound` cannot hold of them. `FreshInv` says that a cached value of a feature that is
subscribed first is the device's value. With `TInv`, the types, these make `NetInv`.

`ToldReadable` and `WritesBound` follow from it (`RaisedReadable`, `WriteInv`). `Served` and `AppKnows` speak of
the time when nothing is under way, and need to know that nothing gets lost on the
way there: what a connect method asks for is still to be sent, on the wire or cached
(`AskedInv`), what a handler asks for is on the wire or cached unless the update it handles is still
to come or to be handled (`TriggeredInv`), and an event that is owed is known unless an update that
raises it is to come or to be handled (`DirectInv`, and `ChainInv` for functions that another
handler requests). When nothing is under way only the last case of each is left (`QuietEnds`).

The proofs do not look at the nine actions one by one for each of these. `Effects(t)`
says what a step can do as far as the invariants tell: which messages it puts and takes, what is
done, known and waiting afterwards; `Steps` proves it of every step with the type, and the
invariants are proved from it.

`SequenceLemmas` has what the proofs need of queues: appending, taking the
head, removing an element, what an update of a queue leaves.

Only model-checked: liveness, which rests on fairness and is beyond the prover
(`EveryWriteDecided`, `AcceptedIsSeen`, `Supervised`, `Settles`), and three
invariants of `scenarios`, `NoGhostEntities`, `ListsAnnounced` and `NoPanic`: they hold in order only, which the
code does not promise, and are there to show that a handler alone does its work. Every other
invariant and action property of a passing run is a theorem, and so is the refinement. The conditions on
tables in `Meeting` are evaluated by TLC, not proved. The proofs use no recursion.

## Not modelled

Formatting, logging, time stamps, mDNS, pairing and certificates; the contents
of values, and with them the arithmetic of CEVC slots and the permitted values; the
states of an OHPCF power sequence; the keys of one configuration list told
apart; data races within a slice (`RemoteEntitiesScenarios` returns the list
itself, required features are sorted in place); `Service` but for the order in
which it adds use cases, since it forwards to ship-go; generated mocks and the examples.

## Plan

Done: `CsWriteApproval` with `WriteConsent`, `UseCaseBase`, `ListWrite`, `RemoteData` with the
tables of all client use cases, `LocalEntity`, `Heartbeat`, and the proofs named above. Left, in this order:

1. Algorithms against reference definitions: event filters, permitted values,
   power limit and incentive slots, charge plan; the states of OHPCF.
2. `ListWrite` composed with `CsWriteApproval`, so that the answers are those
   of the LPC and LPP of a controllable system; failsafe writes and a broken
   connection.
