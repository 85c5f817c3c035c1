# The Data Hub, its apps and the MT7697 drivers in TLA+

This directory specifies the parts of this repository that have state worth reasoning about: the **Data
Hub** daemon (`src/apps/DataHub/components/dataHub`), the **periodic sensor** scaffold that sensor apps
are built on (`src/apps/DataHub/components/periodicSensor`), the **cloud publishers** that take readings
to AirVantage (`avPublisher.c` in `src/apps/HM3301` and its siblings in the relay apps), and the path of
packets and messages through the **MT7697 kernel drivers** (`src/linux_kernel_modules/mt7697q` and
`mt7697wifi`). The modules are read from the C code; the `.api` files and comments only say what the code
is meant to do. `PROJECT.json` maps every definition to the lines it stands for.

In what follows `H/` is `src/apps/DataHub/components/dataHub/`, `api:` means the `.api` files in
`src/apps/DataHub/`, AV is `src/apps/HM3301/avPubComponent/avPublisher.c`, and `Q/` and `W/` are
`src/linux_kernel_modules/mt7697q/` and `.../mt7697wifi/`.

## 1. Inventory

The Data Hub is a Legato daemon: one thread, one event loop.  A call of a client over IPC, a timer
expiry or the close of a session runs to completion before the next, so **one handler is one action**
here.  Clients are other processes; calls back to them are messages.  The daemon's `faultAction` is
`restart` (`dataHub.adef`): a failed assertion ends the process, the supervisor starts it again, and
only backup files survive.  The kernel drivers are the opposite: interrupts, work queues and the network
stack run concurrently, and the slave processor at the other end of the SPI bus does as it likes.
There **one access to shared state is one action**.

| Component | State | Operations | Interacts with |
|---|---|---|---|
| Resource tree (`H/resTree.c`, `dataHub.c`) | reference counted entries, child lists, entry types; namespace entry cached in each client session | find or create a path, replace a resource, delete I/O, delete Observation, notify of changes | owns resource objects; called by the I/O, Admin and Query services |
| Resources (`H/resource.c`, `ioPoint.c`) | current, pushed and default value, override, units, source and destination list, `isConfigChanging` | push, set/remove default, override and source, update start/end, move settings between objects | pushes recursively along routes; calls handlers and Observation functions |
| Push handlers (`H/handler.c`) | a list of handlers per resource *object* | add, remove, move all, call all | clients' callbacks; moved when a resource object is replaced |
| Observations (`H/obs.c`) | filter settings, sample buffer, backup file, backup timer | buffer a sample, truncate, back up, restore, delete unused files | file system, timer, `res_Push()` |
| Reads of a buffer (`H/obs.c`) | read operations: next entry (counted), write buffer, state | start, write until the pipe is full, go on, end | the buffer, client's pipe, event loop |
| I/O, Admin and Query services | sessions | the IPC entry points | all of the above |
| Samples, JSON (`H/dataSample.c`, `json.c`) | none (values) | construct, convert, parse | everywhere |
| Periodic sensor (`periodicSensor.c`) | `isEnabled`, `period`, timer | handlers of the Data Hub outputs `enable`, `period`, `trigger`; timer | Data Hub, by messages; the app's `sampleFunc` |
| Cloud publishers (AV; relay apps) | per item: last value and time recorded; `LastTimePublished`, `DeferredPublish`; sample timer | timer expiry, session start/stop | AirVantage data service |
| MT7697 queues (`Q/queue.c`, `interrupt.c`, `io.c`) | per ring: the driver's copies of read and write offset; header being read; interrupt enabled; `blocked_writer` | interrupt work, read, write | slave's memory and mailbox over SPI; WiFi driver by `rx_fcn`, `notify_tx_fcn` |
| MT7697 WiFi transmit path (`W/txrx.c`) | packet pool and index, list of packets, work queued | `data_tx`, `tx_work`, `tx_stop`, `notify_tx` | network stack, queue driver |
| Relay apps, SmartParking, RelayControl16, drivers, LEDs | a timer or a few settings | commands from the cloud, I2C/GPIO | devices, AirVantage |

**What is hard here.**

* *Reference counts and raw pointers.*  Entries are counted by hand, sessions cache an entry without
  a count, both ends of a route point at each other, handlers point at the list they were put on.
  Creation, deletion and replacement come in any order from several clients.
* *Recursion.*  `res_Push()` calls itself through `destList`; only the loop test of `res_SetSource()`
  bounds it.
* *A protocol over time.*  Configuration updates suspend resources; resources come and go meanwhile.
* *Buffers and files.*  The buffer is bounded, typed and ordered and is changed by pushes, settings
  and restores; the backup is written by a rate-limited timer, may fail, and outlives the process.
* *Messages and timers.*  The sensor's settings come from another process, in order but in any
  combination; it may be destroyed and created while the hub's values stay or go.
* *Readers of a moving buffer.*  A read operation keeps one counted entry between calls; the entry may
  fall off the buffer, and the count is what tells.
* *Rings with copied offsets.*  Each side of a ring works on a stale copy of the other's offset; messages
  arrive in parts; a signal may come at any point of the work that consumes it; any transfer may fail.
* *A list walked without its lock*, by the transmit work, while packets are added and the interface stops.
* *Times compared by subtraction.*  The publishers decide from a handful of timestamps, of which some
  are zero and some are set for a push that then fails.

**What makes each component correct** is stated as properties in section 3; the list of hazards, each
at its line and with the properties that cover it, is in `PROJECT.json`.

## 2. Modules

| Module | Models | Instances |
|---|---|---|
| `Routes` | operators on the route function: loop test, set, remove, drop | used by `ResTree`, `Resource` |
| `ResTree` | entries, counts, types, settings, routes, sessions, notifications | `MCResTree` |
| `Resource` | pushes, defaults, overrides, coercion, units, updates | `MCResource` |
| `Handlers` | handler lists on replaced and reused objects | `MCHandlers` |
| `Observation` | buffer, backup file, backup timer, restore | `MCObservation` |
| `Filter` | an Observation's transforms and filter, minimum period, overrides, updates | `MCFilter` |
| `PeriodicSensor` | the scaffold and the Data Hub's outputs it follows | `MCPeriodicSensor` |
| `Publisher` | the sample timer's handler and the session | `MCPublisher` |
| `BufferRead` | read operations on the buffer of an Observation | `MCBufferRead` |
| `Channel` | abstract specification: messages sent and delivered | used by `RxQueue` |
| `RxQueue` | slave-to-master queue, its interrupt work; implements `Channel` | itself |
| `TxPath` | transmit path of the WiFi driver and the master-to-slave queue | itself |
| `RoutesProofs`, `ResourceProofs`, `ObservationProofs`, `FilterProofs`, `RxQueueProofs` | theorems about the module of that name | checked by TLAPS |
| `ResTreeProofs` | theorems about `ResTree` and, at its end, `Handlers` | checked by TLAPS |
| `AppProofs` | theorems about `PeriodicSensor` and `Publisher` | checked by TLAPS |
| `WalkProofs` | theorems about `TxPath` and `BufferRead` | checked by TLAPS |

Two components that share a proof module share nothing else; so that it can extend both, one of them has a
prefix in its specification: `HandlersSpec`, `PubSpec` and `ReadSpec`, with `HandlersInit`, `PubNext`,
`ReadTypeOK` and so on.

Definitions keep the source's names.  A definition marked *Mutant* in its comment is a version of its
neighbour with a plausible mistake; it is not part of the specification, and `PROJECT.json` lists which
property catches it.

### ResTree (with Routes)

An entry is named by its path.  `refs` is its reference count (0: no such entry) and `type` its entry
type; `source` is `srcPtr`, and `destList` is derived from it, since the code changes both together.
`settings` keeps *which kinds* of settings a resource holds, as that is what decides whether a deleted
Input or Output leaves a placeholder.  `sessions` is the set of namespaces cached by
`hub_GetClientNamespace()` and `stale` those of them whose entry has been freed since; `announced` applies the
change notifications; `fault` records a daemon that has died.  A client names its resources by paths relative
to its namespace, and an empty path is the namespace itself: `IoPaths` has paths from `<<"app", a>>` on, so a
namespace can be an Input or Output, and, as any entry outside `/obs`, a placeholder with settings (`AdminPaths`
has the root too).  `short` is history: the entries that have outlived a resource deleted from them, because
others were below; they have given up their own reference.

`GoToEntry()` is `AddRefs`/`AddTypes`, `ReplaceResource()` is `Place`, and a release of an entry is
`ReleaseRefs`/`ReleaseTypes`: the cascade of destructors up the tree is one step, the set `Destroyed`.
`ReleaseFails` says that one of the destructors' assertions fails. Actions are the API calls; each
includes the creation of the client's namespace, the notification and the release that the C function
performs. `StaleCall` is a call of a client whose namespace entry was freed; what the code then does to
freed memory is not followed beyond the daemon's next start. `admin_DeleteNamespace` is the call of
`admin_DeleteObs()` with the path of a namespace, which dereferences NULL; `BadPath` is a call refused for
its path once it has created the entries before the bad name.

### Resource

Values are a type and one of two data; coercion changes the type.  The recursion of `res_Push()` is
the set `pending` of calls still to be made: `PushTaken` replaces a call by one for each destination.
While `pending` is not empty nothing else happens (`Idle` guards every other action), as the daemon is
one thread.  A call has three outcomes, as in the code: refused (update in progress or units
disagree; it is recorded as `pushedValue` all the same), filtered (an Observation's filter), taken.
`Routes` is shared with `ResTree`, so the loop test here is the one proved about there.

### Handlers

`object` maps paths to resource objects from a pool, `list` is the `pushHandlerList` of each object and
`listPtr` the back pointer in each `Handler_t`.  `ReplaceResource` is `handler_MoveAll()` as called from
`res_MoveAdminSettings()`.  `AddPushHandler` and `RemovePushHandler` are the Query service's requests
(the Admin service has the same), around `handler_Add` and `handler_Remove`.

`handler_MoveAll()` leaves `listPtr` at the old object, so `handler_Remove()` gives `le_dls_Remove()` the
wrong list. That unlinks the handler from its neighbours all the same, which is all there is to do for one
that is not at the head (`RemoveInside`). The head of a longer list stays its list's head after its
release: the list is `dangling`, and the others are a ring that no list leads to (`cycles`, `RemoveHead`).
The only handler of a list takes with it whatever the *given* list holds by then, if the old object is
another resource's (`RemoveOnly`, `RemoveAdrift`). The daemon notices nothing, and goes on: a push to a
dangling list calls nobody, or whoever has the released memory (`Stray`), other lists serve as before, and
the handlers that drift can still be removed. Adding to a dangling list, moving it or emptying it goes
through the released handler's links and may change any list (`lost`); from there the model follows only
pushes, which may call anybody, until `DaemonRestart`. `moved` is history: handlers have changed lists at
all. `earlier` is history: the pairs of registered handlers of which the first was registered before the
second. `Kept` is what `handler_Remove` leaves of a list.

### Observation

The variables are the fields of `Observation_t` that buffering and backups use, plus the `file`.
Time is kept as differences: `age` is how long ago `lastBackupTime` was (`LongAgo` stands for zero and
for anything beyond every period), `timer` what is left of the backup timer; `Tick` passes a second.
A sample is a type and a timestamp.  `res_Push` includes `obs_ProcessAccepted()`, which the code calls
*before* the filter and the update test.  `Backup` may fail at any of its system calls, after
`lastBackupTime` has been set.  `Restart` leaves only the file; `resTree_GetObservation` restores from
it, and a file whose header disagrees with its records reads back as nothing or as garbage of the
header's type.

### Filter

The same Observation as in `Observation`, without timestamps and backups but with values: what
`obs_ApplyTransform()` makes of the buffer and what `obs_ShouldAccept()` then decides.  `res_Push` is the
whole of `res_Push()` for an Observation: buffer, transform, filter, record, and unless an update holds the
sample, the current value, under the override if there is one.  A sample that is `late` is older than the
newest in the buffer and is not buffered, but is transformed and filtered like any other.  Numbers are
multiples of a unit fine enough for means to be exact; `Nan` compares false with everything, as a NaN does.

`elapsed` is `now - lastPushTime` as the code computes it, modulo `W`.  `obs_Create()` does not set
`lastPushTime`, so it starts with any value.  `sinceShown` is the time that really passed since a pushed
sample became current, and `slack` is by how much it was later than the minimum period asks when that last
happened.  `parity` changes with
every push, so that a rejected sample is a step and not a stutter.  A setting that is `Off` is NaN, or zero
where the code takes zero for that.

### PeriodicSensor

`inbox` is the queue of messages from the Data Hub to the app, in order and at most `MaxMessages`.
`psensor_Create` registers the handlers, which the hub answers with the outputs' current values;
`psensor_Destroy` deletes the outputs, of which the hub keeps those that have settings.  `sampled` says
that `sampleFunc` was called in the last step.

A period is a double, and the I/O service lets NaN through. `Nan` passes both tests that refuse a period,
is stored, sets the timer's interval to whatever the conversion gives, differs from itself, and is neither
positive nor zero: a sensor that runs goes on running, one that is enabled then is not started, and since
its period is not zero a good period does not start it either (`missed`).

### Publisher

`sinceRecorded` and `sincePublished` are the differences `now - lastTimeRecorded` and
`now - LastTimePublished` that the handler computes, up to `Forever`; `Never` stands for a
`lastTimeRecorded` of zero.  `Elapsed` is the set of times between two expiries: the timer may be late
and then early.  Which items are recorded in the first pass, which the record refuses in the second,
and whether the push is accepted are free.  `unsent` says the record holds readings that were not pushed,
`failed` that a push has failed since the last publish, `outcome` what the last expiry came to.

### BufferRead

Samples are numbered as they are buffered; the buffer is the interval `oldest .. Newest`, since entries
join at one end and leave at the other.  `reads[r]` is the `ReadOperation_t` of operation `r`.  The event
loop is the variable `running`: a read operation that is writing (`Write`) has it until the pipe is full
(`PipeFull`), the write fails or the read ends; pushes and settings come in between.  An entry's reference
count is derived: one from the list, one from every operation whose `next` it is.  `LoadFrom` is the test
in `LoadReadOpBuffer()` that tells by the count whether an entry has fallen off the list; `shared`
records that it was wrong.  A sample whose JSON form does not fit is skipped (`fits`).  How far a
partial `write()` got, and the text, are left out.  An operation is used once.

### RxQueue and Channel

`mem`, `wrOffset`, `rdOffset`, `mailbox` are the slave's, `wr`, `rd` the driver's copies of the offsets.
The slave writes any number of the words of a message at a time, as far as the ring has room, and signals
later. `pc` is where the interrupt work is: `ReadMailbox`, `ClearMailbox`, then `mt7697q_proc_data()`
between its SPI transfers. The work is entered from `irq_work` or from `irq_delayed_work`; the work queue
has one thread. Failures: `MailboxFails` (the interrupt stays disabled, `stuck`), `TransferFails` (the
function returns, to be run again later), and `LosesPlace` (`rx_fcn` leaves the payload in the ring, or a
header is read in part: the stream is out of step). The driver logs the last and goes on, and so does the
model: it is `astray`, takes payload for headers, and so reads any number of words, hands anything to
`rx_fcn`, fetches and pushes the offsets and returns at any point (`StrayReads`, `StrayRxFcn`,
`StrayPull`, `StrayPush`, `StrayEnds`); its interrupt work is as before. `Channel` has three variables,
messages sent, messages delivered, and whether the channel is broken, after which anything may be
delivered; `RxQueue` implements it (`INSTANCE Channel WITH`) with its own `Message`, `sent`, `got` and
`astray`.

### TxPath

`pool`, `idx` and `list` are `tx_skb_pool`, `tx_skb_pool_idx` and `tx_skb_list`; the walks of
`mt7697_tx_work()` and `mt7697_tx_stop()` are `cur`, `nxt` and `stopCur`, `stopNxt`. Each access to the
list, to a slot or to the work queue is an action, between which others may run: `mt7697_data_tx()` takes
the slot (`DataTx`; nobody else looks at the index), puts it on the list under the lock, and then queues
the work (`ListPacket`, twice, `txPc` and `adding` saying where it is); the work takes the first entry
(`FirstPacket`), its next pointer (`LookAhead`), writes, takes the entry off the list under the lock, and
then frees the slot (`Unlink`, twice). Deleted entries have a poisoned `next`, and following or deleting
one is `oops`. `mt7697q_write()` runs under a mutex and is one action with outcomes `Done`, `Refused` and
`TransferFails`. `NotifyTx` compares the length of what it takes for a packet, which is the head of the
list; its outcome is free.

## 3. What is checked

Twelve runs. Every property is broken by the mutant listed for it. Type invariants are left to the proofs,
which establish them for all constants, but for two: in `TxPath` and `BufferRead` a plausible mistake
takes an index or a reference out of its range, and the runs check `TypeOK` and `ReadTypeOK` too.

| Run | Instance | Checks |
|---|---|---|
| `ResTreeFlat` | two apps with an I/O resource each, an Observation, four routes, one kind of setting | `RoutesLive`: both ends of a route are resources; `RoutesAcyclic`; `AnnouncedExactly`: notifications add up to the tree; `DeleteKeepsSettings`: an app deleting its resource takes nothing of the administrator's |
| `ResTreeNested` | a resource below another, which is the client's own namespace; an Observation at `/obs` and one below it; settings on the root | `RefsBalance`: count = 1 + children, but for entries that outlived a resource deleted from them; `AssertionsHold`: no destructor assertion fails before there is such an entry; `SessionsLive`: a cached namespace is freed only with, or after, an I/O resource in its place |
| `ResourcePair` | Input to Output, two declared types, units that disagree, a default, an override | `TypesMatch`: an app gets values of the declared type only; `OverrideHolds`: nothing else is shown beside an override in effect, but for what a placeholder has inherited |
| `ResourceChain` | three resources, chain, fan and refused loop, updates | `FlagsCleared`: no resource stays suspended after an update; `CallsIndependent`: order of a `destList` does not matter; `PushesEnd` (liveness) |
| `PeriodicSensor` | two good periods, two bad, NaN, three messages | `TimerFollows`; `Follows`: once messages have arrived the sensor is set as the hub says; `Delivers` (liveness); the first and the last but for a sensor enabled while its period was NaN |
| `Handlers` | three handlers of three types, two paths, three objects | `ListsExact`: each handler on its resource's list, once, in order; `EveryoneCalled`: once each, in order; both without exception until handlers have been moved, then but for what removals through a stale `listPtr` cut off |
| `Filter` | two numbers, NaN and a Boolean; limits in the wrong order, changeBy, a period of 2 on a clock that wraps at 3, the transforms mean and max, buffers of 0 to 2, an override, a default; at most two settings at a time | `Throttled`: between two pushed samples that become current passes the minimum period; `Tracks`: the current value is within changeBy of the last sample in range that nothing keeps back; `ExtremeIsSample`: max and min show a sample pushed since the transform was set; `MeanBetween`: the mean lies between two such |
| `Observation` | two types, two timestamps, buffers of at most 2, periods 1 and 2 | `BufferSound`: bounded, one type, in order; `PendingHasTimer`; `FileCoversBuffer`; `BackedUp` (liveness) |
| `Publisher` | two items, early and late expiries | `PublishForced`; `RecordedIsScheduled`; `DeferredIsPublished` (liveness) |
| `BufferRead` | two reads, buffers of 0 and 2, three samples, one too long to write | `ReadTypeOK`; `SentInOrder`: never twice, never back; `NothingSkipped`: what a read has passed over is no longer buffered; `ReadsEnd` (liveness) |
| `RxQueue` | ring of 6 words, three messages of 2 or 5 words, a failure | `RingSound`: no word overwritten before it is read; `InterruptInHand`; `InOrder`: implements `Channel`, which may break once the driver has lost its place; `EveryMessageArrives` (liveness) |
| `TxPath` | pool of 2, ring of 5 words, three packets of 2 or 3 words, a failure, a stop | `TypeOK`; `StreamWhole`: what the slave reads is whole packets in order; `PoolSound`: until a stop the unlocked walk is safe, no slot is taken while it is on the list, one with a packet is on it but while it is being added or freed, and the pool refuses only when full; `EveryPacketLeaves` (liveness) |

**Bounds, and why they are enough.** `ResTree` is finite without a bound: entries are the prefixes of the
configured paths. Two apps and an Observation give every combination of entry types at the ends of a
route; four routes allow loops of two and of three resources. The nested instance has a resource above and
below another on both sides, I/O resource and Observation, and a namespace that is a resource. The
theorems hold for all trees, so the runs only have to be representative. `Resource` needs three resources
for a chain and a fan that meet, two types and one differing pair of units. In `Handlers` three handlers
make a head, a middle and a tail, and one spare object makes replacement and reuse possible; objects are
interchangeable, hence the symmetry set (no liveness is checked with it). `MaxCount = 2` for an
Observation makes a full buffer, a shrinking one and an order of timestamps; two periods give a longer and
a shorter one; `LongAgo = 3` is beyond both. In `Filter` the clock wraps just beyond the period, so that
samples come before, at and after a wrap. The numbers 0 and 2 are as far apart as changeBy asks, their
mean is closer and the override further; a low limit of 3 and a high limit of 1 each exclude something and
together exclude a band with 2 in it. Two samples in a buffer make a mean that is neither of them, and a
full buffer. The constraint `Bounded` keeps to two settings at a time (a transform and its buffer are two)
and lets time pass only while nothing is buffered, since the minimum period and the buffer do not read
each other; `min` differs from `max` in one operator and is left to the proofs, which need none of these
bounds. `MaxMessages = 3` lets an `enable`, a `period` and a `trigger` be underway together and in any
order. In `Publisher` a second is three milliseconds long so that the confusion of units (`TooSoon`) is
visible and time stays small; expiries after 1, 3 and 5 are early, on time and late. `BufferRead` needs
two reads for a shared entry and three samples for one that is pushed out while another is being written
and a third comes after; the size 0 empties the buffer under a read that waits, the size 2 pushes samples
out one at a time. A ring of 6 words in `RxQueue` makes the longer message (5 words, the header included)
fill it and wrap; three messages go round it more than once, and a message may be a header alone. `TxPath`
has a pool whose index wraps and a ring in which the second packet may or may not fit; three packets come
back to the first slot.

**Fairness.** `PushesEnd` assumes that a recursion under way goes on (`WF_vars(Flow)`): it is
straight-line C code. `BackedUp` assumes that time passes and that the event loop serves an expired timer.
`Delivers` assumes that the app's event loop serves its queue and its running timer (with a period: when a
timer expires whose interval was made from NaN is anybody's guess). `DeferredIsPublished` assumes that the
repeating sample timer expires as long as the session lasts, and concludes only that a publish is made *or
tried*. `EveryMessageArrives` assumes that interrupts are served, queued work runs and the slave writes
while there is room; it holds up to a failure. `EveryPacketLeaves` assumes only that queued work runs and
a call of `mt7697_data_tx()` goes on. These are weak fairness of actions that stay enabled in the code
until they are taken. `ReadsEnd` assumes strong fairness of a read's turn and of its wakeup: whoever reads
the pipe empties it, again and again, and the event loop serves every descriptor; samples of a behaviour
are finite, since a read that is slower than the pushes need not end.

**Deadlock** is checked in every run but `RxQueue` and `TxPath`: a driver that has nothing to receive or to
send is idle.

## 4. What is proved

TLAPS proves the following for all values of the constants that satisfy the named assumptions
(`PathAssumption`, `RouteAssumption`, `ConstantsAssumption`, `HandlersAssumption`,
`ObservationAssumption`, `FilterAssumption`, `PeriodAssumption`, `PublisherAssumption`, `ReadAssumption`,
`RxAssumption`, `TxAssumption`), which TLC evaluates in the runs. Every safety property of every run is
proved.

* **ResTreeProofs**, for *every* tree, resources below resources, resources in the place of a client's
  namespace and the settings of any entry outside `/obs` included: `TypeOK`, `TreeShape`, `RefsBalance`,
  `AssertionsHold`, `RoutesLive`, `AnnouncedExactly` and the action properties `SessionsLive` and
  `DeleteKeepsSettings`. The inductive invariant `TreeInv` says that parents of live entries are live and
  that the count of every entry but those in `short` is one plus its children (`Sound(refs, Exact)`), that
  types agree with counts (`Match`), that settings need a resource (`SettingsLive`) and that what sessions
  have cached, and is not stale, is there (`CachedLive`). The lemmas that carry it are `AncestorsLive` (by
  a least counterexample), `AddRefsSound` (walking to a path adds what is missing and keeps every balance
  there is), `DestroyedFacts` (a release destroys a stretch of the path that ends below the first entry
  whose count balances and which has another reference) and `ReleaseSound` (what it leaves is sound,
  *unless an assertion fails*, and that takes an entry in `short`). `SessionsStep` has the cases of a
  namespace that is destroyed: it is the resource deleted, or above it, and then its count did not
  balance. `SettingsKept` follows from `SettingsStep`: a deletion takes settings only if there are none,
  and no other action takes an Input or Output away.
* For every *flat* tree, one whose resources are leaves as `admin.api` describes it (hypothesis `Flat`):
  `short` stays empty (`FlatNeverShort`), so that `RefsBalance` and `AssertionsHold` have no exception
  there. `LeafRelease` says that a leaf's release destroys its own entry alone. `Flat` is necessary:
  section 5 has the counterexample.
* **RoutesProofs / ResTreeProofs**, for every tree: `RoutesAcyclic`, if no resource is
  routed to itself (`NoSelfRoutes`).  "Reaches" is a least fixed point, not recursion; the inductive
  invariant is that there is a ranking of resources that decreases along routes (`Ranked`).  When a
  route is set the new ranking lifts the destination and everything downstream of it.
* **ResTreeProofs, Handlers**, for all clients, resources and pools of objects: `ListsExact` and
  `EveryoneCalled`, through removals from the wrong list too. `HandlersInv` says of every *object*, in use
  or not, that its list is those registered for the resource it serves, in the order of registration, but
  for those that are adrift; of a dangling object that is nobody. It needs `OneResource` (an object serves
  one resource), `HaveResource` (a handler that some list leads to is registered on a resource with an
  object) and `NeverMoved` (until handlers have been moved `listPtr` is right and nothing dangles or
  drifts). The step of a removal has the cases of `le_dls_Remove()`: `InsideStep` unlinks one handler,
  `EmptiedStep` loses a list. `KeptFacts`, what filtering a list keeps and in which order, and the list
  that `handler_MoveAll()` appends to are settled by least counterexamples over the length of the list.
* **AppProofs, PeriodicSensor**, for all periods, NaN included, and queue lengths: `TypeOK`,
  `TimerFollows`, `Follows`, `SilentWhenDisabled`. `Follows` is inductive only with the statement that the
  *last* message of each kind underway carries the hub's value; `SensorInv` adds it, and that the interval
  is that of the period also while the timer does not run, and that a sensor that missed its start is
  enabled and has a period (`MissedEnabled`).
* **AppProofs, Publisher**, for all items, intervals and timings: `PubTypeOK`, `PublishForced`,
  `RecordedIsScheduled`.  The invariant adds `NotRecordedSince`: unless a push has failed, no item was marked as
  recorded after the last publish, so if the last publish is too long ago an item is too.
* **ObservationProofs**, for all buffer sizes, periods, types and timestamps: `TypeOK`, `BufferSound`,
  `PendingHasTimer`, `FileCoversBuffer`. `ObsInv` adds to the type invariant that the *file* was written
  from a sound buffer (its records are of one type and sorted), without which a restore would not be known
  to give one back; that a corrupt restore is sound too is lemma `ReadIsSound`. `FileCoversBuffer` is
  inductive with `CoverInv`, that backups are enabled and the buffer is a tail of the records in the file,
  which it stays when the buffer is cut (`TailOfCut`).
* **FilterProofs**, for all samples, settings, clocks and buffer sizes: `TypeOK`, `Throttled`,
  `ExtremeIsSample`, `MeanBetween`, and the action property `Tracks`. `Throttled` needs `Waits`: once a
  pushed sample has been shown there is a current value, and `elapsed` is at most the time that has really
  passed, since a wrap or a held sample only shortens it. Before that `elapsed` may be anything, and
  nothing is to be kept. `ExtremeIsSample` needs `SeenCovers`, that what is buffered under a transform was
  pushed since it was set, and lemma `ExtremesExist`, that a buffer with numbers in it has a greatest and
  a least one, by a least counterexample. `MeanBetween` rests on `SumBetween`: the sum, a fold over the
  positions of the buffer, lies between the number of them times the least and times the greatest, again
  by a least counterexample, over the function that the fold computes.
* **RxQueueProofs**, for every size of the ring, all message lengths and any number of failures: `TypeOK`,
  `RingSound`, `InterruptInHand`, and that `RxQueue` implements `Channel` (`DeliversInOrder`), each step a
  step of `Channel` or a stutter. The invariant `IInv` has three parts. `Ring`: the distances between the
  four offsets add up and count the words written and not taken, and the slave's offset is never past the
  driver's. `Layout`: the stream is the messages sent, one after the other, at `starts`. `Position`: what
  has been taken is the messages delivered, plus the header of the next one if it is held; hence the
  length the driver waits for is that of the message that is there. Once the driver is `astray`, `Adrift`
  takes the place of `Position`: `Ring` holds nevertheless, since `mt7697q_read()` gives no word beyond
  `wr` and the offset pushed is that of a word read. Arithmetic modulo the size of the ring is confined to
  a few lemmas about `Diff` and `Slot`. `InterruptInHand` needs `OneHand`, that work is queued by at most
  one of interrupt and work.
* **WalkProofs, TxPath**, for every pool, ring, set of packet lengths, and number of failures and stops:
  `TypeOK`, `StreamWhole`, `PoolSound`. `Ring` says that the ring's content between the offsets is the end
  of the stream. `Order`, until a stale pointer is followed, says that the list and the packet being
  walked are in the order in which packets were given, and that the packet the walk stands at and the one
  it goes to next come before all others that are on the list (`Leads`): hence nothing is written twice or
  overtaken, even while a stop takes entries away. `PoolInOrder`, until a stop, says that the list, with
  the slot about to be added behind it and the one about to be freed before it, is the last slots before
  the index, and that the walk is at the first of them.
* **WalkProofs, BufferRead**, for any finite set of reads, and any samples and buffer sizes: `ReadTypeOK`,
  `SentInOrder`, `NothingSkipped`. `ReadInv` says of every read that what it has sent lies behind what it
  has loaded, and that in front (`Forward`), and that it has sent everything it has passed which is still
  buffered (`Whole`), unless it has shared an entry. `LoadIs` and `FoundIs` describe the entry that
  `LoadReadOpBuffer()` comes to, the least that fits (`MinIsLeast`).
* **ResourceProofs**, for all resources, values and routes: `TypeOK`, `TypesMatch`, `OverrideHolds`,
  `FlagsCleared`, and, if no resource is routed to itself, `CallsIndependent`. `OverrideHolds`, with its
  exception for placeholders, is not inductive, since a placeholder may get its type later:
  `OverrideCovers` says that a value shown beside an override of its own type *is* the override, whatever
  the resource's kind, and `KindsApart` that only Observations take any type. `CallsIndependent` follows
  from `Ranked`: the destinations of one resource share their source, so one is below the other only if
  the source is below itself.

A "least counterexample" is how an induction is done here: the library's induction theorems take an
operator, which the provers cannot instantiate, so a lemma takes the set of natural numbers for which a
statement fails and, if it is not empty, its least element.

**Only model-checked**: liveness, which with `ENABLED` is beyond the prover (`PushesEnd`, `BackedUp`,
`Delivers`, `DeferredIsPublished`, `ReadsEnd`, `EveryMessageArrives`, `EveryPacketLeaves`).

## 5. Where the code and its documentation differ

None of these is a property of a run.  Some are behaviours of the models that end in a fault, or for which a
property makes an exception:

* A resource with another one below it that is deleted and created again takes no new reference on its
  entry, and a further deletion fails an assertion of the destructor (`H/resTree.c:102`). In
  `ResTreeNested` the entry is then in `short`, the exception in `RefsBalance` and `AssertionsHold`;
  `fault` becomes `"assertion"` and the daemon restarts.
* A client that creates an Input with an empty path makes one of its own namespace (`H/resTree.c:228-289`,
  `H/ioService.c:106-148`). Its deletion releases the entry (`H/resTree.c:1041-1049`), which the session's
  context still points to (`H/dataHub.c:173`): `stale` in `ResTree`, the exception in `SessionsLive`, and
  `fault = "stale"` at the next call.
* "Observations (and Placeholders) have flexible data types, so if they have an override set, they will
  definitely be overridden" (`H/adminService.c:1663-1665`, and `H/resource.c:1411-1413`); but an Output
  whose override has another type leaves the placeholder, when it is deleted, its old value and not the
  override, until the next push: the exception in `OverrideHolds`.
* A period that is NaN passes the sanity check of `HandlePeriodPush()`, sets the timer's interval, and
  then is neither above zero (`src/apps/DataHub/components/periodicSensor/periodicSensor.c:82`) nor equal
  to it (line 139), so that a sensor enabled with it does not start, and does not start with a good period
  either: `missed` in `PeriodicSensor`, the exception in `TimerFollows` and `Delivers`.
* `handler_MoveAll()` leaves `listPtr` at the old object's list, so `handler_Remove()` of the head of the
  new list leaves that list pointing to a released handler (`H/handler.c:328` against the warning at
  `H/handler.c:103`), or empties a list that is another resource's by now: `dangling`, `cycles` and `lost`
  in `Handlers`, the exceptions in `ListsExact` and `EveryoneCalled`.
* The backup timer of a deleted Observation runs on with a pointer to it (`H/obs.c:281` against
  `H/obs.c:1317`): `stale` and `StaleTimerExpired` in `Observation`.
* The type code of a backup file is that of the current value, which is not that of the records when a
  sample was buffered and then filtered or refused (`H/obs.c:890` against `H/obs.c:14`): `Backup` in
  `Observation`, and `ReadSamplesFromFile` for what a restore makes of it.
* `mt7697_tx_stop()` walks the list without the lock, as `mt7697_tx_work()` does: the two delete an entry
  twice (`W/txrx.c:155`), which is `oops` in `TxPath`. It also leaves the packets in their slots
  (`W/txrx.c:166`), so that the index comes to a slot that is never free again; hence "until a stop" in
  `PoolSound` and `EveryPacketLeaves`.

* When two reads hold the
  entry that falls off the buffer, its count is 2 and `LoadReadOpBuffer()` (`H/obs.c:398`) takes it for one
  that is in the buffer; it has no next entry, and both reads end with `LE_OK` before newer samples:
  `shared` in `BufferRead`, the exception in `NothingSkipped`.
* `obs_SetTransform()` makes room for one sample so that transforms "behave properly"
  (`H/obs.c:1955`), and `obs_SetBufferMaxCount()` takes it away again; every number then becomes NaN, which the
  filter lets through.  Hence `pushed.v # Nan` in `ExtremeIsSample` and `MeanBetween`.
* A sample pushed during an update is remembered and not "processed when res_EndUpdate() is
  called" (`H/resource.c:1493`); only the next one, or the removal of an override, shows anything: `changing` in
  `Filter`, the exception in `Tracks`.
* The filter compares "if we have received a push before" (`H/obs.c:1588`), but tests for a
  current value, which may be a default; the minimum period is then measured from a `lastPushTime` that
  `obs_Create()` never set, and the first sample may be lost: the initial `elapsed` of `Filter`.

The rest are visible in the modules and need no search:

* `LoadReadOpBuffer()` converts an entry with the type of the *current* value (`H/obs.c:426`), not of the
  buffered ones, and a read that starts "after" a timestamp sends a second sample with the same timestamp
  again (`H/obs.c:2353`).
* `obs_SetTransform()` clears the pushed value, not the current one as its comment says (`H/obs.c:1963`), so
  that removing an override then falls back on the default.
* The time of last push counts milliseconds in 32 bits: after 49.7 quiet days the minimum period starts again,
  and one that is longer lets nothing through (`H/obs.c:1645`).
* A packet that is refused for a full pool is freed, and `NETDEV_TX_BUSY` makes the network stack send it again
  (`W/txrx.c:73`, `103`).
* `mt7697_notify_tx()` takes the list head for a packet and compares its length the wrong way round
  (`W/txrx.c:28-30`).
* `mt7697q_write()` fetches the read offset when it lacks room and then looks at the old count
  (`Q/queue.c:789`): a packet for which there is room is dropped, and counted as sent.
* A failure to read the mailbox leaves the interrupt disabled for good (`Q/interrupt.c:31`); a failure in one
  channel skips others whose mailbox bits are already cleared (`Q/interrupt.c:60`).
* The error path of `mt7697q_init()` clears the size of a struct at the address of a pointer (`Q/queue.c:640`).
* `res_SetSource()` accepts a resource as its own source (`H/resource.c:409`), though `admin.api:779`
  promises `LE_DUPLICATE` for a loop; a push to it would recurse without end.  Hence `NoSelfRoutes`.
* `admin_DeleteObs()` of a namespace at or below `/obs` dereferences NULL (`H/adminService.c:682`).
* Placeholders are not deleted with their last setting (`admin.api:472-473`), namespaces not with their
  last child (`admin.api:470`), and resources not when their app disconnects (`admin.api:466-468`): there is no
  session close handler and `AddChild()`'s own reference is never released.
* Setting a default replaces a current value that had been coerced (`H/resource.c:1223-1258` against
  `admin.api:349-351`), as the test looks at the pushed value's type.
* Inputs take what is pushed through a route (`H/resource.c:629` against `admin.api:771-774`).
* Removing an override shows a pushed value that was refused for its units (`H/resource.c:594`,
  `1460-1484` against `io.api:176`).
* Trigger push handlers are called for triggers only (`H/handler.c:169-268` against `query.api:62`).
* Samples that the filter rejects are buffered (`H/resource.c:582` against `admin.api:311-313`), and so
  are samples that arrive during an update (`admin.api:100-104`).
* A backup can come sooner than the period allows after the period was lengthened while the buffer was
  empty (`H/obs.c:2056-2118` against `admin.api:1055-1058`).
* An Observation restored from its file, and deleted before backups were enabled again, leaves the file
  (`H/obs.c:302` against `admin.api:330-332`).
* Milliseconds are compared with `MinIntervalBetweenPublish` seconds (AV:638 against AV:585-588).
* After a failed push the items recorded for it count as recorded, and nothing may be published for
  longer than `MaxIntervalBetweenPublish` (AV:644-674 against AV:588-589); hence `~failed` in
  `PublishForced`.
* One expiry can record an item twice (AV:609 and AV:644), as the first pass does not set
  `lastTimeRecorded`.

## 6. Not modelled

The map covers a small share of the lines of the repository, and could not cover a large one: some 160,000
of its 230,000 lines are the vendored `cypwifi` backport (mac80211, cfg80211, brcmfmac), and most of the
rest are vendor drivers and device tables. Of the program's own code the following is left out.

* *No state to reason about*: sensor drivers, `multiChannelRelay` and LED apps (device I/O), the `dhub` tool
  and the test apps (stateless clients), formatting of paths and logging, `sinc` (build configuration).
* *Values*: conversion of samples to text and between types, JSON parsing and extraction, the standard
  deviation, and statistics over part of a buffer. `Observation` and `Resource` take the decision of the
  filter as an input; `Filter` computes it for one Observation by itself. The width of the backup interval
  in milliseconds (`H/obs.c:1707`) is not modelled either; periods are small.
* *Small apps*: relay apps' Data Hub components, RelayControl16, SmartParking.  Each keeps a timer or
  a few settings and handles one command at a time.
* *The MT7697 drivers* beyond the two paths: opening, resetting and closing queues, several channels in one
  ring driver, commands and events (`W/wmi.c`), cfg80211 operations, and `mt7697serial`, an alternative
  transport with the same interface.  `mySystem.sdef` has these modules commented out; they are modelled
  as they stand.
* *The Data Hub as one composition*: its modules are checked side by side (with `Routes` shared between
  `ResTree` and `Resource`).  What crosses from one to another is an input of the other: `res_Push` in
  `Observation` and `ProcessAccepted` in `BufferRead` take any sample that `Resource` could pass on.
* After a fault (`fault` in `ResTree`, `oops` in `TxPath`) nothing further is modelled but a restart,
  where there is one; once the Data Hub has gone through the links of a released handler (`lost` in
  `Handlers`) nothing but pushes, which may then call anybody.
