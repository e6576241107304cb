# TLA+ verification of bacnet-sim

bacnet-sim simulates BACnet devices: it keeps thousands of objects in memory, animates
them with value models, and answers BACnet clients over UDP, a virtual MS/TP ring and
BACnet/SC.  This directory holds TLA+ models of the parts where state, concurrency and
protocols meet, the TLC configurations that check them on small instances, and TLAPS
proofs that hold for every size.

## 1. The system

### Components, their state and their operations

| Component | State | Operations | Hard because | Correct when |
|---|---|---|---|---|
| MS/TP ring (`bacnet-transport/src/mstp`) | the broadcast bus, each master's read position, outbound queue, token | `join`, `run` (bootstrap, receive, use, pass, restart), `outbound_sender` | tasks interleave, lagging receivers miss frames, a timeout may be early | at most one token, one NPDU per token, everybody gets a turn |
| BACnet/SC hub and node (`sc/hub.rs`, `sc/node.rs`) | registry of nodes, one channel and two tasks per connection, node handles | `connect`, handshake, register, route, heartbeat, clean-up, `send_to_vmac` | connections replace each other and break at any step; a registry guard is held across an await, and handlers that need it block a worker thread | no stale entries, frames in order and at the right node, nobody waits for ever while there are threads and readers |
| BACnet/IP transport (`ip.rs`) | inbound broadcast channel, outbound channel | receive loop, send loop | both channels have a limit | part of the dispatcher's properties |
| Dispatcher and services (`bacnet-stack`) | device registry, session cache | ReadProperty, ReadPropertyMultiple, WriteProperty, SubscribeCOV, Who-Is | one task per frame; the requests of one client race | each request is served by the right device and answered once |
| Point objects and store (`bacnet-object`) | present value, out-of-service, priority array; shards with a lock each | `write_property`, `force_write_property`, reads | errors half way, priorities at their limits, relinquishing | failed writes change nothing, the last command of the highest priority wins |
| Simulation engine (`engine.rs`, `scenario.rs`) | model entries with their last value, tick loop | tick: write, collect, notify, sweep | locks are released between the phases | what subscribers know is close to what objects show |
| COV engine (`cov_engine.rs`) | subscriptions | subscribe, unsubscribe, `check_and_notify`, `expire_old` | modified while it is iterated | notifications by increment, expiry in time |
| Alarm engine (`alarm_engine.rs`) | event state, transition timer | `evaluate` | deadband, delay and irregular evaluation times | alarms are raised in time and do not chatter |
| Schedule (`schedule.rs`), schedule engine | weekly programme, default, present value; outputs | `tick`, writes; propagate to targets | clock and clients set the same value; read-then-write without a lock | the schedule shows its programme, targets follow it, commands of others survive |
| Trend log (`trend_log.rs`) | ring buffer, two counters | `record`, writes | full, cleared, disabled, saturated | the newest values, counted right |
| Tag encoding (`bacnet-types/src/encoding`), codecs (`bacnet-codec`) | none | encode, decode | three families of length rules; nesting, optional fields | each side reads what the other meant; noise is noticed |
| Segmentation (`apdu/segmentation.rs`) | segments so far, total | `add_segment` | any order, repeated, width of the sequence number | the whole message, in order |
| Device object (`device.rs`) | object list | read, `current_utc` | calendar | the right date, the right list |
| Builder, main (`bacnet-sim`) | API registry, store, dispatcher registry | fill them from a configuration | separate loops skip what they do not know | the three agree |
| REST API (`rest.rs`) | registry of device ids | listings, GET, PUT | races with clients, JSON has fewer data types | a PUT is accepted if and only if it takes effect |
| Metrics, hot reload, router, BBMD | — | export, log, look up | no | not modelled, see section 7 |

### How they interact

The UDP receive loop feeds the dispatcher through a broadcast channel; every frame gets a
task, which looks up or changes the session cache, then reads or writes the object store,
and puts its answer on the outbound channel.  The engine's tick loop goes over the store
shard by shard under the write lock, forces each model's value into its object, evaluates
its alarm, and after releasing the locks asks the COV engine to notify subscribers.
Scripts and the REST API write objects through `force_write_property`, like the engine.
The MS/TP ring and the SC hub are transports of their own that the main program does not
wire to the dispatcher yet.

## 2. Modules

| Module | Models | Composed of |
|---|---|---|
| `TokenRing` | what a token ring promises: one token that moves to the successor, is lost, or is created at station 0 | — |
| `MstpRing` | the virtual bus and the `run()` tasks | refines `TokenRing` |
| `MstpRingProofs` | theorems about `MstpRing` | extends it |
| `ScHub` | hub, node, their tasks, channels and worker threads, connection loss | — |
| `ScHubProofs` | theorems about `ScHub` | extends it |
| `BacnetObject` | the seven point objects' writes as operators | — |
| `BacnetObjectProofs` | lemmas about those operators | extends it |
| `ObjectWrites` | one object under clients and simulator | extends `BacnetObject` |
| `ObjectProofs` | theorems about `ObjectWrites` and `AlarmEngine` | extends both and `BacnetObjectProofs` |
| `SimEngine` | tick loop, store, COV subscriptions, other writers | extends `BacnetObject` |
| `SimProofs` | theorems about `SimEngine` | extends it and `BacnetObjectProofs` |
| `AlarmEngine` | the alarm state machine | — |
| `DeviceService` | what a client may rely on: one device per request, its objects accessed one by one and in order, one answer that tells what they were | — |
| `Dispatcher` | UDP channels, per-frame tasks, session cache, services | refines `DeviceService` |
| `DispatcherProofs` | theorems about `Dispatcher`, `Segmentation` and the values of `Wire` | extends the first two, instantiates `Wire` |
| `Schedule`, `TrendLog` | the two objects as operators | — |
| `ScheduleEngine` | clock, schedule, engine, targets, log, and clients of all of them | extends `BacnetObject`, `Schedule`, `TrendLog` |
| `ScheduleProofs` | theorems about `ScheduleEngine` | extends it and `BacnetObjectProofs` |
| `Wire` | tags, lengths and values on bytes (`tags.rs`, `asn1.rs`, `application.rs`) | — |
| `Apdu` | requests and answers on bytes | extends `Wire` |
| `Frames` | NPDU, BVLL, SC and MS/TP frames, checksums | extends `Wire` |
| `Segmentation` | a peer that sends segments, and the receiver's `SegmentBuffer` | — |
| `Link` | a sender, a line with noise, a receiver | extends `Apdu`, `Frames`, `Segmentation` |
| `Clock` | the calendar of `current_utc`, and its definition in closed form | — |
| `Management` | main, builder, store, Device object, REST API, and BACnet clients | extends `BacnetObject`, `Clock` |
| `ManagementProofs` | theorems about `Management` and `Clock` | extends it and `BacnetObjectProofs` |
| `MCScHub`, `MCObjectWrites`, `MCSimEngine`, `MCDispatcher`, `MCScheduleEngine`, `MCLink`, `MCManagement` | constants for TLC | extend the module named |

Definitions with a suffix (`Deliver_Uncapped`, `ForceWrite_NoBypass`, ...) are *faults*: forms
of the definition that follows them with a bug the code could plausibly have.  They are not
part of any specification; each property is tried against one, and must fail.

### State and actions against the code

**MstpRing.**  `bus` is what the tokio broadcast channel still holds; `unread[m]` says how many
of the newest frames master *m* has yet to see, so a frame pushed out of a full channel is
lost to a master that lags (`RecvError::Lagged`).  `pc[m]` is the place in `join`/`run`:
`Bootstrap` is the start of the ring by address 0; `ReceiveToken`, `ReceivePoll` and
`ReceiveOther` are the receive loop; `UseToken` is the `try_recv` of the outbound queue;
`PassToken` the hand-over; `Restart` the ring timeout.  The timeout is
200 ms × (max_master + 2), far more than a ring of running tasks needs, so without stalls it
fires only when nothing is under way (`Silent`); with `Stalls` it may fire at any time at
which address 0 has nothing to receive, and `early` records that it did so wrongly.

**ScHub.**  A connection is one `connect()`.  `hub[c]` is the state of its `handle_connection`
task, `writer[c]` of its outbound task, `node[c]` of the node's side.  `nodes` is the registry.
`HubRegister` and `HubCleanup` are separate steps from the handshake and from noticing the
close, as in the code, because other connections get in between.  `waiting[k]` is what a
`send_to_vmac` call waits to send: it holds a reference into the registry, and with it a shared
lock of a shard, so that others may call it and read but nobody inserts or removes in that shard
meanwhile (`RegistryFree`).  Insert and remove do not await: a handler that finds the shard locked
blocks its worker thread (`HubBlock`, the states `inserting` and `removing`), and the other tasks of
the hub run on the threads that are left (`WorkerFree`).  Which of several waiting calls goes on
first is left open.  `Break` cuts what was on its way to any prefix, on both sides.

**BacnetObject, ObjectWrites.**  An object is its kind, present value, out-of-service flag and
priority array.  `Write` is `write_property` with its errors in the code's order, `ForceWrite`
is `force_write_property` with the temporary out-of-service.  Values are numbers with their
data type; which types a kind takes (`Takes`, `TakesService`) differs between kinds in the
code and does so here.  `log` is a history of accepted commands.

**SimEngine.**  `TickStart`, `TickObject`, `CheckStart`, `CheckEntry`, `CheckDone` and `TickEnd`
are the phases of one round of `run()`; between any two of them others may write objects
(`ClientWrite`, `ForcedWrite`) or change subscriptions.  `CheckEntry` visits one subscriber,
because the map is locked entry by entry.  A value model produces any of `Samples`.
`seen`, `told` and `touched` are history.

**AlarmEngine.**  `Evaluate` is `evaluate` at a time chosen by the tick loop; `NewState` the limits
with the deadband, `Gate` the delay.  `target`, `since`, `kept` are history.

**Dispatcher.**  `Send` and `Transmit` are the two loops of the UDP transport with their channels.
`Receive` spawns the task of a frame; `frames` is what the task is going through when it sends: for
a Who-Is two frames per device of the registry, to everyone and to the client, and else its answer.
`Resolve`, `Serve` (one object per step, each under its own lock), `Respond` (one frame per
step, waiting for room) and `Skip` (a device out of the range of the Who-Is) are the task.  A request that names an unknown device ends in
`failed` without an answer, as in the code.  `order` is the arbitrary but fixed iteration
order of the registry's hash map.  `GiveUp` is a client's timeout; a lost answer is one its
client has given up on.

**DeviceService.**  `request` holds the requests so far, `device` the one that serves each, `values` what the points hold,
`reads` what the accesses for each request have found so far, `answers` the frames that left because of it.  A request
is assigned to a device (`Assign`), its objects are accessed (`Access`) one after the other while those of other requests
are, and the answer tells what the accesses found.  Hence
an answer is no snapshot of several objects, but each part of it was true between request and answer.

**Schedule, TrendLog, ScheduleEngine.**  `sched` and `log` are the objects' fields.  `Tick` is the tick
loop's call of `tick` on an object without a value model, `SetClock` the system clock, which
may go back.  `EngineStart`, `EngineRead` and `EngineWrite` are `ScheduleEngine::tick`, one output after
the other: the value read is `held` while no lock is, and clients write in between.  `Sample` is the
caller of `record()` that the comment in `TrendLog::tick` mentions.  `shown`, `accepted` and
`logged` are history.

**Wire, Apdu, Frames, Link.**  Bytes are numbers, frames are sequences of them; a decoder returns what it
found and what is left, or fails.  `SendRequest` is a client that encodes a request into NPDU and
frame, `SendAnswer` the simulator; `Receive` runs the decoders of the other side from the frame to
the service.  The simulator's encoders and decoders are those of the repository.  Clients are not in
it: they encode what the decoders' comments describe and read answers with `asn1.rs` where it has a
decoder, with `tags.rs` where not.  `Flip` is noise on an MS/TP line, which the checksums of
`mstp.rs` are for; the repository has only the virtual bus yet, which hands frames over whole.

**Segmentation.**  `SendSegments` and `DeliverSegment` are the use of a `SegmentBuffer`: `air` holds a message's
segments, any of which may arrive at any time and again; `arrived` is history.

**Clock, Management.**  `Register` and `Build` are the part of `main` before it serves.  The object
list is made by one table of type names (`ParseObjectType`) and the objects by another (`ObjectMade`), in demo mode
by two pairs of loops (`DemoListed`, `DemoObjects`), as in the code.  Names are compared after `Normalise`, the
standard library's lower case and replacement, which is a constant.  Then each REST
handler and each BACnet request is one step (an object's lock is held throughout), whose outcome is
in `answer` until `Done`.  A property value in JSON is its JSON type with its content.  A number is the f64 that
serde_json has parsed, counted in a unit that makes all of them whole; `FromJson` makes it a Real by
`Narrow`, the cast to the nearest of the `Singles`, to the even one from the middle and to infinity
beyond the last; `ToJson` writes a Real as a number, infinity as null, and the state of a binary input or output
as a number too, although a PUT takes a bool there.

## 3. Runs

| Run | Question | Result |
|---|---|---|
| `mstp_safety` | three masters, three-frame bus, late joins, polls, stalls: is the token unique until an early restart (`OneToken`), do only bootstrap and restart add tokens (`TokensNeverMultiply`), does lag never lose it while no foreign poll and no early restart add frames (`TokenLostOnlyToAbsent`), is there a pass between two NPDUs (`OneDataPerToken`)? | holds |
| `mstp_live` | without stalls: does the ring implement `TokenRing` (`RingSpec`), does every master get the token for ever (`TokenCirculates`), is every queued NPDU sent (`QueuedIsSent`)? | holds |
| `sc_hub` | two connections, two addresses, two callers, two worker threads: registry (`NoStaleEntry`), routing (`RoutedInOrder`), handshake (`AcceptComesFirst`); does a waiting call return but for peers that do not read and blocked threads (`SendReturns`), is a closed connection unlisted but for locked shards and blocked threads (`ClosedIsUnlisted`)? | holds |
| `sc_reconnect` | is every served connection's address listed (`ServedIsListed`)? | **violated** |
| `object_writes` | commands and relinquishes (`LastCommandWins`), failed writes, out-of-service, forced values | holds |
| `sim_engine` | accuracy of what subscribers know (`CovAccuracy`), expiry (`ExpiryBound`) | holds |
| `alarm` | raised in time (`AlarmFollows`), no chatter (`NoChatter`) | holds |
| `dispatcher` | sessions kept (`SessionKept`) and isolated (`SessionIsolated`), answers exactly once (`AnsweredOnce`), and does each answer tell what the accesses of one device found (`ServiceSpec`)? | holds |
| `schedule` | does the schedule show its programme whoever wrote last (`ShowsProgramme`), do commands survive the engine (`CommandsKept`), do targets settle on what the schedule shows (`TargetFollows`), does the log hold the newest values with the right counts (`LogIsRecent`)? | holds |
| `wire` | do both sides understand each other over every medium, route and length (`Understood`), are one or two wrong bits noticed (`NoiseDetected`), is a segmented message put together in whatever order it comes (`Reassembled`)? | holds |
| `startup` | do store, lists and registries agree after any configuration (`Discoverable`), does a PUT take effect exactly when it is accepted, and show as the nearest f32 in the object's type (`PutShows`), is the date right (`DateIsRight`)? | holds |
| `dispatcher_session` | are sessions kept for clients that do not wait (`SessionAlwaysKept`)? | **violated** |

### What the violated runs show

* **A reconnected node is unregistered by its old connection** (`hub.rs:194`).  The clean-up
  removes whatever the registry holds for the address.
* **A client that does not wait may be served by the wrong device** (`dispatcher.rs:99`).  The task
  of its read of a point can be resolved before the task that names the device.  The run has reads only; a
  write of a point goes astray in the same way.

### What the properties leave out, because the code does otherwise

These are facts met while modelling; each is a named exception in a property or an assumption on the
instance, not a run of its own.

* MS/TP (`TokenCirculates`): `next_station` is fixed when a master joins and `run()` never polls for
  masters, so a token passed to an unused address is lost and masters behind a gap starve
  (`master.rs:60`).  The instance has no gap.
* Simulation engine: the result of the forced write is ignored, so with a model on a binary object
  subscribers would hear of values it never had (`engine.rs:113`); `cov_notifications_total` counts
  changed objects, not notifications (`engine.rs:153`).
* Codecs (`LostInWrite`, `LostInAnswer`): `application.rs:13` gives a Boolean a byte of its own, where
  `tags.rs:188` has it "encoded in LVT itself", so a client reads another value after each Boolean;
  incomplete bytes of bits are filled from the high end and read from the low end by `tags.rs`; an
  unspecified weekday is read as Sunday; the length of text over 254 and of octets over 255 bytes
  wraps; a request brings one value only, never a list.
* Codecs, further: unknown object types are read as Device by `tags.rs` and refused by `asn1.rs`; an Integer
  of fewer than four bytes is not sign extended; Who-Is limits are encoded only as a pair; I-Am
  decoding keeps only the device instance; `NotConfigured` is 133 in `error.rs` and 140 in `ack.rs`.
* Segmentation: a message of as many segments as there are sequence numbers (256) is put together as
  an empty one, because the loop bound is cut to eight bits.
* Schedule: slots out of order take the last one in the sequence that has started, whatever its time;
  a schedule that turns to Null does not relinquish its targets.
* Startup (`Overlapping`): a device in two groups keeps the objects of both but the list of the later
  one; the API lists devices of unknown profiles, with no objects.  The builder writes
  "multistate_input" where the API writes "multi_state_input".
* REST (`Accepts`, `Shown`): every JSON number is a Real, so a multi-state object takes no PUT at all.  A
  number is narrowed to an f32: a GET shows another one (0.1 comes back as 0.10000000149011612), or null when it was
  out of range, although the PUT was accepted.  A bool that was put to a binary input or output comes
  back as the number 0 or 1 (`rest.rs:381`, `rest.rs:406`).
* SC hub (`SendReturns`, `ClosedIsUnlisted`): a peer that stops reading keeps a call of `send_to_vmac` waiting for
  ever; the handlers it locks out block worker threads one by one (`hub.rs:143`, `hub.rs:194`), and once all are
  blocked the hub stands still.

### Bounds

* MstpRing: three masters give a sender, a receiver and a bystander; three frames of bus make
  lag and overwriting happen within one round of the token; two NPDUs test that the token goes
  round between them; one foreign poll suffices to push a frame out of the bus.
* ScHub: two connections cover an old and a new connection of one address as well as two nodes;
  channels of one frame make every full-channel branch happen with two frames, and the third keeps a second
  caller waiting behind the first.  One connection breaks (`MaxBreaks`).  Both addresses are in one shard, so that
  a wait for one node is in the way of both handlers, which can take up both worker threads.  The
  first connection has the first address: the addresses are interchangeable, and giving it the other one as well
  would only repeat every behaviour with the names exchanged.
* ObjectWrites: three priorities give a highest, a middle and a default; three accepted commands
  cover command, override and relinquish; priorities 0 and 4 lie outside.
* SimEngine: samples 0..2 with increments up to 2 give drift below, at and above an increment;
  three ticks see a sweep with a period of two, and one write by others (each kind of it).
* AlarmEngine: values 1..6 lie on and around both limits 2 and 5 and both deadband edges; delays
  and gaps of up to two ticks make early, exact and late evaluations.
* Dispatcher: one ReadPropertyMultiple names a Device, a point that does not exist and one that does, so that
  errors must keep their place, and other requests write that point meanwhile; three requests let two requests of
  one client race with one of another; the inbound channel of two overflows; an outbound channel of one
  makes tasks wait.

* ScheduleEngine: a day of three units, a day in order, one out of order and empty ones; instants before
  the epoch, at a slot's start, in each kind of day; three outputs (target gone, schedule gone, a
  commandable target); a log of two records with a total that saturates at two, three records and two
  writes, so that it overflows, is cleared and is disabled.
* Link, Segmentation: values on both sides of every boundary (4/5, 254/255/256, 65535/65536, 2^24, 8/9 bits), each
  optional field present and absent, four routes, nine media.  Two flips over frames of up to 15 bytes
  hit header, length, data and both checksums.  Four sequence numbers stand for 256: messages of up to
  five segments are below, at and beyond them; the width enters only through the remainder.
* Management: eight configurations (demo, empty, empty range, unknown profile, overlapping groups, a type
  given twice, an unknown type, a count of 0), all seven kinds of points, two writes; numbers with three significant bits, and
  among the numbers put one that is a single, one nearer to the next, middles (to be rounded to the even one, and up
  to infinity), the last that stays finite and one out of range; clients ask for the points numbered up
  to two of each type (`MaxInstance`), the others being alike; the days around the
  ends of February and of the year for common, leap and century years.  Device ids are below 2^22, as
  BACnet has it: the key packs type and instance without cutting the instance.

Symmetry is used where a set's members are interchangeable (subscribers, clients) and only in
runs without liveness: the refinement `ServiceSpec` has no fairness, so that a step is a step of it or not
whichever way the clients are called.  Runs switch deadlock checking off where a bounded behaviour
really ends (clients have sent all they may); the ring runs check it, as the ring never stops.

### Fairness

* `MstpRing`: weak fairness of each master's task, of the bootstrap and of the ring timeout, since
  tokio runs ready tasks and fires elapsed timers; and of `Join`, as all masters of the instance do
  join.  Nothing forces callers to queue or stations to poll.
* `ScHub`: weak fairness of each handler, and of a call that waits, while a worker thread is free.  The outbound
  task runs for sure only while no thread is blocked: tokio puts a task that has just been woken
  into a slot of the waking thread which others do not take tasks from, so it may be stuck behind a
  handler that blocks next.  Nothing makes a node receive, connect, send or break its connection; hence the
  exceptions `SendReturns` and `ClosedIsUnlisted` name.
* `ScheduleEngine`: weak fairness of the tick of the schedule, as the tick loop never ends, and of the
  engine's steps, which assumes that its owner calls `tick` again and again.  Nothing makes the clock
  move or clients write.

## 4. Proofs

All theorems are for arbitrary constants that satisfy the named assumptions
(`ConstantsAssumption`, `ObjectAssumption`, `WritesAssumption`, `AlarmAssumption`,
`LogAssumption`, `ScheduleEngineAssumption`, `EngineAssumption`, `DispatcherAssumption`,
`SegmentationAssumption`, `ManagementAssumption`).  They say
that capacities are positive, sets of addresses and values are what their names say, and that a model
value that stands for nothing (`None`) or for the hub or everybody (`"hub"`, `"all"`) is not a member
of a set of real ones.  `DispatcherAssumption` also says of requests what their decoders guarantee:
ReadProperty and WriteProperty name one object, unconfirmed requests none.

| Theorem | Statement | Argument |
|---|---|---|
| `MstpRingProofs!TypeCorrect` | `Spec => []TypeOK` | inductive as it stands; lemmas on `Push` and `Send` |
| `MstpRingProofs!TokenUniqueness` | `Spec => []OneToken` | `TokenInv` |
| `MstpRingProofs!OneDataFrame` | `Spec => []OneDataPerToken` | `DataInv` |
| `MstpRingProofs!TokenCount` | `Spec => TokensNeverMultiply` | every other step sends a token only after taking one |
| `MstpRingProofs!TokenLoss` | `Spec => TokenLostOnlyToAbsent` | `TokenInv`, `PollInv` |
| `MstpRingProofs!RingImplements` | `Stalls = FALSE /\ Spec => RingSpec` | `TokenInv`; one lemma per action |
| `ScHubProofs!HubTypes` | `Spec => []TypeOK` | inductive as it stands |
| `ScHubProofs!RegistryIsFresh` | `Spec => []NoStaleEntry` | `LifeInv` |
| `ScHubProofs!AcceptIsFirst` | `Spec => []AcceptComesFirst` | `LifeInv`, `AcceptInv` |
| `ScHubProofs!RoutingIsOrdered` | `Spec => []RoutedInOrder` | `LifeInv`, `PlaceInv`, `OrderInv` |
| `ObjectProofs!ObjectTypes` | `Spec => []TypeOK` | lemmas on `Write` and `ForceWrite` |
| `ObjectProofs!LastCommand` | `Spec => []LastCommandWins` | `SlotInv`; least numbers |
| `ObjectProofs!FailedWrites` | `Spec => FailedWriteChangesNothing` | `Shape` |
| `ObjectProofs!ServiceKept` | `Spec => ServiceIsKept` | `Shape` |
| `ObjectProofs!ForcedValues` | `Spec => ForceWriteApplies` | `Shape` and that the default priority is the lowest |
| `SimProofs!SimTypes` | `Spec => []TypeOK` | inductive in four parts, one per group of variables |
| `SimProofs!ExpiryIsBounded` | `Spec => []ExpiryBound` | `SweepInv` |
| `SimProofs!CovIsAccurate` | `Spec => []CovAccuracy` | `QueueInv`, `ShownInv`, `ToldInv` |
| `ObjectProofs!AlarmIsRaised` | `AlarmSpec => []AlarmFollows` | `TimerInv` |
| `ObjectProofs!AlarmDoesNotChatter` | `AlarmSpec => NoChatter` | `TimerInv` |
| `ScheduleProofs!ScheduleTypes` | `Spec => []TypeOK` | inductive in four parts |
| `ScheduleProofs!ProgrammeShown` | `Spec => []ShowsProgramme` | inductive with the schedule's types; greatest begun slot |
| `ScheduleProofs!CommandsSurvive` | `(no output is bound to OutOfService) /\ Spec => CommandsKept` | the engine forces values at the lowest priority |
| `ScheduleProofs!LogHoldsNewest` | `Spec => []LogIsRecent` | `LogInv`; lemma `RecordKeepsNewest` |
| `DispatcherProofs!DispatcherTypes` | `Spec => []TypeOK` | `TaskInv`, `FramesInv` |
| `DispatcherProofs!SessionsAreIsolated` | `Spec => []SessionIsolated` | `IsolationInv` |
| `DispatcherProofs!AnsweredExactlyOnce` | `Spec => []AnsweredOnce` | `FramesInv`, `AnswerInv`; lemmas on `Copies` |
| `DispatcherProofs!SessionsAreKept` | `Spec => []SessionKept` | `WaitInv`, `CacheInv` |
| `DispatcherProofs!DispatcherImplements` | `Spec => ServiceSpec` | `ContentInv`, `AnswerInv`; one lemma per action |
| `DispatcherProofs!ReassembledAlways` | `SegmentSpec => []Reassembled` | `SegmentInv` |
| `DispatcherProofs!ValuesReadBack` | `\A v : Sendable(v) => ReadBack(v)` | one lemma per tag; digits and bits read back |
| `DispatcherProofs!NumbersReadBack` | the same of a number under a context tag | digits read back |
| `ManagementProofs!DiscoveryAgrees` | `Spec => []Discoverable` | `Phases`, `InPlace`, `ListsHold`, `AllListed`; `TablesAgree` |
| `ManagementProofs!PutShowsAlways` | `Spec => PutShows` | `ManagementInv`; lemmas on `ForceWrite`; `NarrowNearest` |
| `ManagementProofs!CalendarIsRight` | the date of every day up to year 65535 is right, with its weekday | the loops end at the first year, and month, that holds the day |
| `ManagementProofs!DateIsRightAlways` | `Spec => []DateIsRight` | `DatesRead`, `CalendarIsRight` |

Two theorems have a hypothesis besides the specification.  `RingImplements` needs that no task stalls
(`Stalls = FALSE`, as in `mstp_live`): a timeout that is early makes a second token, which is what
`TokenUniqueness` excepts.  `CommandsSurvive` needs that no output of the schedule engine is bound to
out_of_service, which it would then change on purpose.

### The inductive invariants and why they are needed

**MstpRing.**  `OneToken` alone is not inductive: address 0's bootstrap would add a second token if one
could exist before it, and a master that joins could find a token waiting for it.  `TokenInv` adds
that there is no token before the bootstrap and that an absent master has nothing to receive.
The core lemma, `SendInFlight`, says how sending a frame on a possibly full bus moves the
positions of the tokens under way.  `DataInv` adds to `OneDataPerToken` that a master which is not about
to pass the token has passed it since each data frame of its own that is still on the bus, so that
the next data frame finds a pass in between.  `PollInv`: while nobody has polled, there is no poll on
the bus, so that no answer to one pushes the token out of it.  For the refinement, `at` is the station
that holds the token or is its addressee; a pass that the successor is going to receive is a `Pass`; a pass to
an absent station, or a frame that pushes the token out of the bus, is a `Lose`.

**ScHub.**  `NoStaleEntry` needs `LifeInv`: what the hub's handler, the outbound task and the node's side of a
connection may be in at the same time, for example that a connection without a handler has no
outbound queue.  `AcceptInv` says where the one ConnectAccept of a connection is at each stage of the
handshake, and that nothing was routed to it earlier, because registering comes after it.  For the order of
NPDUs, positions in the two channels of a connection are awkward to move along; `PlaceInv` and
`OrderInv` speak of the *sets* of NPDUs in each place instead (`Npdus`), say that each place is in order
by itself and all of one place before all of the next (`Before`), and that a frame its caller still waits to
send is after them all of its source.

**ObjectWrites.**  The action properties need `Shape`: the object keeps a known kind,
a Boolean out-of-service flag and a complete priority array, without which setting and
restoring out-of-service would not be the identity.  `SlotInv` says that the slot of each priority holds the
last command that counts for that priority (`Counts`: a BinaryOutput takes a priority out of range as the nearest
one, an AnalogOutput accepts none), and that an AnalogOutput has copied the effective value.  That there *is* a
filled slot of the highest priority, and that `Effective` is its value, follows from the principle that a
nonempty set of numbers has a least one (`WFMin` of the library on `NatLessThanWellFounded`), so that no induction
over the data is needed.  The lemmas on the writes of a point object are in `BacnetObjectProofs` and serve
three components.

**SimEngine.**  `CovAccuracy` speaks of the end of a tick only.  In between, a subscriber may be behind, but only if the
change it has to hear of is still to be checked for it.  `QueueInv` says that a collected change holds the last
value of the point's model, `ShownInv` that the object shows a value near that one, and `ToldInv` that the
subscriber was told a value near that one, or the change is `Pending` for it.  At the end of the tick nothing is
pending and the two distances add up to the two increments.  `SweepInv` says that every subscription was
alive at the last sweep or is younger, and that a sweep is never overdue.

**AlarmEngine.**  `TimerInv` says that the timer runs exactly
while the value asks for another state, that it started no later than the value did so, and
after the last value that justified the present state.

**ScheduleEngine.**  `LogInv` adds to `LogIsRecent` that buffer and
history are sequences over one set, whatever values are logged; `RecordKeepsNewest` is the core of the
eviction: dropping the oldest record of a full buffer, and of no other, leaves the newest ones but one.

**Dispatcher.**  `TaskInv` ties tasks to requests: there is no task before its request, a request is queued at most once,
and only a request with a device is served.  `IsolationInv` extends `SessionIsolated` to the cache.
`FramesInv` says what the task still has to send; with it, `AnswerInv` is a conservation law: a frame that
is due is with its task, in the channel or on the socket, and in one of these places only.  It makes a task
that drops a frame because the channel is full, or sends it twice, impossible at any capacity.
`SessionKept` holds because a patient client has one confirmed request open at a time.  `WaitInv` says so: apart from
the request it waits for, all its confirmed requests are done, and an answer in the outbound channel belongs to
a task that is done, so that a client is not released too early.  `CacheInv`: the cache of a patient client
holds the device of the latest of its requests that named one and are resolved.  When a request is
resolved, these are exactly the ones sent before it (lemma `ResolvedBefore`), which is where the argument
fails for a hasty client, and the run `dispatcher_session` shows how.  For the refinement, `ContentInv` relates a
task to its request: what it has served so far are the first objects of the request, with what each showed or
why it failed, and the answer it is sending, or that waits in the channel or is on the socket, tells just that.
`Send` is then a request of the abstract specification, `Resolve` its assignment to a device, `Serve` an access, and
`Transmit`, which puts a frame on the socket, a reply or an announcement; every other step is a stutter.

**Segmentation.**  `SegmentInv` says that the buffer holds the segments that have arrived under their numbers, that
it knows the total once the last has, and that it returned the whole message when the number of them reached the
total.  A step of `Link` is a step of `SegmentNext` or leaves these variables alone, and `Link`'s initial
states are initial here, so the property the run checks is the one proved.

**Wire.**  No induction over the bytes is needed here either: `DigitsLoop` takes the longest part of the digits over
which the loop's function exists and shows it to be all of them.  Numbers of one to four digits are then a matter of
arithmetic, bits of eight at a time.  `Sendable` is what the encoder keeps.  It leaves out Booleans, whose content byte
the decoder does not take, incomplete bytes of bits, which both sides fill from different ends, unspecified
weekdays, years a byte cannot tell and lengths that wrap (see section 3), and lists of values.  The theorem says
that every other value is found again, and that decoding stops at the right byte whatever follows.

**Clock, Management.**  `ManagementInv` has five parts: where the start-up is and that the API knows the configured
devices (`Phases`), that each object is in the store under its own key, and only for a device that answers Who-Is (`InPlace`),
that what a Device object lists is in the store (`ListsHold`) and, unless the device is in two groups, the
reverse (`AllListed`), and that a date that was read is the one of its day (`DatesRead`).  `Discoverable` is not inductive
without them, as registries, store and lists are filled by separate loops and writes may come between reads.  The key packs
type and instance into one number; that two objects never share one is a lemma (division by 2^22).  The
loops over years and months are recursive functions; lemmas of the module on least numbers stand for
the induction, and show that the function the definition chooses exists and obeys its equation.

The invariants were model-checked on the instances of the runs before they were proved, but for those
parts that speak of all sets (`LogInv`).

### Only model-checked

* Liveness: `TokenCirculates`, `QueuedIsSent`, `SendReturns`, `ClosedIsUnlisted`, `TargetFollows`.  This prover does no
  reasoning about fairness and `ENABLED`.
* `Understood` and `NoiseDetected` of `Link`: the decoders of whole requests and answers are recursive over lists of
  values, with encoders that fold over them, and frames and checksums use bitwise operators, which the prover does not take.  What is
  proved of the codecs is that the values and numbers inside them are read back.
* That the two findings of the violated runs occur: they are counterexamples, not theorems.

## 5. Plan

1. Done: MS/TP ring with its abstraction; objects; engine and COV; alarms; SC hub; dispatcher with its
   abstraction; schedule, schedule engine and trend log; codecs on bytes and segmentation; start-up, store and
   REST API; theorems about every safety and action property that a passing run checks, but for the two of the codecs.
2. Open: an abstract specification of what the hub promises (one queue per address and sender), refined by `ScHub` as
   `TokenRing` is by `MstpRing`; round trips of whole requests and answers, which would need the
   decoders of their lists written as recursive functions.

## 6. Abstractions worth knowing

* Frames, addresses and payloads are small records in the protocol models; bytes are the business of
  `Wire`, `Apdu`, `Frames` and `Link` alone.
* Clocks count tick periods (`SimEngine`, `AlarmEngine`); a tick is assumed to be over before the
  next is due.
* A slice out of range in a decoder panics in the task of its frame; the models treat it as a frame that
  fails to decode, which is what the rest of the system sees of it.
* Reals are naturals: properties compare distances with increments and never depend on rounding, but for `PutShows`,
  whose model rounds (`Narrow`).
* Worker threads are modelled where tasks block them (`ScHub`); elsewhere every ready task is eventually run.
* `read_uint` keeps the low 32 bits of longer integers, as `ReadUint` does.  A bit string that claims more unused
  bits than its last byte has makes the decoder panic, so that it fails to decode here (`UnusedFits`).

## 7. Not modelled

* BBMD and the stubbed services: no behaviour.  NPDU router: a lookup in a static table that nothing uses.
* Value models: numeric generators; the engine model allows any sample.  `parse_model` and `parse_units`
  choose among them and among units by name; the builder registers no value model with the engine.
* Notification class, and the Device object's properties other than its list, date and refusal of
  writes: constants.
* Reject and Abort PDUs, which nothing sends; `ComplexAck::decode`, which returns a fixed value; the BVLL
  frames of a BBMD's tables, which have no decoder.
* Metrics export, the scenario endpoints of the API (they look whether a file
  exists and start nothing), configuration parsing (serde),
  process start and shutdown, ports and environment variables.
* Hot reload: it logs that the file has changed, at most every 500 ms, and changes nothing.
* The manual MS/TP calls used in tests (`wait_for_token`, `send_data`, `recv_data`).
* The schedule engine and the MS/TP ring are not started by `main`; they are modelled as their interfaces
  are used in tests and described in comments.
