# A TLA+ model of agocontrol

agocontrol is a home-automation system made of some eighty processes that talk
over a message bus (MQTT or AMQP). This directory holds TLA+ modules of its
core processes, TLC configurations that check them on small instances, and
theorems that TLAPS proves for every instance.

## 1. The system

Every process is an *application* (`shared/agoapp.cpp`) around one *connection*
(`shared/agoclient.cpp`) over one *transport* (`shared/agotransport-*.cpp`).
A message with a subject is an event, sent to everybody; one without is a
command, answered by the process that owns the device it names. Commands that
want an answer carry a reply address and the sender blocks with a timeout.

| component | state | operations | what is hard |
|---|---|---|---|
| MQTT transport `agotransport-mqtt.cpp` | pending replies by topic, queue of messages, connected and shutdown flags | sendMessage, sendRequest, fetchMessage, on_message, shutdown | condition variables without predicates, replies racing timeouts, duplicates (QoS 1), shutdown |
| qpid transport `agotransport-qpid.cpp` | connection, session, a temporary queue per request | the same | session errors and re-creation |
| client `agoclient.cpp` | uuidMap (persisted), deviceMap | run loop, add, remove, suspend, resume device, discover replies | threads of the driver against the loop's reports without a lock, messages lost while the resolver is down, a map file cut short by a crash |
| frame `agoapp.cpp` | io thread, pool of 5, signal counter | setup, main, signalExit, cleanup | set-up and shutdown order against signals and timers that arm themselves again |
| configuration `agoconfig.cpp` | augeas tree in memory, files | get and set options | a failed save leaves memory changed |
| HTTP server `agohttp.cpp` | pending request per connection, server state | handle, poll, timer, wakeup, close | poll thread against pool threads, pipelined requests |
| RPC `agorpc.cpp` | subscriptions with their event queues | subscribe, unsubscribe, getevent, message, upload, download | long polling, queue limit, timeouts |
| resolver `core/resolver` | inventory and variables in memory, SQLite, files | announce, discover, remove, set..., stale checks, state events | io thread against main thread without locks, echo of its own events, memory against database |
| security `agosecurity.cpp` | house mode and zones, alarm thread and its flags, map file, pins | sethousemode, setconfig, setpin, triggerzone, cancelalarm, ... | alarm threads against the main thread without locks |
| event mapper `core/event` | event map and file | set, get, delete events, evaluate criteria, act | one event's result affecting the next |
| scenarios `core/scenario` | scenario map and file | set, run (detached thread) | a run against a change of the scenario |
| timer `core/timer` | sun times, timers | minute events, sunrise, sunset | timers that fire early or late, offsets, retries after failure |
| system monitor `core/system` | process list, alarm flags | check processes, set configuration | flags that must fire once per episode |
| Lua host `core/lua` | scripts, contexts | run scripts on events, upload, rename | context saved at the end of a run only |
| data logger `core/datalogger` | database | log, purge, graphs | one thread; the state is in SQL |
| scheduler `core/scheduler/*.py` | the day's sorted list, current index, item waited for | a minute's event, new day, set-up | two clocks compared for equality, list, index and weekday must move together |
| device gateways `devices/*` | driver state | commands, polling threads | one driver each, mostly I/O |

Components meet in four ways: commands with replies (request and reply),
events on the bus, the global variables and the inventory held by the resolver,
and, inside a process, callbacks between the network thread, the main loop,
the io thread and pool or alarm threads.

What makes each component right: *transport* - a request returns exactly once,
with its own reply or an error, and messages reach the loop in order and once;
*client* - a device keeps its uuid over restarts, and is reported while in use;
*frame* - a signal ends the process from wherever it is, and no thread uses the
connection before or after its life; *RPC* - an event reaches a subscriber once and in
order, a poll always ends; *resolver* - the
user's name stays with the device, a removed device is not listed, every device in
use is listed again, a wrong stale flag does not stay; *timer* - each minute once
and in order, sun events that agree with the published state; *security* - one alarm thread at
a time, a full countdown, a cancel that silences, three copies of the house
mode that agree; *event, scenario, Lua* - each action runs to its end on one
consistent version of its definition; *system* - one alarm per episode;
*scheduler* - every due item is executed once and in order.

## 2. Plan

1. `Security` (done): the process with the most shared state between unlocked
   threads. `SecurityProofs` (done): type and safety theorems.
2. `MqttTransport` (done): the transport inside one process, with
   `BusRequests` as its abstract specification (every request ends once, with
   its own reply or an error); `MqttTransportProofs` (done) with the refinement.
3. `Rpc` (done): subscriptions, long polls, the response state of a request
   between poll thread and pool threads, the pool and its clean-up; `Gateway`
   (done), what its clients are promised; `RpcProofs`, `GatewayProofs` and
   `BlockingProofs` (done).
4. `Client` and `Resolver` over `HomeBus`, composed in `Home` (done): devices,
   names and stale flags over crashes of both sides and lost messages;
   `HomeProofs` (done).
5. `App` (done): set-up, signals, the io thread and its timers, the end of the
   process; `AppProofs` (done).
6. `Timer` and, over it, `Scheduler` (done): minute and sun events, the day's
   list; `Agenda` (done), what the scheduler promises; `SchedulerProofs` (done)
   with the refinement.
7. Left, in this order: the Lua host's contexts; the resolver's rooms,
   floorplans and variables; the scenario runner. Section 6 says what keeps the rest out.

## 3. Modules

| module | models | proofs |
|---|---|---|
| `Security` | `AgoSecurity`: main thread, alarm threads, map file, PIN option | `SecurityProofs` |
| `MqttTransport` | `AgoMqttTransport`, `MqttImpl`, `MqttReply`, and the loop of `AgoConnection` | `MqttTransportProofs` |
| `BusRequests` | what `AgoTransport::sendRequest` promises | refinement in `MqttTransportProofs` |
| `Rpc` | `AgoRpc`, the poll thread of `AgoHttp`, the pool and the shutdown of `AgoApp` | `RpcProofs`; `BlockingProofs`, who waits for whom |
| `Gateway` | what a client of the RPC server is promised for a request | refinement in `GatewayProofs` |
| `HomeBus` | what a driver and the resolver rely on: messages in order, or lost (external) | |
| `Client` | the devices of one `AgoConnection`: uuid map and its file, device map, reports | in `HomeProofs` |
| `Resolver` | `AgoResolver`'s devices, their file and names, the stale check | in `HomeProofs` |
| `Home` | `Client` and `Resolver` together, and what a user may expect of them | `HomeProofs` |
| `App` | `AgoApp`: main thread, io thread, signals, timers | `AppProofs` |
| `Timer` | `AgoTimer`: `clocktimer`, `suntimer` | in `SchedulerProofs` |
| `Scheduler` | `AgoScheduler` over `Timer` | `SchedulerProofs` |
| `Agenda` | what the scheduler promises for a list | refinement in `SchedulerProofs` |
| `MCSecurity`, `MCMqttTransport`, `MCRpc`, `MCHome`, `MCApp`, `MCScheduler` | values of the constants for TLC, refuted claims | |

### Security

An actor is `Main` (0), the thread of the message loop, or an alarm thread
`1..MaxAlarms`; `pc[a]` is the point it has reached. Handlers are cut where
another thread can see the difference.

- `changeHousemode` is `ChangeHousemode` (memory), `Publish` (resolver variable
  and event), `Save` (open, which truncates) and `Flush` (close). Main and the
  alarm threads share these actions; `After(a)` says where the caller goes on.
- `triggerZone` is `TriggerZone` (flags, `currentAlarm`, thread started) and
  `MarkRunning`, because `isSecurityThreadRunning` is set after the thread was
  started. The thread may fail to start.
- `cancelalarm` is `CancelCountdown` (loop condition cleared), `Interrupt`
  and `UnmarkRunning` while the running flag is set; otherwise `DisableAlarm`,
  `ToDefault`, the house mode change and `StopAlarms`.
- `enableAlarm` is `CountDown`/`WakeUp` per second, then `IntruderAlert` and
  `TriggerAlarms`, or, interrupted, `ToDefault` and the house mode change; and at
  the end `ClearRunning` and `ClearWant`, the two flags in the code's order.
- `Restart` is the death of the process at any point followed by `setupApp`.
- `cancels`, `disturbed`, `overlap`, `unsynced`, `unsaved` and `torn` are
  history: no action reads them.

Commands that only read, and requests refused before anything is changed, are
stutters. Not considered: two zones of one name in one house mode (the
configuration page prevents it), an empty zone list or malformed JSON in a
request, an unusable PIN list, the wording of messages. `Json::Value` is not
thread-safe; a concurrent change of `securitymap` that corrupts the heap is
covered only as far as it kills the process (`Restart`).

### MqttTransport

`Main` runs `start()` and then the loop: `Loop`, `Fetch`, `FetchTimeout` or
`FetchWoken`, `Dispatch`, `Handle`. Every caller of `sendRequest` (Main from a
handler, or a thread of `Pool`) goes through `Register` (the constructor of
`MqttReply`), `PublishRequest`, `Wait`, a wakeup or `WaitTimeout`, `Inspect` and
`Unregister` (the destructor). The network thread takes a message or reply
(`ReceiveMessage`, `ReceiveReply`: the look at `pending_replies` under the mutex),
parses it without the mutex and then delivers it (`DeliverMessage`,
`DeliverReply`: second critical section). `SignalShutdown`, `SignalTransport`,
`StopLoop` and `NotifyAll` are the thread of the signals.

There are three shutdown flags in the code: that of the connection is
`stopper # "idle"`; those of the transport and of its implementation are set
together and are `shutdownSignaled`. The bus is a sequence of messages,
`nextOnBus` what this process gets next; `OnConnect` may skip what was
published while it was cut off, because the session is clean. `OthersPublish`,
`OthersReply` and `Drop` are external. Message content is one of "parses",
"garbage"; QoS handshakes, credentials and broker addresses are left out, and
`reply_seq` (32 bits) does not overflow within `MaxRequests`.

`Outcomes(c)` is a set because `sendRequest` reads `reply.msg` after it has
released the mutex (line 135): a duplicate delivery may be swapped in at that
moment and the result found malformed. `FetchWoken` may reach `"undefined"`, the
`front()` of an empty deque, after a spurious wakeup (`Spurious = TRUE`).

### Rpc

The threads are the poll thread (`pp`, and `stage[c]` for the connection it
visits), main (`mpc`) and the pool (`wpc`). An iteration of `mongoosePollLoop` is
`Select` (one message of the control socket is acknowledged, every open
connection gets the event it is due), a visit of each connection in any order,
and `EndIteration` (mongoose's closing pass and the loop's exit test).

- A request that arrives is handled in `HandleLocal`, `HandleGetevent` or
  `HandlePooled` (with `CreateThreads`, because `create_thread` can block);
  `Assign` is `reqRep->responseReady = ...` in `jsonrpc`, `Check` the rest of the
  event `MG_EV_HTTP_REQUEST`; `Poll` and `Timer` follow for the same connection, as in mongoose.
- `<<c, n>>` is the `HttpReqRep` of the n-th request on connection `c`; `locked`
  holds those whose mutex a pool thread has. The poll thread's own critical
  sections are single steps that wait for the mutex.
- A pool thread is `TakeJob`, `Begin`, `Call` and `Return` per remote call,
  `StoreResponse`, then `WakeupChecked`, `WorkerSend` and `WorkerAck`: `wakeup()` reads
  the state of the server, and `mg_broadcast` sends and blocks.
- Main is `EventHandler` with its wake-up, or `Shutdown` to `Close`:
  `AgoHttp::shutdown`, `cleanupThreadPool` (`CleanupThreadPool`, `JoinAll`) and
  `AgoHttp::close`.
- `HasAnswer` and `TakeEvent` are `getEventsFor`; `IsResponseReady` and `Fetch`
  are `isResponseReady`, which has the side effect.
- `written`, `late`, `from` and `taken` are history.

mongoose and the clients are external. A request arrives and an answer leaves
in one piece; a client waits for its answer before it asks again (no
pipelining) and sends the same Connection header each time. A subscription id
is not given twice. 401 and 404 answers, static files, malformed requests and
the time-outs' values are left out: a timer may run out at any moment. Two
connections stand for any number because only the subscription is shared.

### Client, Resolver, Home

A driver's process and the resolver, with the messages between them in `inbox`
(only those about devices: announcement, report, removal, event). Any thread of
the driver (`Callers`, the message loop `Loop` among them if its command handler
does) adds, removes, suspends and resumes devices, and nothing is locked: MySensors
does it in its read thread (`agoMySensors.cpp:1360`), its stale check (`:3724`)
and its loop (`:1069`). Each call is cut at every access to `deviceMap` and every
message; `at[a]` is what caller `a` has still to do.

- `addDevice` is `AddDevice` (uuid and its file), `InsertDevice` (`deviceMap`) and
  `EmitDeviceAnnounce`.
- `removeDevice` is `RemoveDevice`, which publishes `event.device.remove`
  (`agoclient.cpp:342`), and `EraseDevice` (`:343`).
- `suspendDevice` and `resumeDevice` are `SetStale` (the look at `deviceMap`),
  `MarkStale` and `EmitDeviceStale`. If another thread has erased the device in
  between, `deviceMap[uuid]["stale"]` creates a member with a flag and nothing else: "bare".
- `reportDevices`, in the message loop, is `HandleDiscover`, and for each device
  `VisitDevice` (the test at `:400`) and `EmitDeviceDiscover` (`:402`); other threads
  add, remove and suspend devices in between, and a new member may be visited or
  not. The report of a bare member has no uuid and is ignored by the resolver.

A device is `InUse` from `InsertDevice` to `RemoveDevice`. The resolver's loop takes a message (`Receive`: `AnnounceEvent`,
`RemoveEvent`, `HandleEvent`) or a command of a user (`SetDeviceName`,
`DeleteDeviceName`, `DeleteDevice`, `SetDeviceParameters`); its io thread sends
discover commands and looks for silent devices, one at a time while the loop goes
on (`StaleFunction`, `Check`, `EndScan`). Times are two truth values: `timeout`
(`staleTimeout > 0`) and `heard` (`lastseen` is not longer ago than that), which
`Expire` clears.

`Die` and `Crash` end a process at any point, also inside a handler: a map file may
then hold a part of the map, a name may be in the database and not in memory. A
torn file that no longer parses is read as an empty map, which is one of its
parts. `Lose` and `LoseDiscover` are messages that never arrive. `StoreUuidMap` may
fail without a crash, as its result is ignored. A proposed name
(`initial_name`) is stored under `content["device"]`, which announcements do not
have; `NameFor` therefore finds it in the message only.

`owner`, `missed`, `unsaved` and `given` are history: for whom a uuid was
generated, whose removal did not arrive or was overtaken by an announcement or a
report sent after it (until the device is added again), whether the uuid file misses something,
which names the user may expect (two after a crash inside `setdevicename`). Rooms,
floorplans, variables, values and states are left out, as is `addDevice` with
`passuuid`; the Json maps are shared between threads without a lock, and what two
accesses at the same instant do to the heap is covered only as far as the process
dies of it (`Die`, `Crash`).

### App

The main thread is `Setup`, `Connect`, `SetupApp`, `StartLoop`, `LeaveLoop`,
`DoShutdown`, `Cancel`, `CleanupApp`, `CleanupIoThread`, `Join`, `CleanupAgoConnection` and
`Return`; `appMutex` makes some of its steps one. The io thread runs one handler
at a time: `TakeSignal`, `SignalExit`, `Shutdown` (the call of `agoConnection->shutdown()`
after the mutex was released), `Await`; or `TakeTimer`, `Work`, `Rearm`. It ends
(`OutOfWork`) when neither `ioWork`, nor a signal, nor a timer is left. A timer or
the signal set is "off", "armed" or "expired", that is, its handler is queued;
`cancel()` stops an armed one only. Any application is meant: the resolver
cancels its timers in `doShutdown`, the timer process in `cleanupApp`, and both
orders are behaviours. The thread pool and its clean-up are part of `Rpc`.

### Timer, Scheduler

Time is counted in half minutes because `clocktimer` rounds at second 30: `2m` is
the first half of minute `m`, its second 30 included. A handler may run half a
minute before its time, and any time after it (both are handlers of one thread,
and `suntimer` waits for the resolver). `ClockTimer` and `SunTimer` are the two
handlers, `StartTimer` a restart. The sun rises and sets at the same time every
day of the model; `NextSunevent` keeps the code's two different signs of the
sunset offset, and `GetSunriseSunset` may fail. The scheduler's `EventHandler`
compares the item it waits for with its own clock when it handles the event,
`SameDay` and `NewDay` are the two cases of the weekday. `Plans` is the set of lists
`new_day` can build: an item's time is any of a set, as random minutes and the sun
change it daily. `lastSent`, `sunSent`, `sunLost`, `planDay`, `loadedAt`, `heard`,
`skipped`, `behind`, `executed` and `astray` are history.

## 4. What is checked

| run | question | result |
|---|---|---|
| `security_alarms` | two alarm threads; an immediate, a delayed and an inactive zone (delay beyond 16 bits); cancels and re-triggers at any time: how many threads live, which countdowns are complete, undisturbed alarms are raised, threads and commands end | holds |
| `security_saving` | first start or armed house; every command and event; a command and an alarm thread changing the house mode at once; failing sends, writes and a crash anywhere | holds |
| `security_v_cancelled` | a cancelled thread raises no alarm | refuted |
| `mqtt_calls` | two threads, two requests, late, duplicate, malformed and missing replies, spurious wakeups, shutdown: own reply, refinement of `BusRequests`; requests return, messages are taken, a shutdown ends the loop | holds |
| `mqtt_link` | messages through a lost and re-established connection: order, loss, and what `fetchMessage` finds in its queue | holds |
| `mqtt_v_lostwakeup` | a caller that waits has not been given its reply | refuted |
| `rpc_events` | two clients subscribe and poll one subscription, events pass the queue limit, shutdown: every event once, in order, in one answer | holds |
| `rpc_live` | each kind of request against a pool thread, timer, hang-up and shutdown: the refinement of `Gateway` (answered once, completely or late), what every blocked thread waits for, polls ended by events, shutdown ends but for two races | holds |
| `home` | a device, a thread of the driver, two names, every command and event, one crash or lost message anywhere: names follow devices, a removed device is listed only if its removal was lost or overtaken; every device in use comes back, no wrong stale flag stays | holds |
| `home_v_ghost` | without loss or crash, a device that its driver has removed is not listed | refuted |
| `app_exit` | four signals at any point, a failing start, two timers: the connection lives while it is used, what its end waits for, the process ends unless a cancelled timer was armed again | holds |
| `scheduler_clock` | two days and a part of the third, early and late timers, a restart: each minute once, sun events agree with `isDaytime`, the refinement of `Agenda`: due items are sent, once and in their minute | holds |

**Bounds.** `MaxAlarms` = 2 lets a cancelled thread and its successor be alive
together, which is what the two flags and the single handle can confuse (the
theorems hold for any number); a countdown of one second has both positions of
the loop. One alarm
thread and the main thread are enough for two concurrent house mode changes,
and one restart for a crash inside any of their steps. In the transport two
requests are enough for a reply to come after its request has ended and the
next has begun, of the same or the other caller; three messages, one loss and
one duplicate for every reordering at a reconnect. What holds by induction for
any bound is proved (section 5). `mqtt_calls` has one message on the bus, so
that of two requests only the first is answered; the proofs do not need that
bound. In `rpc_events` three events against a `QueueLimit` of 1 reach the limit
from an empty and from a polled queue; its clients are interchangeable
(symmetry; it checks no liveness), keep their connections, do not hang up and
do not unsubscribe (the theorems cover that, `rpc_live` runs it). `rpc_live`
has one connection and one request, which every other thread can meet.
In `home` a thread of the
driver works beside the message loop, which is the interleaving of two threads in
`deviceMap`; one uuid, because a second one is generated only after a loss of the
uuid file *and* a death, which are two faults; one name given by the user and
another proposed by the driver, as the user's name has to win over that; `MaxInbox`
= 1, because the messages are handled one at a time in their order, and a longer
queue only lets their senders get further ahead; `MaxFaults` = 1 is one crash or
loss. A `staleTimeout` is set, not set back to 0. `MaxInbox` = 2, with the removal and
what overtakes it on the way together, is in `home_v_ghost`; the
theorems cover any number of callers, devices, uuids, names, messages and faults,
and that two callers meet (bare members, an announcement that overtakes another
thread's removal) is covered by them only. In `app_exit` the third signal kills, a
fourth may come before it is handled. In `scheduler_clock` a day of three minutes
has midnight, a minute before and one after another item's; two weekdays make every
midnight a new day; 14 half minutes pass two midnights; events may queue (2).
`CHECK_DEADLOCK FALSE` is set where the process ends (transport, RPC, frame) and
where the model's clock stops (scheduler).

**Properties that exclude a case** say so in their formula: `FullCountdown` and
`AlarmRaised` speak of threads that no cancel and no other alarm thread
disturbs, `CopiesAgree` of changes that do not overlap and whose sends and
writes succeed, `MapFileReadable` of saves that the process survives,
`Gateway` of answers that no timeout has forced, `ShutdownEnds` of
executions without the two races below (`Stranded`, `Revived`), `ExitEnds` of those
in which no cancelled timer was armed again (`rearmed`), `NameFollowsDevice` of
processes whose uuid file did not miss the device, `NoGhosts` of removals that
reached the resolver and were not overtaken by an announcement or a report sent
after them (`missed`; `home_v_ghost` shows that the code lets that happen), `SunConsistent` of sun events that were not lost, and
`Agenda` (as far as it speaks of minutes) of lists whose minutes all had an event
(`skipped`) and that did not begin with an item due already (`behind`): `Sure`. The
cases they
leave out are the ones the code does not handle.

**Fairness.** `Security`: weak fairness of the main thread inside a handler and
of each alarm thread; their blocking calls have timeouts. `MqttTransport`: weak
fairness of each caller inside `sendRequest`, of the loop, of the network
thread's delivery of what it has received, and of a shutdown that has begun. The
timeouts are among these steps, so a request returns without help from the
broker, the other processes or the user, of whom nothing is assumed. `Rpc`: weak
fairness of the poll thread (`mg_mgr_poll` waits a second at most), of main outside
`EventHandler`, and of each pool thread (a call returns by its timeout). That
timers run out is a premise of `ShutdownEnds` only (`TimersRun`): a connection
with a kept request is closed when that request ends. `Home`: weak fairness of the
resolver's message loop and of its discovery; strong fairness of the client's
message loop (`LoopStep`: the report, and a call its command handler has begun)
and of the stale check (`ScanStep`), whose steps publish: the model's bus is at
times full of other messages, and the real one is not. Nothing is assumed of the driver's
other threads, the user, or a restart:
`InventoryRecovers` has as its premise that both processes stay up. `App`: weak
fairness of the main thread and of the io thread (connecting, an iteration of the
loop and a request have timeouts), strong fairness of the signal's handler because
boost runs handlers in the order they were queued. `Scheduler` has no liveness:
`ImplementsAgenda` says by when an item was sent.

### Findings

- A countdown that is cancelled between two seconds raises the alarm after the
  user was told "Alarm cancelled" (`security_v_cancelled`).
- A reply that arrives before the caller waits is missed; the call takes its
  whole timeout and fails (`mqtt_v_lostwakeup`).
- A device that a thread of its driver removes while the message loop reports
  it, or another thread announces it, is listed again and stays listed
  (`home_v_ghost`): `removeDevice` publishes the removal before it erases the device,
  `reportDevices` tests before it publishes, and what is published last wins. Only the
  user's delete command, another removal or a restart of a resolver without device
  file clears it. In the trace the read thread removes; in MySensors it is as well a
  user's "remove" in the loop against a sensor that presents itself again.

Met while modelling, visible in the modules and not kept as runs: a house with a
configuration ignores its sensors and never refreshes gateways and contacts, since
the guard at `agosecurity.cpp:597` is inverted (the comment at `:599` says "nothing
configured, exit right now"; `DeviceEvent` has it as it is); a second
cancel can disable the alarm of a thread that still counts down
(`agosecurity.cpp:810`); a trigger right after a cancel starts a second alarm
thread (`:800`), whose countdown the first one's exit cuts short (`:252`); the
running flag is set after a thread without delay may have ended (`:392`), and
then stays set; `disableAlarm` sends "on" to the alarm devices (`:497`);
`sendAlarm` tests the phone number where it needs the address (`:464`);
`fetchMessage` removes "repy-to" instead of "reply-to"
(`agotransport-mqtt.cpp:167`). In the RPC gateway: `wakeup()` tests the server's state and then blocks in
`mg_broadcast` (`agohttp.cpp:350`; "Calling when not polling anymore will hang us",
`:351`): a pool thread can be caught in between by the end of the poll loop, and is
joined for ever (`Stranded`, which `rpc_live` reaches); a request dispatched after
`cleanupThreadPool` has reset the work object sets the pool up again
(`agoapp.cpp:378`), so that the join never ends and `create_thread` blocks the poll
thread (`Revived`); `jsonrpc` assigns `responseReady` without the mutex that
`agohttp.h` demands and may overwrite a pool thread's TRUE (`agorpc.cpp:493`), the
answer then waits for the timer; during the shutdown a keep-alive connection is
closed in the poll that writes its answer, before the answer is sent
(`agohttp.cpp:315`); `getTimeout` narrows milliseconds to 16 bits (`agorpc.cpp:331`);
a batch element that was refused is sent all the same (`agorpc.cpp:247`); a
single message still in the pool's queue is sent after its timeout was reported.
After a restart `isAlarmActivated` is false while the sirens still run
(`agosecurity.cpp:81`); only the last zone's alarms are disabled (`:813`); a PIN list
of separators leaves no usable PIN (`:915`). The transport's queue has no limit
(`agotransport-mqtt.cpp:420`), and `start()` gives up after a spurious wakeup (`:284`).

In devices and resolver: a device suspended between the test at `agoclient.cpp:400`
and the report is reported all the same, against the comment at `:399` ("do not
announce stale devices"); the resolver's own `event.device.stale` refreshes
`lastseen` (`agoresolver.cpp:313`), so that a dead device is alive again at the next
check and flaps; `initial_name` is lost with the next report (`:715`);
`deviceparameters` never gets an entry (`:606`), so that a `staleTimeout` is lost with
the inventory; a name that is deleted, and a deleted room, stay in the inventory
until the next report (`:375`); a `staleTimeout` set back to 0 leaves a stale flag
standing (`:814`); devices that a driver no longer adds after its restart stay
listed (`NoGhosts` names them `missed`); `staleFunction` walks the inventory on the
io thread without a lock (`:799`).

In the frame: a timer's handler that is queued or running when `cancel()` is called
arms the timer again, and the join of the io thread never returns
(`agoresolver.cpp:946`, `agotimer.cpp:271`; `rearmed` in `App`); by then
`cleanupIoThread` has cancelled the signals, so that the promise of
`agoapp.cpp:323`, "SIGINT/SIGTERM again to force kill", does not hold any more;
detached threads (scenario, Lua, system monitor) may use the connection after
`cleanupAgoConnection`.

In timer and scheduler: an event is skipped if the timer process starts in the
second half of a minute or the io thread is busy over a minute's second 30
(`agotimer.cpp:94`); the sunset timer is set with the wrong sign of the offset
(`:186`); a failure to get sun data drops the sun's event (`:211`); a skipped minute,
or an event handled a minute late, leaves the item and all later ones of the day
waiting (`agoscheduler.py:52`); an item at 00:00, or at the minute of the start, is
never sent and blocks those after it (`:71`, TODO at `:191`); `range(1, 7)` leaves out
Sunday for integers (`scheduler.py:311`); `weekdayno` is set before `new_day`, which
may throw and then is not tried again (`agoscheduler.py:73`).

## 5. What is proved

All theorems hold for every value of the constants that satisfies the named
assumptions (`BoundsAssumption`, `ConfigAssumption`, `InputAssumption`,
`ThreadsAssumption`, `RequestsAssumption`, `NoReqAssumption`; `IdsAssumption`,
`NamesAssumption`, `InitialNamesAssumption`, `UsersAssumption`, `FreshAssumption`, `PersistenceAssumption`;
`WorkersAssumption`, the pool is finite; `AppAssumption`; `DayAssumption`, `TimeAssumption`, `ItemsAssumption`).

**SecurityProofs.** `TypeCorrect`. `LiveThreadsBoundedCorrect`: unfinished
alarm threads are at most the cancels plus one while the flag is set; the
formula is inductive by itself, since only a trigger starts a thread, while the
flag is clear, and only a cancel or the end of a thread clears it.
`DisableAfterCountdownCorrect` follows from it. `FullCountdownCorrect` needs
that two live threads are both in `disturbed` and that the flags of a lone
undisturbed thread are those it was started with. `MapFileReadableCorrect`:
what any thread is about to write is not empty, and memory is not empty during
a change. `CopiesAgreeCorrect`: as long as no two changes overlapped at most
one actor is inside a change, and its pending argument and buffer are the
memory. All use `Slots`: alarm threads beyond `securityThread` have not been
started. `StepsBoundedCorrect` and `ThreadsAdvanceCorrect` are what can be proved
of `AlarmThreadsEnd`: the steps a thread or a handler still takes are at most
65542 or six, each of its own lowers them, and no cancel, trigger or change by
another raises them. That a step is always possible (ENABLED) and is taken
(fairness) is left to the run.

**MqttTransportProofs.** `TypeCorrect`. `RegisteredWhileWaitingCorrect` is
inductive once the topics in use are known to be below `reply_seq` and distinct
(`TopicsInv`). `OwnReplyCorrect` adds what `on_message` remembers between its
two critical sections: if the topic is still registered, the pointer it kept is
that caller's (`ReplyInv`). `ImplementsBusRequestsCorrect`: every step is a
step of `BusRequests` or leaves it unchanged; the reply case needs that a valid
reply in `replyMsg` was sent by somebody (`ServedInv`). `InOrderCorrect` and
`NothingLostCorrect` rest on `QueueInv` (what was fetched is behind what is
queued, which is behind what is being delivered, which is behind the next on
the bus). `FetchSeesQueueCorrect`: between `OnMessage` and the wakeup nobody but
the loop takes from the queue, so only a wakeup without a notification finds it empty.

**RpcProofs.** `TypeCorrect`, from `TypeInv`: types need that a request in hand
has been sent, that what has been sent is known, and that a thread at work has
a request. `OnceInOrderCorrect`: `OrderInv` adds to the property that a
subscription whose `subscribe` is still unread is empty and not alive, and that
no two requests subscribe to the same id, so a subscription starts with nothing
taken. `AnsweredOnceCorrect`: `AnswerInv` says that a request is in one place
(unread, with its handler, or kept by its connection) and that while it is, it
has no answer; the client waits for one, so the next request finds the
connection free. `BatchStopsAtTimeoutCorrect`: `LateInv`, the response of a
late batch is ready and stays so; only `Assign` may clear `ready`, and
`AnswerInv` shows it never meets a late request. `InOneAnswerCorrect` combines
them: the poll thread visits one connection at a time (`StageInv`), a request
not yet answered holds no event unless its handler is about to write it
(`PendingInv`), so no event is overwritten in the response, and each event a
queue gives out is above all those held for the subscription (`OrderInv`), so
no two responses hold the same one (`HeldInv`). `CompleteUnlessLateCorrect`:
`CompleteInv` follows a request to the pool. It is untouched until it is posted,
then once in the queue of jobs, then with one thread, which alone stores results
and calls only while some are missing; `finished` is set only between a handler
that answers at once and its `Assign`, so that the assignment of `ready` behind
a posted job never completes it; and a batch cut short finds `ready` set by the
timeout, hence is late.

**GatewayProofs.** `ImplementsGatewayCorrect`: every step of `Rpc` is a step of
`Gateway` or leaves it unchanged. The mapping: a subscription is `opened` once the
request that asks for it has been read (`Opened`); its `cursor` is where it began plus
what was taken from its queue (`Cursor`); an `answer` is what was written for the
request, and `"twice"`, which `Gateway` cannot reach, if that happened more than once
(`Ending`). So the refinement includes `AnsweredOnce`, and `CompleteUnlessLate`; the
run checks the refinement instead of them. It needs, beyond the invariants of
`RpcProofs`, that the reason for an answer outlives the way to it: whenever `finished`
or `ready` says that a request can be answered, its results are complete, it has
timed out, its event has been taken or its subscription is gone (`ReasonInv`).

**BlockingProofs.** `UnblockedCorrect`, five facts about who waits for whom, for any
number of connections and pool threads. `MutexReleased`: `locked` is exactly what the
pool threads between `LockRequest` and `ReleaseRequest` hold, no two the same
(`MutexInv`), and such a thread waits for nobody. `EachAcknowledged`: messages of
the control socket and acknowledgements together are as many as threads that wait
for one, by counting (`WorkersAssumption`). `MainServed`: as long as main has
something to send the server runs, and the poll thread ends only after that
(`RunningInv`). `PollThreadTold`: the message of the shutdown stays in the socket until
the listener is closed, also when a pool thread takes the acknowledgement meant for
main. `PoolEnds`: the pool that is joined has threads at work, jobs or its work
object. They are what the liveness of the shutdown rests on; the two races it
excludes are not deadlocks of these kinds: in one the *pool thread* sends to a poll
thread that has ended, in the other the pool has been set up again.

**HomeProofs.** `TypeCorrect`, with what a process that is down has not got
(`DownInv`). `NameFollowsDeviceCorrect`: memory and file hold a uuid only for the
internal id it was generated for; unless a start has read a file that misses one,
no id has two uuids, memory knows every uuid generated, and so does the file
unless something is unsaved (`OwnerInv`); inventory, device file and database each
hold, for a uuid the user has named, one of the names in `given` (`NamesInv`).
`NoGhostsCorrect`: what the inventory or the device file lists is in use,
`missed`, or about to be removed by a message on the way, and each announcement or
report on the way is of such a device or has its removal behind it (`GhostInv`). A
removal that is published takes a device out of use and puts itself on the way in
one step, `EraseDevice` then changes nothing that counts, and an announcement or a
report for a device out of use makes it `missed`; a start reads
from the file nothing the inventory did not list (so a removal must be saved). The
theorem says that being lost and being overtaken are the only ways to a ghost.

**AppProofs.** `TypeCorrect`. `ConnectionAliveCorrect`: the io thread exists only
between `Setup` and `Join`, and the connection between `Setup` and
`CleanupAgoConnection`. `ExitUnhinderedCorrect` is about what the end waits for. Each
signal sent has been handled, is pending or is with the handler (`SignalsCounted`);
before the loop ends either the signal set is armed or its handler is on the way,
because the io thread has `ioWork` and does not end (`SignalInv`); who is joined has
neither signals nor, unless one was armed again, timers to wait for (`TimersInv`:
`cancelled` holds all timers when the join begins, in either order of clean-up).

**SchedulerProofs.** `TypeCorrect`; the list is a sequence whose length is that of
the day's items. `NeverTwiceCorrect`: `next` is above `lastSent`, and a timer that
expires half a minute before `next` still rounds to it (`SentInv`). `SunConsistentCorrect`:
while nothing was lost, the state `suntimer` waits for is not the one last sent
(`SunInv`). `DueExecutedCorrect`: the list is sorted; what comes before the item
waited for was sent or was over when the list was loaded, and that item is due
now, if no event was handled in this minute, or later (`ListInv`); the list's day has
begun, or begins in the next minute, and then its event is not on its way any more
((`PlanInv`), so that an event of the new day is never taken for one of the old.
`ImplementsAgendaCorrect`: every step is a step of `Agenda` or leaves it unchanged.
That nothing is sent twice needs that all that was sent is before the item waited
for (`OnceInv`). That `event_handler` may give a list up needs that an event is never of an
earlier day than the list, and the list that of its weekday (`FirstInv`): an event of
another weekday is then one of a later day, and as it is a minute early at most,
what is left of the list is due in this very minute, and sent before the list is
replaced. `Agenda` implies `DueExecuted`, and the run checks it instead.

Only model-checked: the liveness properties (temporal reasoning under fairness is
out of the prover's reach), and the refutations.
`RegisteredWhileWaiting` is only proved.

## 6. Not modelled

- *qpid transport*: everything hard in it is the library's; two requests share
  the connection only.
- *Configuration, JSON, logging*: sequential conversions; the two writes that can
  fail or be cut short are in `Security`, `Client` and `Resolver`.
- *Resolver*, the rest: rooms, floorplans, locations and variables are the same
  memory-then-file or database pattern as names, without a second actor; schema,
  values and replies are content.
- *Event mapper*: one thread, criteria over values and a parser. A disabled rule
  ends the handler, so that later rules are not looked at (`agoevent.cpp:75`), and the
  inventory is fetched only if it is there already (`:115`, `:127`).
- *Scenarios, system monitor*: detached threads on data of their own. In the
  system monitor `isMember` guards are inverted.
- *Lua host*: scripts run in threads of their own, each with a copy of its
  context that is stored at its end (`agolua.cpp:833`, `:886`), so that of two runs
  of a script one's changes are lost; what a script does in between is anything.
- *Data logger, command line tools, ImperiHome*: SQL, output and translation
  without state of their own.
- *Python client*: a second implementation of `Client` and the transport.
- *Device gateways*: some sixty drivers; what they share is `Client`. In MySensors
  a reset of the counters races the thread that counts, and two requests for an id may
  get the same one.
- *Vendored and generated code* (gSOAP, mongoose, jsoncpp, liveMedia, web pages):
  most of the repository's lines, and not the project's own program.
