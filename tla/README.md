# Driftwatch in TLA+

Models, model checking and proofs of Driftwatch (`src/middleware/`), a Modbus client that polls a PLC, tells changes
to a dashboard, and can sweep an unknown device for the addresses it answers for.

Modules without a prefix model the code. `MC*` modules give TLC its small instances, `*Proofs` hold the theorems.
Names are those of the code where TLA+ allows it.

## 1. The system

One process, one asyncio event loop, one FastAPI service. Whatever runs in it gives up control only at an `await`
that suspends; between two such points it is atomic. That is the grain of every model here: *an action is the code
of one task from one suspending await to the next.*

```
 range task 1 ┐                     ┌ console
 range task 2 ┼─ SafetyGuard ─ Resilient ─ Tcp/Rtu ─ pymodbus ─ device
 HTTP write   ┘                     
 range task n ── events ── CompositeSink ┼ csv file
                                         └ LiveStateSink ── /api/state, /api/stream ── browser pages
 discovery task ── the same pipeline ── report file ── /api/discovery
```

| Component (source) | State | Operations | Interacts with |
|---|---|---|---|
| Polling engine (`application/scanner.py`, `dead_tracker.py`, `scan_range.py`) | a value cache per range, the dead set per (unit, type), time of the last good poll | poll, batch, bisect, mark dead, emit | calls the pipeline, awaits the sinks |
| Transport pipeline (`adapters/transport/*`) | connection state, current client object, lock, per call: try and attempt | guard, ensure connected, connect with backoff, call, retry | shared by all range tasks, discovery and HTTP writes |
| Live table and stream (`adapters/sinks/live.py`, `infrastructure/api.py`, `static/app.js`) | latest event per key, a bounded queue per subscriber; in the browser the grid and the history | emit, subscribe, snapshot, stream, reconnect | fed from within the poll loop |
| Discovery (`application/discovery.py`, `slave_scanner.py`, `discovery_report.py`) | the report, the walk over units, types and batches | sweep, probe, bisect, finish | calls the pipeline |
| CSV, console and composite sinks | open file, day, rows since the last flush | emit, rotate, flush, close | awaited one after the other by the composite |
| Report file (`discovery_report_writer.py`, `api.py` `get_discovery`) | files in a directory | write, read the newest | writer and reader share only the directory |
| Write endpoint (`api.py` `post_write`) | none | validate, write | the pipeline |
| Lifecycle (`service.py`) | tasks | connect, start, cancel, flush, close, disconnect | owns everything |
| Modicon addresses, decoder (`domain/`) | none | conversions | used by events and reports |
| Configuration (`options.py`, `config_loader.py`) | none after start | layering, validation | decides what is started, on which line, and about writes |
| Simulator (`src/plc-simulator/`) | registers and coils, the state of the live rules | load a map, serve, tick, inject faults | the other end of the line |

What is hard in it, and what has to be right:

* **Polling** walks a range at three nested levels (live sub-ranges, batches, halves) while the dead set grows under
  its feet, by its own doing and by that of another range on the same bank. Right means: a successful poll has
  covered everything; nothing is asked for in vain; only real holes are given up, on the right unit; the live table
  follows the device, which goes on while an answer is on its way.
* **The pipeline** is entered by several tasks at once. The lock covers an exchange, but not the reconnection, which
  replaces the client object other tasks may be using. Right means: one exchange at a time; a write is never doubled
  without cause and never gets past the guard; a fault heals, for whoever waits.
* **The stream** has to join a snapshot and a queue without a gap, drop from the right end, and survive reconnects.
  Right means: nothing is missing in the grid, and it never goes back in time.
* **Discovery** has to account for every address in spite of faults in the middle of a bisection and of answers that
  are cut short.
* **Files** outlive the process. The CSV sink buffers, counts, rotates and reopens, and a row may be cut in two; a
  report can be cut short. Right means: whatever crashes, restarts and refusals of the disk come between, a file
  stays a table but for a known number of torn lines, and the loss is bounded; a stop loses nothing and comes to its
  end; the dashboard is served the latest report.
* **Configuration** comes in four layers that may contradict each other. Right means: what starts is what the last
  word asks for, and nothing is written without its consent.
* **The simulator** is what the rest is tested against. Right means: only gaps of its map read as illegal addresses,
  and its live registers go on moving whatever clients and the chaos layer do.
* **Conversions** exist twice, in the middleware and in the simulator, and must be each other's inverse.

## 2. Modules

### Scanner and ScannerHistory (abstract specification: ValueMirror)

`Scanner.tla` has one process per range. Its `poll[r]` is the Python stack of a suspended poll: `stack` holds the
requests of a bisection, the one in flight first and then the right halves the recursion still owes; `cursor` and
`remaining` are the locals of `_poll_once`; `pos` is where the `live_sub_ranges` generator resumes. `Proceed` is the
code that runs from an answer to the next request, so that every action of a task ends at the next `await` of a
read, or in the sleep. `reply[r]` is an answer the device has given and the task has not yet seen: in between the
device goes on, and so do the tasks.

| Action | Code |
|---|---|
| `BeginPoll` | `_run_range` leaves its sleep, `_poll_once` up to the first read |
| `DeviceAnswers` | the device takes the request: values as they are now, illegal address, or another exception (external) |
| `ReadValues` | `scanner.py:69` resumes with values: cache, events, all sinks; the sinks never suspend |
| `SinkRaises` | the same, but console or CSV raises on one event: the composite stops, so does the poll, and the cache is already updated |
| `ShortAnswer` | fewer values than asked for: the first ones are taken over, then `values[i]` ends the poll |
| `Bisect`, `MarkDead` | it resumes with illegal address for several addresses, for one |
| `DeviceRefuses` | with another exception than illegal address: an address of the request always fails |
| `ReadFails` | any exception in passing, before or after the device has answered |
| `DeviceChanges`, `DeviceStarts` | the plant; a unit that was still starting (external) |

`DeviceAnswers` has one answer under way at a time, over all ranges. That is the transport's doing: the lock is held
until the task that waits for an answer resumes, nothing suspends between there and the table, and the next request
is sent only after that. `KeepsTheLine` in Transport is that side of it, and the slip `DeviceAnswersAtOnce` shows
what the table would do without it. An answer longer than asked for is not modelled; the code ignores the rest of
it.

`fresh`, `skip` and `seen` are history variables. Abstracted: labels, time stamps and Modicon names of events, the
length of sleeps, the live table's event objects (their newest value stands for them).

`answers` is what the device answers for so far: `AtPowerOn` in the beginning, `Implemented` once the unit has come
up. `Broken` are addresses that fail for ever without being illegal, so that a batch with one of them ends every
poll: which addresses such a batch can hide is `InReach`. When a request has illegal and broken addresses, the
device may answer with either exception.

`ScannerHistory.tla` adds a record that only watches: `past`, every state the device has been in; `asOf`, which of
them the answer on its way to a range is from; `since`, which of them each value of the table is from. `ValueMirror`
(abstract specification) says what readers are promised: the table shows of each address what the device held there
at some moment, and that moment only moves forward. It may lag behind, but nothing in it is invented, shifted to
another address or bank, or put back by an answer that was on its way for long. `MirrorsDevice` instantiates it with
`copy <- latest`. `MCHistory` is its instance for TLC.

### Transport (abstract specification: ModbusLine)

`Transport.tla` has one process per caller and the pymodbus client objects. `pc` says at which await a caller is:
opening a socket, in the backoff sleep, waiting for the lock, waiting for an answer. `lockq` is the asyncio lock:
the owner, then its waiters in FIFO order. `Raise` is the path of a `ModbusTransportException` through
`ResilientModbusClient._invoke`: reconnect and retry the first time, give up the second time. `OpenClient` is
`connect()` up to its await; it replaces `_client` *before* the socket is open, as `tcp.py:20` does. Client objects
nobody refers to any more may be used again as names, which keeps the model finite. `options` are the two settings
that matter, whether writes are on and how many attempts to reconnect there are; they are chosen in the initial
state, so one run covers several. `clash` is a history variable: some client was opened while another task was
opening one.

`ModbusLine.tla` is what the callers are promised, without connections, locks and retries: a line that carries one
exchange at a time; a result that is the answer to an exchange of the call's own; a second exchange after trouble
only, a third never, none for a refused write. `KeepsTheLine` instantiates it: the calls in flight are on the line,
`sent` counts their exchanges, `result` is the outcome, and there has been trouble when `faults` is not 0. What the
tasks do to connect, wait and back off are stutters of it.

The behaviour starts when the lifespan has connected and ends before it disconnects. Abstracted: which read or write
it is, the length and jitter of the sleeps, logging. pymodbus is external: a socket opens, is refused, goes stale,
and is revived by pymodbus's own reconnection.

### LiveStream

`LiveStream.tla` follows an event from `LiveStateSink.emit` to the browser. A number given in the order of `emit`
stands for an event's value and time stamp. A page is not open, booting (waiting for `/api/state`), offline, or on a
subscription. `Connect` is `gen()` up to its first yield: subscribe, then snapshot. `wire` holds what is sent and
not received; it has a capacity, so a slow browser holds up the generator and its queue fills. `Disconnect` loses
what is on the way; `Unsubscribe` is the generator noticing.

Abstracted: rendering, the change history, keepalives, a failing fetch of `/api/state` (which leaves the page dead).

### Discovery

`Discovery.tla` is the single task of a run, one request at a time: the sweep of units, then for every unit and
object type the batches, each a stack of halves as in Scanner. `report` has the entries of each pair in the order in
which they were found; the code keeps them in three lists, which loses no more than their order. An entry for values
stands for one `AliveRegister` per address, from `first` to `last`; `asked` is the last address of the request it is
from. They differ when the answer was short (`FoundSome`): `_probe` lists as many addresses as there are values and
goes on, so the rest of the request is in no list (an answer with no value leaves an entry from `first` to `first -
1`, which lists nothing). Whether units are swept or configured is chosen in the initial state.

### Service, with CsvLog and ReportStore

`CsvLog.tla` is the CSV sink, `ReportStore.tla` the directory of discovery reports with its writer and its reader.
Neither has a next-state relation of its own: `Service.tla` extends both and says when their actions happen.

In CsvLog every disjunct of `Emit` is a whole call of `emit()`, since nothing in it suspends: `EmitBuffered` and
`EmitFlushed`, and three ways in which the disk refuses, each leaving the sink in another state: `FlushRaises` (what
was not written stays in the buffer), `CloseRaises` and `OpenRaises` (a rotation is half done and `_file` is a
closed file). `disk` has the lines of each file, `buffer` what the Python file object holds back; it may spill any
part of that once it is full. Neither a spill nor a failure keeps to whole rows: `split` says that a part of the
first line in the buffer is on the disk already. When the buffer is lost (a kill, a `close()` that fails), such a
line stays on the disk as a beginning without an end, `Torn`, or the loss itself cuts one; `losses` counts these.
The header may be torn like any row. Whatever is appended next (`csv_sink.py:43-44` looks at the size of the file
only) goes on in the torn line and shares its fate; the model keeps it as the line after, which `FilesAreTables`
says.

In ReportStore a report is the run it is of and the number of lines it has. File names are a time stamp or, for an
absolute `report_path`, none; the clock only goes forward, and two runs may fall within one second. `OpenReport` and
`CloseReport` have no await between them, so no request comes in between (`LoopFree` in Service); a kill, or an
error of the disk, does (`CutReport`).

| Action of Service | Code |
|---|---|
| `Start`, `Connected`, `ConnectGivesUp` | `make_app`, and the lifespan up to its `yield`: `connect()` comes before anything is served |
| `ConnectedTooLate` | the same when a stop is waiting already: uvicorn looks at it after start-up only, and goes through the second half or leaves at once |
| `ScanEmits` | an event of the polling engine reaches the CSV sink |
| `DiscoveryEnds`, `ReportWritten`, `ReportRaises` | `_run_discovery` from the end of the run on |
| `OpenStream`, `CloseStream` | a page's stream (external) |
| `BeginWrite`, `EndWrite` | a `POST /api/write` that waits for the client, which may be for as long as the device is away |
| `StopSignal`, `ForceQuit` | uvicorn (external): a stop, while connecting or serving, has it accept nothing more and wait for what is open, streams and writes; a second signal ends the wait without the lifespan |
| `CancelTasks`, `CloseSinks`, `Exit` | the `finally` of the lifespan, in its order |
| `Kill`, `NewDay` | the process is killed at any point; midnight |

`endless` is `max_attempts` below zero. Which rows are logged, and what they say, is left out: here any number of
events may come at any time.

### Config, WriteApi, Modicon and WordOrder, driven by Stateless

The parts without state are operators. `Modicon.tla`: printed addresses, a number with its count of digits.
`WordOrder.tla`: the simulator's encoder and the decoder of the middleware, registers being a pair of bytes.
`Config.tla`: the defaults are those of the code, four ranges and all; a layer is a function on the options that it
mentions, so that mentioning and not mentioning an option differ; `Load` is `load_config()`, with what the
environment and the command line make of their texts; `Valid` is `validate()`; `Allowed` is the truth of
`allow_writes`, which in the file may be a text in quotes (`PermissionInFile`); `MakeApp` is what `make_app()` and
`build_client()` choose. `WriteApi.tla`: `post_write()` with its checks in their order. Options that only set a
delay, a name or a path are left out of Config: they are overlaid in the same way.

`Stateless.tla` sends an input on its way through each of them, in two steps, so that the properties compare what
went in with what comes out. What a call of the client does meanwhile is Transport's subject; here it has an
outcome. What number four or eight bytes mean is `struct`'s business.

### Simulator

`Simulator.tla` is the PLC simulator with one unit: the maps `known`, `blank` and loaded ones (`map`), the live
rules, the register banks as one function on places (`store`), the option `--chaos`. A request (`Read`, `Write`) is
pymodbus calling `validate()`, where the noise is, and then the store; `Tick` is a round of `_ticker()`, which
writes to the store directly. Neither suspends, so each is an action. A round is not a second: the ticker sleeps a
second after each, and a delay of the noise (`chaos.py:86`, a blocking `time.sleep`) holds up the whole event loop
and the ticker with it. Nothing here is about time. `randint()` with its bounds the wrong way round raises: in
`validate()` that fails every request, in the ticker it ends the task, with the rules before it served a last time
(`Reached`). A YAML map may name a register twice, as `2` and as `"2"`: the later entry is what is loaded
(`Populate`) and the later rule what is seen after a round (`LastRules`). `Modulus` stands for 65536. `ticks` and
`touched` are history variables. The registers of a value are given, encoding being WordOrder's; the serial port is
left out.

### Slips

A definition marked "slip" is not the code's. It stands before the definition it garbles in a way such code invites
(a half forgotten, a guard dropped, a lock not released) and shows that some property notices. `PROJECT.json` lists
which.

## 3. What TLC checks

| Run | Instance | Shows |
|---|---|---|
| `scan_poll` | two overlapping ranges of one bank, 5 addresses: a hole, one that comes up late, one that always fails; 2 values, 2 changes, 1 failed or short read, 1 raising sink; fair | `PollIsComplete`, `NoWastedRequest`, `MirrorsUnlessSinkRaises`, `HolesAreFound` |
| `scan_snapshot` | two ranges that share an address of a unit that comes up late, a third on another unit that has been up from the start, over the same addresses; 2 changes, also while an answer is on its way, 1 failed or short read, 1 raising sink | `SnapshotIsLastRead`, `DeadIsReal`, and the refinement `MirrorsDevice` |
| `transport_live` | a scanning task and a writer, 4 clients, 2 faults, with writes on and no limit of attempts or writes off and one attempt; fair | `StateIsTrue`, `WritesGated`, `SingleFaultAbsorbed`, `CallsReturn`, `ConnectionRecovers`, and the refinement `KeepsTheLine` |
| `stream_pages` | two pages, 3 subscriptions, 2 keys, queues of 2, 3 events, 1 broken connection; fair | `NothingMissing`, `KeepsNewest`, `GridNeverGoesBack`, `GridCatchesUp` |
| `discover_report` | two types, 3 units (one absent), 8 addresses in batches of 5, swept or configured, 2 faults, 1 refusal, 1 short answer; fair | `ReportTiles`, `ReportIsTrue`, `LossesHaveACause`, `RunEnds` |
| `service` | 2 lives of the process in either mode, with or without a limit of attempts, 2 days, 5 events, `flush_every` 3, 2 reports, a page, a write, 1 refusal of the disk, kills anywhere; fair | `FilesAreTables`, `CrashTakesTheEnd`, `FailedRotationHeals`, `StopKeepsTheLog`, `LatestReportServed`, `LinesStay`, `StopTakesEffect` |
| `stateless` | 119 addresses around the edges, 3 bytes and all orders, texts up to 4, all combinations of layers that mention some of ten options, 6 values | `NamesAreRead`, `ValuesSurvive`, `BootIsAsked`, `WritesNeedConsent` |
| `simulator` | the known and the blank map of 3 registers, two loaded ones, registers that wrap after three rounds, five `--chaos` options of which three start; fair | `OnlyGapsAreIllegal`, `HeartbeatCounts`, `HeartbeatsGoOn` |
| `scan_sink_raises`, `transport_collision`, `discover_top`, `writes_blocked` | minimal | a disagreement each, section 5 |

The `TypeOK` of each state machine is checked in its first run; Stateless and Simulator have none, their values
being what the maps and inputs are made of.

**Bounds.** They are constants of the modules, named as bounds there: how often a device changes, reads fail, sinks
raise, faults happen, events are emitted, connections break. Ranges have two batches, a batch that is bisected
twice, a hole in the overlap and at the edge of a range, a late address beside one that always fails; two changes
let a value return to where it was between two polls, which one of two caches does not notice. In `scan_snapshot` an
address is read by two ranges while it changes, and one unit refuses at first what the other answers for. Transport
has one client object more than can be referred to at once, so a fresh one is always there; with two faults both the
try and the retry of a call can fail, or two callers reconnect at once. The queues of LiveStream are shorter than
the number of events, so they overflow while a page is connected. Discovery's short answer may fall into a whole
batch or into a half of one. Service has days, lives and events enough for a rotation between two rows, a spill
within a row, a restart on the same day behind a torn line, and a crash before and after the first flush; its two
reports may fall within one second and into two lives, and a stop may come while connecting, while a write waits, or
while a report is written. Stateless has the addresses where the digits change and the coils whose six digits look
like another type's five, and layers that contradict each other in every option the properties are about. In
Simulator a heartbeat wraps after three rounds, so it does so several times in a behaviour, one rule is upside down
between two heartbeats, and a heartbeat's register is overwritten by a second rule. Nothing in the code depends on
the sizes cut down here except by comparing with them.

**Deadlock** is checked except where the system comes to its end: LiveStream (the bounds are spent and all is
delivered), Discovery (the run is done), Service (the last process has ended), Stateless (every input has come out).

**Fairness.** Scanner: weak fairness of each task's polls and of its going on with an answer: asyncio runs ready
tasks, and sleeps end. Strong fairness of the device's answer to each range: requests take turns on the line, and
the transport's lock serves its waiters in order, so none is overtaken for ever; the transport answers or times out.
No fairness for failures. Transport: weak fairness of every step a task takes by itself and of opening a socket (a
refused open is a fault, and faults are bounded); nobody is obliged to write. LiveStream: the server sends, the
browser reads, EventSource reconnects by itself. Opening a page and emitting are not fair. Discovery: the one task
goes on. Service: the lifespan's second half goes on while it has nothing to wait for; connecting and a pending
write come to an end where the number of attempts has a limit, and only there; nobody is obliged to close a page, to
send a signal or to start the process again. Simulator: the ticker's sleep ends; no request need come.

## 4. What is proved

With TLAPS, for every value of the constants that satisfies the module's assumption.

| Theorem | Statement |
|---|---|
| `TypeCorrect`, `CompletePolls`, `NoRequestWasted`, `OnlyHolesAreDead`, `SnapshotKeepsUp` | `Spec => []TypeOK`, `[]PollIsComplete`, `[]NoWastedRequest`, `[]DeadIsReal`, `[]SnapshotIsLastRead` |
| `ScannerIsMirror` | `HistorySpec => MirrorsDevice`: Scanner, with the record of the past, implements ValueMirror |
| `PipelineTyped`, `LockAlwaysUsed`, `Serialized` | `Spec => []TypeOK`, `[]LockIsUsed`, `[]CallsSerialized` |
| `GuardHolds`, `StateCanBeTrusted`, `RetriedOnce` | `Spec => []WritesGated`, `[]StateIsTrue`, `[]ResendNeedsFault` |
| `FaultAbsorbed` | `Spec => []SingleFaultAbsorbed`, for any number of callers |
| `PipelineIsALine` | `Spec => KeepsTheLine`: Transport implements ModbusLine |
| `StreamTyped`, `NothingFallsBetween`, `OverflowKeepsNewest`, `GridOnlyAdvances` | `Spec => []TypeOK`, `[]NothingMissing`, `[]KeepsNewest`, `GridNeverGoesBack` (LiveStream) |
| `DiscoveryTyped`, `EveryAddressOnce`, `ReportsAreTrue`, `EveryLossIsPaid` | `Spec => []TypeOK`, `[]ReportTiles`, `[]ReportIsTrue`, `[]LossesHaveACause` (Discovery) |
| `ServiceTyped`, `FilesStayTables`, `RotationHeals`, `CrashTakesOnlyTheEnd`, `StopLosesNothing`, `LatestIsServed`, `WrittenLinesStay` | `Spec => []TypeOK`, `[]FilesAreTables`, `[]FailedRotationHeals`, `[]CrashTakesTheEnd`, `[]StopKeepsTheLog`, `[]LatestReportServed`, `LinesStay` (Service) |
| `PrintedNamesDiffer`, `PrintedNamesAreRead` | `Spec => []NamesDiffer`, `[]NamesAreRead` (Stateless) |
| `StartsAsAsked`, `NoWriteWithoutConsent`, `EncodedIsRead` | `Spec => []BootIsAsked`, `[]WritesNeedConsent`, `[]ValuesSurvive` (Stateless) |
| `BlockedByDefault` | if no file has its no in quotes, `Spec => []BlockedUnlessEnabled` (Stateless) |
| `IllegalIsAGap`, `HeartbeatCountsTicks` | `Spec => []OnlyGapsAreIllegal`, `[]HeartbeatCounts` (Simulator) |

**Scanner.** The inductive invariant is `TypeInv /\ PollInv`. `PollInv` says what a suspended poll has behind it and
before it: the stacked requests lie end to end and end at the cursor, what remains follows it, the generator's
position follows that, and every address below `Frontier` is fresh or dead. Completeness is this invariant at the
moment the generator has nothing left; the type invariant needs it, because that a half or a batch has at least one
address follows from where it lies. `SnapInv` adds that, without a sink failure, cache, table and last answer agree
on addresses of one range only. `DeadInv` needs what an answer on its way says to be still true when it is used:
`ReplyInv`, for an address that a unit answers for from the start is never in an illegal answer, however late it is
seen.

The refinement rests on `MirrorInv`. `PastInv`: the newest moment of the record is the device's state. `OneAnswer`:
at most one answer is on its way. `AnswerInv`: its values are those of its moment, for the very addresses of the
request in flight, and nothing in the table is from a later moment. So what a task writes is one moment of the past,
not older than what it replaces, whichever part of the answer it takes over (all of it, what a raising sink has let
through, or the beginning that a short answer has). A change of the device, an answer given and an answer dropped
are stutters or `DeviceMoves`. Without `OneAnswer` it is false: two ranges with an address in common could write
their answers in the other order than the device gave them.

**Transport.** `TypeInv` contains the shape of the lock: its queue has no repetition, exactly the queued and
in-flight tasks are in it, and who is in flight is its head. Serialization is a corollary. The other invariants are
proved over it one by one; each says of the tasks what they can be doing in a given state of the connection. The
refinement needs them together (`LineInv`): the lock says who is on the line, the guard who may be (`WritesGated`),
`SendInv` why there is a second exchange, and `ResultInv` that a result is out exactly while the call is at its end.
With it every action is an exchange, a reply, a break, a giving up, a refusal, a return, a trouble, or a stutter of
ModbusLine.

`FaultAbsorbed` is about one fault and any number of callers, writers and readers, in flight, in the queue of the
lock or about to call. `AbsorbInv` says of the time in which there is no more than one fault and no two tasks have
been opening clients at once (`Calm`): at most one task reconnects, which is the one the fault hit, on its second
try; while it does so nobody is on the line; when it is back its connection is current and open, and nothing can
break that any more; and nobody else has any reason to reconnect. Where two tasks do open clients at once the
promise is not kept, and `transport_collision` shows it: this is the property's only exception, and it speaks of
what happens, not of how many callers there are.

**LiveStream.** `StreamInv` joins `NothingMissing` and `KeepsNewest` with four things that they need: the table and
its keys agree (`TableInv`); what is on the wire, still to send of the snapshot, and queued is in the order of
emission, in this order (`OrderInv`); no grid and nothing on its way is ahead of the table, nor a grid ahead of what
is on its way to it (`GridInv`); and a page has a subscription of its own (`PageInv`). That a grid never goes back
follows from `GridInv` step by step: what is received is not older than what it replaces.

**Discovery.** `TileInv` is the frontier argument of Scanner for a report: the entries of a pair lie end to end from
the start of the range, the open requests lie end to end from there to the cursor, and none is longer than a batch.
Popping the first request for an entry (`Popped`, `Entered`) and halving it (`Halved`) keep it so; a pair that ends
has nothing open and its cursor at the end. The argument is about what was asked for; what an entry lists is all of
that, or less if values were missing. `TruthInv` says what an entry means, and that a sweep's units are below the
one it asks next, hence different. `LossInv` counts: the units passed over and the entries that are in error or cut
short (`Gaps`) are finitely many, and together no more than the faults, refusals and short answers so far. A step
adds to either only by spending one of these.

**Service.** The files and the row buffer are proved about first, then what is lost. `FileInv`: what is on the disk
is a table whose lines may be torn, and the file that is open is one with the buffer behind it, so that whatever
part of the buffer is spilt and wherever a crash cuts it, within a line or between two, such a table remains; a
closed handle has a day in the past, so the next event opens anew. `TearInv` counts: the torn lines are finitely
many and no more than the buffers that were lost, since a step tears at most one line and does so only with a loss.
Appending is all that is ever done to a file, which is `LinesStay`. `LogInv` is about the rows accepted: those of a
life that are neither whole on the disk nor forfeited by a `close()` that failed (`Risk`) are the end of the log, no
more than the counter of unflushed rows, and all of them are in the buffer (`Covered`) while the process lives. The
counter is below `flush_every` as long as the disk has not refused; it is a bound only, for a rotation writes the
buffer out and leaves the counter as it is. `ReportInv`: the newest report is that of the last run opened, it alone
may be incomplete, and only while it is being written or when it was cut. `LifeInv` says that no task runs outside
the served part of a life, so nothing is logged after the sinks are closed.

**Stateless.** The invariant `PathInv` says that what is halfway was made of the input, and what comes out of that;
with it the theorems are about operators: `PrintedOnce`, that no two points are printed alike, since the part after
the prefix is smaller than the prefix's weight; `ReadBack`, that parsing undoes printing, and for which coils it
does not; `LoadOf`, that what is loaded is each option's last word, and from it what is started, what is refused and
what is written. `NoWriteWithoutConsent` is about the code as it is: the last word enables writes, or it is the one
text that says no and is taken for a yes. `BlockedByDefault` is the documents' promise, with the hypothesis it
needs. For `EncodedIsRead` the same is said of each kind of value (`ShortInv`, `WideInv`, `TextInv`); `TableIsLoop`
has the decoder's table and its loop agree, `BytesReturn` the bytes of a text come back from even sizes,
`TrimmedIsKept` what is cut off at the end is padding and no more. TLC tries 119 addresses, 3 bytes, short texts and
some layers, the theorems speak of all. (The upper bound of an address has a name, `Top`, for the prover's sake: it
writes intervals of numerals out.)

**Simulator.** `PlaceInv`: the places are those of the map for ever, since a request that names any other is refused
before it is carried out and the ticker writes to places that are there. That the places loaded are those of the
map, and register 0 of each bank it leaves out (`Spare`, in the proofs), is a fact about overlapping entries of any
number (`LoadedPlaces`), that a live rule has a place (`RuleInv`) one about how the rules are collected
(`LiveIsMapped`). `BeatInv`: a rule that is reached has counted every round, whatever is in its register; as only
one rule has the last word on a register (`LastIsAlone`), what it writes stays there until a client or the next
round comes.

The theorems take the constants' assumptions (`ScannerAssumption`, `TransportAssumption`, `LiveStreamAssumption`,
`DiscoveryAssumption`, `CsvLogAssumption`, `ReportStoreAssumption`, `ServiceAssumption`, `StatelessAssumption`,
`SimulatorAssumption`) and nothing else, `BlockedByDefault` excepted. `StatelessAssumption` keeps the byte zero out
of `Byte`, since a text that ends in zeros does not survive (the decoder strips them); bytes of numbers may be zero.
`SimulatorAssumption` says what the maps are made of.

Only model-checked: everything under fairness, `MirrorsUnlessSinkRaises`, `HolesAreFound`, `CallsReturn`,
`ConnectionRecovers`, `GridCatchesUp`, `RunEnds`, `StopTakesEffect` and `HeartbeatsGoOn`, since liveness and
`ENABLED` are out of the prover's reach. Every invariant and action property that a passing run checks is a theorem.

## 5. Where code and documents disagree

* `scan_sink_raises`: the cache takes a value before the sinks see the event; when one before the live sink raises,
  the live table is wrong until the value changes again (`scanner.py:84`): `EventuallyMirrors` fails, and
  `MirrorsUnlessSinkRaises` is what is left of it.
* `transport_collision`: two callers that saw the same fault reconnect one over the other; one of them gets the
  error although it retried (`tcp.py:20`, `resilient.py:62`). Two more consequences, seen while modelling and not
  kept as runs: a task that wakes from its backoff replaces a connection another task has restored meanwhile
  (`resilient.py:54` does not look at the state), and two callers may replace each other's clients without end after
  the network has recovered. Clients that were replaced are never closed.
* `discover_top`: a range that ends at 65535 is probed up to 65534 (`discovery.py:55`).
* `writes_blocked`: `allow_writes: "false"`, in quotes, in the file enables writes. The option is taken as it is
  (`config_loader.py:59`), and the guard and the endpoint ask whether it is true (`safety.py:28`); `README.md:65`
  says that writes are blocked unless explicitly enabled, `config.example.yaml:24` likewise. `WritesNeedConsent` has
  this one text as its exception, and no other.

Seen while modelling, without a run of their own:

* Two ranges with an address in common have a cache each, and a change is told only by the one that sees it. The
  table may show a value that another range has since seen replaced, for a while: `SnapshotIsLastRead` speaks of
  unshared addresses. If one of the two no longer gets to the address, since a batch before it always fails, it may
  be for ever: it told a value once, the device went back to what the other's cache holds, and no poll sees a
  difference (`scanner.py:41`, `scanner.py:82`). `MirrorsUnlessSinkRaises` asks of every range that covers an
  address that it reaches it; with a weaker condition TLC finds this.
* A short answer to a discovery probe leaves addresses in no list of the report, neither alive nor dead nor in error
  (`discovery.py:69` goes through the values, not the addresses). `ReportTiles` and `LossesHaveACause` say where and
  how often.
* A row that a crash has cut in two has the next row appended to it, for `csv_sink.py:43-44` looks at whether the
  file is empty and not at how it ends: that row is spoiled too. A torn header stays torn. `CrashTakesTheEnd` and
  `StopKeepsTheLog` count such a row as written, which it is, though not on a line of its own.
* A full queue may drop the newest value of a quiet address (`GridCatchesUp` excepts what was dropped).
* The snapshot a stream starts with goes into the page's change history too (`app.js:65`), which `RUNNING.md:34`
  calls a log "of every change as it happens".
* With an absolute `report_path` the report is written without a stamp, while the reader prefers stamped files
  beside it, however old (`LatestReportServed` excepts this as `Shadowed`).
* The printed address of a coil from 9999 on is not read back by `parse()` (`Misread` in Stateless).
* A string of odd length in the simulator's map has its last character in the wrong half of its register.
* An open dashboard page keeps uvicorn from the second half of the lifespan, and so does a pending write while the
  device is away and `max_attempts` has no limit; a stop during start-up waits for `connect()` in the same way
  (`StopTakesEffect` names these three). Whoever then quits by force or kills the process has nothing flushed. If
  the flush of the sinks fails, `aclose()` is skipped.
* With `max_attempts = -1` there is no dashboard before the first connection.
* `DW_TRANSPORT=tcp` is refused by `validate()`, while `--transport tcp` is accepted. A misspelt mode is a scan, and
  a range of addresses or a discovery beyond 65535 is not refused.
* A request in flight may outlive its answer's meaning: one range marks an address of a starting unit dead, and the
  answer that another range is waiting for brings a value for it. The table keeps that value for ever, since nobody
  asks again (`MirrorsUnlessSinkRaises` speaks of the addresses that answer from the start).
* An address that is marked dead moves the batches behind it, so that addresses which were read so far can fall into
  a batch that always fails (`InReach` takes all positions of a batch).
* A bank which the simulator's map leaves out answers at register 0 (`plc_sim.py:212`), where the comment at
  `plc_sim.py:211`, the docstring at `:209` and `plc-simulator/README.md:25` want an error. `OnlyGapsAreIllegal`
  speaks of the banks that the map names a register of, and says nothing of the others.
* The simulator's heartbeat counts from 1 whatever `value` its entry has, and overwrites what clients write.
* One random rule with `min` above `max` ends the ticker, silently; a `delay` with its bounds the wrong way round
  fails every request.
* The chaos layer raises one exception only, which clients see as SLAVE_DEVICE_FAILURE; the SERVER_DEVICE_BUSY of
  `chaos.py:5` does not exist, and `gaps=0` of `chaos.py:9` is refused by `parse_spec()`. So the dead-address
  tracker, for which `plc-simulator/README.md:72` recommends it, never learns anything from it
  (`OnlyGapsAreIllegal`).

## 6. Not modelled, and the plan

The plan was: the polling engine first, as the core of the program, with its abstract specification and its proofs;
the transport pipeline below it and the live stream above it; discovery; the files and the life of the process; what
keeps no state; the simulator. These modules are written. What is left, in this order:

1. **Transport**: `disconnect()` and the cancellation of waiting calls, as the lifespan has them. Service has the
   order of the steps; what cancelling does to a call inside pymodbus is not visible in this repository.
2. **Composition**: Scanner over Transport. Here a failed read is a step of its own, bounded like the faults of
   Transport; the two meet in `KeepsTheLine`, which is all that Scanner relies on.

Left out for good: rendering, the endpoints that only read (`/api/health`, `/api/config`), launch scripts, logging;
live values beyond 16 bits in a simulator map, which fail in pymodbus when they are read; other unit ids than the
simulator's own, which pymodbus answers.
