# Verification of the DISCOS observation control

DISCOS controls three radio telescopes (Medicina, Noto, SRT). It is a set of
ACS/CORBA components in C++ and Python: *bosses* that drive a subsystem
(antenna, minor servos, receivers, active surface), *backends* that produce
data, *data receivers* that write or reduce them, and the *scheduler*, which
makes all of them observe: by hand, command after command, or by a schedule.

This directory models the scheduler, where the order of events, the partial
failures and the concurrency of the whole system meet, and then the components
it commands, one of each kind: the antenna boss with the mount of the SRT, a
backend, a data receiver, the dewar positioner, the boss of the minor servos.
They are what a recording goes through, and each of them has threads of its own
that go on between the calls of the scheduler.

Contents: [inventory](#inventory), [modules](#modules),
[model and code](#model-and-code), [runs](#runs), [fairness](#fairness),
[proofs](#proofs), [what the models showed](#what-the-models-showed),
[what is not modelled](#what-is-not-modelled), [plan](#plan).

## Inventory

Paths are relative to `src/`.

### Scheduler (`Common/Servers/Scheduler`)

| Part | State | Operations | Hard behaviour | What makes it correct |
|---|---|---|---|---|
| **Schedule executor** (`ScheduleExecutor.cpp`): the thread that runs a schedule | stage, go-ahead, stop and halt flags, position in the list, repetition, end of the subscan, last scheduled time | `runLoop` (15 stages, many fall through), `startSchedule`, `stopSchedule`, timer and procedure callbacks | callbacks that write flags without the mutex; failures at every remote call; events left in the timer; waits for a wake-up | every recording has an end, the end belongs to its subscan, nobody waits for ever, stop and halt work |
| **Core, data transfer** (`Core_Basic.i`, `Core_Common.i`) | four stream flags, telescope flag, status | connect, header, scan, transfer, stop, terminate, disconnect; `checkScan`, `doScan`, `closeScan` | chains of remote calls that raise half way | the flags stay a chain from which every primitive works |
| **Core, operations by hand** (`Core_Operations.i`, `Core.cpp`) | the abort flag, epochs and identifiers; the stream, shared with the executor | `initRecording`, `startRecording`, `terminateScan`, waits, `abort`, on-the-fly scans, macros | concurrent CORBA threads; check and use separated by the release of the mutex; one abort flag for everybody | one recording at a time, somebody in charge of every recording |
| **Schedule in memory** (`Schedule.cpp`) | the list of subscans and of procedures | selection in SEQ, TIMETAGGED, LST mode | the wrap of the LST selection | the selection stays in the list and visits it |
| **Schedule files** (`Schedule_ScanList.cpp`, `SubScanBinder.cpp`, checker) | parsed tables | parsing, conversion of subscans into telescope parameters | text | sequential, unit-testable |
| **Report** (`ScheduleReport.cpp`) | active flag, lock file | activate, deactivate | its flag *is* "a schedule is active" | follows the executor |
| **fTrack, callTSys** (`Core_Operations.i`) | rest frequencies | tuning of the oscillators, system temperatures | numeric | formulas |

The executor calls the core for everything. The core calls the antenna, minor
servo and receiver bosses, the default backend and the default data receiver,
over CORBA; each call may raise. The parser calls the core (commands) and the
executor (end of a procedure) from its own threads; the timer calls the
executor and the waits of the core from another one. Clients call the core
through `SchedulerImpl.cpp`, in one thread per call.

### Libraries

* **Parser** (`Common/Libraries/ParserLibrary`): queue of commands, a worker, a
  time-tagged queue; procedures nest. Hard: who calls back, how often, and
  what if the procedure is refused. Correct if the callback comes once, at the
  end.
* **Schedule timer** (`Common/Libraries/IRALibrary/src/ScheduleTimer.cpp`): a
  list of events beside an ACE timer queue. Hard: the list is changed under the
  mutex of the core by some threads, without it by the timer thread.
* ComponentProxy, ModbusChannel, DiscosBackendProtocol, Xarcos, QtGraphics,
  TextWindow: plumbing and user interfaces.

### Other servers

* **Antenna boss** (`Common/Servers/AntennaBoss`) over a **mount**
  (`SRT/Servers/SRTMount`). State: the generator in use and its offsets, the
  last track, the tracking flag; in the mount the mode, the stow pins, the table of
  points. A working thread loads points, a watching thread looks at the
  encoders, callbacks of the mount come by themselves. Hard: an operation that
  fails half way, the working thread that runs with what it read before, stow
  and unstow that go on after the call. Correct if what the boss reports is what
  the generator computes and the mount follows.
* **Data receivers** (`FitsWriter`, `MBFitsWriter`, `CalibrationTool`). State:
  flags, a cache of dumps, the open file. The bulk-data callbacks fill the cache,
  the engine thread empties it, the component starts, stops and resets. Hard: flags that are
  read without the mutex; stop, reset and new headers while the engine works on a file.
  Correct if a file holds the data of its own subscan, all of them, and a stop is answered.
* **Backends** (`TotalPower`, Sardara, XBackend, Holography, DBBC). State: the
  command line with its status bits, the board, the flags of the sender thread.
  Hard: answers that come late or not at all, reconnection, a stop that two
  threads hand to each other. Correct if status and board agree, and if dumps
  flow only between sendData and sendStop.
* **Dewar positioner** (`PyDewarPositioner`). State: the control object, the
  thread, two locks. Hard: some operations hold the lock throughout, some for a
  part, some never; rewinding waits for the user or for the derotator. Correct
  if one thread moves the derotator and the flags tell of it.
* **Minor servos** (`SRTMinorServo`; Medicina and Noto have their own). State:
  seven flags, a tracking, a setup, a park and a scan thread. Hard: no lock at
  all around operations and threads. Correct if the tracking follows its flag,
  a scan has its servo for itself, and the flags fall.
* **Receivers boss, receivers** (`ReceiversBoss`, `SRT*Receiver`): dispatch to
  the receiver in use, serial boards. **Active surface**, **local
  oscillators**, **weather**, **noise generator**, **loggers**: device protocols.
* **Astronomy** (SkySource, OTF, Moon, Refraction, PointingModel): floating point.
* Clients, simulators, configuration: no state of the system.

The list of hazards, each at its line with the properties that cover it or the
reason why none does, is in `PROJECT.json`.

## Modules

| Module | Stands for | Uses |
|---|---|---|
| `StreamOps` | the data-transfer primitives as sets of outcomes: flags after the call and the remote call that raised | |
| `ScheduleList` | the list of subscans, what `readAll()` guarantees of it, the selection of the next one | |
| `ScheduleExecutor` | the executor, the timer and the parser as it sees them | extends `ScheduleList`, `StreamOps` |
| `RecordingSession` | abstract: subscans are recorded one at a time, only while a schedule runs; every recording ends | refined by `ScheduleExecutor` |
| `CoreRecording` | the operations by hand, commanded by concurrent clients, over a schedule | extends `StreamOps` |
| `SchedulerLocks` | the locks of the scheduler and the order in which its threads take them | |
| `DataRecorder` | the FITS writer composed with the core that commands it and the flow of a backend | |
| `TotalPowerBackend` | the total power backend: command line, board, sender and control threads | |
| `BackendStream` | abstract: what a backend promises of its dumps | refined by `TotalPowerBackend` |
| `SRTMount` | the mount of the SRT as functions of its state, and what goes on in it by itself | |
| `AntennaBoss` | the antenna boss over that mount | extends `SRTMount` |
| `DewarPositioner` | the dewar positioner: clients, thread, rewinding | |
| `MinorServoBoss` | the boss of the minor servos of the SRT | |
| `MCExecutor`, `MCCore`, `MCAntenna`, `MCDewar` | small schedules, commands, offsets; symmetry | |
| `StreamOpsProofs`, `ScheduleExecutorProofs`, `CoreProofs`, `RecorderProofs`, `TotalPowerProofs`, `AntennaProofs`, `DewarProofs`, `MinorServoProofs` | lemmas and theorems | |

Two refinements: `ScheduleExecutor` implements `RecordingSession` under the mapping
*running* = a schedule is active, *recording* = the subscan whose stream is
started; `TotalPowerBackend` implements `BackendStream` under *go* = `m_go` of the
sender thread, *open* = the receiver got a dump after the last stop, *asked* =
who waits in `sendStop`. To `CoreRecording` the schedule is an
environment that may call any primitive while it is active (`ScheduleCalls`,
`ScheduleEnds`); that the executor does no more than that is the theorem
`CoreStepsOnly`, so the two modules are one argument. To
`DataRecorder` the backend is the abstract stream and the core is the sequence of
calls of `Core_Basic.i`, with its early exits.

## Model and code

### Scheduler

**Primitives.** `disableDataTransfer` clears each flag *before* its remote call,
`enableDataTransfer`, `startDataTansfer` and `stopDataTransfer` change theirs
*after*. `DisableOutcomes`, `EnableOutcomes`, ... list, for given flags, every
call at which the chain can break and what the flags are then. `Faults` names
the classes of failures an instance allows; without a fault, the failures that
the code itself raises (a stream that is not prepared, one already started)
remain.

**Executor.** One action per case of the switch in `runLoop()`, several where the
case has several ways out; `stage` is `m_stage`. The thread holds `m_mutex` for a whole
call of `runLoop()`; a call runs through several stages when a case does not
`break`. `pc` is `"in"` inside a call and `"out"` between two calls: operator
commands and the stop event, which take the mutex, need `"out"`; restart events and
procedure callbacks do not take it and interleave with every action. `"armed"`
is the point of STARTTIME_WAIT between the scheduling of the restart event and
`m_goAhead=false`. `cleanScan()` and `cleanSchedule()` are operators that the failing actions
use, so a failure and its clean-up are one step. The mutex of the core is
folded into the atomicity of the actions: each remote chain is one step of the
executor.

A subscan has a start time (`m_currentScan.ut`, `Timed`) if the LST selection gave it one or if it is
on-the-fly, for which `checkScan` gives it one in every mode. `SCAN_START` then starts it without looking at the tracking, or skips it
if it is late, which is a choice (fault `"late"`); without a start time it waits for the tracking flag. The timer is a set of events at distinct times; `Times` bounds how
many can be pending, since only order and identity of events matter.
`scansCounter` saturates at 1: the code only tests it against 0. `repetition`
is counted where it is compared, otherwise it would grow for ever.
`m_startRecordTime` is not initialized by the code: its first value is free.

**Procedures.** The parser is a queue of the commands that have a callback. A
command that raises calls back twice, first with `false`. What `runAsync`
answers depends on the kind of procedure (`ProcKinds`): unknown names are
not answered; empty and invalid bodies are answered before it returns; a nested
procedure gets the callback too.

**Operations by hand.** `at[c]` is where client *c* is in its operation, `job[c]` what is left of
its command; an exception drops the rest of a macro. A step is what happens
between two points at which the thread releases the mutex of the core or
waits. `closing` is the wait of `closeScan(true)` inside `startScan`, which
releases only the inner lock of the recursive mutex: nobody else gets it
(`FreeFor`). `checked` is the window in which `_startRecording` has released the
mutex to load the logger. `abort` is the one flag that the waits clear when they
begin and when they see it.

**Locks.** In `SchedulerLocks` an operation is the list of its steps: take a
lock, drop it, change the timer, look at the schedule. What the operations do is
in the two modules above, where each is one step. The recursion of the
`ThreadSyncGuard` and the queue lock that the ACE adapter holds while a handler
runs are external. Waits end by the clock, so they are no step.

### FITS writer (`DataRecorder`)

`coll` are the flags of `CDataCollection` with the file name and the headers that
`startSubScan`, `startScan` and `cbStart` set; `dumps` its cache; `engine` is where the loop
of the engine thread is. The loop is cut wherever another thread can change what
it has read, or the engine works for long: creating a file, writing its
headers, draining the cache, closing. The flow delivers in order, after any delay.
The core (`core.pc`) goes through the steps of `DataReceiver.idl`, or leaves them
through `Abort`, `AbortRecording`, `AbortScan`, and may reset a recorder that refuses.
`orderly` remembers that the core did what the IDL asks: it waited for each
stop to be answered, stopped only after the file was open, and did not break off.
The core sends the dumps of a subscan one after the other, so `sent`, their number, says
which they are. On their way they are in the file, the cache or the flow, and `OwnFile` and
`NothingLost` are about the three together: they carry the dumps of the subscan, in order, once
each but for those the cache refused (`InOrder`, `Carries`). Both speak of orderly scans; what
happens otherwise is in the findings.

### Total power backend (`TotalPowerBackend`)

An exchange with the board is a set of outcomes (`Exchange`): acknowledged, refused,
late, or the connection breaks. Of the last two nobody knows whether the board did
it; `doubt` remembers that, and the late answer is read by the next command
(`timedout`). `OnConnect` is the callback of the socket, which does not take the
mutex. The sender thread is cut at the reading of its flags (`top`, `check`,
`emit`); `sendStop` raises `m_stop` and looks ten times a second whether it is
down.

### Antenna boss and mount (`SRTMount`, `AntennaBoss`)

`SRTMount` gives each operation of the mount as a function from its state to the
one it leaves; `NextPoint`, `UnstowAction` and `StowAction` are what the mount does by
itself. The boss holds its mutex in an operation, so an operation is a step, unless it
waits (`BeginScan` to its end: the preparation of a scan calls the mount and the
generators). A failing remote call leaves what was assigned before it: `CommandFails`,
`RefuseScan`, `StowFails`, `SetupFails`. The working thread is woken, may wait for the
mutex while an operation suspends it (`worker.waiting`), and then loads a point
anyway. The watching thread samples and judges in two steps without the mutex.
A trajectory is named by what its generator was configured with: kind, target
and offset (`Aim`); offsets add up within a frame, otherwise that of the scan
prevails, as in `addOffsets`.

### Dewar positioner (`DewarPositioner`)

`control` is the `Control` object with the fields that decide; `call[c]` the
operation a client is in and how far: `acquire` the general lock, `join` the
thread after the stop flag, `go`, `started` (the tenth of a second after a
start), `parked`. A thread goes `born`, `ready`, `loop`, `manual` (it waits for the user to
rewind), `lock` and `poll` (rewinding), `end`. Angles are replaced by the name of the
place that was commanded and the offset that was added. A wait for a thread that
gives up after two seconds, and a thread that has not begun after a tenth, are
possible but remembered (`late`), and so is an operation entered while another one,
which the lock does not exclude, is going on (`crossed`): `Orderly` excludes
them in the three safety properties. `GivenUp` happens only to a thread in a call of the
derotator or waiting for a lock.

### Minor servos (`MinorServoBoss`)

No lock protects the operations, so an operation of a client is not a step: `call[c]` says at which place of it client
*c* is, and what it read of the flag of the tracking on the way (`was`). It is cut wherever it reads or changes what another one changes:
between the setting of the flag, the look at the configuration and the switch (`SetElevationTracking`, `Look`, `TurnOn`, `TurnOff`), between the reading of
`wasTrackingEn` and its use (`SetASConfiguration`, `Restore`), inside `init` and during the five seconds before the setup thread starts
(`InitBegins` ... `StartSetup`), and before the flag of a park is raised (`StartPark`). The setup thread and the
scans are cut in the same way (`SetupDone`, `SetupTracks`, `SetupEnds`; `ScanReads`, `ScanStops`, `ScanBegins`). The two mutexes
there are in the code are tried, not waited for: an operation that finds one taken raises.
`Outcome`s of switching the tracking say whether the thread runs and whether the call
raised. Scans come from the scheduler, which serialises `startScan` and `closeScan`.

`past` remembers what the properties have to know. `crossed`: two operations that touch the tracking were under way together, or one in a scan.
`doubted`: the tracking may differ from its flag, because the last of them was crossed, raised, or found no configuration; a switch by
hand that nothing crosses settles it again. `joined`: somebody may have switched the tracking on since the scan began. `stuck`: a thread could not be restarted. Each is a finding of its own.

## Runs

| Run | What it shows | Bounds |
|---|---|---|
| `timetagged` | no recording without an end in sight, stop events owned, flags a chain, under **every** fault at every call | an on-the-fly recording, which may be late, after a blocking procedure, a dry run before a refused one; two times, two queued commands |
| `lst` | the LST selection, at any sidereal time, stays inside the list; no subscan is commanded over an open one | three subscans (two of a scan, one of no duration, one on another backend), two repetitions |
| `seq` | nobody waits in vain; stop and halt are honoured; the executor implements `RecordingSession` with its liveness | two recordings, the second on-the-fly, a procedure that is waited for, one that is refused |
| `core_clients` | a started stream has somebody in charge, is never taken over, ends; the flags stay a chain | two clients: a skydip and the single operations; a schedule that starts, calls anything and ends; aborts at any time |
| `scheduler_locks` | **violation** of `OperatorServed`: see below | two clients, the executor, the timer thread |
| `recorder_orderly` | every dump ends in the file of its subscan, in order, but for those the cache refused; no subscan refused; headers and summary not replaced under the engine; stops answered | two scans, three subscans, two dumps each, a cache of one, one file that cannot be created |
| `backend_transfer` | status agrees with the board; the backend implements `BackendStream`; `sendStop` returns | two callers, two faults |
| `antenna_scans` | reported offsets are those of the trajectory, last track commanded, the table has points of the scan only | any three commands of two targets, one fault, one sample, a table of two points |
| `antenna_followed` | an accepted scan is reached with its offsets unless somebody prevents it; the mount does not stay busy | any two commands, two faults, no sample |
| `dewar_calls` | one mover; `isUpdating` tells the truth; failures reported only for a scan that died | any three calls of two clients, two threads |
| `dewar_alone` | an offset accepted is commanded; every call returns | one client, three calls |
| `minor_servo` | tracking follows its flag when all is quiet, a scan has its servo alone, setups and parks end | any three operations of two clients, scans without a bound, all five faults |

`CHECK_DEADLOCK FALSE` is in the configurations in which the system may come to rest: the clients
of the core, of the backend, of the antenna and of the dewar need not command anything, and the core of the recorder
has done its scans; in `scheduler_locks`, threads at rest are not the point, those in a knot are. The executor and the minor servos are checked for it.
A thread of the executor that waits for ever shows as a failure of
`NoOrphanWait` or of the liveness properties, since the operator can always act.

*Why the bounds are enough.* The executor has one subscan in its hands at a time and
remembers of the previous one only the scan identifier, the backend, the start time and
what it left in the timer, the parser and the stream: two subscans reach all
combinations of a predecessor and a successor, a third one the skip of the LST
selection. Two times allow the two events that can be pending together; where a third would be needed the guard of
`AddEvent` stops the growth. Two queued commands allow a late callback of one
procedure to meet the wait for another. The recorder has one file open and one subscan
requested: two scans of three subscans have a subscan after a subscan and after
a scan; a cache of one is full and empty at each dump. An antenna command can
leave something to the next one, and that to a third. Of the clients of the core and of the
dewar, two are enough for the pairs check/use, owner/stopper, stop/start; that no more happens with
three is what the theorems say. Of the operations on the minor servos three are enough
for a setup and any two that cross each other in what it left, beside a scan or the end of the setup; that
the properties hold for more is what the theorems say, too.

## Fairness

* *Executor*: `WF(RunLoop)`: the ACS thread calls `runLoop()` again and again while the
  schedule is active. `SF(StopFires)`: the handler needs `m_mutex`, which the executor releases between
  two calls and sleeps: it is free over and over, not all the time.
  `WF(RestartFires)`, `WF(CommandDone)`: the timer and the worker of the parser run, and
  take no lock of the executor.
  `WF(Tracks)`, `WF(CloseTimeElapses)`, `WF(RecorderDrains)`: the telescope reaches its
  target, the time it asked for passes, the recorder empties its cache. Without them
  a schedule may legitimately wait for ever for the telescope.
* *Core*: `SF(Advance(c))`: the thread of a client runs, and gets the mutex of the core,
  whose holder waits at most for a time.
* *Recorder*: `WF(Engine)`, `WF(Deliver)`: the engine thread and the bulk data transfer run;
  `WF(RecordingCompleted)`: the core keeps asking.
* *Backend*: `SF(Sender)`: the mutex it needs is held for a time only;
  `SF(SendStopReturns(c))`: the caller looks ten times a second and meets `m_stop` down if it is down over and over;
  `WF` of the second halves of `sendData` and `sendStop`.
* *Antenna*: `WF(Scan)`, `WF(Worker)`: an operation that has begun and the working thread go on;
  `WF(NextPoint)`, `WF(UnstowAction)`, `WF(StowAction)`: the mount does what it is at.
* *Dewar*: `WF` of every thread and of every client that is in an operation; `SF(TakeRewinding(c))`: the rewinding lock
  is free over and over while a scan rewinds again and again.
* *Minor servos*: `WF(Proceed(c))`: an operation that has begun waits for nothing but the five seconds of a setup;
  `WF` of the setup thread, `WF(ParkEnds)`: every thread counts its rounds and gives up. Scans have none.

Operator commands, aborts, start and end of schedules, requests of clients, and failures have no fairness: they need
not happen. `CommandRaises` has none, so a procedure may fail or not.

## Proofs

All theorems hold for every value of the constants that satisfies the assumptions: every
schedule that satisfies what the reader checks
(`ScheduleAssumption`), every mode, number of repetitions, set of times and faults, bound of the
queue (`ExecutorAssumption`), any set of clients and commands
(`CoreAssumption`), any callers, clients, threads, targets, offsets and bounds (`BackendBounds`, `AntennaBounds`,
`TableHolds`, `PositionerBounds`, `ServoBounds`). The one assumption that is not a type is
`Mode = "LST" => Len(SubScans) > 1`: with a single subscan the LST selection
reads past the end of the list.

* **Primitives** (`StreamOpsProofs`): disabling stops the stream and leaves a chain
  whatever call raises, even when the scan was closed under it; enabling starts
  nothing; a start needs a stopped stream and an open scan; a stop that
  succeeds stops. What several failing primitives do to the flags in a row, a single one can
  do as well (`Below`, `CallReaches`).
* **Executor** (`InvariantHolds`): `ExecutorInvariant` is inductive. The
  properties alone are not: that a stop event is the one the executor can cancel needs to
  know that before STOP_SCHEDULING no end has been noted (`BeforeStop`); that
  nothing runs away needs to know what an inactive schedule and a thread in STARTTIME_WAIT
  look like; indexing the list needs the counter to be valid in the stages that
  have a subscan. One lemma per action, and two for the ways out of a failure, `CleanScanKeeps`
  and `CleanScheduleKeeps`, which a dozen actions cite. `TypeCorrect`, `NoRunaway`, `StopOwned`,
  `StreamChain` follow.
  `WaitInvariant` is inductive beside it, and gives `TelescopeFreeAlways` and `NoOrphanWaitAlways`. Outside the stages
  that have a subscan on the telescope it is free, unless closing it can fail (`TelescopeClear`). The executor lowers
  `m_goAhead` only as it leaves `runLoop`, with a command in the parser or a restart event in the timer
  (`WakeUpDue`). The hypothesis `Answering` of the second theorem leaves out what the findings are about: a blocking
  procedure of unknown name, which the parser never answers, and TIMETAGGED schedules, whose start event can
  fire before its wait begins. `seq` checks `NoOrphanWait` on a schedule that satisfies it.
* **Refinement** (`SessionImplemented`): every step of the executor is a step of the
  session or a stutter: a recording begins only when none is under way, and the end of the
  schedule, through whatever failure, ends it.
* **Executor in the core** (`CoreStepsOnly`): every step of the executor is a step that `CoreRecording` grants a
  schedule, or a stutter, under the mapping of `stream`, `telescope`, `recorderBusy` and of an active
  schedule. A step of the executor may be a chain of primitives that breaks twice (the
  preparation fails, then the clean-up); the lemmas sort the actions by what they do to the flags (`Granted`), and `CallReaches` finds
  the one call that does the same. What the theorem does not say is that the executor works as in
  `ScheduleExecutor` while clients interfere: that composition is in the plan.
* **Operations by hand** (`CoreInvariantHolds`, `CoreTypeCorrect`): a client leaves the
  places where it is in charge only through a stop that succeeded (or through the faults that
  `SomebodyInCharge` excludes), and the schedule ends only through `disableDataTransfer`, which
  stops. `NoTakeover` is the action property: the only calls that set the author find the stream stopped.
* **FITS writer** (`RecorderTypeCorrect`, `OwnFileAlways`, `NothingLostAlways`, `StartAcceptedAlways`, `OwnSummaryAlways`, `HeadersStableAlways`):
  what an orderly scan promises is shared by the core, the flow, the callbacks and the engine, so `RecorderInvariant` says where each of them is
  at every step of the core. `AtRest` between the subscans nothing is on its way but headers; `Waiting` dumps may arrive and the
  file is not open; `Recording` it is, until the cache has been drained after the stop, which is the last on the flow or has come (`StopComes`);
  `Closing` the file is finished and the flags do not tell it yet; then `AtRest` again. From the first phase to the closing file, cache and flow carry
  the dumps of the subscan in order. Orderly or not, the header of the present scan is the last one on the flow or has been received
  (`HeaderComes`): without it a late header could replace those of an open file. The
  theorems hold for every number of scans, subscans and dumps, every size of the cache and every set of files that cannot be created.
* **Backend** (`BackendTypeCorrect`, `StatusAgreesAlways`): the actions are composed of commands, so the
  lemmas are about outcomes: whatever an exchange, a late answer or a
  reconnection does, an outcome is `Sound`: typed, quiet when the board is idle, and in
  agreement or in doubt. The invariant needs the quiet board (part of `TypeOK`): a board without a job has no open connection.
  `StreamImplemented`: every step is one of `BackendStream` or a stutter. That no dump
  reaches the receiver after a stop needs to know that whoever has one open was told of it
  by the sender (`DumpsKnown`).
* **Antenna** (`AntennaTypeCorrect`, `OffsetsAgreeAlways`, `LastCommandedAlways`, `TableOfScanAlways`): the
  properties hold between operations only, when the boss is `Free`; the invariant
  (`BossInvariant`) says what holds while a scan is prepared (`Preparing`) and that a loaded generator has what
  the boss remembers (`Commanded`). `TableInvariant` adds that an accepted scan has its generator loaded and that since
  its table was begun all points in the table are of that one aim.
* **Dewar** (`DewarTypeCorrect`, `OneMoverAlways`, `UpdatingTruthAlways`, `FailureJustifiedAlways`):
  `PositionerInvariant`. Of all clients one at most is between the stop of a thread and the
  end of its operation (`OneInside`), since the operations that meet hold the lock there. So
  whoever starts a thread finds none alive (`StartsAlone`), a thread that has not begun has somebody watching it (`BornWatched`),
  and a stop flag has somebody waiting (`StopAwaited`): a thread that ends without one has died. A dozen actions do not touch any of this, and
  are proved by one lemma (`SameKeeps`).
* **Minor servos** (`ServoTypeCorrect`, `ScanAloneAlways`, `TrackingTruthAlways`): `ServoInvariant` says that a scan thread
  exists only under both flags of the scan (`ScanFlagged`); that if nobody has joined the scan, no client and no setup is on its way to
  turn the tracking on (`ScanUnjoined`); and what a client inside `init` has done to the flags (`Configures`). It serves the theorem on scans.
  That the tracking agrees with its flag needs `TruthInvariant`. What crosses is doubted. As long as nothing has crossed, whoever is under way is
  alone: one client, or the tail of a setup, or the opening or closing of a scan (`Uncrossed`, `Alone`). As long as nothing is in doubt, `Truth`: each place of an operation has its own
  relation between the flag, the tracking and what the operation read (`ClientTrue`), so has each step of a scan, which puts aside what it will
  restore (`ScanTrue`), and with nobody under way the two agree.

Every safety invariant and action property of the passing runs is a theorem, and so is the safe part of both refinements. Model-checked only:
liveness (`StopHonoured`, `HaltHonoured`,
`RecordingEnds`, `StopAnswered`, `SendStopEnds`, `LineFree`, `ScanFollowed`, `OffsetApplied`, `CallsReturn`, `FlagsFall` and the fair part of
`ImplementsSession` and `DumpStream`), which the prover does not reach. `OperatorServed` is the property that a run finds violated.

Two attempts at a proof changed the model. `ScheduleEnds` of `CoreRecording` left the telescope as it was or free; but a
schedule can end in the middle of commanding a subscan, whose telescope scan then cannot be closed, so it may also leave the telescope busy.
The properties of the recorder filtered its queues with `SelectSeq`, a recursive definition of which nothing can be proved; they now say
which dumps the queues carry and in which order, and the dumps sent are a count.

## What the models showed

The findings, each with the line of code and the sentence it contradicts, are in `PROJECT.json`. One has a run:

* `scheduler_locks`: a recording by hand holds the mutex of the core and asks for that of the executor;
  `startSchedule`, "thread safe", does it the other way round. The same model reaches a second knot,
  between the lock of the timer queue and the executor's mutex.

The others were found by modelling and are explained at their lines. The models leave these
behaviours in and the properties say when they excuse them. The most important:

* *Executor*: an unknown blocking procedure suspends the schedule for ever; the start event can come before its wait;
  a late subscan is stopped by the event of a recording that never began; a nested procedure calls back twice; a restart event survives its schedule.
* *Core*: a recording by hand that is under way when a schedule starts stops a recording of the schedule; a refused timer event leaves a recording running.
* *FITS writer*: a stop that comes before the file is open is dropped; after a subscan without dumps the next one is refused; a reset does not wait for the engine.
* *Backend*: after a reconnection it takes configurations though the job was not terminated.
* *Antenna*: a second stow is cut short by the action of the first; offsets given before a scan that fails to load are used but not reported; the tracking flag can rise within the second in which it is "forced" down.
* *Dewar*: a park during a scan does not park; an offset can be accepted and never added, or be added twice; a scan that dies is never reported as a failure.
* *Minor servos*: a switch that completes while `setASConfiguration` clears the offsets is undone by it (`MinorServoBossImpl.cpp:2043`), and
  the tracking runs with its flag down; the same between two switches, and with the end of a setup; a setup that is refused has switched the tracking; a scan that fails to start leaves it off; `closeScan` undoes a switch given during the scan; a park can be overtaken by a setup.

## What is not modelled

* *Scheduler.* Commands by hand inside `ScheduleExecutor`, and what they do to the fields of the executor:
  `CoreRecording` composes them with an executor reduced to its calls.
  The list `m_events` of the timer, beside the queue. `readAll()` and the other readers of files, the binder, the checker: text;
  `ScheduleAssumption` and `ConsistencyAssumption` state what they leave behind.
  Identifiers, names, paths, the project code, epochs as numbers, logging.
  The handshake of the start epoch between the subsystems in `checkScan` and `doScan`: both
  succeed or raise. That `m_currentBackendProcedure` is forgotten after a
  subscan of no duration, so that the backend is configured again while connected, is in the model but has no property.
* *FITS writer.* The mode without data (`DataCollection.cpp:417`, `EngineThread.cpp:110`), in which nothing is written. The contents of the file, the keys of the summary, the collector of telescope data, file system errors other than at the creation.
* *Total power.* A `stopSend` that raises, the configuration commands, the values of the samples.
* *Antenna.* Status levels, flux, FWHM and velocity, `m_timeToStop`, `checkScan`, corrections and publishing, the commands preset, rates, unstow,
  goOff and resetFailures; several points per run of the working thread are one; the socket to the control unit.
  The socket keeps the first points of a table until there are `PROGRAMTRACK_TABLE_MINIMUM_LENGTH` of them, and only then begins the table (`CommandSocket.cpp:250`);
  in `Loaded` each point accepted is in the table at once. The table of the mount stands also for the coordinates the boss keeps for
  the working thread (`WorkingThread.cpp:47`, `Room`).
* *Dewar.* Angles, the rewinding offset and the number of steps; what the CDB and the source allow (`Refuse` may happen);
  a rewinding by the user that times out after the scan has ended leaves `isRewindingRequired` up, as in the code, without a property.
  The last clearing of the flags by a thread is one step. There are as many threads as `Threads`: a call that would start one more has to wait, which `CallsReturn` excuses.
* *Minor servos.* Positions, times, offsets and the flag of the active surface; the branch of the setup thread for a wrong CDB, which cannot be reached; what single servos do.
  An antenna boss that is not there when `init` asks for it, which lowers the flag of the tracking (`MSBossConfiguration.cpp:179`). What `init` does to the
  two flags, for the configuration and for the tracking of a primary focus, is one step (`InitClears`).
* Other backends, the mounts and servos of Medicina and Noto, the other servers: for the reasons in `PROJECT.json`.

Choices the code leaves open and the models do not judge: a subscan of no duration does not count
as a scan done; in LST mode repetitions are counted from the first subscan that was done; a
TIMETAGGED schedule may be started early by a callback that comes late.

## Plan

Done: all the modules above, with their proofs: what they state of safety is proved.

Next, in this order:

1. **The executor among clients**: `ScheduleExecutor` with the calls of `CoreRecording` on one stream, as one specification: which of the
   properties of the executor survive a client that stops its stream (`CoreStepsOnly` is the other direction).
2. **ScheduleTimer**: the list of events and the ACE queue, schedule, cancel, fire and clear from three threads;
   refines the set of events of `ScheduleExecutor`.
3. **CommandParser**: queue, time-tagged queue, nesting, the shared functors, both `run` and `runAsync`; abstract
   specification: one callback per procedure, at its end.
4. **Receivers boss** (dispatch while the receiver is exchanged) and the servos of Medicina and Noto, which share `MinorServoBoss`'s questions.
5. Pure algorithms against a reference: LST selection and repetitions, slewing check, assignment of sections in `fTrack`.
