# openpressod in TLA+

openpressod is a daemon that drives an espresso machine: it offers a gRPC
service (power, steam mode, brewing, profiles, settings, a stream of events and
a stream of metrics), watches physical buttons, indicates the heating status on
LEDs, and leaves sensors, controllers and the brew profiler to the library
libopenpresso. This directory models the parts of it where order, concurrency
and failure decide whether it is correct, checks them with TLC and proves what
matters most with TLAPS. Paths below are relative to the repository.

## The system

### Components, their state and what they do

| Component (under `src/`) | State | Operations |
|---|---|---|
| `async_events_dispatcher/procedures_serial_executor.hpp` | a list of procedures under a mutex, an atomic counter, a worker thread | `executeWithFuture`, `executeWithCallback`, `executeDiscardResult`; the destructor counts one more without queuing (the poison) and joins |
| `async_events_dispatcher/async_events_dispatcher.*` | the executor, the managers below, the list of event sinks | submits everything that reads or changes the machine as a procedure, and tells the sinks |
| `state_manager/state_manager.*` | `m_power`, `m_steam`, the profiler, two temperature controllers, a scale, the brew timer | power, steam mode, start and stop of a brew, targets, steps, auto stop condition |
| `state_manager/status_manager.*` | the registered temperature callback with what it captured, the cached status, the status new streams read | indicate brew or steam, disable, publish a status |
| `state_manager/brew_profile_manager.cpp`, `user_settings_manager.cpp` | the current profile and settings, a file each | load, default, save, apply |
| `state_manager/brew_timer.cpp` | one 32-bit atomic: a running flag and 31 bits of milliseconds | start, stop, reset, read |
| `leds/leds_handler.cpp` | three optional outputs | indicate a status of a mode |
| `buttons/buttons_callback_registrator.cpp` | none of its own | toggles, or sets what a bistable switch shows |
| `service/events_stream_reactor.cpp` | per stream: a queue under a mutex, an atomic counter, an atomic write status, a worker thread | `pushEvent`, and gRPC's `OnWriteDone`, `OnCancel`, `OnDone` |
| `service/metrics_stream_reactor.cpp` | per stream: a worker, a promise of cancellation, a write status | a write per period until cancelled |
| `service/openppressod_service_impl.cpp`, `service_manager.cpp` | the gRPC server | one handler per call; shutdown |
| `daemon/`, `main.cpp`, `signals_handler/` | owns all of it | start (load and apply what was saved), signals, destruction |
| `config/libopenpresso_config_maker.cpp` | none | builds the library's configuration: which component refers to which |
| `config/openpressod_config.*` | none | reads the TOML file |

### How they interact

Every user of the machine is a client thread of one executor: gRPC's handlers,
the buttons' threads, the sensor's callback (`notifyHeatingStatusChange`) and
the profiler's callback (`brewCallback`). The executor's worker runs their
procedures one at a time, so `StateManager`, the files and the list of sinks
need no lock. Three things escape this order, and are where the models look
closest: the executor's own queue; each event stream, whose queue is filled by
the executor's worker, emptied by the stream's worker and steered by gRPC's
threads; and the heating status, which the sensor's thread publishes without
the executor. The procedures a thread submits in a callback are about a state
that may be over when they run.

### What makes each component correct

- **Brew timer, metrics stream.** What is shown is the time of one brew; one
  write at a time; a cancelled or failed stream is freed.
- **Executor.** Every procedure accepted runs once, in order; no wakeup is lost;
  the destructor returns after everything, and what that queues, has run.
- **Event stream.** The client gets what was pushed, in order, nothing twice; one
  write at a time; a cancelled or failed stream is freed, by when nothing of it
  is running.
- **State manager.** One controller heats, the one of the mode; the indication
  and the timer agree with it; a call of the library that throws half way does
  not report the power off while something is on.
- **Status manager, LEDs.** One publisher at a time, no stream misses a status,
  LEDs follow mode and status, Ready is neither early nor late.
- **Profiles, settings.** What was answered OK is in use, whole; a torn file does
  not stop the daemon; a running brew keeps its steps.
- **Dispatcher.** The streams know the power, the mode and the profile whatever is
  refused; a brew that has ended is stopped; nothing comes on again after the
  destructor's task.
- **Wiring.** No actuator has two active drivers.
- **Buttons.** A bistable switch ends up with what it shows, unless it was
  overruled or refused.
- **Daemon.** A signal ends it whatever is under way, with the machine off;
  nothing is called, run or held after what it needs is destroyed.

`PROJECT.json` lists the hazards behind these, each at its line.

## The modules

| Module | Models | Uses |
|---|---|---|
| `SerialQueue` | what the executor promises and wants of its users: accept, start, finish, close, stop | |
| `SerialExecutor` | `ProceduresSerialExecutor`, one step per access to shared state | `SerialQueue` by INSTANCE (refinement mapping) |
| `EventsStream` | one `EventsStreamReactor`, the executor's thread and gRPC | |
| `BrewTimer` | `BrewTimer` against a reference clock | |
| `MetricsStream` | one `MetricsStreamReactor`, the executor's thread at the timer and gRPC | extends `BrewTimer` |
| `Machine` | `StateManager` over the library's components | |
| `Profiles` | `BrewProfileManager`, `UserSettingsManager`, the daemon's start and crash | extends `Machine` |
| `Dispatcher` | the tasks of `AsyncEventDispatcher`, the profiler's callbacks, the streams' view | extends `Profiles` |
| `HeatingStatus` | `StatusManager`, `LedsHandler`, the notification of a status | |
| `Wiring` | `LibopenpressoConfigMaker`: the graph of the library's components under the machine | extends `Machine` |
| `Buttons` | `ButtonsCallbackRegistrator`: the inputs next to calls and brews that end | extends `Machine` |
| `Lifecycle` | `main`, `Daemon`, `ServiceManager`, construction and destruction of all of it | `SerialQueue` by INSTANCE (refinement mapping) |
| `MCProfiles`, `MCDispatcher`, `MCHeatingStatus` | instances and a symmetry for TLC | |
| `DataLemmas` | facts on sequences, on remainders and divisions | |
| `SerialExecutorProofs`, `EventsStreamProofs`, `MetricsStreamProofs`, `HeatingStatusProofs`, `ButtonsProofs`, `LifecycleProofs` | proofs about the module of that name | |
| `DispatcherProofs` | proofs about `Machine`, `Wiring`, `Profiles` and `Dispatcher` | extends `Dispatcher` and `Wiring` |

Definitions marked "A slip" are actions with a mistake this code could make. No
specification uses them; `PROJECT.json` says which property catches which.

### SerialExecutor and SerialQueue

`queue`, `qsize`, `lock` are `m_queue`, `m_queueSize`, `m_queueLock`; `spc[p]` is
thread p's place in `execute...()` (`Call`, `Push`, `Count`, `Unlock`, `Notify`,
and `Await` on a future), `wpc` the worker's (`Check`, sleeping, `Splice`,
`Subtract`, `Release`, `Invoke`, `Return`), `dpc` the destructor's (`Poison`,
`NotifyPoison`, `Join`). The procedure that runs may submit others, from the
worker's own thread, but does not block on a future. The destructor starts when
no client is inside a call, which is its caller's duty (`~AsyncEventDispatcher`
is reached after the server and the sensors are done). A future is taken to be
ready when its procedure returns, which is a step later than the code can make
it. `qsize` is an integer and not wrapped: that it never goes below zero is
shown, not assumed.

The refinement mapping: what is spliced or queued is pending, the front of the
local list is running while it is invoked, the destructor's count closes, the
worker's end is the stop. `SerialQueue` keeps no history: that procedures run
once and in order is what its two ends, append and head, say, and
`QueueOrder` states it of the executor's own histories. `ImplementsQueue` is the
safety part (`SerialQueue!Spec`), `ServesQueue` the fairness the abstract queue
then has: what waits is taken, what runs returns, a closed worker stops.
`ExitsDrained` (nothing is left when the worker ends) follows from the
refinement and `QueueOrder`; it is proved and in no run.

### EventsStream

An event is its number. `pushEvent` is `Push`, `Count`, `Notify`: unlike the
executor it counts after it released the mutex, so the stream's worker can take
an event first and drive the unsigned counter through zero; `qsize` is therefore
kept modulo `Word`. `tasks` is the part of the executor's queue that concerns
this stream, in its order: the procedure that adds it, notifications, the one
that deletes it. gRPC is external: it reports every started write once
(`WriteDone`, success or failure), may cancel once at any time, and calls
`OnDone` after `Finish` when no other reaction is running.

### BrewTimer and MetricsStream

`timer` is `m_state`: below `Half` the length of the brew, from `Half` on the
running flag and the low bits of the clock at the start. `Now` is the clock
modulo `Half` (2^31 ms in the code, 25 days), and differences are taken modulo
`Word` (2^32), unmasked as in the code. The clock starts anywhere in one turn,
so a brew may cross the wrap. `brew` is a history variable, the real times.

`elapsedTime` loads the state first and reads the clock after it, two steps of
the stream's worker between which the executor may do anything to the timer
(`Load`, `Compute`). Then come the write status, `StartWrite`, the wait for the
completion, and the pause that ends by itself or by the promise (`Pause`, which
takes both outcomes because the period may be over at any time). A constructor
that throws leaves the stream `refused` and no reactor. gRPC is external: it
completes every write once, calls `OnCancel` at most once, and `OnDone` after
`Finish` when no other reaction is running. The sensors' readings are passed
through and left out; `pidSource` only decides whether the constructor throws.

### Machine

An operation of `StateManager` is one step. Its calls into the library are
numbered, and `Upto(n)` is how many of them are carried out before one throws:
all of them unless `MayThrow`. So `PowerOff(2)` has stopped the profiler and the
steam controller and left the rest. An operation that refuses (`startBrew` with
the power off, `setSteamModeState` during a brew) changes nothing.

`broken` is a history variable: an operation was left half done and nothing has
switched the machine off completely since. Each operation says itself which of
its prefixes break something (`PowerOn(1)` does, `PowerOn(0)` does not), and only
a completed `PowerOff` mends. The properties that relate heaters, indication and
timer to the mode are about a machine that is not broken, so one run with
`MayThrow` covers both the nominal and the faulty behaviour, and says how long a
fault lasts: a completed power-off is enough.

### Wiring

`Component` is what `LibopenpressoConfigMaker` builds: each label with the fields
that refer to other labels. Numbers, pins and addresses are left out.
`WiringAssumption`, which TLC evaluates, is that every label exists and no chain
of references closes. Which of the fields drive and which only sense is not in
this repository; `Driving` is the reading of their names, an external
definition. The pump's internal flow controller refers to a flow sensor alone,
which computes the flow from the pulses it has the pump make, so that reference
drives. `Drives` follows the driving references down to the pump, the heater and
the valve, and `OneDriverPerActuator` puts it together with the components
`StateManager` activates.

### Profiles

A file is absent, torn, or holds a profile (a temperature for the settings). A
profile may be one that `applyBrewProfile` refuses for its steps or for its stop
condition. `Written` is what `saveProfile` can do: succeed, fail to open, fail
after the truncation, or lose the content when the stream is destroyed, after
success was reported. `applyBrewProfile` sets the temperature before it may
throw. `Crash` may hit during a save; `Start` loads, defaults and applies, and
`StartFails` is the exception that ends the daemon.

### Dispatcher

A task is one step. A client's task has no effect before it runs and may have
been submitted at any time, so picking one when the executor is free is the same
as queuing it; the profiler's tasks are queued because they are about a brew
that can be over when they run, or even when they are submitted. `view[s]` is what
stream s was told last, field by field. The profiler is external: it calls
`brewCallback` from one thread and begins to while it is active, and reports its
end once. A callback is two steps: it begins (`StepChange`, `AutoStop`) and later
submits (`Report`); `reporting` is the task it is about to submit. In between
anything may run, for nothing says that deactivating the profiler, which
`stopBrew` does, waits for a callback. Unregistering one is taken to wait, as in
`Lifecycle`, so `Final`, the destructor's task, finds no callback under way; the
streams are gone by then because `Server::Wait` returned (`Lifecycle` checks that).

`overtaken` is a history variable: the brew under way was started while the end
of an earlier one was queued or still being reported. It names the one case in which the
profiler's task stops a brew that is not its own.

### Buttons

The callbacks are registered one after the other, after `StateManager` has read
the steam switch; `Flip` changes an input at any time, and is heard if its
callback is registered. The profiler's callback begins when its brew's profile has ended
(`AutoStop`). A callback submits (`Submit`) any time after it has begun: an input's
reads the position then and queues what it asks for, the profiler's queues the end
of the brew, which may be over by then; `RunTask` runs the tasks in order, next to calls and the
profiler's end. `excused` is a history variable: the inputs for which nobody
promises anything at the moment, because their last request was refused, a flip
came before registration, or somebody else has decided since. Only the steam
switch's position is read at the start, so a power or brew switch that is on at
that time is excused until it is flipped. Of the library it is assumed that an
input calls back from one thread, once per change, and not for the state it has
at registration, and that the profiler calls back from one thread.

### Lifecycle

`pc` is main's place, from construction (which may throw anywhere, and destroys
what was built) over the wait for a signal to `~Daemon`: shut the server down,
wait for its calls, unregister the buttons, submit the destructor's task, get
its result, drain and join the executor, destroy the rest. Around it go on:
buttons, the sensor and the profiler, each with a callback that is registered,
running or being unregistered; unary calls, from acceptance to `OnDone`; streams,
which also enter and leave `m_eventsSinks`; and the executor's worker. A stream
may finish for another reason than a cancellation (`FinishStream`), but need not.

The worker's task is three steps, since other threads go on inside it: `Begin`
takes it, decides what it will do to the machine and unregisters what that
unregisters; `Apply`, once no callback that is being unregistered runs any more,
does it, and may publish a status from the worker's own thread; `Finish` answers
the call, or adds or deletes the stream. What is done to the machine is reduced
to on, off, a new indication, brew, stop or nothing.

The executor is the queue it implements. `KeepsExecutorContract` is that this use of
it is a behaviour of `SerialQueue`: `pending` is the queue, `running` the task under
way, and the queue is `closed` when the destructor's task has been waited for and
the members are being destroyed. It discharges what `SerialExecutor` assumes of
its caller, that nobody but a running procedure submits once the destructor has
begun. `NothingDangles` discharges what other modules assume: that there are no
streams when the destructor's task runs (`Dispatcher`), that a reactor is
released after it was added (`EventsStream`). Of the library it is assumed that
unregistering waits for a callback that is running, and of gRPC that `Wait`
returns after every call's `OnDone`. A call that only reads is a unary call
whose task does nothing; a metrics stream reads sensors and the timer and uses
neither the executor nor the list, so it is left out.

### HeatingStatus

`callback` is the registered temperature callback with what it captured: the
number of callbacks in the window for a sensor with a fixed rate, the time in
the window for one without. Publishing a status has three steps: cache, store
(what a new stream reads), queue (what the others are told), by the executor's
worker or by the sensor's thread. The sensor is external: its callbacks do not
overlap and `unregisterCallback` waits for the one in progress. `inWindow` is a
history variable, the length of the unbroken run of readings in the window.
`rate` is the sensor's fixed interval, 0 for none. The code divides in `float`;
the model divides integers exactly.

## The runs

| Run | Instance | Asks |
|---|---|---|
| `executor` | 2 clients, 3 procedures | is the counter exact, is a wakeup ever lost; does it implement the queue and serve it, and does every call complete |
| `stream` | 2 initial events, 2 changes, `Word` 8 | are events written once and in order through wraps, failures and cancellation; is the reactor quiet when deleted, and is it deleted |
| `machine` | `Wiring` with 2 temperatures and 2 profiles, any call may throw | do heaters, indication, timer and actuators follow power, mode and brewing, what holds even when calls throw half way, and what mends the rest |
| `buttons` | a momentary power button, bistable brew and steam switches | does a switch end up with what it shows |
| `lifecycle` | a button, a sensor, a unary call, a stream (1.4 million states, 2 minutes) | does a signal end the daemon, with the machine off and nothing dangling; is the executor used as the serial queue it is |
| `profiles` | 4 profiles (2 of them refused), 2 temperatures | does OK mean in use; what keeps the daemon from starting |
| `profiles_active` | the same | expected violation, see Findings |
| `heating` | 2 streams (symmetric), 3 temperatures, period 5, a rate of 2 or none with gaps 0 to 2 | one publisher, LEDs, streams, Ready after exactly the counted callbacks, or when the time is reached |
| `heating_indicate`, `heating_period` | 1 stream, a rate of 2 | expected violations, see Findings |
| `dispatcher` | 1 stream, 2 profiles (1 refused), 2 temperatures, 1 step, 3 waiting profiler tasks and one under way | do streams agree with the machine through refusals, crashes and shutdown; is a brew that has ended stopped, and only that one |
| `metrics` | `Half` 2, 4 ms after the first turn of the clock, 2 pending completions | is the time shown one brew's, is a write waited for, is an ended stream freed |

Type invariants are in no run where they are proved: those of `SerialExecutor`,
`Machine`, `Profiles`, `Dispatcher`, `HeatingStatus`, `EventsStream`, `MetricsStream`,
`Buttons` and `Lifecycle` hold for all values of the constants (that of `Buttons`
where no call throws). So do `ExitsDrained` and `BrewingInBrewMode`, which are
proved and are in no run either.

Deadlock is checked in every run; `Terminated` and `Released` are the stutters of
a system that is meant to have stopped.

### Bounds, and why they are enough

- *Executor.* Two clients race for the mutex and the counter; a third procedure
  lets a batch of two be taken and a procedure submit while the worker drains
  after the poison. The proofs remove the bound for everything but liveness.
- *Stream.* `Initial` (6 in the code) and `MaxEmit` bound the events: two of each
  give batches of more than one, events pushed while a write is under way and
  after the end. `Word` (2^64) need only exceed the events and the
  cancellation; it is wrapped from below by a single early take.
- *Machine, Wiring.* Nothing is bounded; two temperatures and two profiles tell an
  old value from a new one. `Depth` (6) is longer than any chain of references,
  which `WiringAssumption` checks.
- *Buttons.* `MaxQueue` (3) lets every input, or two and the profiler, wait at
  once. Brew and steam exclude each other and are the bistable ones, the power is
  a toggle; nothing depends on temperatures or profiles, so there is one of each,
  and calls do not throw.
- *Lifecycle.* One thread of each kind: callbacks of different buttons share
  nothing but the queue, and the order in which several are registered and
  unregistered (the code has three) is by the same action. `MaxQueue` (0) is
  about callbacks only: one begins only when nothing is queued, and those that
  have begun, calls, releases and the destructor's task queue up behind one
  another, up to the number of threads. Two buttons give 3.5 million states and
  the same answers.
- *Profiles, Dispatcher.* One profile for each thing that can be refused, and two
  that are not where a change between them matters. `MaxTasks` (3) holds a step
  change and two ends at once, with another callback under way. No property of
  the run reads the index of a step, so one will do. A stream's view depends on no other stream, so one
  is enough.
- *Heating.* Three temperatures lie below, in and above the windows; 5 over 2 is a
  period that is not a multiple of the rate. `MaxQueue` (3) stops the callers
  when three notifications wait. `inWindow` stops at the period, beyond which
  nothing depends on it. The rate is chosen at the start and kept.
- *Metrics.* `Half` (2) is the smallest turn in which a brew can last longer than
  nothing without crossing the wrap; `MaxTime` (4) stops the clock after it has
  crossed at least once and the next brews have been timed. `MaxNotifies` (2) lets
  the completion of one write still be under way when the next one comes.

### Fairness

The code's threads are operating system threads that nothing suspends, so a
thread that can go on eventually does (weak fairness per thread, with the
waits on counters, futures and joins as guards). In `SerialExecutor` the mutex
needs no strong fairness here, because submissions are finite in number. In
`EventsStream` gRPC completes a write that was started. No client has to submit
or cancel, no event has to happen, and nobody has to destroy the executor. In
`Dispatcher` the fairness of `RunTask` is what `EveryCallCompletes` of the
executor gives, and that of `Report` is that a callback which has begun goes on. In `Lifecycle` main, the executor's worker, every callback that has
begun, every handler and the worker of every cancelled stream go on; nobody has
to press, sample, call, cancel or send a signal, a callback need not begin, and
a stream that was not cancelled need not end. An
unregistration is two steps, the request and the return, and rests on the
running callback's fairness alone. In `MetricsStream` the worker goes on, its period
being over at some time, and gRPC completes writes and reactions; nobody has to
cancel and the clock need not move. `Machine`,
`Profiles`, `Buttons` and `HeatingStatus` state safety only.

## What is proved

For any clients and procedures (`ThreadsAssumption`: the worker is not a client,
"nobody" is not a thread, "no procedure" is not a procedure), of `SerialExecutor`:

- `Invariance`: the inductive invariant `IInv`. The counter's law `Accounting`
  is not inductive alone: that the worker never subtracts from a batch a
  submitter has not counted rests on who may hold the mutex where (`LockInv`),
  and that it never meets an empty splice before the poison rests on what each
  place of its loop knows (`WorkerInv`). `HistoryInv` ties the lists together:
  done, then local, then queue are what was pushed.
- `ExactCounter` (`Accounting`, and `NoUnderflow`, which follows), `NoWakeupLost`,
  `DrainsBeforeExit`, `ExactlyOnce`: its safety properties.
- `Refinement` (`ImplementsQueue`): every behaviour is one of `SerialQueue`. `Push` is `Submit`,
  `Invoke` is `Start`, `Return` is `Finish`, `Poison` is `Close`, a `Release` with
  an empty list is `Stop`, everything else stutters. `Splice` stutters because
  concatenation moves what was queued to what is local; `DataLemmas` has the
  facts on sequences this needs.

Of `Machine` and `Wiring` (the first part of `DispatcherProofs`), for any temperatures
and profiles, with `MayThrow` either way. The module extends `Dispatcher` as well,
so `NoThrowAssumption` (`~MayThrow`, of `Profiles`) is in scope there; it is cited in
one lemma, `Completed`, which comes after this part, and no proof of this part
cites an assumption:

- `BrewsOnlyInBrewMode` and `OffStopsEverything` hold wherever calls throw.
- `OneControllerHeats`, `IndicationIsRight` and `TimerIsRight`: `HeatersFollowMode`,
  `IndicationFollowsController` and `TimerFollowsBrewing`. The three are inductive
  only together with the type invariant and `BrewingInBrewMode`.
- `ActuatorsHaveOneDriver`, of `Wiring`: if brewing and keeping the brew temperature
  share no actuator, no actuator ever has two drivers. That hypothesis is about
  constants and what the `machine` run evaluates; the theorem says that the order
  of `StateManager`'s operations does the rest, whatever the wiring of steaming.

Of `EventsStream`, for any width of the counter and any number of events: `IInv` is
`TypeOK`, `WorkerInv` (what each place of the worker says of its list and of the
write), `LifeInv` (added once, released once, and only when all else has ended),
`NoLostWakeup`, `Accounting` and `DeliveredInOrder`. The counter's law is modulo
`Word` and rests on facts about remainders in `DataLemmas`. `CounterIsAccountedFor`,
`StreamIsInOrder`, `WorkerIsWoken`, `WritesAreSerial`, `DeletedIsQuiet` and
`WaitEndsForCause` follow from it.

Of `HeatingStatus`, for any temperatures, windows, period, rates and streams: `IInv`
is `TypeOK`, `CountInv` (what a callback has captured against the time in the
window, which needs the rounded-up division, `RequiredRange`), `PublishInv` (who
may publish when: the worker only with no callback registered, the sensor's
thread only in one), `StoredInv`, `QueueInv` and `LedsFollowStatus`.
`PublishersExclude`, `LedsAreRight`, `StreamsGetTheStatus`, `ReadyIsNotLate` and
`ReadyIsNotEarly` follow from it.

Of `MetricsStream`, for any `Half`: `IInv` is `MetricsTypeOK`, `TimerInv` (what a
state of the timer tells of its brew, for the timer and for the state that was
loaded), `StartInv` and `WritesDoNotOverlap`. `MetricsWritesAreSerial` and
`BrewTimeIsRight` follow; the latter needs that low bits tell the difference of
two times with the same high bits (`LowBitsDifference`).

Of `Profiles` and `Dispatcher`, for any streams, steps, temperatures and profiles,
and calls that do not throw: `ManagersInv` is the type invariant,
`AnsweredIsApplied`, `FailsOnlyOnRefusedProfile` and what ties files, managers and
machine together (`WholeInv`); `IInv` adds `StreamsInv` (what a stream was told
against the machine, and that none is left at the end), `OffAfterFinal` and
`EndInv` (an end that is queued or being reported is that of the brew under way, or
that brew has overtaken it). That calls do not throw is `NoThrowAssumption`.
`AnswersAreKept`, `StartsUnlessRefused`, `BrewKeepsItsProfile`, `ModeIsKnown`,
`BrewIsKnown`, `ProfileIsKnown`, `NothingOnAfterFinal` and `EndsItsOwnBrew` follow.
`Dispatcher` adds the executor's tasks to `Machine`'s operations, and the lemmas
`PowerStep`, `SteamStep` and their like say what each leaves behind.
`MachineIsWhole` carries the machine's own properties over crashes and starts.
`ImplementsProfiles` is that `DispatcherSpec` implies `ProfilesSpec`, step by step: a
task is an operation, the orderly exit looks to the files like a crash between
two saves, all else stutters; so the theorems about `Profiles` hold of the
dispatcher too.

Of `Buttons`, for any set of bistable inputs and a queue of any length:
`SwitchesAreObeyed` (`SwitchesObeyed`), where no call of the library throws. It is
not inductive, for it says nothing while tasks wait: earlier tasks of a switch may
ask for the opposite, run between calls and be refused. What the steps preserve is
`LastAsksPosition`: the last task a switch has submitted asks for the state the
switch shows, unless it is about to submit another. With `SubmittersRegistered`
(so a flip nobody hears leaves no task that disagrees) and the type invariant it is
inductive, and when that last task runs it decides the function, or is refused. The
hypothesis `~MayThrow` is that of the `buttons` run; a task that throws half way
leaves its function as it was, and the switch is then wrong as after a refusal,
which no history records. `OperatesTheMachine` (`Spec` implies `MachineSpec`) needs no
such hypothesis: inputs, profiler and calls only operate the machine, so what is
proved of `MachineSpec` holds of them, failures included.

Of `Lifecycle`, for any numbers of buttons, calls and streams and a queue of any
length: `IInv` is `TypeOK`, `QueueInv` (what a task that waits or runs says of its
call, and `MayFollow`, which tasks may wait behind which), `StreamsInv` (a stream
is held exactly until its release), `MainInv` (what is over at each place of
main), `EffectInv` and `MachineInv` (what the task under way will do, and that the
machine is off once the final one has). `NothingIsLeft` and `EndsOff` follow, and
`ExecutorIsUsedRight` (`KeepsExecutorContract`): the daemon implements `SerialQueue`
as its executor's user, where `MainInv` gives that nothing that could submit is
left once the queue is closed. With `Refinement` the executor is shown to be that
queue from below and to be used as it from above. The bounds of the `lifecycle`
run matter to its liveness property only.

Liveness is out of the prover's reach and only model-checked: that calls
complete, that streams are freed, that events are written, that ended brews
stop, that a signal ends the daemon, and the fairness of `SerialQueue`
(`ServesQueue`). The runs that expect a violation are model-checked only. Every
invariant and every action property that a run checks is a theorem; the
only ones with a hypothesis beyond the modules' assumptions are
`SwitchesAreObeyed` and `ActuatorsHaveOneDriver`.

## Findings

- `profiles_active`: `docs/pages/config.md:44` calls the profile file the "active
  brew profile file", but `setBrewProfile` saves before it applies and leaves the
  file when applying throws. The refused profile is then the one loaded at the
  next start, where its exception ends the daemon, until somebody changes the
  file (`StartFails`).
- `heating_indicate`: `docs/pages/config.md:186` has the temperature remain in the
  window for the period before the status changes to ready, but indicating a
  mode or a target publishes the status of one reading at once.
- `heating_period`: the fixed-rate callback counts the reading that enters the
  window, so Ready comes up to one interval before the period has passed.

What the models show and no document speaks of:

- The stream's worker may take an event before it is counted; the wrapped counter
  then lets it pass its wait with nothing queued, and it ends the stream with OK
  although nobody cancelled. `PassesWaitForCause` says exactly when.
- Starting and stopping a brew over gRPC, and switching the power off in a brew,
  send no BrewState. `untold` excuses this in `StreamsKnowBrew`, which says that
  nothing else leaves a stream wrong, and that the next BrewState puts it right.
- The profiler's end is a task without the identity of its brew: if a client
  stopped that brew and started another before the task ran, or before the
  profiler's callback submitted it, the task stops the new one
  (`StoppedForOwnEnd`, `overtaken`).
- A power-on that throws after a controller was activated leaves it active with
  the power reported off; after a mode switch and another power-on both heat.
  A power-off is then refused as already done, and the destructor's task does
  not switch it off either. `broken` excuses such states: `HeatersFollowMode` and
  its like say that only a call that threw half way brings them about and that a
  completed power-off ends them, and would not catch them. Likewise a `stopBrew`
  that throws leaves a brew untimed (`TimerFollowsBrewing`).
- `future::get` in `~AsyncEventDispatcher` rethrows what its task has thrown, which
  ends the program by `std::terminate` with the machine as it is (`EndsAllOff` is
  about the other ending; `docs/pages/openpressod.8.md:132` promises 0 for a clean
  shutdown only).
- `BuildAndStart` may return a null pointer; the daemon then runs with its buttons
  and no service until a signal comes.
- A bistable switch that was overruled - by a call, by the end of the profile, by
  a power-off - or flipped before its callback was registered shows the wrong
  state until it is flipped again (`SwitchesObeyed`, `excused`).
- A stream added between the store and the delivery of a status is sent the newer
  one first and the older, still queued ones after it; the last one is right.
- A brew that crosses the wrap of the 31 bits shows a wrong time, and once
  stopped its timer looks as if it were running until it is reset or started
  again (`Wrapped` is the precondition of `MetricsShowBrewTime`).
- `MetricsStreamReactor::OnCancel` catches `std::future_errc`, which a second
  `set_value` does not throw (it throws `std::future_error`); the model takes gRPC
  to call it once.
- After a refused `setBrewProfile` a new stream is sent the refused profile, while
  older ones keep the one in use (`StreamsKnowProfile` has that precondition).

## Not modelled, and the plan

Left out for good: the TOML configuration (`config/openpressod_config.*`), a
sequential parse before any thread starts, covered by unit tests; JSON, protobuf
and logging; command line, constants and packaging; the library behind its
interfaces, of which only what the code relies on is assumed. Calls that only
read change nothing and appear as such in `Lifecycle`.

Assumed and not visible in this repository: that unregistering a callback waits
for it, that an input calls back from one thread and once per change, that
the profiler calls back from one thread and begins to only while it is active
(not that deactivating it waits), that registering does not throw, and gRPC's promises named above.

What is left: nothing of the modelled components' safety that a run checks is
without a proof. Worth adding are an abstract stream (what is pushed is delivered
in order until it ends) that `EventsStream` implements, and a theorem about
`Buttons` for calls that throw, for which the history of excuses would have to
tell a failure from a success.
