# Verification of the CPM Lab

TLA+ specifications of the software of the Cyber-Physical Mobility Lab (this
repository), the TLC configurations that check them, and proofs about them for
TLAPS. The lab runs up to twenty model vehicles. Every vehicle is controlled by
programs that exchange DDS messages with the Lab Control Center (LCC), and the
correctness of an experiment rests on a number of concurrent protocols: who may
compute when, who waits for whom, what a stop signal stops, which message is
the newest. That is what is modelled here. Control laws, image processing,
geometry and drawing are not.

## 1. Inventory

| Part | State it keeps | Operations | Hard behaviour |
| --- | --- | --- | --- |
| `TimerTrigger` (LCC) | `ready_status_storage`, `current_simulated_time`, `timer_running`, `simulation_started` | take ready signals, send the next instant, start, stop, remote `stopRequest` | one thread waits for samples while others stop and join it; signals are repeated, late or lost |
| `cpm::TimerSimulated`, `cpm::TimerFD` (`cpm_lib`) | flags `active` and `cancelled`, the thread handle, the deadline | `start`, `start_async`, `stop`, destruction, periodic callback, stop callback | several threads stop one timer, also from its own callback and before it runs; callbacks take longer than a period |
| `SimpleTimer` | counter of 50 ms steps | periodic callback, stop | rounding of the period |
| Middleware | HLCs online, buffered goal states, last response times | timer callback, forwarding of triggers, goal states and commands | the timer thread and three readers share flags; it waits for the HLCs |
| `HLCCommunicator` (`cpm_lib`) | position in `start()`, `planning_future` | `before_control_loop`, ready message, timesteps, cancelling, `on_stop` | a planning that is late, a stop at any moment |
| `Upload`, `SetupViewUI` (LCC) | upload threads, counters, error messages, button states | deploy, kill, notify, dispatch, join | threads against the GTK thread, three mutexes, a dispatcher |
| `CrashChecker`, `HLCReadyAggregator` (LCC) | new and known crashes, NUCs that run, last hellos | checking thread, dispatcher, start, stop | two threads move entries between the lists; entries age |
| `ProgramExecutor` (LCC) | two message queues, pool of the child process, command ids | execute, spawn, answer, stop | queues outlive the process, ids are used again, the pool is bounded |
| `RTTTool`, `RTTAggregator` | request counter, received times | measure, answer, stop, restart | counter that wraps, late answers |
| `ParameterServer`, `ParameterReceiver` | values per type and name | set, delete, request, publish | requests are repeated until answered; three threads publish |
| `Reader`, `MultiVehicleReader`, other wrappers | buffer of samples | select the newest valid sample | time stamps in the future, ties |
| `ObstacleSimulationManager`, CommonRoad tab | two timers, index into each trajectory, switches | preview, deploy, load, transform, toggle | timers are replaced while they run; switches made anew by a dispatcher |
| Logs (`LogStorage`, `LoggerViewUI`) | stored logs, buffer, list, search thread | receive, search, level, reset, dispatch | three threads share the view |
| Vehicle control of the LCC (`TrajectoryCommand`, `GoToPlanner`, `VehicleManualControl`, `VehicleAutomatedControl`, map view) | a path per vehicle, stop counters | draw, plan, send, kill, joystick | commands of several senders meet at the vehicle; messages are lost |
| Mid-level controller | readers, stop counter, ring buffer of the filter | control step, stop signal, SPI transfer | commands of the last experiment, late observations, noise on the line |
| Low-level controller | buffers of the SPI interrupt, watchdog, LED ticks | main loop, interrupts | a transfer may begin anywhere in the loop |
| Indoor positioning | time series of frames, conflicts of candidates | detect vehicles, detect ids | two clocks, lost frames, an array changed in a loop over it |
| Example `dynamic_priorities` | priorities, trajectories of others, speed profiles | plan by new and by old priorities, slow down | planners wait for each other; a planner may be stopped |
| Autostart, labcam, Matlab bindings, other examples | | | system calls, devices, files |

How they interact. The LCC starts programs through `Deploy` (shell commands in
the child process of `ProgramExecutor`, one `Upload` thread per NUC) and watches
them with `CrashChecker`. Programs announce themselves on the topic
`readyStatus`; the LCC answers on `systemTrigger`, with one start time in real
time and with every instant in simulated time. On a NUC the middleware is such a
program. It passes triggers, vehicle states and goal states on to its HLCs in a
second, local DDS domain and their commands back. HLCs may agree among
themselves, as those of `dynamic_priorities` do. Commands reach the mid-level
controller, which picks the newest valid one (`Reader`) and sends what the motor
has to do to the low-level controller over SPI; where the vehicle is it knows from
the positioning system, which knows the vehicle by the LED that the low-level
controller lights. `stop()` of a timer, a stop signal or a `stopRequest` ends
all of this.

What makes the parts correct:

* simulated time: the clock never passes an instant somebody has yet to
  compute, computations happen in the order of time, and the simulation goes on;
* timers: no callback after `stop()`, `stop()` returns, several callers are
  safe, and all timers compute at the instants of one grid;
* control loop: HLCs are announced and served only when they are there, goal
  states arrive once, plannings do not overlap, a stop signal ends an HLC;
* upload: threads are joined when they are done, the user gets the interface
  back, the crash checker is told the truth and shows every crash;
* executor, round trip times, parameters, readers: every caller gets its own
  answer, old answers are not counted, the current value arrives, the newest
  valid sample is chosen;
* views: the switches, the lists and the dialogs end up with what is the case;
* vehicle: commands of a stopped experiment are forgotten, a vehicle that is cut
  off stops, acknowledged commands were received, late observations count as if
  in time, a path is driven by its vehicle and ends at a kill;
* positioning: no light belongs to two vehicles, no vehicle gets the id of another;
* planners: all or none follow their new plans, and plans can be driven.

## 2. Modules

| Module | Models | Extends or instantiates |
| --- | --- | --- |
| `LogicalTime` | what simulated time promises: one clock, members, their due instants | |
| `SimulatedTime` | `TimerTrigger`, the participants' `TimerSimulated`, discovery and delivery of DDS | `LogicalTime`, by a refinement mapping |
| `TimerThread` | the life of one `cpm::Timer`, in both implementations | |
| `TimerDeadlines` | the instants of a `TimerFD` and a `SimpleTimer` | |
| `ControlLoop` | middleware, `HLCCommunicator`s and the LCC that starts and stops them | |
| `Upload` | deploy and kill in `SetupViewUI`, `Upload`, its threads, the grey-out timer | |
| `CrashChecker` | the checking thread, its dialogs, the ages of hellos | |
| `CommandExecution` | `ProgramExecutor` with its child process | |
| `RoundTrip` | `RTTTool` and `RTTAggregator` | |
| `Parameters` | `ParameterStorage`, `ParameterServer`, `ParameterReceiver` | |
| `NewestSample` | `Reader` and `MultiVehicleReader` | |
| `ObstacleSimulation` | the simulated obstacles and the CommonRoad tab | |
| `Lcc` | four parts of the LCC, side by side | extends `Upload`, instantiates `CrashChecker`, `CommandExecution`, `ObstacleSimulation` |
| `LogView` | `LogStorage` and `LoggerViewUI` | |
| `Library` | the parts of the library and the logs, side by side | instantiates `TimerDeadlines`, `Parameters`, `RoundTrip`, `NewestSample`, `LogView` |
| `DrawnPaths` | how the LCC itself drives vehicles | |
| `Experiment` | simulated time, control loops and drawn paths, side by side | extends `SimulatedTime`, instantiates `ControlLoop` and `DrawnPaths` |
| `VehicleLoop` | the control cycle of the mid-level controller | |
| `Localization` | its pose filter | |
| `SpiLink` | the link to the low-level controller, with its loop, interrupt and watchdog | |
| `LedCode`, `Identification` | the table of rhythms; the blinking LED and `DetectVehicleID` | the second extends the first |
| `DetectVehicles` | which candidates are vehicles | |
| `Vehicles` | the link, the control loop, the pose filter, the candidates and the LEDs, side by side | extends `SpiLink`, instantiates `VehicleLoop`, `Localization`, `DetectVehicles` and `Identification` |
| `PriorityPlanning` | one time step of the planners of `dynamic_priorities` | |
| `SpeedProfile`, `SpeedPlanning` | the speeds they plan, over many time steps | the second extends the first |
| `MC…` | the constants of the TLC runs | see section 3 |
| `Recursion` | lemmas: induction over numbers, functions defined by recursion over finite sets, remainders | |
| `…_proofs` | theorems | the module of that name, `TLAPS`; `Vehicles_proofs`: also `Recursion`, `Library_proofs`: also `TimerThread` and `Recursion`, `DrawnPaths_proofs`: also `Recursion`; `Planning_proofs`: `PriorityPlanning`, `Recursion`, and instantiates `SpeedPlanning`; `Experiment_proofs` instantiates `ControlLoop_proofs` and `DrawnPaths_proofs` |

Names follow the source: a variable has the name of the member it stands for, an
action the name of the method or of the step in it. A variable ending in `pc`
(and `runner`, `gtk`, `worker`, `checker`, `reader`, `main`, `pi`) says where a
thread is; each value is a place where another thread can come in between.
Operators called mutants in a comment stand beside the definition they would
replace, are plausible mistakes in it, and occur in no specification.

### SimulatedTime and LogicalTime

`lcc_pc` is where `next_signal_thread` is: it collects ready signals until the
simulation starts, drains them, sends the next instant and waits for new
signals. `ObtainNewReadySignals(batch)` takes all samples of a set of writers
that have arrived, ignores older requests and classifies each participant.
`SendNextSignal` picks the smallest requested instant, marks who is to work and
writes the trigger. `SendStopSignal`, `HaltTimer` and `Join` are the three steps
of `send_stop_signal`, by the GTK thread or the reader of `stopRequest`. A
participant announces itself (`Announce`, `AnnounceTimeout`) until any trigger
comes, then waits for its deadline, runs its callback and asks for the next one.

DDS is external. Its last-value caches are one slot per writer or reader for
what is on its way and one for what has arrived; a newer sample replaces an
older one. Discovery of each end point is an action of its own: before it, what
the other side writes is lost. That is the only loss modelled, as the topics are
reliable. `Known` are the participants matched from the beginning.

`LogicalTime` has no network and no LCC: a clock that moves to the earliest due
instant when no member computes. `SimulatedTime` implements it under the mapping
that takes the clock to `now`, the keys of the storage to `member`, the deadlines
to `due` and the participants in their callback to `busy`.

### TimerThread and TimerDeadlines

`runner` is the thread in `start()`, `stop_pc` each thread in `stop()`, including
the runner itself, whose stop callback may call it. `Realtime` chooses
between the loops of `TimerFD` and `TimerSimulated`, `Async` between
`start_async` and a blocking `start`. A thread that joins itself throws, which
`terminated` records. What a callback computes is left out.

`TimerDeadlines` has the numbers: the first deadline after the start signal, in
arithmetic modulo `Word`, the expirations that the kernel counts while a callback
runs, the deadline after a callback that was late, and the ticks of a `SimpleTimer`.

### ControlLoop

`mw_pc` is the middleware's timer callback, `goal_pc` its reader of goal states
and the holder of `hlc_goal_state_writer_mutex`, `hlc_pc` and `planning` an HLC
and its planning thread. The flag `all_hlc_online` and the flush of the buffer are
separate steps, as in `check_hlcs_online`. Time stamps are abstracted to the period
they belong to (`answered`). Commands and goal states are tokens.

### Upload

`worker[w]` is an upload thread from the script to its return, `gtk` the GTK
thread in the creation loop, in the second branch of `ui_dispatch`, in the join or in the
destructor. The mutexes are derived from these: the GTK thread holds
`error_msg_mutex` from `close` to `join`, `upload_threads_mutex` in `join` and
`quit`, and a worker holds `notify_callback_in_use` in `notify_upload_finished`.
`Check` is atomic since it changes only what its mutex protects. The
thread `Sleeper` is the one created when no NUC is online. `stray` is a history
variable: a dispatch was left over, because two errors were shown at once or a
thread ended before the next was created. The file chooser, which also
enables the buttons, is modal and left out.

### CrashChecker

`checker` is the checking thread, whose round over the lists takes several steps,
with the 100 ms between two rounds; `gtk` starts and stops it and shows dialogs.
`hlc_map` are the NUCs whose last hello is not too old. `up` and `failed` are the
programs that run and how often each failed. `late` is a history variable: a
dialog came after the next round that found a crash.

### CommandExecution

Two message queues of the kernel, a child process per life of the LCC and its pool.
An LCC can be killed at any moment (`Lives`); the queues and the old child stay.
A command has an id, taken modulo `MaxId`, a timeout or none, and a caller who
waits or does not.

### RoundTrip and Parameters

In `RoundTrip` a message carries the counter value it was sent with and, as
history, the measurement it belongs to; the reader thread tests two atomics and
then waits for the mutex. The counter wraps at `CountMod`.

In `Parameters` each of three threads of the LCC (change by the user, request,
publication after the start) reads the storage and writes the topic in separate
steps. `overlap` is a history variable: a change came while another thread published.

### NewestSample

Samples arrive in any order with a creation stamp and the time from when they are
valid; `buffer` holds what has been taken from DDS and `received`, a history
variable, everything that ever was. Reading is the whole of `get_sample`.

### ObstacleSimulation and LogView

`ObstacleSimulation` takes a run of a timer's callback and a click as steps, because
`stop()` of a timer waits for its callback. A position is the index of a point;
what is sent to a vehicle is the sequence of points with their times.

`LogView` takes the list of the view as a bag of logs. The reader thread, the
search thread, the GTK thread and the dispatcher take turns; `search_future` is the
thread with its result. `old` and `renewed` are history variables.

### DrawnPaths

Time is counted in steps of 100 ms. A path is `Standstill` at both ends and a
number of steps between them. `Tick` is a period of everything that is periodic: the
LCC sends a piece of each path, a stop command or a joystick command, and each vehicle
chooses what it follows. The planner, clicks and the end of a distributed kill come
in between. `Losses` commands are lost at `Lossy` vehicles.

### VehicleLoop, Localization, SpiLink

`VehicleLoop` is a period of `main.cxx` with `Controller::get_control_signals`:
what arrives in between, the exception paths, the stop signal with `stop_counter`
and the reset of the readers. `Localization` writes a pose down as the list of
the updates it was computed by, so that equal poses mean equal computations. Its period ends
with `loop_count` and the reset (`Done`), also without an exchange, or with a DDS exception that skips both (`Thrown`),
so that exceptions delay the reset; an observation of `MaxAge` or older is dropped before the buffer is searched (`Recent`).
`SpiLink` has a step for every byte, every place in the loop of the firmware where
a transfer can begin, and the watchdog. A command is the number of its transfer.

### Identification and DetectVehicles

`Identification` lets the firmware tick and the camera take a frame, at the same
pace up to one irregular step in `MaxFrames` frames (`calm` counts the frames since), and computes the
edges and the id as the source does.
`DetectVehicles` is the loop over the candidates with the matrix that it changes,
one candidate a step.

### PriorityPlanning, SpeedProfile, SpeedPlanning

`PriorityPlanning` is one time step of `VehicleTrajectoryPlanner::plan` in every
planner, with a step for each wait and each message; a trajectory is the number of
the plan. `SpeedPlanning` repeats time steps: the planners take turns by the new
priorities, go back to the old ones when one of them finds no way, and keep their
plans when these fail as well. `SpeedProfile` has the arithmetic, as functions.

## 3. Runs

Parts that do not interact are checked in one run: `MCExperiment`, `MCLibrary`, `MCLcc`
and `MCVehicle` choose a `part` in the initial state, and only that part takes
steps (`Alone`). The state space is the sum of the parts and not their product, and an
invariant of a part is trivially true in the others. Liveness properties
of a part have its fairness as a hypothesis, or the run states it for the steps of
that part.

All runs allow the system to stop (`CHECK_DEADLOCK FALSE`): a stopped
experiment, a timer that has ended or a closed LCC takes no more steps.

| Run | Instance | Shows |
| --- | --- | --- |
| `Experiment` | *simulated time*: a middleware (offset 0, period 2) known from the start, a mortal vehicle (offset 1, period 1) found by discovery, one stopping thread, clock up to 3; *loops*: two HLCs in real time, either of which may be able to cancel; *paths*: two vehicles, two clicks, one lost command | status and picture of the LCC are exact, callbacks in order of time, no orphan among the known, the clock waits, `LogicalTime` is implemented; the middleware is ready when its HLCs are; paths are driven in time by their vehicle and a kill stops them |
| `SimulatedTime_liveness` | the same two participants, clock up to 2, fair | only a stop, a late participant or an orphan of discovery ends progress; a join that hangs waits for a ready signal |
| `ControlLoop_liveness` | one HLC, two goal states, fair | goal states arrive, each once; plannings do not overlap; a stop signal ends an HLC that is ready |
| `Library` | a `TimerSimulated` with two starts and two stoppers, a blocking `TimerFD` whose stop callback stops it, deadlines up to time 15, three samples, a parameter that changes twice, four measurements with a restart, four logs and three clicks | one thread joins, nothing runs after `stop()`; deadlines lie on the grid and are met; the newest sample is chosen; parameters are current; measurements are fresh; the list of logs is right and finally complete; nobody waits for ever but for the named reasons |
| `Lcc` | three NUCs and three clicks; three commands (two with an LCC that is killed and started again), a pool of two, ids up to 2, queues of one message; two local programs and a NUC, two deployments; two scenarios, four clicks, time up to 9 | counters, `upload_done`, buttons and threads agree, and two named situations lock the user out, nothing else; answers match; no false and no missing crash; obstacles are where their time is and leave no vehicle driving |
| `Vehicle` | frames of two bytes, one of them checked, two transfers, three faults; six periods, one command, three experiments, one failure; seven periods of the filter, two observations, one failed exchange or exception; all 25 ids and 52 frames, an irregular step of one of them in the first 12; five candidates with any conflicts; two planners one of which may be stopped, or three; two vehicles on 14 maps for six time steps | acknowledged commands were received, old commands are forgotten, a cut-off vehicle stops, a late observation counts as if in time, ids and lights are right, planners agree, end and plan what can be driven |
| `SimulatedTime_join` | clock up to 1 | *violated*: stopping or destroying the `TimerTrigger` returns |
| `TimerThread_self_join` | `start_async`, the stop callback stops | *violated*: the stop callback may call `stop()` |
| `ControlLoop_stop_early` | one HLC, fair | *violated*: a stop ends `start()` in any phase |
| `ControlLoop_go` | one HLC in simulated time, fair | *violated*: the middleware's list is answered |
| `Upload_join` | two NUCs, four clicks | *violated*: threads are joined after they have finished |
| `ObstacleSimulation_toggles` | two scenarios, four clicks | *violated*: the switches show the states of the obstacles |

Why the instances are enough.

* Simulated time: two participants with different offsets and periods meet at some
  instants and not at others, and one may die while the other computes; every rule about
  "all participants" already tells two apart. The clock reaches an instant both compute
  and one that only one does.
* Timers: two stoppers make every race on `join_mutex`, a second start shows what the first
  leaves behind. `TimerDeadlines` covers several callbacks that are late by more than a period.
* Control loop: HLCs meet only in the conjunction `all_hlc_online`, for which two suffice
  (they are alike, so that `Experiment` may use symmetry; it checks no liveness). With one
  HLC the reader and the timer thread still race for the buffer of goal states.
* Upload: two threads that fail and a third that works are the smallest case of the
  deadlock; three clicks are a deployment, a kill and what follows on what they left.
* Commands: the counter of ids goes round, both queues fill, both workers hang.
* Drawn paths: a path (43 steps) and a click on kill in front of it, in it and behind it fit
  into `Horizon`; a distributed kill ends before or after the stop commands (`KillTimes`).
* Vehicle: two bytes are one that is checked and one that is not; three attempts and three
  faults are a transfer that fails; the ring buffer of the filter wraps. With a period of 2, four slots and `MaxAge`
  of 4 an observation can be too old and still have its state in the buffer, as in the source (500 of 511 periods).
* LEDs: `MaxFrames` is the value of the source, 52 frames fill it, and each id is checked.
* Speeds: 24 steps with 3 per time step hold a full braking and several reductions; the maps
  are a lane, a junction and twelve crossings.

Bounds, each named and explained where it is declared: `Horizon`, `Starts`, `Operations`,
`Calls`, `Lives`, `MaxId`, `Capacity`, `Deployments`, `Failures`, `Rounds`, `Restarts`,
`Changes`, `Arrivals`, `LastStamp`, `LastTime`, `Clicks`, `ClickTimes`, `KillTimes`,
`Losses`, `Transfers`, `Faults`, `Periods`, `Commands`, `Experiments`, `Observations`,
`Frames`, `LedFrames`, `Disturbed`, `Until`, `Steps`, and `FewCalls` in `MCLcc`. They limit what the environment
does or how long a run is. Channels need no bound because the topics keep
the last sample or because their senders are bounded.

Every property of a passing run has mutants in `PROJECT.json`: plausible
mistakes in one definition (`MarkNobody`, `FlushUnlocked`, `LastSilent`, ...)
under which TLC finds that property violated. A property that puts several
parts together has a mutant for each.

### Fairness

* Threads are scheduled: weak fairness of each thread's steps.
* `ObtainFrom(p)` is strongly fair: the LCC takes samples in batches, and a
  participant that announces itself again and again must be in some batch
  although the batches before it may hold only others.
* `FlushGoals` is strongly fair: it competes with the goal reader for one mutex and gets it
  if it is free again and again. `BeforeControlLoop(v, TRUE)` is strongly fair: an HLC that
  tries `before_control_loop` again and again succeeds at last.
* The topics are reliable where the source says so, so delivery and discovery are weakly
  fair there; losses before discovery are not excluded by this. Round trip messages are best
  effort: each is finally answered or lost.
* Callbacks of participants return, and scripts of an upload end, as each has a timeout.
  Commands that may hang are not fair (`Hanging`).
* The kernel lets time pass (`Pass`), uploads end and the waiting time of the crash
  checker passes.
* The watchdog interrupt is fair while the Raspberry Pi is silent.
* In `ProgressUnlessLate` and the other runs on progress somebody starts the simulation.
* Nobody has to stop anything, and nobody has to click.

### Disagreements with the documentation

Each violation run refutes a sentence quoted in `PROJECT.json` under `findings`:

* `TimerTrigger.cpp:42`: a `TimerTrigger` that waits for ready signals is never joined.
* `TimerFD.cpp:261`: a stop callback of `start_async` that calls `stop()` ends the program.
* `HLCCommunicator.cpp:63`: a stop does not end an HLC in `before_control_loop`.
* `main.cpp:191` of the middleware: in simulated time the first list is used up by
  `before_control_loop`, and the middleware waits for an answer to it for ever.
* `Upload.cpp:209`: a dispatch that is left over joins threads at work, with the
  mutexes they need.
* `CommonroadViewUI.cpp:787`: after a new file an obstacle can be played by a vehicle
  although its switch says that it is simulated.

### Seen in the models, without a run of their own

Timers and control loop. A `TimerFD` that gets STOP before the start signal does not call
its stop callback and stays `active` (`TimerFD.cpp:164`). An instant can be written after STOP
(`TimerTrigger.cpp:225`), and two threads may join `next_signal_thread` (L234). `on_stop` can
run during a planning (`HLCCommunicator.cpp:101`). `experiment_triggered` is a plain bool read by
two threads (`Communication.hpp:348`). `SimpleTimer.hpp` says "rounded up to 50ms", the division
rounds down.

Upload and setup. A distributed deployment without a valid script within three seconds after a
click on kill leaves both buttons grey (`SetupViewUI.cpp:434`, `EmptyDeployment`). A left-over
dispatch after a kill without NUCs enables deploy in the middle of the next simulation
(`Upload.cpp:238`), since `participants_available` keeps its value; a kill and a deployment
can then overlap, and the second overwrites `thread_count` while threads of the first still count.
Hence the condition `~stray` in `ThreadCountExact` and `UploadDoneMeansDone`: TLC finds
both violated without it after five clicks.

Executor, round trip times, parameters. After a killed LCC the next one takes old answers for its
own ids; commands without a timeout can exhaust the pool; commands sent right before the end may be dropped with
EXIT or SIGTERM. An answer taken in time but stored late counts as missing. A
parameter changed while another thread publishes may be published with its old value last;
deletions are not told to receivers; a change of type leaves the entry of the old type.

Crash checker. `check_if_crashed` reads under `hlc_id_mutex` lists that `start_checking` and
`stop_checking` change without it. The second crash of a NUC that had come back is shown as a known one.

Views. After a search or a change of the level the logs still in the buffer are listed twice
(`LoggerViewUI.cpp:178`), so that only the newest half of the list is sure to be there after
`delete_old_logs`; a search begun before `reset` shows old logs afterwards. Loading a file
that is no scenario leaves no standby timer. A gap in a scenario, or a trajectory of one point,
makes what is sent to a vehicle unordered or empty.

Vehicle control. A kill without a running simulation sends stop commands for two seconds but
does not erase the drawn paths (`SetupViewUI.cpp:641`), so that a vehicle may drive on afterwards;
`StopHolds` states what is left. A path drawn while the right button was pressed off any vehicle goes
to the unused id 255. Starting a joystick without its device throws after the id was changed, and a
running loop then drives the other vehicle. The planner to the start poses goes on after a kill.

Vehicle. A command created later but valid earlier hides a fresh one; a corrupted SPI answer
keeps the age of the last position; a transfer that begins while the firmware reads its sensors
is acknowledged from the old buffer, and the interrupt can write behind `mosi_buffer` in safe mode. A second
observation in one period is ignored, and the reset of the filter leaves poses at the origin.

Positioning. An id received in the middle of a rhythm, or an LED covered for a frame, may give a
vehicle another id for about a quarter of a second (25 as 10), hence `~mixed` in `NeverAnother`. The
result of `DetectVehicles` depends on the order of the candidates.

Planners. `plan()` ignores the result of `plan_vertex_ordering_priorities` and plans again; a stop
while it synchronises lets a planner keep the new priorities; if messages of different writers overtake
each other (`Ordered` false), a trajectory of the first round can be taken for one of the second. With `vertex_ordering`, which no
run chooses, a planner that waits for synchronisation messages may wait until it is stopped: when the first in the order finds no
way, a planner writes two of them in quick succession (first `sync` 5 then 3, or 3 then 4), both under its vehicle id as the key, and a reader
that keeps the last sample of a key loses the earlier one (`VehicleTrajectoryPlanner.cpp:413` to 449 and 479 to 505). TLC finds this state with two
planners; what `PlanningCorrect` says holds in that mode too.
`set_speed` has the steps of a time step hard-coded as 8 (`VehicleTrajectoryPlanningState.cpp:412`): with
another period than 400 ms the planned braking exceeds `delta_v_step`, which is why the theorem about
it needs `Cutoff = n_steps`.

## 4. Proofs

TLAPS checks all proof modules; they use no fact that is not proved and no assumption but the
`ASSUME`s on constants, which TLC evaluates in the runs, and hypotheses of theorems named below.
They hold for every value of the constants: any number of threads, programs, vehicles,
candidates, clicks.

`Experiment_proofs`, simulated time. The status shown, the order of callbacks and the refinement cannot be proved
alone: a trigger that is still in the network or a ready signal sent three instants ago may upset
them. The inductive invariant `IInv` therefore adds to the type invariant

* `TriggersInPast`: no trigger in the network is ahead of the clock;
* `RequestsBelow`: no request, stored or travelling, is ahead of its participant's deadline;
* `PictureExact`: a request for the future is exactly that deadline, and who computes is
  not ahead of the clock;
* `StatusAgrees`.

From it follow `Lockstep` (a participant that computes is not ahead of the clock,
and one that is known and in sync has no request behind it), `ClockWaits` and
`Refinement`. Batches of ready signals are `Join`s or stutter, triggers are `Tick`s, callbacks
`Begin` and `End`, and the death of a computing participant `Abandon`. `NoOrphanCorrect`
needs an invariant of its own, `Announced`: whoever was matched from the beginning and has announced
itself has a request in the storage or on its way until it is killed, although it takes any trigger,
also somebody else's, for the answer to its announcement.

`TimerThread`, in `Library_proofs`: `TypeCorrect`, `JoinCorrect` and `QuietCorrect`, for either timer and every use
of the stop callback. The invariant says that whoever is between the flags and the end of
`stop()` holds `join_mutex` (`Guarded`), that the runner calls `stop()` only from its
stop callback (`FromCallback`), and that with `start_async` there is a thread exactly as
long as its handle can be joined, so that whoever is past the join has seen it end, while a
blocking `start` leaves no handle (`OneThread`).

`ControlLoop_proofs`: `TypeCorrect`, `ReadyCorrect`, `PlanningCorrect` and `GoalsCorrect`, in real and in
simulated time, for any set of HLCs, any of which may be able to cancel. `Types` adds to the types that the
reader holds a goal state while it forwards or buffers it and that an HLC comes to a new
planning with none that runs; that gives `PlanningAlone`. `Online` adds to `ReadyMeansReady` that an
HLC counted as online, or whose ready message travels, is prepared, and that the flag is set only when all count. For
`GoalsOnce` the goal states that wait, are held, are buffered and are forwarded have to be disjoint
sequences without repetitions (`GoalsApart`, `GoalsDistinct`), and a reader that saw the
flag clear must put its goal state into the buffer before the flush (`BufferEmptied`): the
mutex makes it so, as the mutant `FlushUnlocked` shows.

`DrawnPaths_proofs`: for any number of vehicles, clicks and lost commands, any lengths of paths and however long a kill
or a planning takes. Beside the types (`Types`, `Clicked`), the inductive invariant says

* `Owners`: a path that is drawn, stored, sent or followed is that of its vehicle;
* `Sources`: a path is set half a second before it starts; what was sent since is of that path, and
  nothing has been sent of a path from before an erasure since then;
* `Supply`: while a path is sent, the vehicle has a command from about every step, or a later one that is valid. It
  has missed no more commands in a row than were lost at all, and a command reaches ten steps
  beyond the next, which is why `DrivenCorrect` has the hypothesis `Losses < command_timeout`;
* `StopsAfter` a click on kill: as many stop commands are left as the next 1.2 seconds need. One is sent in every second
  step, so they are counted by the even steps, and each one lost costs two steps;
* `Rounds`: a path planned to a start pose is over in time before the next of its round starts.

What a vehicle follows depends on the newest command alone (`StopsLast`, `NewestServes`): the newest one that serves
is a stop command as long as these come (`StopCorrect`, `ErasedCorrect`), and the path as long as it is sent (`DrivenCorrect`).
`OwnersCorrect` and `OneCorrect` follow from `Owners` and `Rounds`.

`ReadyCorrect` and `PathsCorrect`, in `Experiment_proofs`, state `ReadyMeansReady` and `PathsSafe` as the runs check them, of the
copies of `ControlLoop` and `DrawnPaths` in `Experiment`. Each follows from the theorems of the module itself, taken for the same
constants and variables, once the two specifications are seen to be the same. `PathsAssumption` has what the theorems need:
finitely many vehicles, times in steps, and fewer losses than `command_timeout`, since a vehicle that
misses ten commands in a row does stop (`Controller.cxx`).

`Lcc_proofs`: `TypeCorrect` and `UploadsCorrect`, for any set of at most 255 NUCs. `Basics` has the types and that
one thread at a time is in `notify_upload_finished`. As long as no dispatch is left over, an
operation is in one of five phases: nothing is left (`Rest`), some threads still have to count and
every error has its dispatch (`Running`), all have counted and one more dispatch is due
(`Ending`), the GTK thread handles it (`Closing`), the LCC is closed (`Gone`); `Ui` says what
buttons and marks may be in each. From the phases follow the exact counter, the flag for
the crash checker, the clean start and the join that comes in time. After a stray dispatch only
the types are kept, and the properties do not promise more; what a stray dispatch can lead to is the
subject of `Upload_join` and of `UserNotLockedOut`.

`CrashesCorrect` in the same module is about `CrashChecker`, for any sets of programs and NUCs. The invariant adds
to `CrashesTrue` where the two threads are (`Session`: the lists are empty and no thread runs between two deployments), that whoever is not up
failed in this deployment, and after the grace period a NUC without hello too (`Missing`), so that
everything found, listed or shown has failed, and that a new crash has a dispatch on its way (`Reported`).

`AnswersCorrect` is about `CommandExecution`, for any numbers of callers, workers, commands and lives
and any capacity of the queues. An id in circulation is that of its command modulo `MaxId + 1` (`Ids`), from which
it follows that a wrong answer needs a counter that has gone round. A command is in one
place at a time, in any life (`Placement`): with its caller, in a queue, with a worker or answered. In a
first LCC the commands that still have to be answered can be assigned to callers who wait for their ids, each to
another one (`Matching`). The assignment changes when the counter has gone round and
two callers wait for the same id: whoever takes the answer of the other leaves its own.

`ObstaclesCorrect` is about `ObstacleSimulation`, for any scenarios, step sizes, lengths of trajectories and
numbers of clicks, and for a timer that is late. `ScenarioAssumption` says that an obstacle has at least one
state, as its constructor asserts, and that the times of its states are consecutive from 0 on. The second
matters: if times were further apart than one unit, the repetitions of the last point
(`ObstacleSimulation.cpp:413`) could come before a point sent already. The invariant says that a timer runs only under a preview or a
deployment, and that until it runs everyone is where he begins (`Watched`), that only who is on has a
trajectory (`Driving`), and that the points before the current one are over (`Current`). `Advancing` and
`TrajectoryFits` are the loops of the source: where the index stops, and what a trajectory of two pieces looks like.

`Library_proofs` is about the parts in `Library`, each with its own specification.

* `PeriodsCorrect` and `CatchesUpCorrect`, for any period and offset. `TimesAssumption` says that the times,
  nanoseconds since 1970, stay so far below `Word` that no sum is cut off, and that the offset is below the
  period, as the constructor of `TimerFD` demands; `TickAssumption` that a `SimpleTimer` has the period of its
  tick or a multiple. `Instants` says that the deadline is on the grid and has come when the callback
  runs, `Simple` how many ticks lie between the last callback of a `SimpleTimer` and the deadline. The lemmas
  before them are arithmetic: quotient and remainder are unique, and the two ways in which the source
  rounds up give the next instant of the grid, although it subtracts from unsigned numbers.
* `SelectionCorrect`, for any stamps, depth and number of vehicles: what was removed from the buffer
  is older than a valid sample that is still there (`Covered`).
* `ParametersCorrect`, for any order of types and any programs and changes. As long as no change came while another
  thread published (`overlap`), a thread that writes writes what is stored, the GTK thread has not passed the type of
  what is stored, and whoever is matched when nobody publishes has it or will take it from
  the sample that is last on its way (`Current`); who is not matched has nothing (`Unmatched`).
* `RoundTripCorrect`, for any participants, counter, waits and restarts. At most one answer is behind the
  tests of the reader, where it waits for the mutex, so that of the answers there and in the vector at most one is
  old (`Answers`); what is stored belongs to the generation that is measured (`Generations`), and who has
  answered once has missed less than was measured (`Statistics`).
* `LogsCorrect`, for any logs, levels, filters, clicks and buffers. `LogAssumption` has the order of the bounds: no more is shown
  (100) than the buffer holds (100), and that holds no more than is stored (10000). The stored logs are those after some number, and
  those in the buffer the ones after another one (`Kept`), so that a log dropped from a full buffer before it was listed is not
  among those to be shown. `Complete` says which logs are listed, and that those in the buffer may be listed once more;
  the rows of the logs after a log fill at most as many places as these logs, or twice as many once the list was made anew
  (`SumBound`, by induction over the sum in `delete_old_logs`), so that it is not pushed out. When the GTK thread is free every search
  that runs is for the text (`SearchInv`); while it waits in `kill_search_thread` an old one may still finish, but then the list is not filtered.

`LinkCorrect` in `Vehicles_proofs`, for frames of any length, any number of attempts from three on, any
number of transfers and of disturbed frames. `LinkSafe` speaks of transfers that began while
the ATmega waited for them, and the invariant says what such a transfer looks like: `Basics`
has the types and what holds of every transfer, `During` is the transfer and `Afterwards` the pass
of the loop behind it. In `During` a frame is on its way (`Halfway`: both sides have the bytes so
far in their places, at most the first is disturbed) or the ATmega has validated it and the
Raspberry Pi looks at the answer (`Validated`). `OnTheWay` counts: without a disturbance the
first frame is received and the second acknowledges it, and each disturbed frame costs one more, so
that the last attempt fails only if at least two were disturbed. That is why
the number of attempts must be at least three. `Afterwards` says what the loop has
already done with the command and the readings when the next transfer comes.

`Vehicles_proofs`: `ObedienceCorrect`, for any numbers of commands, experiments, periods and failures. The assumption
that matters is `Transit <= STOP_STEPS`: the pause of one second after a stop signal only helps against commands that
are not on their way for longer. `Ages` says that commands of an experiment known to be stopped are older than
its stop signal, `Pause` how much of the pause is left, and that the readers have no old command once it is over: the
reset throws away those that had come, and what is still on its way then was sent after the signal.
`LostIpsCorrect` needs that the age the vehicle knows of its position is never too low (`AgeKnown`).

`AssignmentCorrect` in the same module, for any number of candidates and any conflicts. Beside the three
properties the invariant says who has been looked at (`NeighboursResolved`), that only conflicts
with somebody resolved are forgotten (`ForgottenResolved`), that nobody has a conflict
with somebody dropped (`DroppedForgotten`), and what `OnlyUnsolvableLeft` says of the
candidates already passed (`UnsolvableBehind`).

`IdentificationCorrect` in the same module is about `Identification`, for any ids, any length of the time
series and any number of frames. `LedAssumption` has what the tables of rhythms must be: the LED is on for at least two
ticks and off for at least two, two rhythms are `Distinguishable`, and the time series holds the longest; TLC checks it of
the tables of the source. The invariant says what the camera has in its time series (`LedInv`): outside safe
mode the frames since the last disturbance are those of a clock that missed or repeated at most one tick
(`RhythmShown`, `Shows`), and in safe mode a vehicle is seen at a flash only and followed for at most
two frames (`FlashesShown`). That the disturbances are `MaxFrames` apart is needed for the first part, since
two missed ticks in one period would be beyond the tolerance. From there on it is about sequences of ticks alone: without an edge the
phase goes on like the clock (`OneRun`, by induction), so that three edges next to one another are as far apart as the rhythm says,
within one frame (`EdgeDistances`), and `FramesNeeded` frames hold three (`ThreeEdges`). `DecodingCorrect` says
that such edges fit one id only.

`FilterCorrect` in the same module is about `Localization`, for any size of the buffer, any period, maximum age, reset and
numbers of observations, failed exchanges and exceptions. `AsIfNeverLate` compares the newest pose, which the ring buffer got from steps repeated in any
order, with a fold over all that was logged. The invariant says it of every state in the buffer: the `i`-th state is
the one of the `i`-th last update, with the observation that belongs to it and the pose of the filter that knows all
observations after as many updates (`Recorded`); it also says that updates and observations are made in
different periods (`LogTimes`, `SeenOnce`), so that an observation belongs to one state, and to the same
whenever it comes. `Linked` carries `HistoryConsistent` past the reset. What the loop of `Reprocess` computes, and what the fold
over the log is, are proved by induction over the states and the updates.

Induction is not built into the provers: `Recursion` proves it. `Least` takes the least element of a set of numbers
from the well-foundedness of `<` in the library; `Induct` follows. The folds of the
community modules choose a function that satisfies a recursive equation, and say nothing unless there is one;
`FoldExists` shows by induction over the cardinality that there is, so that a fold can be unfolded once, at its last
element. What this does not reach are operators declared `RECURSIVE`, which occur in no module that is proved about.

`Planning_proofs`: `PlanningCorrect`, for any number of planners, any old order of priorities and any stops. Its
assumption `Fleet` says that vehicle ids are numbers, that the priorities are by id, drawn, or by vertex ordering (not by
auction, mode `fca`), and that the messages of a topic arrive in their order (`Ordered`). Three things have to be known of every two planners, and `Two` says
them: how far each is in its time step (`Level`; `Barriers`: nobody passes a synchronisation that another has not
reached, and all who have passed it go on in the same way, with the same priorities), what each knows of the other (`Known`:
the number drawn, and the plan it avoids), and what is on its way between them (`Trajectories`, `Outcome`: a planner that found no way has sent that to all
that are not so far, and one that found a way has heard that those before it had found one). A planner that goes on to its next step disturbs what is said of it
and of every other planner, so each step of the code has two lemmas, one for the planner that takes it and one for a
message on its way. In vertex ordering the first trajectory only tells that a planner is there (`Optimals`).
That those ahead of one planner and those behind it are told apart in the same way by both needs that an order of
priorities has no vehicle twice (`Permuted`), and with drawn priorities that both have compared the same numbers (`Before`). Once somebody is
stopped only types and what a planner knows of itself are kept, for then a planner goes on alone.

The same module, about `SpeedPlanning`: `PlansDrivable`, under `Parameters`, which are the assertions of the constructor and
`Cutoff = n_steps`. Both the current and the old profile are `Drivable` and begin alike (`SameStart`), so that a plan
can be given up at any time; the lemmas say that `SetSpeed` keeps a profile drivable, as the lower of two smooth profiles is smooth.
`NobodyMeetsCorrect` needs in addition that every vehicle has its turn and that touching is symmetric
(`Roads`). A path is the sum of the speeds before, unfolded by induction (`PathIs`), so that shifting a
profile continues its path (`PathShift`). `RoadInv` says that those who have planned in this round are apart from
each other, and that on the plans to go back to all are: giving up is safe in any round.

Only model-checked:

* all liveness properties and `NeverStuck`: the prover has no rule for fairness and `ENABLED`;
* of `CutOffVehicleStops` the first half, `SilenceStopsMotor`, which is liveness too;
* `PlannersAgree` in the mode `fca`, where the order comes from an auction; `PlanningCorrect` has the other modes.

## 5. Not modelled

* The shell commands of `Deploy`, ssh and the scripts: success or failure.
* What callbacks, HLCs and the mid-level controller compute; vehicle dynamics, the MPC, image
  processing, calibration, geometry of routes and scenarios, all of it numerical.
* Positions in `Identification`: vehicles within 0.09 m of one another, centroid to centroid, for which
  `DetectVehicleID.cpp:104` (a `break` that is commented out) takes several points of one frame into the track.
* DDS itself: delivery, discovery and caches as described above. Liveliness and
  the death of the LCC are left out in simulated time, since no code there handles them.
* Real time, except where a module counts it in periods.
* The monitoring tab, drawing, files, cameras, device drivers, vendored and generated code
  (`bcm2835`, `casadi_mpc_fn.c`), which make up most of the lines the map does not cover.
* The aggregators that hold samples for display behind one mutex each; autostart.
* In `PriorityPlanning` and `SpeedPlanning`, the geometry that decides where two vehicles touch.

`PROJECT.json` lists every part with its state of work and every hazard with the
properties that cover it.

## 6. Plan

Done: the modules of section 2, their runs, and the proofs of section 4.

Still to come, in the order of importance:

1. An abstract specification of an atomic stop that `TimerThread` implements.
2. `PlanningCorrect` for the mode `fca`: the invariant needs what each planner has heard of the auction.

## 7. Running

    cd tla
    tlc -workers 2 -config Experiment.cfg MCExperiment.tla
    tlapm Experiment_proofs.tla

The module of each run is in `PROJECT.json`. Each run ends within a few minutes on two
cores; `Lcc_proofs` takes ten minutes, `Planning_proofs` eight, the other proof modules less.
