# ENKA-S: specification, model checking and proofs

TLA+ specifications of [ENKA-S](../src/README.md), a Qt application that simulates N-body
systems, shows and records a simulation while it runs, and replays recorded ones. The modules
are translated from the C++ sources under `src/`; `PROJECT.json` maps every definition to the
lines it stands for. Paths below are relative to `src/app/src/` unless they start with `core/`.

## 1. The system

### Components, their state and operations

| Component | State | Operations | Model |
|---|---|---|---|
| Blocking queue (`core/dataflow/blocking_queue.h`) | deque, mutex, two condition variables | `pushBlocking`, `popBlocking`, `size` | `BlockingQueue` |
| Memory pool (`core/dataflow/memory_pool.h`) | free objects; an acquired object returns when its last `shared_ptr` goes | `acquire` (blocks when empty) | in `LivePipeline` |
| Latest value slot (`core/dataflow/latest_value_slot.h`) | one `shared_ptr` | `set`, `pop` | in `LivePipeline` |
| System ring buffer (`core/dataflow/system_ring_buffer.*`) | circular array, `tail_`, `read_`, `head_`, shutdown flag | push at either end, read in either direction, clear, shut down | `SystemRingBuffer` |
| Simulation worker (`workers/simulation_worker.*`) | simulator, times of the last updates, stop flag | generate, initialize, run, abort | `LivePipeline` |
| Queue storage workers (`workers/queue_storage_worker.h`) | queue, save function | run until the sentinel, abort | `LivePipeline` |
| Simulation runner (`managers/simulation_runner.*`) | pools, queues, writers, worker threads, window, presenter | start the procedure, forward signals, open window, destroy everything | `LivePipeline` |
| Live window and presenter (`presenters/simulation_window/`, `views/simulation_window/`) | chart worker, renderer's snapshot, timer | post chart points, render the newest snapshot, be deleted later | `LivePipeline` |
| Simulators (`core/src/simulation/simulators/`) | two system buffers, accelerations, potential energy; HITS: a schedule of particles | initialize, step | `SimulatorBuffers`, `Integrators`, `HitsSchedule` |
| Barnes-Hut tree (`core/src/simulation/simulators/barneshut_tree.cpp`) | nodes | insert, subdivide, perturb, update masses, sum forces | `BarnesHutTree` |
| Snapshot files (`core/files/`) | `system.csv`; index from time to place, iterator | write, build index, next, preceding, at a fraction, retreat | `SnapshotIndex`, `SnapshotStream` |
| System buffer worker (`workers/system_buffer_worker.*`) | requests in atomics, stream, ring | loop: backward steps, jump, forward | `ReplayPipeline` |
| Simulation player (`managers/simulation_player.*`) | `is_playing_`, timers, ring, worker thread | toggle, step, jump, timer, destroy | `ReplayPipeline` |
| Playback controls (`views/simulation_window/replay/`, `widgets/playback_bar.*`) | `playback_active_`, `halt_for_jump` | buttons, slider | commands of `ReplayPipeline`; own state not modelled |
| Diagnostics charts (`widgets/diagnostics_widget.*`, `core/charts/`) | full series, extremes, timer, what is shown | add a snapshot, fill, refresh, downsample | `DiagnosticsCharts` |
| New simulation tab (`presenters/new_simulation/`, `views/new_simulation_tab/`) | runner, timers, page shown, settings per method, tasks | edit, change method, load settings, start, abort | `NewSimulation` |
| Load simulation tab (`presenters/load_simulation/`, `views/load_simulation_tab/`) | paths, icons, parsed data, player, tasks | choose folder, handle answers, play, end | `LoadSimulation` |
| Main window (`presenters/main_window/`) | current tab | switch tabs, start and stop their timers | `MainWindow` |
| Task runner (`services/task_runner/`) | tasks on the thread pool | run, post the result | sets of tasks in the two tabs |
| File parser (`services/file_parser/`) | none | count snapshots, read duration, parse series and settings | counts and duration in `SnapshotIndex`; outcomes in the tabs |
| Settings (`core/settings/`) | map from key to value | convert to and from JSON, merge, get | `Settings` |
| Forms and factories (`views/new_simulation_tab/settings_widgets/`, `core/factories/`) | a widget per parameter | show, read, clamp; make generators and simulators | `SettingsSchemas` |
| Generators, floating-point physics, rendering, logging | | | not modelled, see section 8 |

### How they interact

*Tabs.* The GUI thread owns forms, tabs and presenters. Forms become a `Settings` object, the
object a `SimulationRunner`. Files are parsed by tasks on the thread pool; a task posts its answer
to the GUI thread when it is done, so answers come in any order and after the question may have
changed. The load tab gathers what the answers bring and hands it to a `SimulationPlayer`. The
main window tells the tabs when they are shown, which starts and stops their preview timers, which
starts, aborts and playbacks do as well.

*Live.* The signals of the runner reach the simulation thread as posted events: generate,
initialize, run. `runSimulation` takes buffers from the pools, steps the simulator, puts the system
snapshot into the renderer's slot and into the storage queue, and the diagnostics snapshot into the
chart queue and the storage queue. One worker thread per queue writes a file; the chart worker posts
a closure with the snapshot to the GUI thread, which appends a point to the charts; a timer redraws
them. Destroying the runner (abort, or the end of the program) runs on the GUI thread: it raises the
stop flag, pushes a sentinel into each storage queue, joins the threads, and leaves presenter and
window to `deleteLater()`.

*Replay.* A `SimulationPlayer` on the GUI thread reads frames from the ring buffer, one per timer
tick or button, and sends requests to the `SystemBufferWorker` through atomics. The worker reads
the file through `SystemSnapshotStream` and fills the ring ahead of the reader, or behind it.

### What is hard

* Waiting in circles: queues, pools and posted events hold buffers that another thread waits for,
  and the GUI thread, which would release them, waits in a destructor.
* Deferred deletion: objects that `deleteLater()` leaves alive use memory of the runner.
* Aliasing: simulators keep buffers they have published as snapshots, and get buffers from the pool
  with what was in them.
* Check and use in two locks: the replay worker asks the ring for its tail's time, then pushes;
  pushes, then asks whether it is full.
* Requests that are overwritten or unset while they are served.
* Index arithmetic with three indices in a circular array, at the limits of capacity and retention.
* A schedule keyed by time, in which equal times collide.
* Recursion whose end depends on the distance of two particles.
* Files cut by a killed process; index entries that are made one snapshot late.
* Answers of background tasks that arrive after the question has changed, and carry no name of it.
* Limits kept in several tables: editors, factories and the library's validation.
* Timers that several events start and stop.

`PROJECT.json` lists these hazards with their lines and the properties that cover them.

### What correctness means, per component

* Queue: a bounded FIFO that serves whoever waits; no wakeup is lost.
* Ring: a bounded window with a cursor; the reader stays inside; at most `retain_count` frames
  are kept behind it.
* Live pipeline: every snapshot reaches its consumers once and in order; a file lacks at most the
  last one; an abort ends; the screen catches up; a snapshot keeps the state it was made from.
* Replay: the buffered stretch is contiguous and the stream continues it; frames are shown in
  order; playback never stalls; closing ends.
* Simulators: forces are those of the system they accelerate; HITS advances to the earliest due
  particle; the tree counts each mass once and ends.
* Files: what was written is read back; damage stays local.
* Charts: the points shown are the series, up to the last snapshot.
* Tabs: what is shown belongs to what is named; forms keep what was entered; page, timers and
  runner agree; settings survive being saved and loaded; what a form accepts can be started.

## 2. Modules

| Module | Contents |
|---|---|
| `BoundedFifo` | abstract: a queue with offers and requests |
| `BlockingQueue` | one action per critical section of `pushBlocking`/`popBlocking`, the wait, the notification after the unlock, spurious wakeups; implements `BoundedFifo` |
| `BlockingQueueProofs` | types, refinement, no lost wakeup |
| `FrameWindow` | abstract: a sequence of frames with a cut between read and unread |
| `SystemRingBuffer` | the three indices and the array, one action per method that changes an index or hands out a frame (under the mutex); implements `FrameWindow` |
| `SystemRingBufferProofs` | types, the three index invariants, refinement of `FrameWindow` |
| `SimulatorBuffers` | which buffer a simulator's step reads and writes: `SwapStep` for Euler, Leapfrog, Hermite and Barnes-Hut, `CopyStep` for HITS |
| `LivePipeline` | extends `SimulatorBuffers`: threads, pools, queues, posted events, both destructors |
| `LivePipelineProofs` | types, delivery in order, complete files, what published snapshots hold |
| `MCLive` | `LivePipeline` with what runners may be constructed with |
| `SnapshotStream` | the iterator over a file's index |
| `SnapshotIndex` | building the index, one action per kind of line |
| `SnapshotIndexProofs` | entries inside the file, rows of a snapshot have its time; the index of a written file is exact |
| `ReplayPipeline` | extends `SystemRingBuffer` and `SnapshotStream`: worker and player |
| `ReplayPipelineProofs` | the window is contiguous, the stream follows it, frames are shown in order |
| `HitsSchedule` | the particle schedule of HITS and the loop that drives it |
| `Integrators` | the order of moves, force updates and kicks of the other four simulators |
| `BarnesHutTree` | building the tree call by call, masses, the nodes a force is summed over |
| `DiagnosticsCharts` | series, timer, extractors, downsampling |
| `RecursionLemmas` | recursive functions have a solution; sums and extremes of finite sets: what proofs about recursion over data need |
| `ComputationsProofs` | HITS: types, due times, progress of time; integrators: forces belong to their system; tree: each mass counted once; charts: what is shown is the series |
| `Settings` | keys, values, JSON, merge |
| `SettingsSchemas` | extends `Settings`: the forms, and what factories and library accept |
| `NewSimulation` | extends `SettingsSchemas`: the tab that starts a simulation |
| `LoadSimulation` | the tab that replays one |
| `MainWindow` | composes `NewSimulation` and `LoadSimulation`: tabs and timers |
| `FormHistory` | `MainWindow` with the forms last shown, as history |
| `MainWindowProofs` | tabs: pages, paths, timers, what is named and played, forms and settings |
| `MCMainWindow`, `MCTree`, `MCComputations` | instances; the last composes `HitsSchedule`, `BarnesHutTree`, `Integrators` and `DiagnosticsCharts` without interaction |

`LivePipeline` uses a queue's push and pop as single actions: `BlockingQueue` is shown to
implement `BoundedFifo`, whose `Enter` and `Take` they are. `ReplayPipeline` uses the operations
of `SystemRingBuffer` itself, not those of the abstract window, so that the worker's separate
critical sections interleave with the player's. Its file is a sequence of readable snapshots,
which `SnapshotIndex` justifies for files the simulation has closed (`WrittenFileReadBack`).
`NewSimulation` reduces the runner to the three signals a tab sees; `LivePipeline` has the rest.

### State and actions against the code

`BlockingQueue`: `status` says where a thread is in a call: before its critical section or
awake again (`checking`), inside `wait`, between unlock and notification (`notifying`). `item` and
`result` are the argument and the result. `Push`, `WaitWhileFull`, `NotifyEmpty` are
`pushBlocking`; `Pop`, `WaitWhileEmpty`, `NotifyFull` are `popBlocking`. `NotifyOne` wakes any one
waiter, or none when none waits.

`SystemRingBuffer`: variables are the members of the class; a snapshot and its time are one
frame. Each method is one action with its early returns as guards; a call that returns early
changes nothing. `TrimmedTail` is the loop at the end of `readForward`. `isFull`, `isEmpty`,
`hasReaderCaughtUp` and `size` read two indices without the mutex (`system_ring_buffer.cpp` 96-102).
Inside the methods it is held; from outside, `isFull` is asked by the worker only, and since no
other thread changes `head_`, it reads one index that may change under it, which `readForward` moves
by one place at a time (`RingRetainBounded`): one access in the model. `size` is asked by the GUI thread for the
debug display, where the two may be of different moments; it is left out.

`LivePipeline`: `simTodo` holds the calls that are left of the current iteration of
`runSimulation`, `guiTodo` those of the destructor the GUI thread is in; the first one is
performed when it does not block. `config` is what the runner was constructed with: sizes of pools
and queues, files to write, kind of simulator, length of the run; a behaviour keeps one of
`Configurations`. `simEvents` and `guiEvents` are the event queues of the two
threads. Buffers are named by the step they are acquired for, and a pool is empty when `PoolSize`
of them are held by anyone (`DataHeld`, `SnapshotsHeld`): by a local variable of the iteration,
the slot, a queue, a worker's hand, a posted closure, the renderer or the simulator. `want` is
chosen at each step, since the two update intervals are settings. Qt drops what is posted to an
object that is gone: `Posted` no longer counts its buffers, and `DropEvent` passes over it when it is
reached. `sent` (the steps pushed to a channel) and `got` (what it has received, in order) are
history. `content` is the state that each buffer holds; a step writes it at once, so that a reader
sees the state before or after, where the program's reader may see some particles of each.

`ReplayPipeline`: `worker` is the place in `SystemBufferWorker::run` between two accesses to
shared memory; every lock or atomic access is an action of its own. `jumpFraction` names the frame
that the fraction leads to. `timers` counts pending `singleShot` calls. The handlers of the player
are one action each: they use the ring once. The destructor is three: stop request, shutdown of
the ring, join. `jumped` and `steppedBack` are history.

`SnapshotIndex`: a line is its time, if that can be read, and whether the other columns can be
read. `SkipLine`, `CountRow` and `StartSnapshot` are the ways through one round of the loop of
`buildIndex`; `Finish` is what follows the loop; `FinishHeaderOnly` is the early return for a file
without a line behind the header. A stream position is the number of a line. `Readable` is the
loop of `parseSnapshotFromIndex`, `CountedSnapshots` and `SimulationDuration` are the file
parser's answers for the same file.

`HitsSchedule`: `schedule` is `particle_schedule_`. A step takes the entry with the least time,
gives its particle a new time step and inserts it again, unless the new time is taken. Forces
only choose the time step, so it is any of `StepSizes`, limited to 30 % growth as in
`updateParticleTimeStep`. Time is a natural number of ticks and exact.

`Integrators`: an array is named by where its values come from: positions by the step they are of
(`NoBuffer` for what is not a step's: the generator's, or zero), masses as generated, scaled or
zero. `forces` names the system from which accelerations and potential energy were computed last;
Hermite computes them at positions it has predicted for the new system and corrects afterwards
(`Prediction`), in the same buffer. `kicks` is history: which forces a step added to the velocities of which system. A step may be
given a buffer of the pool, with what it held before, or none.

`BarnesHutTree`: a node is named by the octants on the way to it, an octant by the axes along which
it lies above the centre. A step is one call of `insertRecursive`: the particle finds an empty leaf,
is perturbed, divides a leaf, or goes down. Coordinates are integers, so a perturbation below the
resolution is zero, as it is for doubles that are small against their position. `Summands` are the
nodes at which `sumForcesRecursive` stops and adds a mass.

`DiagnosticsCharts`: the `k`-th snapshot has the time `k`, its energy is any of `Energies`. `armed`
is the pending `singleShot`; `fired` tells a refresh from a stutter, for fairness. Bucket sizes of
the downsampling are exact fractions; areas are compared as cross products times the bucket's count.

`Settings` and `SettingsSchemas`: numbers are ranks (zero, the least number above it that an editor
takes, an ordinary number, a larger one), tagged with the alternative of the `std::variant`. JSON
writes a double as a number with a point and an integer without. `EditorOf` is a row of a schema.
`MakesGenerator` and `MakesSimulator` combine the keys that the application's factories ask for,
with their types, and the library's `isValid()`.

`NewSimulation`, `LoadSimulation`: `panel` is, per side of the form, the method shown, the one shown
before, the values in the widgets and those stored for other methods. `tasks` and `parsing` are
sets: an answer is handled in any order. An exception that leaves a slot or a task ends the program
(`crashed`, `loadCrashed`); of the JSON library's, only `parse_error` is caught
(`file_parser.cpp:29`), so a number out of range ends it (`ParseThrows`, `SettingsThrow`). `States`
are the kinds of damage a file may have and `ReadableStates` which of them each of the five parsers
reads over: the initial system needs no more than the first snapshot, the count every line whole,
the duration only times. `hurried`, `early`, `closedElsewhere` and `known` are history: a folder
was chosen while tasks were under way; playback began before all answers had come; a playback was
closed while another tab was shown; the values that were last shown for a method. File dialogs
return any of the files, or none.

## 3. Runs

| Run | Question | Instance |
|---|---|---|
| `BlockingQueue` | Is it a live bounded FIFO, and does no thread sleep over an item or a free place? | 2 producers, 2 consumers, 2 items, 2 places |
| `SystemRingBuffer` | Do all sequences of operations implement the window? | 4 frames in 5 slots, 2 retained, 2 distinct frames |
| `Live` | Do snapshots reach files, charts and screen, what do they hold, and do runs and aborts end? | four configurations, see below |
| `LiveAbortHangs` (violation) | Does an abort end when posted closures hold all diagnostics buffers? | 3 steps, pools of 2 |
| `LivePresenterOutlivesRunner` (violation) | Is the presenter gone before the runner? | 1 step |
| `Replay` | With all commands: contiguity, order, progress, closing | ring of 3, 1 retained, file of 4, 3 commands |
| `ReplayDropsFrame` (violation) | Is the buffered stretch contiguous with steps backward? | ring of 3, 2 retained, file of 4 |
| `SnapshotIndex` | Is the index right for every file? | 5 lines, 3 times, with every kind of damage |
| `MainWindow` | Do forms, answers, pages, timers and files agree? | four users, see below |
| `Computations` | Do schedule, tree, integrators and charts compute from the right data? | 3 particles each, 4 buffers, 7 chart points |
| `HitsDropsParticle` (violation) | Does every particle stay scheduled? | 2 particles |
| `TreeNeverEnds` (violation) | Does the tree end with coincident particles? | 3 particles, two at one place |

### Bounds, and why they are enough

* Queue: two threads on each side are what it takes for a notification to reach the wrong one;
  two places let the queue be empty, partly filled and full. The proofs drop the bounds.
* Ring: five slots with two retained let each of the three indices wrap while the others have
  not, and give every relation between them; data independent, so two frames suffice to tell a
  right slot from a wrong one. The proofs drop the bounds.
* `Live`: the code has 512 buffers and 512 places per queue. What matters is their relation to each
  other and to the length of the run. `Files`: 3 steps, both files, queues of one (all pushes
  block), pools that outlast the run. `Pressure`: 4 steps, pools and queues of two (acquire blocks,
  the queue cannot). `Rendering`: 4 steps of a simulator that copies, pools of five, some steps
  retrieved and some not. `Swapping`: the same steps with a simulator that swaps, pools of four,
  a queue of one: a buffer published at step 1 or 2 can be overwritten at step 3 or 4. `MaxSteps`
  bounds the simulated time.
* `ReplayPipeline`: a ring smaller than the file, so that it fills and trims; playback wraps
  around the file; `MaxCommands` = 3 commands of the user, each of which may come at any moment,
  admit the races found (two jumps; pause, backward, continue).
* `SnapshotIndex`: `MaxLines` = 5 lines give up to five snapshots, snapshots of several rows, and
  damage before, inside, between and after them. The proofs drop the bound.
* `MainWindow`: a behaviour has one of four users, so that the parts they use multiply only where
  they meet: *numbers* edits one value of any method, starts, saves, and loads a file; *files*
  switches methods and chooses files; *folders* opens folders while tasks of earlier ones are under
  way, and plays; *tabs* switches tabs around a simulation and a playback. `MaxEdits` = 3 edits,
  `MaxTasks` = 2 tasks asked for (what a later answer can overtake), `MaxStarts` = 1 simulation,
  `MaxChoices` = 2 folders of six kinds: whole; without a system file; without settings and with the
  first snapshot damaged; with a system file torn later on; with settings that lack a method and
  diagnostics that cannot be read; with a number out of range. *tabs* opens the first or the fifth.
  A user has the two initial methods and any one more (`Menus`).
* `HitsSchedule`: three particles and steps of 4 to 6 ticks collide in pairs and all three; from 4
  a step may grow to 5 but not to 6. `Duration` = 24 is a parameter of the program, not a bound.
* `BarnesHutTree`: three particles at any of six places: close pairs, distant ones, on a line and
  off it, a third far away, and at the same place. Squares of theta 0, 1/3 and 9: every particle by
  itself, the largest without self-attraction, nearly everything accepted. `MaxDepth` = 8 is the
  stack; none of the places needs it. For `MassCountedOnce` the proof drops the bounds, for
  `NoSelfAttraction` where no two particles coincide.
* `Integrators`: four buffers let each come back while another one is held; after four steps every
  pattern of given and absent buffers has repeated. The proof drops the bounds.
* `DiagnosticsCharts`: seven snapshots for a chart of four points give buckets of unequal size and
  refreshes before, at and above the threshold; energies are zero or negative, as those of bound
  systems are. For `ChartsShowSeries` the proof drops the bounds.

### Fairness

Weak fairness is assumed of every thread of the program: the operating system runs a thread that
can run. The GUI thread, while it is not inside a destructor, comes to every posted event and
every timer, as Qt's event loop does. Nothing is assumed of the user, who need not abort, close or
press anything, and no spurious wakeup has to happen. In `BlockingQueue` fairness is per thread
and per call in progress; weak fairness is enough because a waiting thread that has been woken
stays awake until it has taken the mutex. In `MainWindow` it is of the runner's progress and of
the answers of either tab's tasks, as changes of `runner`, `tasks` and `parsing`: threads of the
runner and of the pool finish, and the GUI thread handles what they post. In `Computations` the
simulation thread goes on (schedule and tree) and the timer of the charts fires.

`CHECK_DEADLOCK FALSE` appears where the system may stop: `Live`, since after runner, presenter
and window are gone nothing is left to do; its two violation runs, where an abort may also hang;
`MainWindow`, once the bounds on the user are used up; `Computations` and `TreeNeverEnds`, since
computations end.

## 4. What the runs show

* `IsLiveFifo`, `WakeupsPending`: notifying after the unlock loses no wakeup, with either side
  having several threads and each side's condition variable shared by them.
* `ImplementsWindow`: every operation of the ring on three indices is an operation on a sequence
  with a cut; `ReaderInWindow` and `WindowFilled` are the invariants it rests on.
* `DeliveredInOrder`, `FileLacksAtMostLast`: an abort pushes the sentinels before it joins
  the simulation thread, so the snapshot of the iteration under way may come to stand behind the
  sentinel; it is the only one that a file can lack.
* `AbortWithBuffersCompletes` (where a chart's closures cannot exhaust the pool),
  `SimulationCompletes`: with queues as large as the pools the simulation thread only ever
  waits for buffers, and gets them while the GUI thread runs.
* `SnapshotKeepsItsState`: HITS copies, and any simulator that is given a buffer at every step has a
  fresh one to compute into (`LeavesPublished`); their snapshots stay as they were. Where some steps
  retrieve nothing the others overwrite snapshots that are being written to a file or drawn, but
  never with the state of the next step, nor with one that another snapshot has.
  `NewestIsRendered`: overwriting the slot never leaves an old frame on the screen for ever.
* `ForwardWindowContiguous`, `StreamFollowsWindow`, `ShownInOrder`: without steps backward,
  playback, single steps and jumps at any moment neither skip nor repeat a frame.
  `PlaybackContinues` and `CloseCompletes` hold with every command.
* `WrittenFileReadBack`, `TornFileKeepsEarlier`, `SnapshotHasItsTime`, `ParserAgrees`: a closed
  file is read back exactly; a cut last line costs the last snapshot and, when its cut time
  happens to be that of an earlier snapshot, that one; a blank or damaged line makes its snapshot
  unreadable but never lends it rows of another.
* `MethodsKeepTheirValues`, `LoadShowsFile`: forms are stored and shown again per method, whatever
  the order of edits, switches and loads, and a loaded file replaces both sides.
  `SavedSettingsReload`: types survive JSON. `FormIsAccepted`: the editors' limits are within the
  library's, but for one value (below). `PathIsChecked`: a path without a system does not stay.
* `PageShowsRunner`, `TimersFollowTab`, `BackgroundWorkEnds`: pages, buttons and timers follow
  runner and tab; a simulation that can be prepared leaves the preparation page, and no icon keeps
  loading, unless the program ends.
* `TabTellsTheTruth`, `PlaysFilesFound`, and what they assume: with one folder at a time, and
  playback begun after its answers came, icons and buttons say what can be read of the folder's
  files, and playback gets its system file and what could be read of it and of the diagnostics. Both
  assumptions are needed; the history variables name them. What could not be read stays an earlier
  folder's (below).
* `PredictsWithinStep`, `HitsReachesEnd`: no scheduled particle is predicted beyond its step, and
  the duration is reached although particles may be lost.
* `MassCountedOnce`, `NoSelfAttraction`, `TreeBuildCompletes`: whatever cells are accepted, every
  other particle's mass enters a force once, in a leaf or in a cell whose mass and moments are those
  of the particles in it; up to a theta squared of 1/3 no accepted cell holds the particle itself;
  particles at different places get leaves of their own.
* `ForcesBelongToSystem`: through every exchange of buffers a system is accelerated by forces of its
  own positions, Hermite's by forces of the positions predicted for it, and of the scaled masses, but
  for the first step of Leapfrog and Hermite; and of which positions the potential energy of the
  diagnostics is, for each method.
* `ChartsShowSeries`, `VisibleChartsCatchUp`: downsampled charts span the series without gaps longer
  than two buckets; a chart in sight catches up, though the timer skips charts out of sight.

### Disagreements between the code and its comments

1. **An abort can hang** (`LiveAbortHangs`). The destructor waits, on the GUI thread, for the
   simulation thread, which may wait for a diagnostics buffer; all of them may be held by closures
   posted to the GUI thread.
2. **The presenter outlives the runner** (`LivePresenterOutlivesRunner`), although the comment at
   `simulation_runner.cpp` 105-106 demands the opposite: `deleteLater()` takes effect after the
   destructor has returned and the pools are gone.
3. **A step backward can drop a frame from the buffer** (`ReplayDropsFrame`): the tail's time is
   read in one critical section and the preceding snapshot pushed in another.
4. **HITS drops particles** (`HitsDropsParticle`): `particle_schedule_` has one particle per time.
5. **Coincident particles never get leaves of their own** (`TreeNeverEnds`): the perturbation is
   lost when a child is entered, and is nothing where it is below the resolution of the position.

Met while modelling, without a run of their own. The first group can be tried with definitions that
are kept for it:

* `PlaysLoadedFolder` (`LoadSimulation`) is false: data of an earlier folder is never reset, so a
  folder without a system file is played with the earlier one's, and a system file damaged after its
  first snapshot, which can be played, with the earlier one's count, where the time of a line is
  damaged with its duration too (`i_load_simulation_presenter.h:28-30`).
* `PreviewHaltedBySimulation` (`MainWindow`) is false: switching tabs restarts the preview that the
  start of a simulation has stopped (`new_simulation_presenter.cpp:109`).
* `FirstKickUsesOwnForces` (`Integrators`) is false: the first step of Leapfrog and Hermite uses
  forces computed from the buffer that is still empty (`leapfrog_simulator.cpp:37-39`).
* `EnergiesOfOneState` (`Integrators`) is false: the diagnostics of a system get a potential energy
  that is not its own from Euler, whose is that of the positions a step earlier, and from Hermite,
  whose is that of the predicted positions (`core/include/enkas/physics/helpers.h:183`, "The
  potential energy of the system.").

The others are exceptions named in properties, or behaviours of actions:

* The editor accepts a theta for which a particle is attracted by a cell that holds itself
  (`NoSelfAttraction` is about theta squared up to 1/3).
* The form accepts a velocity dispersion of zero, which the generator's `isValid()` rejects
  (`FormIsAccepted`).
* A settings file with an integer where a double is expected, without a method, or with a number out
  of range ends the program (`crashed`, `loadCrashed`); the program itself writes no such file
  (`SavedSettingsReload`).
* The downsampling averages the current bucket and selects from the next, so it never selects from
  the first one and may emit the last point twice (`ShowsStretch`).
* Simulators that swap write into a buffer two steps after publishing it, when a step retrieves
  nothing: a file then gets states that do not belong to the times beside them
  (`SnapshotKeepsItsState` has the case as its second disjunct; without it the property is false in
  the configuration `Swapping`).
* A jump requested while another is being finished is unset with it (`UnsetJump`); the first step
  backward after playback shows the frame that is on the screen already (`ReadBackwardResult`); a
  pause shorter than the step delay leaves two chains of timers (`timers`).

## 5. What is proved

TLAPS checks these for every value of the constants that satisfies the named assumptions:

* `BlockingQueueProofs` (assumption: finite disjoint sets of threads, a positive capacity):
  `QueueTypeCorrect`; `QueueImplementsFifo`, that every step is a step of `BoundedFifo` or a
  stutter (a push is `Enter`, a pop is `Take`, calls are `Offer` and `Ask`, waits, wakeups and
  notifications stutter); `NoLostWakeup`. The last is inductive together with the types: whenever
  some thread of a group waits, the threads that are awake in the group and the notifiers on their
  way to it are at least as many as the items (free places). The proof counts: a push adds an item
  and a notifier; a notification trades the notifier for an awake thread, or finds nobody waiting; a
  thread goes to sleep only when the count is zero.
* `SystemRingBufferProofs` (assumption: `Capacity` positive, `RetainCount` below it):
  `RingTypeCorrect`, `RingReaderInWindow`, `RingRetainBounded` from one inductive invariant, their
  conjunction `IndexInv`: the reader in the window is what lets trimming stop at the reader, and
  the bound on what is retained is what makes one trimming step enough. Remainders are first
  eliminated: `AdvanceValue`, `RetreatValue`, and how `Distance` changes when either end moves.
  `RingWindowFilled` adds the contents: the slots from tail to head hold snapshots.
  `RingImplementsWindow`: every operation of the ring is a step of `FrameWindow` or a stutter, under
  the mapping that reads the slots from tail to head as a sequence, cut at the read index. One lemma
  per operation says what it does to that sequence; it rests on the three index invariants.
* `SnapshotIndexProofs` (assumption: times are naturals; files of any length): `IndexTypeCorrect` and
  `IndexSnapshotHasItsTime`. The invariant adds `CurrentLines`, that the lines since the start of
  the current snapshot have its time or none and are at least `row_count`, and `EntryLines`, the
  same of every entry. A skipped line inside an entry displaces a row, but such a line lacks columns
  and makes the snapshot unreadable. `IndexWrittenFileReadBack`, `IndexTornFileKeepsEarlier` and
  `IndexParserAgrees` are about files the simulation wrote, whole or with a torn last line. They
  need `ExactInv`, which says of the reading what they say of its end: while only whole rows in the
  order of their times have been read, the index holds every snapshot but the current one, with its
  rows (`WholeSnapshots`), because an entry once stored is not stored again under a later time; one
  line more, whatever it holds, changes the entries of two times at most (`EarlierKept`).
* `ComputationsProofs`, about four modules that share no state:
  * `HitsSchedule` (assumption: positive time steps): `HitsTypeCorrect`,
    `HitsScheduledWhenDue`, `HitsPredictsWithinStep`, `HitsTimeAdvances`. The invariant adds
    `TimesPassed`, that no particle's time lies ahead of the system's. That a particle stands where
    it is due implies that it stands there once, which is what keeps the other entries valid when
    one particle's time changes.
  * `Integrators` (assumption: at least three buffers, and names that differ):
    `IntegratorsUseOwnForces`. The invariant adds `BuffersScaled`, that after the initialization both
    systems the simulator holds have the scaled masses, whatever buffer it is given, and
    `ForcesCurrent`, of which of the two systems the forces are, or of the prediction of which; that
    differs between Euler, Hermite and the others, and in the first step.
  * `BarnesHutTree` (assumption `TreeAssumption`: positive masses, integer coordinates, squares of theta that
    are fractions; any number of
    particles at any places, coincident ones included, any theta, any depth): `TreeCountsMassOnce`.
    The invariant `TreeInv` is about the shape of the tree between two calls: every node has its
    parent (`PrefixesAreNodes`), the leaf of a particle has nothing below it (`LeavesAreEnds`), each
    particle inserted so far has one leaf (`EachHasItsLeaf`), and a node without a particle of its
    own stands for at least two, counting the one that is on its way through it
    (`InnerNodesAreShared`); the last needs `CallIsBelowInnerNodes`, that calls only ever went
    through such nodes. In a tree that is built a count of one then means a leaf, which is what the
    two recursive functions of the code ask for. Of the nodes on the way to another particle's leaf
    the walk adds up the first that is a leaf or accepted, whatever the criterion accepts; and what
    `updateMassRecursive` accumulates is the sum over the particles below, since those below the
    children of a node have none in common.
    `NoParticleAttractsItself` is `NoSelfAttraction` for particles at different places
    (`IsInjective(positions)`) and cells halved without a remainder (`CellsHalved`). The second is a
    condition on the units of the model, since halving a double loses nothing but halving an
    integer may; it holds of all places of the run. The invariant `CellsHoldTheirs` adds that the
    particle being inserted lies in the cells it has come through, and every other one in those on
    the way to its leaf: halving exactly is what keeps a point in the octant that is chosen for it
    (`OctantWithin`). The centre of mass of the particles below a node then lies no farther than
    the cell's edge from each of them along each axis (`WeightedSum`), no farther than its diagonal
    in all, and such a cell is not accepted.
  * `DiagnosticsCharts` (assumption `ChartAssumption`: integer energies, room for more than two
    points): `ChartsShowTheirSeries`. Borders of buckets increase by no more than the longest bucket
    (`Borders`), each bucket has a point and the one selected lies in it (`SelectedPoints`), so that
    downsampled points span the series (`DownsampledSpans`). The invariant `ChartsInv` says that the
    data of a live window are the series received, on axes that cover it; that each drawing spans
    some prefix, since charts out of sight keep an old one; and that a filled window is no longer
    refreshed, without which the empty data would be drawn over it.

* `RecursionLemmas` holds what the last two rest on. A recursive function of TLA+ is a choice among
  the solutions of its equation; `RecursionHasSolution` shows that there is one when each value
  depends only on values of a lesser measure. Induction is replaced by a counterexample of least
  measure (`LeastMeasure`, `LeastSubset`), as a statement about sets, which the prover can use. From
  these follow the facts about sums of the library's folds: any element can be taken out
  (`SumTake`), and sums over disjoint sets add up (`SumUnion`, `SumFamily`).

* `ReplayPipelineProofs` (assumptions of the ring; files of any length, any number of commands):
  `ReplayWindowContiguous`, `ReplayStreamFollows`, `ReplayShownInOrder`. The ring is used only through
  the window it implements. The invariant adds `NotAtTail`, that the worker never works at the tail
  before a step backward; and, to the two properties, what they need of each other: where in the
  window the frame shown is, that the frame the worker is about to push follows the newest one, and
  that a window cleared for a jump stays empty until the jump's frame is pushed.

* `LivePipelineProofs` (assumption `PipelineAssumption`: pools of at least two buffers, which
  `initialize` takes, and queues with room; runs of any length, any choice of files and of what the steps retrieve):
  `PipelineTypes`, `PathsInOrder`, `FilesComplete`, `SnapshotsKeepTheirState`, from one inductive
  invariant, `PipelineInv`. A call of the simulation thread or of a destructor is known by its
  `Rank`, and what is left of a list of calls is in the order of ranks (`SimTodoInv`, `GuiInv`): what
  a call may rely on is what calls of lower rank have done. `PhaseInv`: one signal at a time asks
  for the next phase, so that the loop begins once and steps are not counted again. `PathInv` takes
  a channel's path as four stretches, what is received, posted, held and queued, of which each is
  ascending and lies below the next; a lemma per kind of move (push, pop, write, post, receive, drop)
  says that it keeps their order and what is on them, whatever the other threads do. `SentInv` says
  that a snapshot about to be pushed is later than all that were. `SentinelInv`: behind a sentinel
  there is only the snapshot of the current step, since the stop request comes first and ends the
  counting of steps. `BuffersInv`: the buffer a swapping simulator writes to next, when it is given
  none, is at least two steps old. `ContentInv`: what is published holds its state, or one written
  into it by a step that was given none; the buffer of the current step holds its state from the
  simulator's call on, and no other does if it is to be pushed.

* `MainWindowProofs` (assumptions: every menu has the two initial methods, a settings file from
  elsewhere has integers where its JSON has numbers, seeds are representable, every folder has
  contents; any number of user actions): eight theorems of `WindowSpec` and one of `HistorySpec`, which
  adds `known` to it; the behaviours of `MCMainWindow` are among those of `HistorySpec`.
  `WindowPageShowsRunner`, `WindowPathIsChecked` and `WindowTimersFollowTab` are inductive as they stand. `WindowTabTellsTheTruth` and
  `WindowPlaysFilesFound` need `LoadInv`, which adds `TasksOfFolder`, that without hurry the tasks
  under way are of the folder shown, one of each kind, and the icons they will settle still turn; and
  `DataOfFolder`, that a good file of the folder shown has been read or is being read.
  `WindowFormIsAccepted` and `WindowSavedSettingsReload` need `FormInv`: whatever a form shows or
  stores for a method has that method's keys, with the types and limits of their editors; what is
  started or saved was fetched from such forms and what is being parsed is JSON. `WindowLoadShowsFile`
  is an action property from the same invariant. So is `WindowMethodsKeepTheirValues`, with
  `KnownInv`: what is stored for a method that is not shown, set in any new form of the method, gives
  the form it showed last. That needs `FormComesBack`, that a form stored and set again is the same,
  and of every step `Leaves`, that it forgets nothing but of the method shown next, and stores the
  form of the method it leaves. A first lemma, `WindowStepOfTabs`, takes a step of
  the window apart into what it is for each tab: a step of its own, its timer switched, or nothing.

Only model-checked: all liveness (`IsLiveFifo` beyond its safety part, and the properties that say
that something ends, completes, continues or catches up), since the prover does not reason about
fairness and `ENABLED`; and `NoSelfAttraction` where particles coincide, since a pair told apart by
`Perturbed` may end in leaves whose cells do not hold its original position.

## 6. Mutants

Definitions whose comment begins with "Faulty variant" are not part of the specifications. Each is
a plausible mistake in the definition that follows it (a notification forgotten, a trim one step
late, a join before the stop), and `PROJECT.json` says which property notices it.

## 7. Plan

Done, in this order: data structures, the two pipelines, files and schedule; then the tabs with
their settings, forms and tasks, the main window that composes them, the tree, the integrators and
the charts. Left:

1. `SnapshotStream` over the index of `SnapshotIndex`, unreadable snapshots included, in
   `ReplayPipeline`.
2. Playback controls: `playback_active_`, `halt_for_jump` and `is_playing_` agree.
3. The log view and its bounded list.

## 8. Not modelled

* Floating-point physics, generators' distributions, vectors and quaternions: arithmetic on doubles
  has no counterpart that TLC or TLAPS could use. Simulated time is exact in the models, and the
  tree has integer coordinates; the resolution of a double is a listed hazard. Systems without
  particles are left out of the schedule, the tree and the integrators.
* OpenGL rendering, cameras, layout, icons, dialogs: no state that the properties depend on beyond
  which snapshot the renderer holds.
* Logging, debug information and the output directory: they change no other component's state.
  The output directory's name has a resolution of one second, which is a listed hazard.
* `addSetting` and `removeSetting` of `Settings`, which only tests call; the general settings of a
  loaded file, which the tab does not show; early returns of the library for a requested stop,
  since the application never requests one from the simulator.
* What the preview of the collision model makes of fields it does not set.
* A time of exactly -1.0 in a file, which `system_snapshot_stream.cpp:107` and 141 use for "no time
  yet" (`NoTime`): the index loses a snapshot of that time, and the simulation writes none.
* Particles so close that halving a cell in doubles no longer tells them apart.
* Exceptions of the file system (disk full, permissions) and of allocation: the code has no path
  for them beyond those named above.
* Vendored libraries (CSV, JSON) and Qt: external; the event loop, deferred deletion, queued
  connections, timers and the thread pool appear in the models as the code uses them.
