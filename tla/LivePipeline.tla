----------------------------- MODULE LivePipeline -----------------------------
(***************************************************************************)
(* A live simulation: the simulation thread (workers/simulation_worker.cpp)*)
(* takes buffers from the memory pools, steps the simulator and hands the  *)
(* snapshots to the renderer's slot, the storage queues and the chart      *)
(* queue; one worker per queue writes a file or posts to the GUI thread;   *)
(* the GUI thread renders, handles posted events, and may destroy the      *)
(* runner (managers/simulation_runner.cpp) at any moment.                  *)
(*                                                                         *)
(* A buffer is free when nobody holds it, so a pool is the number of       *)
(* buffers held.  A push or pop of a queue is one action: BlockingQueue    *)
(* implements BoundedFifo.                                                 *)
(***************************************************************************)
EXTENDS SimulatorBuffers, Sequences, FiniteSets

CONSTANT Configurations  \* what a runner may be constructed with

Kinds    == {"system", "diagnostics"}
Channels == Kinds \cup {"chart"}

ASSUME PipelineAssumption ==
  /\ SimulatorAssumption
  /\ Configurations \subseteq
       [pool     : Nat \ {0, 1},          \* pool_size_, 512; initialize takes two
        capacity : Nat \ {0},             \* kDefaultPoolSize, 512
        saved    : SUBSET Kinds,          \* SaveSystemData, SaveDiagnosticsData
        wants    : SUBSET SUBSET Kinds,   \* what a step may retrieve, by the data steps
        copies   : BOOLEAN,               \* the simulator is HITS
        steps    : 0 .. MaxSteps]         \* until the simulated duration is over

VARIABLES
  config,         \* what the runner was constructed with
  sim,            \* simulation thread: idle in its event loop, running, finished
  simEvents,      \* its posted events
  step,           \* iterations of the simulation loop
  want,           \* retrieve_system_data, retrieve_diagnostics_data
  simTodo,        \* what is left of the current iteration
  stopRequested,  \* stop_requested_
  slot,           \* rendering_snapshot
  queue,          \* the storage queues and the chart queue
  hand,           \* the snapshot each queue worker is processing
  stopped,        \* the workers that have met their sentinel
  guiEvents,      \* the GUI thread's posted events
  guiTodo,        \* what is left of the destructor the GUI thread is in
  runner,         \* alive, destroying or gone; memory_pools_ with it
  presenter,      \* the window presenter exists
  rendered,       \* the snapshot the renderer holds
  sent, got       \* history: what each channel was given and has delivered

PoolSize      == config.pool
QueueCapacity == config.capacity
Saved         == config.saved
Wants         == config.wants

simulationVars == <<sim, simEvents, step, want, simTodo, previous, current, content>>
channelVars    == <<slot, queue, hand, stopped, sent, got>>
guiVars        == <<guiEvents, guiTodo, runner, presenter, rendered, stopRequested>>
pipelineVars   == <<simulationVars, channelVars, guiVars, config>>

Op(verb, object) == <<verb, object>>
Next1(todo, op)  == todo # <<>> /\ Head(todo) = op
Given(condition, ops) == IF condition THEN ops ELSE <<>>
Elements(s) == {s[i] : i \in DOMAIN s}

-----------------------------------------------------------------------------
(* Who holds which buffer.                                                 *)

\* One iteration of runSimulation, in the order of its calls.
Iteration(wanted) ==
  LET acquire(kind) == Given(kind \in wanted, <<Op("acquire", kind)>>)
      store(kind)   == Given(kind \in Saved, <<Op("push", kind)>>)
  IN  acquire("system") \o acquire("diagnostics") \o <<Op("step", "simulator")>>
      \o Given("system" \in wanted,
               <<Op("snapshot", "system"), Op("set", "slot")>> \o store("system"))
      \o Given("diagnostics" \in wanted,
               <<Op("snapshot", "diagnostics"), Op("push", "chart")>> \o store("diagnostics"))

\* The steps at which a kind's local variables are still to be used.
UsesLocal(kind) ==
  {Op("snapshot", kind), Op("push", kind)}
    \cup (IF kind = "system" THEN {Op("set", "slot")} ELSE {Op("push", "chart")})

LocalData(kind) ==
  IF /\ Elements(simTodo) \cap UsesLocal(kind) # {}
     /\ Op("acquire", kind) \notin Elements(simTodo)
  THEN {step} ELSE {}

LocalSnapshot(kind) ==
  IF Op("snapshot", kind) \in Elements(simTodo) THEN {} ELSE LocalData(kind)

\* The snapshots in the closures the chart worker has posted, by their place
\* among the GUI thread's events.
Plots == [i \in DOMAIN guiEvents |-> IF guiEvents[i][1] = "plot" THEN guiEvents[i][2] ELSE None]

\* The closures go with the presenter they were posted for.
Posted == IF presenter THEN Elements(Plots) ELSE {}

HeldByChannel(channel) == Elements(queue[channel]) \cup {hand[channel]}

SnapshotsHeld(kind) ==
  (LocalSnapshot(kind) \cup HeldByChannel(kind)
    \cup (IF kind = "system" THEN {slot, rendered} ELSE HeldByChannel("chart") \cup Posted))
  \ {None}

DataHeld(kind) ==
  SnapshotsHeld(kind) \cup LocalData(kind)
    \cup (IF kind = "system" THEN {previous, current} \ {None} ELSE {})
-----------------------------------------------------------------------------
PipelineInit ==
  /\ config \in Configurations
  /\ SimulatorInit
  /\ sim = "idle" /\ simEvents = <<"generate">>  \* startSimulationProcedure
  /\ step = 0 /\ want = {} /\ simTodo = <<>>
  /\ slot = None /\ rendered = None
  /\ queue = [c \in Channels |-> <<>>]
  /\ hand = [c \in Channels |-> None]
  /\ stopped = {}
  /\ sent = [c \in Channels |-> {}]
  /\ got = [c \in Channels |-> <<>>]
  /\ guiEvents = <<>> /\ guiTodo = <<>>
  /\ runner = "alive" /\ presenter = TRUE
  /\ stopRequested = FALSE

-----------------------------------------------------------------------------
(* The simulation thread.                                                  *)

TakeSimEvent(event) ==
  /\ sim = "idle" /\ simEvents # <<>> /\ Head(simEvents) = event
  /\ simEvents' = Tail(simEvents)

Post(event) == guiEvents' = Append(guiEvents, event)

\* A file that cannot be parsed, or a missing generator, is only logged.
StartGeneration ==
  /\ TakeSimEvent("generate")
  /\ Post(Op("generated", None)) \/ UNCHANGED guiEvents
  /\ UNCHANGED <<sim, step, want, simTodo, simulatorVars, channelVars,
                 guiTodo, runner, presenter, rendered, stopRequested>>

\* A missing simulator is only logged.  The pool is new, so that its first two
\* buffers are there.
StartInitialization ==
  /\ TakeSimEvent("initialize")
  /\ \/ Initialize /\ Post(Op("initialized", None))
     \/ UNCHANGED <<simulatorVars, guiEvents>>
  /\ UNCHANGED <<sim, step, want, simTodo, channelVars,
                 guiTodo, runner, presenter, rendered, stopRequested>>

RunSimulation ==
  /\ TakeSimEvent("run")
  /\ sim' = "running"
  /\ step' = 0
  /\ UNCHANGED <<want, simTodo, simulatorVars, channelVars, guiVars>>

ContinueLoop == step < config.steps /\ ~stopRequested

BeginIteration ==
  /\ sim = "running" /\ simTodo = <<>> /\ ContinueLoop
  /\ step' = step + 1
  /\ \E wanted \in Wants : want' = wanted /\ simTodo' = Iteration(wanted)
  /\ UNCHANGED <<sim, simEvents, simulatorVars, channelVars, guiVars>>

EndSimulation ==
  /\ sim = "running" /\ simTodo = <<>> /\ ~ContinueLoop
  /\ sim' = "idle"
  /\ UNCHANGED <<simEvents, step, want, simTodo, simulatorVars, channelVars, guiVars>>

Perform(op) == Next1(simTodo, op) /\ simTodo' = Tail(simTodo)

\* acquire() blocks while the pool is empty.
AcquireData(kind) ==
  /\ Perform(Op("acquire", kind))
  /\ Cardinality(DataHeld(kind)) < PoolSize
  /\ UNCHANGED <<sim, simEvents, step, want, simulatorVars, channelVars, guiVars>>

StepSimulator ==
  /\ Perform(Op("step", "simulator"))
  /\ SimulatorStep(config.copies, IF "system" \in want THEN step ELSE None, step)
  /\ UNCHANGED <<sim, simEvents, step, want, channelVars, guiVars>>

AcquireSnapshot(kind) ==
  /\ Perform(Op("snapshot", kind))
  /\ Cardinality(SnapshotsHeld(kind)) < PoolSize
  /\ UNCHANGED <<sim, simEvents, step, want, simulatorVars, channelVars, guiVars>>

\* Faulty variant: a snapshot nobody has taken is kept.
SetOnlyEmptySlot ==
  /\ Perform(Op("set", "slot"))
  /\ slot' = IF slot = None THEN step ELSE slot
  /\ UNCHANGED <<sim, simEvents, step, want, simulatorVars,
                 queue, hand, stopped, sent, got, guiVars>>

\* LatestValueSlot::set overwrites a snapshot nobody has taken.
SetRenderingSnapshot ==
  /\ Perform(Op("set", "slot"))
  /\ slot' = step
  /\ UNCHANGED <<sim, simEvents, step, want, simulatorVars,
                 queue, hand, stopped, sent, got, guiVars>>

HasRoom(channel) == Len(queue[channel]) < QueueCapacity

\* Faulty variant: a full queue loses its oldest snapshot.
PushDroppingOldest(channel) ==
  /\ Perform(Op("push", channel))
  /\ queue' = [queue EXCEPT ![channel] = Append(IF HasRoom(channel) THEN @ ELSE Tail(@), step)]
  /\ sent' = [sent EXCEPT ![channel] = @ \cup {step}]
  /\ UNCHANGED <<sim, simEvents, step, want, simulatorVars, slot, hand, stopped, got, guiVars>>

PushSnapshot(channel) ==
  /\ Perform(Op("push", channel))
  /\ HasRoom(channel)
  /\ queue' = [queue EXCEPT ![channel] = Append(@, step)]
  /\ sent' = [sent EXCEPT ![channel] = @ \cup {step}]
  /\ UNCHANGED <<sim, simEvents, step, want, simulatorVars, slot, hand, stopped, got, guiVars>>

Joining(thread) == Next1(guiTodo, Op("join", thread))

\* quit() ends the event loop; the worker is deleted with the thread.
FinishThread ==
  /\ sim = "idle" /\ Joining("simulation")
  /\ sim' = "finished"
  /\ simEvents' = <<>>
  /\ DestroySimulator
  /\ UNCHANGED <<step, want, simTodo, channelVars, guiVars>>

SimulationStep ==
  \/ StartGeneration \/ StartInitialization \/ RunSimulation
  \/ BeginIteration \/ EndSimulation \/ FinishThread
  \/ \E kind \in Kinds : AcquireData(kind) \/ AcquireSnapshot(kind)
  \/ StepSimulator \/ SetRenderingSnapshot
  \/ \E channel \in Channels : PushSnapshot(channel)
-----------------------------------------------------------------------------
(* The queue workers.                                                      *)

\* Faulty variant: the chart thread is never started.
ChartNotStarted(channel) ==
  channel \notin stopped \cup {"chart"} /\ hand[channel] = None /\ queue[channel] # <<>>

\* A worker that processes no snapshot is in popBlocking.
CanPop(channel) ==
  channel \notin stopped /\ hand[channel] = None /\ queue[channel] # <<>>

Pop(channel) ==
  /\ CanPop(channel)
  /\ queue' = [queue EXCEPT ![channel] = Tail(@)]
  /\ hand' = [hand EXCEPT ![channel] = Head(queue[channel])]
  /\ stopped' = IF Head(queue[channel]) = None THEN stopped \cup {channel} ELSE stopped
  /\ UNCHANGED <<simulationVars, slot, sent, got, guiVars>>

WriteSnapshot(channel) ==
  /\ channel \in Kinds /\ hand[channel] # None
  /\ got' = [got EXCEPT ![channel] = Append(@, hand[channel])]
  /\ hand' = [hand EXCEPT ![channel] = None]
  /\ UNCHANGED <<simulationVars, slot, queue, stopped, sent, guiVars>>

PostToChart ==
  /\ hand["chart"] # None
  /\ Post(Op("plot", hand["chart"]))
  /\ hand' = [hand EXCEPT !["chart"] = None]
  /\ UNCHANGED <<simulationVars, slot, queue, stopped, sent, got,
                 guiTodo, runner, presenter, rendered, stopRequested>>

WorkerStep(channel) ==
  Pop(channel) \/ WriteSnapshot(channel) \/ (channel = "chart" /\ PostToChart)
-----------------------------------------------------------------------------
(* The GUI thread.                                                         *)

TakeGuiEvent(kind) ==
  /\ guiTodo = <<>> /\ guiEvents # <<>> /\ Head(guiEvents)[1] = kind
  /\ guiEvents' = Tail(guiEvents)

ReceivedGenerationCompleted ==
  /\ runner # "gone" /\ TakeGuiEvent("generated")
  /\ simEvents' = Append(simEvents, "initialize")
  /\ UNCHANGED <<sim, step, want, simTodo, simulatorVars, channelVars,
                 guiTodo, runner, presenter, rendered, stopRequested>>

ReceivedInitializationCompleted ==
  /\ runner # "gone" /\ TakeGuiEvent("initialized")
  /\ simEvents' = Append(simEvents, "run")
  /\ UNCHANGED <<sim, step, want, simTodo, simulatorVars, channelVars,
                 guiTodo, runner, presenter, rendered, stopRequested>>

UpdateDiagnostics ==
  /\ presenter /\ TakeGuiEvent("plot")
  /\ got' = [got EXCEPT !["chart"] = Append(@, Head(guiEvents)[2])]
  /\ UNCHANGED <<simulationVars, slot, queue, hand, stopped, sent,
                 guiTodo, runner, presenter, rendered, stopRequested>>

\* What was posted to a runner or presenter that is gone is not delivered.
DropEvent ==
  /\ \/ runner = "gone" /\ (TakeGuiEvent("generated") \/ TakeGuiEvent("initialized"))
     \/ ~presenter /\ TakeGuiEvent("plot")
  /\ UNCHANGED <<simulationVars, channelVars, guiTodo, runner, presenter, rendered, stopRequested>>

\* Timer: no new snapshot, the old one is drawn again.
UpdateRendering ==
  /\ guiTodo = <<>> /\ presenter
  /\ rendered' = IF slot # None THEN slot ELSE rendered
  /\ slot' = None
  /\ UNCHANGED <<simulationVars, queue, hand, stopped, sent, got,
                 guiEvents, guiTodo, runner, presenter, stopRequested>>

Each(verb) ==
  Given("system" \in Saved, <<Op(verb, "system")>>)
    \o Given("diagnostics" \in Saved, <<Op(verb, "diagnostics")>>)

\* Faulty variant: the threads are joined before they are told to stop.
JoinBeforeStop ==
  Each("join") \o <<Op("join", "simulation")>> \o Each("stop") \o <<Op("free", "runner")>>

\* What the destructor still does once it has told the simulation to stop.
Destructor ==
  Each("stop") \o <<Op("join", "simulation")>> \o Each("join") \o <<Op("free", "runner")>>

\* ~SimulationRunner: the window and its presenter are deleted later, by the
\* event loop; the workers are told to stop, then the threads are joined.
DestroyRunner ==
  /\ guiTodo = <<>> /\ runner = "alive"
  /\ runner' = "destroying"
  /\ stopRequested' = TRUE
  /\ guiEvents' = guiEvents \o <<Op("delete-presenter", None), Op("delete-window", None)>>
  /\ guiTodo' = Destructor
  /\ UNCHANGED <<simulationVars, channelVars, presenter, rendered>>

GuiPerforms(op) == Next1(guiTodo, op) /\ guiTodo' = Tail(guiTodo)

\* Faulty variant: what is queued gives way to the sentinel.
StopAtOnce(channel) ==
  /\ GuiPerforms(Op("stop", channel))
  /\ queue' = [queue EXCEPT ![channel] = <<None>>]
  /\ UNCHANGED <<simulationVars, slot, hand, stopped, sent, got,
                 guiEvents, runner, presenter, rendered, stopRequested>>

\* QueueStorageWorker::abort: the sentinel waits for room like any item.
StopWorker(channel) ==
  /\ GuiPerforms(Op("stop", channel))
  /\ HasRoom(channel)
  /\ queue' = [queue EXCEPT ![channel] = Append(@, None)]
  /\ UNCHANGED <<simulationVars, slot, hand, stopped, sent, got,
                 guiEvents, runner, presenter, rendered, stopRequested>>

JoinThread(thread) ==
  /\ GuiPerforms(Op("join", thread))
  /\ IF thread = "simulation" THEN sim = "finished" ELSE thread \in stopped
  /\ UNCHANGED <<simulationVars, channelVars, guiEvents, runner, presenter, rendered,
                 stopRequested>>

\* The pools go with the runner.
FreeRunner ==
  /\ GuiPerforms(Op("free", "runner"))
  /\ runner' = "gone"
  /\ UNCHANGED <<simulationVars, channelVars, guiEvents, presenter, rendered, stopRequested>>

\* ~LiveSimulationWindowPresenter, run by the event loop.
DeletePresenter ==
  /\ TakeGuiEvent("delete-presenter")
  /\ guiTodo' = <<Op("stop", "chart"), Op("join", "chart"), Op("free", "presenter")>>
  /\ UNCHANGED <<simulationVars, channelVars, runner, presenter, rendered, stopRequested>>

\* The slot and the chart queue go.
FreePresenter ==
  /\ GuiPerforms(Op("free", "presenter"))
  /\ presenter' = FALSE
  /\ slot' = None
  /\ queue' = [queue EXCEPT !["chart"] = <<>>]
  /\ UNCHANGED <<simulationVars, hand, stopped, sent, got,
                 guiEvents, runner, rendered, stopRequested>>

\* The renderer and its snapshot go with the window.
DeleteWindow ==
  /\ TakeGuiEvent("delete-window")
  /\ rendered' = None
  /\ UNCHANGED <<simulationVars, channelVars, guiTodo, runner, presenter, stopRequested>>

HandleGuiEvent ==
  \/ ReceivedGenerationCompleted \/ ReceivedInitializationCompleted
  \/ UpdateDiagnostics \/ DropEvent \/ DeletePresenter \/ DeleteWindow

DestructorStep ==
  \/ \E channel \in Channels : StopWorker(channel) \/ JoinThread(channel)
  \/ JoinThread("simulation") \/ FreeRunner \/ FreePresenter

PipelineNext ==
  /\ \/ SimulationStep
     \/ \E channel \in Channels : WorkerStep(channel)
     \/ HandleGuiEvent \/ UpdateRendering \/ DestroyRunner \/ DestructorStep
  /\ UNCHANGED config

PipelineSafeSpec == PipelineInit /\ [][PipelineNext]_pipelineVars

\* Every thread that can run does; the GUI thread, when it is not inside a
\* destructor, comes to every posted event and to its timer.  Nothing makes the
\* user abort.
PipelineSpec ==
  /\ PipelineSafeSpec
  /\ WF_pipelineVars(SimulationStep /\ UNCHANGED config)
  /\ \A channel \in Channels : WF_pipelineVars(WorkerStep(channel) /\ UNCHANGED config)
  /\ WF_pipelineVars(HandleGuiEvent /\ UNCHANGED config)
  /\ WF_pipelineVars(UpdateRendering /\ UNCHANGED config)
  /\ WF_pipelineVars(DestructorStep /\ UNCHANGED config)
-----------------------------------------------------------------------------
Snapshots == Steps \cup {None}

\* What a channel has delivered and what is on its way, oldest first; None
\* stands where there is no snapshot.
Path(channel) ==
  got[channel] \o (IF channel = "chart" THEN Plots ELSE <<>>)
    \o <<hand[channel]>> \o queue[channel]

Ascending(s) ==
  \A i, j \in DOMAIN s : i < j /\ s[i] # None /\ s[j] # None => s[i] < s[j]

\* Exactly once and in order, whatever the interleaving of the threads: what
\* a file or the chart has received, followed by what is on its way, is what
\* runSimulation pushed, in the order of the steps.
DeliveredInOrder ==
  \A c \in Channels : c \in Kinds \/ presenter =>
    Ascending(Path(c)) /\ Elements(Path(c)) \ {None} = sent[c]

\* The sentinel is pushed before the simulation thread is joined, so a file
\* may lack the snapshot of the iteration that was under way, and no other.
FileLacksAtMostLast ==
  runner = "gone" => \A c \in Saved : sent[c] \ Elements(got[c]) \subseteq {step}

\* A simulator that copies, or that gets a buffer for every step, does not
\* write into a buffer again that it has published.
LeavesPublished == config.copies \/ \A wanted \in Wants : "system" \in wanted

\* "A shared pointer to a system buffer for storing the state of the new
\* system": the snapshot a reader has holds the state of its step.  Only of a
\* simulator that swaps, with steps that retrieve nothing, it may hold another:
\* that of a later step, never of the next one, and one no snapshot is made of.
SnapshotKeepsItsState ==
  \A s \in SnapshotsHeld("system") :
    \/ content[s] = s
    \/ /\ ~LeavesPublished
       /\ content[s] \in s + 2 .. step
       /\ content[s] \notin sent["system"]

WindowBehind == "system" \in Saved /\ \E s \in sent["system"] : rendered = None \/ rendered < s

\* The window catches up with the simulation: every snapshot, or a newer one,
\* is rendered, although the slot drops the snapshots in between.
NewestIsRendered == WindowBehind ~> (~WindowBehind \/ runner # "alive")

\* As many buffers as the simulator and all snapshots of a run can hold.
BuffersOutlast == PoolSize >= config.steps + 2

\* With enough buffers the destructor returns: neither a full queue nor a
\* thread that is not told to stop keeps the GUI thread waiting.
AbortWithBuffersCompletes == (BuffersOutlast /\ guiTodo # <<>>) ~> (guiTodo = <<>>)

\* The destructor returns, however few buffers there are.
AbortCompletes == (guiTodo # <<>>) ~> (guiTodo = <<>>)

\* With the GUI thread in its event loop the simulation runs to its end, however
\* small the pools and queues are.
SimulationCompletes ==
  (sim = "running") ~> (sim # "running" \/ runner # "alive")

\* "We must ensure that the presenter is deleted before the runner goes out of
\* scope" (simulation_runner.cpp 105-106).
PresenterGoneFirst == runner = "gone" => ~presenter
=============================================================================
