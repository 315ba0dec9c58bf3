---------------------------- MODULE ReplayPipeline ----------------------------
(***************************************************************************)
(* The replay of a recorded simulation: the worker thread                  *)
(* (workers/system_buffer_worker.cpp) reads snapshots from the file into   *)
(* the ring buffer; the player on the GUI thread                           *)
(* (managers/simulation_player.cpp) reads the ring, one frame per timer    *)
(* tick or button, and sends the worker requests through atomics.          *)
(*                                                                         *)
(* Each lock or atomic access of the worker is an action of its own; a     *)
(* handler of the player is one action, except its destructor.             *)
(***************************************************************************)
EXTENDS SystemRingBuffer, SnapshotStream

CONSTANTS Commands,    \* what the user does: toggle, forward, backward, jump
          MaxCommands  \* bound on how often

ASSUME ReplayAssumption ==
  /\ Frames = 1 .. FrameCount /\ NoFrame = Nullopt
  /\ Capacity >= 1 /\ MaxCommands \in Nat

VARIABLES
  worker,         \* where the worker is in run()
  frame,          \* the snapshot it is about to push
  backwardSteps,  \* backward_steps_
  jumpFraction,   \* jump_fraction_, as the frame it leads to; NoFrame for NaN
  stopRequested,  \* stop_requested_
  isPlaying,      \* is_playing_
  timers,         \* pending QTimer::singleShot calls of onStepForward
  shown,          \* the snapshot put last into rendering_snapshot_
  player,         \* open, then where the destructor is, then closed
  commands,       \* user commands so far
  jumped,         \* history: the jump made last
  steppedBack     \* history: a step backward has been asked for

workerVars == <<worker, frame, position>>
requestVars == <<backwardSteps, jumpFraction, stopRequested>>
playerVars == <<isPlaying, timers, shown, player, commands, steppedBack>>
replayVars == <<ringVars, workerVars, requestVars, playerVars, jumped>>

ReplayInit ==
  /\ RingInit /\ StreamInit
  /\ worker = "start" /\ frame = NoFrame
  /\ backwardSteps = 0 /\ jumpFraction = NoFrame /\ stopRequested = FALSE
  /\ isPlaying = TRUE /\ timers = 1 /\ shown = NoFrame /\ player = "open"
  /\ commands = 0 /\ jumped = NoFrame /\ steppedBack = FALSE

-----------------------------------------------------------------------------
(* The worker thread.                                                      *)

Goto(from, to) == worker = from /\ worker' = to

\* The file can be indexed, or run() returns at once.
Start ==
  /\ Goto("start", "loop") \/ Goto("start", "finished")
  /\ UNCHANGED <<ringVars, frame, position, requestVars, playerVars, jumped>>

\* Faulty variant: a request to stop is overlooked.
LoopForever ==
  /\ Goto("loop", "backward")
  /\ UNCHANGED <<ringVars, frame, position, requestVars, playerVars, jumped>>

Loop ==
  /\ Goto("loop", IF stopRequested THEN "finished" ELSE "backward")
  /\ UNCHANGED <<ringVars, frame, position, requestVars, playerVars, jumped>>

TakeBackwardStep ==
  /\ backwardSteps > 0
  /\ Goto("backward", IF stopRequested THEN "jump" ELSE "tail-time")
  /\ backwardSteps' = backwardSteps - 1
  /\ UNCHANGED <<ringVars, frame, position, jumpFraction, stopRequested, playerVars, jumped>>

NoBackwardStep ==
  /\ backwardSteps = 0
  /\ Goto("backward", "jump")
  /\ UNCHANGED <<ringVars, frame, position, requestVars, playerVars, jumped>>

ReadTailTime ==
  LET preceding == IF TailFrame = NoFrame THEN NoFrame ELSE PrecedingSnapshot(TailFrame)
  IN  /\ Goto("tail-time", IF preceding = NoFrame THEN "backward" ELSE "push-tail")
      /\ frame' = preceding
      /\ UNCHANGED <<ringVars, position, requestVars, playerVars, jumped>>

PushPreceding ==
  /\ \/ PushTail(frame) /\ Goto("push-tail", "tail-pushed")
     \/ IsFull /\ HasReaderCaughtUp /\ UNCHANGED ringVars /\ Goto("push-tail", "backward")
  /\ UNCHANGED <<frame, position, requestVars, playerVars, jumped>>

\* The head may have lost a snapshot to the tail: it is to be read again.
AfterPushTail ==
  /\ Goto("tail-pushed", "backward")
  /\ position' = IF IsFull THEN RetreatedPosition ELSE position
  /\ UNCHANGED <<ringVars, frame, requestVars, playerVars, jumped>>

CheckJump ==
  /\ Goto("jump", IF jumpFraction = NoFrame THEN "forward" ELSE "take-jump")
  /\ UNCHANGED <<ringVars, frame, position, requestVars, playerVars, jumped>>

\* Faulty variant: the stream stays where it was.
TakeJumpOnly ==
  /\ Goto("take-jump", "clear")
  /\ frame' = jumpFraction
  /\ UNCHANGED <<ringVars, position, requestVars, playerVars, jumped>>

TakeJump ==
  /\ Goto("take-jump", "clear")
  /\ position' = jumpFraction /\ frame' = jumpFraction
  /\ UNCHANGED <<ringVars, requestVars, playerVars, jumped>>

\* Faulty variant: the old snapshots stay in the ring.
JumpWithoutClear ==
  /\ Goto("clear", "push-jump")
  /\ UNCHANGED <<ringVars, frame, position, requestVars, playerVars, jumped>>

ClearForJump ==
  /\ Goto("clear", "push-jump")
  /\ Clear
  /\ UNCHANGED <<frame, position, requestVars, playerVars, jumped>>

PushJump ==
  /\ Goto("push-jump", "unset-jump")
  /\ \/ PushHead(frame) /\ jumped' = frame
     \/ isShuttingDown /\ UNCHANGED <<ringVars, jumped>>
  /\ UNCHANGED <<frame, position, requestVars, playerVars>>

\* Faulty variant: the request is not taken back.
KeepJump ==
  /\ Goto("unset-jump", "forward")
  /\ UNCHANGED <<ringVars, frame, position, requestVars, playerVars, jumped>>

UnsetJump ==
  /\ Goto("unset-jump", "forward")
  /\ jumpFraction' = NoFrame
  /\ UNCHANGED <<ringVars, frame, position, backwardSteps, stopRequested, playerVars, jumped>>

\* Nothing to do when stopping or full; at the end of the file nothing either,
\* but the iterator starts over.
SkipForward ==
  /\ stopRequested \/ IsFull
  /\ Goto("forward", "loop")
  /\ UNCHANGED <<ringVars, frame, position, requestVars, playerVars, jumped>>

ReadNext ==
  /\ ~stopRequested /\ ~IsFull
  /\ Goto("forward", IF NextSnapshot = NoFrame THEN "loop" ELSE "push-head")
  /\ position' = NextPosition /\ frame' = NextSnapshot
  /\ UNCHANGED <<ringVars, requestVars, playerVars, jumped>>

PushNext ==
  /\ Goto("push-head", "loop")
  /\ \/ PushHead(frame) /\ UNCHANGED position
     \/ (IsFull \/ isShuttingDown) /\ UNCHANGED ringVars /\ position' = RetreatedPosition
  /\ UNCHANGED <<frame, requestVars, playerVars, jumped>>

WorkerStep ==
  \/ Start \/ Loop \/ TakeBackwardStep \/ NoBackwardStep
  \/ ReadTailTime \/ PushPreceding \/ AfterPushTail
  \/ CheckJump \/ TakeJump \/ ClearForJump \/ PushJump \/ UnsetJump
  \/ SkipForward \/ ReadNext \/ PushNext
-----------------------------------------------------------------------------
(* The player, on the GUI thread.                                          *)

ShowNext ==
  \/ ReadForward /\ shown' = ReadForwardResult
  \/ HasReaderCaughtUp /\ UNCHANGED <<ringVars, shown>>

TimerFires ==
  /\ player = "open" /\ timers > 0
  /\ ShowNext
  /\ timers' = IF isPlaying THEN timers ELSE timers - 1
  /\ UNCHANGED <<workerVars, requestVars, isPlaying, player, commands, steppedBack, jumped>>

Command(c) ==
  /\ player = "open" /\ c \in Commands /\ commands < MaxCommands
  /\ commands' = commands + 1

TogglePlayback ==
  /\ Command("toggle")
  /\ isPlaying' = ~isPlaying
  /\ IF isPlaying THEN UNCHANGED <<ringVars, shown, timers>>
                  ELSE ShowNext /\ timers' = timers + 1
  /\ UNCHANGED <<workerVars, requestVars, player, steppedBack, jumped>>

\* The window enables the step buttons while the playback is paused.
StepForward ==
  /\ Command("forward") /\ ~isPlaying
  /\ ShowNext
  /\ UNCHANGED <<workerVars, requestVars, isPlaying, timers, player, steppedBack, jumped>>

StepBackward ==
  /\ Command("backward") /\ ~isPlaying
  /\ \/ ReadBackward /\ shown' = ReadBackwardResult
     \/ ~CanReadBackward /\ UNCHANGED <<ringVars, shown>>
  /\ backwardSteps' = backwardSteps + 1 /\ steppedBack' = TRUE
  /\ UNCHANGED <<workerVars, jumpFraction, stopRequested, isPlaying, timers, player,
                 jumped>>

Jump ==
  /\ Command("jump")
  /\ jumpFraction' \in Frames
  /\ UNCHANGED <<ringVars, workerVars, backwardSteps, stopRequested,
                 isPlaying, timers, shown, player, steppedBack, jumped>>

\* The window is closed: the player is destroyed.
Close ==
  /\ player = "open" /\ player' = "aborting"
  /\ stopRequested' = TRUE
  /\ UNCHANGED <<ringVars, workerVars, backwardSteps, jumpFraction,
                 isPlaying, timers, shown, commands, steppedBack, jumped>>

ShutdownBuffer ==
  /\ player = "aborting" /\ player' = "joining"
  /\ Shutdown
  /\ UNCHANGED <<workerVars, requestVars, isPlaying, timers, shown, commands, steppedBack, jumped>>

JoinWorker ==
  /\ player = "joining" /\ worker = "finished"
  /\ player' = "closed" /\ timers' = 0
  /\ UNCHANGED <<ringVars, workerVars, requestVars, isPlaying, shown, commands, steppedBack, jumped>>

Closed == player = "closed" /\ UNCHANGED replayVars

ReplayNext ==
  \/ WorkerStep
  \/ TimerFires \/ TogglePlayback \/ StepForward \/ StepBackward \/ Jump
  \/ Close \/ ShutdownBuffer \/ JoinWorker
  \/ Closed

\* Both threads keep running.  The user need not do anything.
ReplaySpec ==
  /\ ReplayInit /\ [][ReplayNext]_replayVars
  /\ WF_replayVars(WorkerStep)
  /\ WF_replayVars(TimerFires)
  /\ WF_replayVars(ShutdownBuffer \/ JoinWorker)
-----------------------------------------------------------------------------
\* The buffered snapshots follow each other in the file without a gap or a
\* repetition ("ensure no snapshot is dropped", system_buffer_worker.cpp 53-54).
WindowContiguous ==
  \A i \in 1 .. Len(Window) - 1 : Window[i + 1] = Following(Window[i])

\* The part of it that holds: without a step backward, whatever playback, steps
\* forward and jumps do (ReplayDropsFrame.cfg shows why the proviso is needed).
ForwardWindowContiguous == ~steppedBack => WindowContiguous

\* Between two rounds of the worker the stream stands at the newest buffered
\* snapshot, so the next one it reads continues the window.
StreamFollowsWindow ==
  (/\ worker \in {"loop", "backward", "jump", "forward"}
   /\ Window # <<>> /\ ~isShuttingDown /\ ~steppedBack)
  => IF position = End THEN HeadFrame = Last ELSE HeadFrame = position

\* Playback shows the snapshots in the order of the file, from the start or
\* from the place last jumped to, each once, over and over.
ShownInOrder ==
  [][shown' # shown /\ ~steppedBack' =>
       \/ shown' \in {Following(shown), jumped}
       \/ (shown = NoFrame /\ shown' = First)]_replayVars

\* While the player is open the playback goes on: a frame does not stay on the
\* screen for ever, the worker does not run dry, a jump does not stop it.
PlaybackContinues ==
  \A f \in Frames :
    (isPlaying /\ shown = f) ~> (shown # f \/ ~isPlaying \/ player # "open")

\* Closing the window ends the worker wherever it is ("stopping any further
\* processing and shutting down the buffer").
CloseCompletes == (player = "aborting") ~> (player = "closed")
=============================================================================
