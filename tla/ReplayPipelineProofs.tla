------------------------ MODULE ReplayPipelineProofs ------------------------
(***************************************************************************)
(* Proofs about ReplayPipeline for every capacity, retain count, length of *)
(* the file and number of user commands.  The ring is used only through    *)
(* the window it implements (SystemRingBufferProofs): a push appends to    *)
(* the window, a read moves the reader or drops the oldest snapshot.       *)
(***************************************************************************)
EXTENDS ReplayPipeline, SystemRingBufferProofs

Behind == Distance(tail, read)

\* The snapshots the constants stand for.
LEMMA FrameNumbers ==
  /\ FrameCount \in Nat \ {0} /\ Frames = 1 .. FrameCount /\ NoFrame = 0
  /\ Nullopt = 0 /\ First = 1 /\ Last = FrameCount /\ End = FrameCount + 1
  BY StreamAssumption, ReplayAssumption DEF Nullopt, First, Last, End

\* Following goes from one snapshot of the file to the next, and to the first
\* one from the last and from none.
LEMMA FollowingValue ==
  /\ Following(NoFrame) = First /\ Following(Last) = First
  /\ \A f \in Frames : Following(f) \in Frames /\ (f # Last => Following(f) = f + 1)
  BY FrameNumbers DEF Following

\* The iterator stays on the snapshots and the end of the file.
LEMMA StreamMoves ==
  /\ \A f \in Frames : f \in First .. End /\ PrecedingSnapshot(f) \in Frames \cup {NoFrame}
  /\ position \in First .. End =>
       /\ NextPosition \in First .. End
       /\ RetreatedPosition \in First .. End
       /\ NextSnapshot \in Frames \cup {NoFrame}
<1>1. \A f \in Frames : f \in First .. End
  BY FrameNumbers
<1>2. \A f \in Frames : PrecedingSnapshot(f) \in Frames \cup {NoFrame}
  BY FrameNumbers DEF PrecedingSnapshot
<1>3. ASSUME position \in First .. End
      PROVE  /\ NextPosition \in First .. End
             /\ RetreatedPosition \in First .. End
  BY <1>3, FrameNumbers DEF NextPosition, RetreatedPosition
<1>4. ASSUME position \in First .. End
      PROVE  NextSnapshot \in Frames \cup {NoFrame}
  BY <1>3, <1>4, FrameNumbers DEF NextSnapshot
<1>5. QED
  BY <1>1, <1>2, <1>3, <1>4

-----------------------------------------------------------------------------
(* Types: what the worker holds at each place of run().                    *)

Places == {"start", "loop", "backward", "tail-time", "push-tail", "tail-pushed", "jump",
           "take-jump", "clear", "push-jump", "unset-jump", "forward", "push-head", "finished"}

\* A worker about to push holds a snapshot; one about to jump finds a request.
ReplayTypeOK ==
  /\ worker \in Places
  /\ frame \in Frames \cup {NoFrame} /\ position \in First .. End
  /\ jumpFraction \in Frames \cup {NoFrame} /\ shown \in Frames \cup {NoFrame}
  /\ backwardSteps \in Nat
  /\ worker \in {"push-tail", "clear", "push-jump", "push-head"} => frame \in Frames
  /\ worker = "take-jump" => jumpFraction \in Frames

\* Every step of the replay is a step of the ring or leaves it alone.
LEMMA ReplayStepIsRingStep ==
  ASSUME ReplayTypeOK, [ReplayNext]_replayVars
  PROVE  [RingNext]_ringVars
<1> USE DEF RingNext
<1>1. CASE WorkerStep
  <2>1. CASE PushPreceding
    <3>1. frame \in Frames
      BY <2>1 DEF PushPreceding, Goto, ReplayTypeOK
    <3>2. QED
      BY <2>1, <3>1 DEF PushPreceding, ringVars
  <2>2. CASE PushJump
    <3>1. frame \in Frames
      BY <2>2 DEF PushJump, Goto, ReplayTypeOK
    <3>2. QED
      BY <2>2, <3>1 DEF PushJump, ringVars
  <2>3. CASE PushNext
    <3>1. frame \in Frames
      BY <2>3 DEF PushNext, Goto, ReplayTypeOK
    <3>2. QED
      BY <2>3, <3>1 DEF PushNext, ringVars
  <2>4. CASE ClearForJump
    BY <2>4 DEF ClearForJump
  <2>5. CASE \/ Start \/ Loop \/ TakeBackwardStep \/ NoBackwardStep \/ ReadTailTime
             \/ AfterPushTail \/ CheckJump \/ TakeJump \/ UnsetJump
             \/ SkipForward \/ ReadNext
    BY <2>5 DEF Start, Loop, TakeBackwardStep, NoBackwardStep, ReadTailTime,
                AfterPushTail, CheckJump, TakeJump, UnsetJump, SkipForward, ReadNext
  <2>6. QED
    BY <1>1, <2>1, <2>2, <2>3, <2>4, <2>5 DEF WorkerStep
<1>2. CASE TimerFires \/ TogglePlayback \/ StepForward \/ StepBackward
  BY <1>2 DEF TimerFires, TogglePlayback, StepForward, StepBackward, ShowNext, ringVars
<1>3. CASE Jump \/ Close \/ ShutdownBuffer \/ JoinWorker \/ Closed
  BY <1>3 DEF Jump, Close, ShutdownBuffer, JoinWorker, Closed, replayVars
<1>4. CASE UNCHANGED replayVars
  BY <1>4 DEF replayVars
<1>5. QED
  BY <1>1, <1>2, <1>3, <1>4 DEF ReplayNext

\* The ring's invariant, along the steps of the replay.
RingInv == IndexInv /\ WindowFilled

LEMMA RingInvInit == RingInit => RingInv
  BY IndexInvInit, WindowFilledInit DEF RingInv

LEMMA RingInvStep ==
  ASSUME RingInv, ReplayTypeOK, [ReplayNext]_replayVars
  PROVE  RingInv'
  BY ReplayStepIsRingStep, IndexInvStep, WindowFilledStep DEF RingInv

LEMMA ReplayTypeOKStep ==
  ASSUME RingInv, ReplayTypeOK, [ReplayNext]_replayVars
  PROVE  ReplayTypeOK'
<1> USE DEF ReplayTypeOK, Goto, Places, ringVars, workerVars, requestVars, playerVars
<1>1. buffer \in [Index -> Frames \cup {NoFrame}] /\ tail \in Index /\ read \in Index
  BY DEF RingInv, IndexInv, RingTypeOK
<1>2. CASE Start \/ Loop \/ NoBackwardStep \/ AfterPushTail \/ CheckJump \/ SkipForward
  <2>1. CASE AfterPushTail
    BY <2>1, StreamMoves DEF AfterPushTail
  <2>2. QED
    BY <1>2, <2>1 DEF Start, Loop, NoBackwardStep, CheckJump, SkipForward
<1>3. CASE TakeBackwardStep
  <2>1. backwardSteps' \in Nat
    <3>1. backwardSteps \in Nat /\ backwardSteps > 0 /\ backwardSteps' = backwardSteps - 1
      BY <1>3 DEF TakeBackwardStep
    <3>2. QED
      BY <3>1
  <2>2. worker' \in {"jump", "tail-time"}
    BY <1>3 DEF TakeBackwardStep
  <2>3. QED
    BY <1>3, <2>1, <2>2 DEF TakeBackwardStep
<1>4. CASE ReadTailTime
  <2>1. TailFrame \in Frames \cup {NoFrame}
    BY <1>1 DEF TailFrame
  <2>2. frame' \in Frames \cup {NoFrame} /\ (frame' = NoFrame => worker' = "backward")
    BY <1>4, <2>1, StreamMoves DEF ReadTailTime
  <2>3. QED
    BY <1>4, <2>2 DEF ReadTailTime
<1>5. CASE PushPreceding
  BY <1>5 DEF PushPreceding
<1>6. CASE TakeJump
  BY <1>6, StreamMoves DEF TakeJump
<1>7. CASE ClearForJump
  BY <1>7 DEF ClearForJump
<1>8. CASE PushJump
  BY <1>8 DEF PushJump
<1>9. CASE UnsetJump
  BY <1>9 DEF UnsetJump
<1>10. CASE ReadNext
  <2>1. position' \in First .. End /\ frame' \in Frames \cup {NoFrame}
    BY <1>10, StreamMoves DEF ReadNext
  <2>2. QED
    BY <1>10, <2>1 DEF ReadNext
<1>11. CASE PushNext
  BY <1>11, StreamMoves DEF PushNext
<1>12. CASE TimerFires \/ TogglePlayback \/ StepForward
  <2>1. shown' \in Frames \cup {NoFrame}
    BY <1>1, <1>12 DEF TimerFires, TogglePlayback, StepForward, ShowNext, ReadForwardResult
  <2>2. QED
    BY <1>12, <2>1 DEF TimerFires, TogglePlayback, StepForward
<1>13. CASE StepBackward
  <2>1. shown' \in Frames \cup {NoFrame}
    <3>1. Retreat(read) \in Index
      BY <1>1, RetreatValue
    <3>2. QED
      BY <1>1, <1>13, <3>1 DEF StepBackward, ReadBackwardResult
  <2>2. backwardSteps' \in Nat
    <3>1. backwardSteps \in Nat /\ backwardSteps' = backwardSteps + 1
      BY <1>13 DEF StepBackward
    <3>2. QED
      BY <3>1
  <2>3. QED
    BY <1>13, <2>1, <2>2 DEF StepBackward
<1>14. CASE Jump
  BY <1>14 DEF Jump
<1>15. CASE Close \/ ShutdownBuffer \/ JoinWorker \/ Closed \/ UNCHANGED replayVars
  BY <1>15 DEF Close, ShutdownBuffer, JoinWorker, Closed, replayVars
<1>16. QED
  BY <1>2, <1>3, <1>4, <1>5, <1>6, <1>7, <1>8, <1>9, <1>10, <1>11, <1>12, <1>13, <1>14, <1>15
     DEF ReplayNext, WorkerStep

\* Where the step backward has not been asked for, the worker is not at the tail.
NotAtTail ==
  /\ ~steppedBack => backwardSteps = 0
  /\ ~steppedBack => worker \notin {"tail-time", "push-tail", "tail-pushed"}

LEMMA NotAtTailStep ==
  ASSUME NotAtTail, [ReplayNext]_replayVars
  PROVE  NotAtTail'
<1> USE DEF NotAtTail, Goto, workerVars, requestVars, playerVars
<1>1. CASE WorkerStep
  <2>1. CASE TakeBackwardStep
    <3>1. backwardSteps > 0
      BY <2>1 DEF TakeBackwardStep
    <3>2. backwardSteps # 0
      BY <3>1
    <3>3. steppedBack' = steppedBack
      BY <2>1 DEF TakeBackwardStep
    <3>4. QED
      BY <3>2, <3>3
  <2>2. CASE Start \/ Loop \/ NoBackwardStep \/ CheckJump \/ TakeJump \/ ClearForJump
             \/ PushJump \/ UnsetJump \/ SkipForward \/ ReadNext \/ PushNext
    BY <2>2 DEF Start, Loop, NoBackwardStep, CheckJump, TakeJump, ClearForJump, PushJump,
                UnsetJump, SkipForward, ReadNext, PushNext
  <2>3. CASE ReadTailTime \/ PushPreceding \/ AfterPushTail
    BY <2>3 DEF ReadTailTime, PushPreceding, AfterPushTail
  <2>4. QED
    BY <1>1, <2>1, <2>2, <2>3 DEF WorkerStep
<1>2. CASE TimerFires \/ TogglePlayback \/ StepForward \/ StepBackward
  BY <1>2 DEF TimerFires, TogglePlayback, StepForward, StepBackward
<1>3. CASE Jump \/ Close \/ ShutdownBuffer \/ JoinWorker \/ Closed \/ UNCHANGED replayVars
  BY <1>3 DEF Jump, Close, ShutdownBuffer, JoinWorker, Closed, replayVars
<1>4. QED
  BY <1>1, <1>2, <1>3 DEF ReplayNext

-----------------------------------------------------------------------------
(* Sequences of snapshots in the order of the file.                        *)

InOrder(s) == \A i \in 1 .. Len(s) - 1 : s[i + 1] = Following(s[i])

\* The snapshot the stream is to continue: the newest one buffered, or the
\* one shown when nothing is buffered.
NewestOf(s, last) == IF s = << >> THEN last ELSE s[Len(s)]

\* The reader has b snapshots of s behind it, shown the last of them, and finds
\* next the one that follows or the one jumped to.
ReaderAt(s, b, last, jump) ==
  /\ b > 0 => s[b] = last
  /\ b = 0 /\ s # << >> => s[1] \in {Following(last), jump}

LEMMA InOrderAppend ==
  ASSUME NEW s \in Seq(Frames), NEW f \in Frames, InOrder(s),
         s # << >> => f = Following(s[Len(s)])
  PROVE  InOrder(Append(s, f))
<1>1. PICK u \in Seq(Frames) : u = Append(s, f)
  BY AppendProperties
<1>2. /\ Len(s) \in Nat /\ Len(u) = Len(s) + 1 /\ u[Len(s) + 1] = f
      /\ \A i \in 1 .. Len(s) : u[i] = s[i]
  BY <1>1, AppendProperties, LenProperties
<1>3. ASSUME NEW i \in 1 .. Len(s)
      PROVE  u[i + 1] = Following(u[i])
  <2>1. CASE i = Len(s)
    <3>1. s # << >>
      BY <1>3
    <3>2. QED
      BY <1>2, <2>1, <3>1
  <2>2. CASE i # Len(s)
    <3>1. i \in 1 .. Len(s) - 1 /\ i + 1 \in 1 .. Len(s)
      BY <1>2, <2>2
    <3>2. s[i + 1] = Following(s[i])
      BY <3>1 DEF InOrder
    <3>3. QED
      BY <1>2, <3>1, <3>2
  <2>3. QED
    BY <2>1, <2>2
<1>4. QED
  BY <1>1, <1>2, <1>3 DEF InOrder

LEMMA InOrderTail ==
  ASSUME NEW s \in Seq(Frames), s # << >>, InOrder(s)
  PROVE  InOrder(Tail(s))
<1>1. PICK u \in Seq(Frames) : u = Tail(s)
  BY HeadTailProperties
<1>2. /\ Len(s) \in Nat /\ Len(u) = Len(s) - 1
      /\ \A i \in 1 .. Len(u) : u[i] = s[i + 1]
  BY <1>1, HeadTailProperties, LenProperties
<1>3. ASSUME NEW i \in 1 .. Len(u) - 1
      PROVE  u[i + 1] = Following(u[i])
  <2>1. /\ i \in 1 .. Len(u) /\ i + 1 \in 1 .. Len(u)
        /\ i + 1 \in 1 .. Len(s) - 1
    BY <1>2
  <2>2. u[i] = s[i + 1] /\ u[i + 1] = s[(i + 1) + 1]
    BY <1>2, <2>1
  <2>3. s[(i + 1) + 1] = Following(s[i + 1])
    BY <2>1 DEF InOrder
  <2>4. QED
    BY <2>2, <2>3
<1>4. QED
  BY <1>1, <1>3 DEF InOrder

\* A snapshot that follows the newest one may be pushed anywhere in a replay.
LEMMA ReaderAtAppend ==
  ASSUME NEW s \in Seq(Frames), NEW f \in Frames, NEW b \in 0 .. Len(s), NEW last, NEW jump,
         ReaderAt(s, b, last, jump), s = << >> => f \in {Following(last), jump}
  PROVE  ReaderAt(Append(s, f), b, last, jump)
<1>1. PICK u \in Seq(Frames) : u = Append(s, f)
  BY AppendProperties
<1>2. /\ Len(s) \in Nat /\ u[Len(s) + 1] = f
      /\ \A i \in 1 .. Len(s) : u[i] = s[i]
  BY <1>1, AppendProperties, LenProperties
<1>3. b > 0 => u[b] = last
  BY <1>2 DEF ReaderAt
<1>4. u[1] \in {Following(last), jump} \/ b # 0
  <2>1. CASE s = << >>
    <3>1. Len(s) = 0
      BY <2>1
    <3>2. QED
      BY <1>2, <2>1, <3>1
  <2>2. CASE s # << >>
    <3>1. Len(s) # 0
      BY <2>2, EmptySeq
    <3>2. u[1] = s[1]
      BY <1>2, <3>1
    <3>3. QED
      BY <2>2, <3>2 DEF ReaderAt
  <2>3. QED
    BY <2>1, <2>2
<1>5. QED
  BY <1>1, <1>3, <1>4 DEF ReaderAt

\* The reader shows what follows the snapshot it has shown, and the order of
\* the window makes the next one follow again.
LEMMA ReaderAtNext ==
  ASSUME NEW s \in Seq(Frames), InOrder(s), NEW b \in Nat, b + 1 \in 1 .. Len(s),
         NEW last, NEW jump, ReaderAt(s, b, last, jump)
  PROVE  s[b + 1] \in {Following(last), jump}
<1>1. CASE b = 0
  BY <1>1 DEF ReaderAt
<1>2. CASE b # 0
  <2>1. b \in 1 .. Len(s) - 1 /\ b > 0
    BY <1>2, LenProperties
  <2>2. QED
    BY <2>1 DEF ReaderAt, InOrder
<1>3. QED
  BY <1>1, <1>2

LEMMA NewestOfAppend ==
  ASSUME NEW s \in Seq(Frames), NEW f \in Frames, NEW last
  PROVE  NewestOf(Append(s, f), last) = f
  BY AppendProperties DEF NewestOf

\* Dropping the oldest snapshot keeps the newest, which is the one shown when
\* it was the last.
LEMMA NewestOfTail ==
  ASSUME NEW s \in Seq(Frames), s # << >>, NEW last
  PROVE  NewestOf(Tail(s), s[1]) = NewestOf(s, last)
<1>1. PICK u \in Seq(Frames) : u = Tail(s)
  BY HeadTailProperties
<1>2. /\ Len(s) \in Nat /\ Len(s) > 0 /\ Len(u) = Len(s) - 1
      /\ \A i \in 1 .. Len(u) : u[i] = s[i + 1]
  BY <1>1, HeadTailProperties, LenProperties, EmptySeq
<1>3. CASE Len(s) = 1
  <2>1. u = << >>
    BY <1>2, <1>3
  <2>2. QED
    BY <1>1, <1>3, <2>1 DEF NewestOf
<1>4. CASE Len(s) # 1
  <2>1. u # << >> /\ Len(u) \in 1 .. Len(u) /\ Len(u) + 1 = Len(s)
    BY <1>2, <1>4
  <2>2. QED
    BY <1>1, <1>2, <2>1 DEF NewestOf
<1>5. QED
  BY <1>3, <1>4

-----------------------------------------------------------------------------
(* The order invariant.  While no step backward has been asked for, the    *)
(* window follows the file, the reader has shown the snapshot right behind *)
(* it, and the stream stands where the worker's place says: at the newest  *)
(* snapshot between two rounds, at the snapshot in hand before a push.     *)

BetweenPushes == {"start", "loop", "backward", "jump", "take-jump", "unset-jump", "forward"}

Newest == NewestOf(Window, shown)

\* A push onto a ring that shuts down is refused, and the stream no longer
\* matters.
StreamInv ==
  ~isShuttingDown =>
    /\ worker \in BetweenPushes =>
         IF position = End THEN Newest \in {Last, NoFrame} ELSE Newest = position
    /\ worker \in {"clear", "push-jump"} => position = frame
    /\ worker = "push-head" => position = frame /\ frame = Following(Newest)

ForwardInv == InOrder(Window) /\ ReaderAt(Window, Behind, shown, jumped) /\ StreamInv

EmptyForJump == worker = "push-jump" => Window = << >>

OrderInv == EmptyForJump /\ (~steppedBack => ForwardInv)

ReplayInv == RingInv /\ ReplayTypeOK /\ NotAtTail /\ OrderInv

\* What the ring's invariant says of the window.
LEMMA WindowFacts ==
  ASSUME RingInv
  PROVE  /\ Window \in Seq(Frames)
         /\ Len(Window) \in Nat
         /\ Behind \in 0 .. Len(Window)
<1>1. tail \in Index /\ read \in Index /\ head \in Index
  BY DEF RingInv, IndexInv, RingTypeOK
<1>2. Window \in Seq(Frames) /\ Len(Window) = Distance(tail, head)
  BY WindowOfFrames, WindowMeans DEF RingInv
<1>3. Distance(tail, read) \in 0 .. Capacity /\ Distance(tail, head) \in 0 .. Capacity
  BY <1>1, DistanceRange
<1>4. Distance(tail, read) <= Distance(tail, head)
  BY DEF RingInv, IndexInv, ReaderInWindow
<1>5. QED
  BY <1>2, <1>3, <1>4 DEF Behind

LEMMA RingUnchanged ==
  ASSUME UNCHANGED ringVars
  PROVE  Window' = Window /\ Behind' = Behind /\ isShuttingDown' = isShuttingDown
  BY WindowValue DEF ringVars, Behind

LEMMA PushHeadWindow ==
  ASSUME RingInv, NEW f \in Frames, PushHead(f)
  PROVE  /\ Window' = Append(Window, f) /\ Behind' = Behind
         /\ isShuttingDown' = isShuttingDown /\ ~isShuttingDown
<1>1. Abstract!PushHead(f)
  BY PushHeadImplements DEF RingInv
<1>2. QED
  BY <1>1 DEF Abstract!PushHead, Behind

LEMMA ClearWindow ==
  ASSUME Clear
  PROVE  Window' = << >> /\ Behind' = 0 /\ isShuttingDown' = isShuttingDown
  BY ClearImplements DEF Abstract!Clear, Behind

\* A snapshot shown to the user keeps the order, and the newest one.
LEMMA ShowNextOrder ==
  ASSUME RingInv, ShowNext, jumped' = jumped,
         InOrder(Window), ReaderAt(Window, Behind, shown, jumped)
  PROVE  /\ InOrder(Window') /\ ReaderAt(Window', Behind', shown', jumped')
         /\ Newest' = Newest /\ isShuttingDown' = isShuttingDown
         /\ Window = << >> => Window' = << >>
         /\ shown' # shown => shown' \in {Following(shown), jumped}
<1>1. CASE ReadForward /\ shown' = ReadForwardResult
  <2>1. PICK s \in Seq(Frames) : s = Window
    BY WindowFacts
  <2>2. PICK b \in Nat : b = Behind
    BY WindowFacts
  <2>3. b + 1 \in 1 .. Len(s) /\ shown' = s[b + 1]
    <3>1. ~HasReaderCaughtUp
      BY <1>1 DEF ReadForward
    <3>2. /\ Distance(tail, read) + 1 \in 1 .. Distance(tail, head)
          /\ ReadForwardResult = Window[Distance(tail, read) + 1]
          /\ Len(Window) = Distance(tail, head)
      BY <3>1, ReadForwardValue, WindowMeans DEF RingInv
    <3>3. QED
      BY <1>1, <2>1, <2>2, <3>2 DEF Behind
  <2>4. Abstract!ReadForward
    BY <1>1, ReadForwardImplements DEF RingInv
  <2>5. InOrder(s) /\ ReaderAt(s, b, shown, jumped)
    BY <2>1, <2>2
  <2>6. shown' \in {Following(shown), jumped}
    BY <2>3, <2>5, ReaderAtNext
  <2>7. s # << >>
    BY <2>3
  <2>8. isShuttingDown' = isShuttingDown
    BY <1>1 DEF ReadForward
  <2>9. CASE Behind' = b + 1 /\ Window' = s
    <3>1. ReaderAt(s, b + 1, shown', jumped)
      BY <2>2, <2>3 DEF ReaderAt
    <3>2. NewestOf(s, shown') = NewestOf(s, shown)
      BY <2>7 DEF NewestOf
    <3>3. QED
      BY <2>1, <2>5, <2>6, <2>7, <2>8, <2>9, <3>1, <3>2 DEF Newest
  <2>10. CASE Behind' = b /\ Window' = Tail(s)
    <3>1. PICK u \in Seq(Frames) : u = Tail(s)
      BY <2>7, HeadTailProperties
    <3>2. /\ Len(s) \in Nat /\ Len(u) = Len(s) - 1
          /\ \A i \in 1 .. Len(u) : u[i] = s[i + 1]
      BY <2>7, <3>1, HeadTailProperties, LenProperties
    <3>3. InOrder(u)
      BY <2>5, <2>7, <3>1, InOrderTail
    <3>4. b > 0 => u[b] = shown'
      <4>1. b > 0 => b \in 1 .. Len(u)
        BY <2>3, <3>2
      <4>2. QED
        BY <2>3, <3>2, <4>1
    <3>5. b = 0 /\ u # << >> => u[1] = Following(shown')
      <4>1. u # << >> => 1 \in 1 .. Len(u)
        BY EmptySeq
      <4>2. u # << >> => 1 \in 1 .. Len(s) - 1
        BY <3>2, <4>1
      <4>3. u # << >> => s[1 + 1] = Following(s[1])
        BY <2>5, <4>2 DEF InOrder
      <4>4. u # << >> => u[1] = s[1 + 1]
        BY <3>2, <4>1
      <4>5. b = 0 => shown' = s[1]
        BY <2>3
      <4>6. QED
        BY <4>3, <4>4, <4>5
    <3>6. ReaderAt(u, b, shown', jumped)
      BY <3>4, <3>5 DEF ReaderAt
    <3>7. NewestOf(u, shown') = NewestOf(s, shown)
      <4>1. CASE u = << >>
        <5>1. shown' = s[1]
          <6>1. Len(u) = 0
            BY <4>1
          <6>2. Len(s) = 1
            BY <3>2, <6>1
          <6>3. b + 1 \in 1 .. Len(s)
            BY <2>3
          <6>4. b = 0
            BY <6>2, <6>3
          <6>5. QED
            BY <2>3, <6>4
        <5>2. QED
          BY <2>7, <3>1, <5>1, NewestOfTail
      <4>2. CASE u # << >>
        <5>1. NewestOf(u, shown') = NewestOf(u, s[1])
          BY <4>2 DEF NewestOf
        <5>2. QED
          BY <2>7, <3>1, <5>1, NewestOfTail
      <4>3. QED
        BY <4>1, <4>2
    <3>8. QED
      BY <2>1, <2>6, <2>7, <2>8, <2>10, <3>1, <3>3, <3>6, <3>7 DEF Newest
  <2>11. QED
    BY <2>1, <2>2, <2>4, <2>9, <2>10 DEF Abstract!ReadForward, Behind
<1>2. CASE HasReaderCaughtUp /\ UNCHANGED <<ringVars, shown>>
  BY <1>2, RingUnchanged DEF Newest
<1>3. QED
  BY <1>1, <1>2 DEF ShowNext

LEMMA OrderInvInit == ReplayInit => OrderInv
<1> SUFFICES ASSUME ReplayInit
             PROVE  OrderInv
  OBVIOUS
<1>1. worker = "start" /\ position = End /\ shown = NoFrame
  BY DEF ReplayInit, StreamInit
<1>2. Window = << >> /\ Behind = 0
  <2>1. tail = 0 /\ read = 0 /\ head = 0
    BY DEF ReplayInit, RingInit
  <2>2. Distance(tail, head) = 0 /\ Distance(tail, read) = 0
    BY <2>1 DEF Distance
  <2>3. QED
    BY <2>2, WindowValue DEF Stretch, Behind
<1>3. InOrder(Window)
  <2>1. Len(<< >>) = 0
    OBVIOUS
  <2>2. QED
    BY <1>2, <2>1 DEF InOrder
<1>4. ReaderAt(Window, Behind, shown, jumped)
  BY <1>2 DEF ReaderAt
<1>5. StreamInv
  BY <1>1, <1>2 DEF StreamInv, Newest, NewestOf
<1>6. QED
  BY <1>1, <1>3, <1>4, <1>5 DEF OrderInv, ForwardInv, EmptyForJump

\* Where the ring stays as it is, only the place of the worker and the stream
\* matter.
LEMMA OrderInvSameRing ==
  ASSUME OrderInv, UNCHANGED ringVars, shown' = shown, jumped' = jumped,
         worker' = "push-jump" => worker = "push-jump",
         ~steppedBack' => ~steppedBack,
         ~steppedBack' /\ StreamInv => StreamInv'
  PROVE  OrderInv'
<1>1. Window' = Window /\ Behind' = Behind
  BY RingUnchanged
<1>2. EmptyForJump'
  BY <1>1 DEF OrderInv, EmptyForJump
<1>3. ASSUME ~steppedBack'
      PROVE  ForwardInv'
  BY <1>1, <1>3 DEF OrderInv, ForwardInv
<1>4. QED
  BY <1>2, <1>3 DEF OrderInv

\* The player shows a snapshot while the worker is anywhere.
LEMMA OrderInvShowNext ==
  ASSUME RingInv, OrderInv, ShowNext, UNCHANGED <<workerVars, jumped, steppedBack>>
  PROVE  OrderInv'
<1>1. /\ worker' = worker /\ frame' = frame /\ position' = position
      /\ jumped' = jumped /\ steppedBack' = steppedBack
  BY DEF workerVars
<1>2. Window = << >> => Window' = << >>
  <2>1. CASE ReadForward
    <3>1. ~HasReaderCaughtUp
      BY <2>1 DEF ReadForward
    <3>2. Len(Window) = Distance(tail, head) /\ Distance(tail, head) # 0
      BY <3>1, ReadForwardValue, WindowMeans DEF RingInv
    <3>3. QED
      BY <3>2, EmptySeq
  <2>2. CASE UNCHANGED ringVars
    BY <2>2, RingUnchanged
  <2>3. QED
    BY <2>1, <2>2 DEF ShowNext
<1>3. EmptyForJump'
  BY <1>1, <1>2 DEF OrderInv, EmptyForJump
<1>4. ASSUME ~steppedBack'
      PROVE  ForwardInv'
  <2>1. InOrder(Window) /\ ReaderAt(Window, Behind, shown, jumped) /\ StreamInv
    BY <1>1, <1>4 DEF OrderInv, ForwardInv
  <2>2. /\ InOrder(Window') /\ ReaderAt(Window', Behind', shown', jumped')
        /\ Newest' = Newest /\ isShuttingDown' = isShuttingDown
    BY <1>1, <2>1, ShowNextOrder
  <2>3. StreamInv'
    BY <1>1, <2>1, <2>2 DEF StreamInv
  <2>4. QED
    BY <2>2, <2>3 DEF ForwardInv
<1>5. QED
  BY <1>3, <1>4 DEF OrderInv

\* The worker pushes the snapshot it has read.
LEMMA OrderInvPushNext ==
  ASSUME ReplayInv, PushNext
  PROVE  OrderInv'
<1>1. /\ worker = "push-head" /\ worker' = "loop" /\ frame \in Frames
      /\ shown' = shown /\ jumped' = jumped /\ steppedBack' = steppedBack
  BY DEF PushNext, Goto, ReplayInv, ReplayTypeOK, playerVars
<1>2. PICK s \in Seq(Frames) : s = Window
  BY WindowFacts DEF ReplayInv
<1>3. PICK b \in 0 .. Len(s) : b = Behind
  BY <1>2, WindowFacts DEF ReplayInv
<1>4. CASE PushHead(frame) /\ UNCHANGED position
  <2>1. Window' = Append(s, frame) /\ Behind' = b /\ ~isShuttingDown
    BY <1>1, <1>2, <1>3, <1>4, PushHeadWindow DEF ReplayInv
  <2>2. ASSUME ~steppedBack'
        PROVE  ForwardInv'
    <3>1. /\ InOrder(s) /\ ReaderAt(s, b, shown, jumped) /\ StreamInv
      BY <1>1, <1>2, <1>3, <2>2 DEF ReplayInv, OrderInv, ForwardInv
    <3>2. position = frame /\ frame = Following(Newest)
      BY <1>1, <2>1, <3>1 DEF StreamInv
    <3>3. /\ s # << >> => frame = Following(s[Len(s)])
          /\ s = << >> => frame = Following(shown)
      BY <1>2, <3>2 DEF Newest, NewestOf
    <3>4. InOrder(Append(s, frame))
      BY <1>1, <3>1, <3>3, InOrderAppend
    <3>5. ReaderAt(Append(s, frame), b, shown, jumped)
      BY <1>1, <3>1, <3>3, ReaderAtAppend
    <3>6. Newest' = frame
      BY <1>1, <2>1, NewestOfAppend DEF Newest
    <3>7. position' = frame /\ position' # End
      BY <1>1, <1>4, <3>2, FrameNumbers
    <3>8. StreamInv'
      BY <1>1, <3>6, <3>7 DEF StreamInv, BetweenPushes
    <3>9. QED
      BY <1>1, <2>1, <3>4, <3>5, <3>8 DEF ForwardInv
  <2>3. QED
    BY <1>1, <2>2 DEF OrderInv, EmptyForJump
<1>5. CASE /\ IsFull \/ isShuttingDown
           /\ UNCHANGED ringVars
           /\ position' = RetreatedPosition
  <2>1. Window' = Window /\ Behind' = Behind /\ isShuttingDown' = isShuttingDown
    BY <1>5, RingUnchanged
  <2>2. ASSUME ~steppedBack', ~isShuttingDown
        PROVE  IF position' = End THEN Newest \in {Last, NoFrame} ELSE Newest = position'
    <3>1. position = frame /\ frame = Following(Newest)
      BY <1>1, <2>2 DEF ReplayInv, OrderInv, ForwardInv, StreamInv
    <3>2. Newest \in Frames \cup {NoFrame}
      <4>1. CASE s = << >>
        BY <1>2, <4>1 DEF Newest, NewestOf, ReplayInv, ReplayTypeOK
      <4>2. CASE s # << >>
        <5>1. Len(s) \in 1 .. Len(s)
          BY <4>2, EmptySeq
        <5>2. s[Len(s)] \in Frames
          BY <5>1, ElementOfSeq
        <5>3. QED
          BY <1>2, <4>2, <5>2 DEF Newest, NewestOf
      <4>3. QED
        BY <4>1, <4>2
    <3>3. QED
      BY <1>5, <3>1, <3>2, FrameNumbers DEF RetreatedPosition, Following
  <2>3. ASSUME ~steppedBack'
        PROVE  ForwardInv'
    <3>1. InOrder(Window') /\ ReaderAt(Window', Behind', shown', jumped')
      BY <1>1, <2>1, <2>3 DEF ReplayInv, OrderInv, ForwardInv
    <3>2. Newest' = Newest
      BY <1>1, <2>1 DEF Newest
    <3>3. StreamInv'
      BY <1>1, <2>1, <2>2, <2>3, <3>2 DEF StreamInv, BetweenPushes
    <3>4. QED
      BY <3>1, <3>3 DEF ForwardInv
  <2>4. QED
    BY <1>1, <2>3 DEF OrderInv, EmptyForJump
<1>6. QED
  BY <1>4, <1>5 DEF PushNext

\* The worker empties the ring, then pushes the snapshot jumped to.
LEMMA OrderInvClear ==
  ASSUME ReplayInv, ClearForJump
  PROVE  OrderInv'
<1>1. /\ worker = "clear" /\ worker' = "push-jump" /\ frame' = frame /\ position' = position
      /\ shown' = shown /\ jumped' = jumped /\ steppedBack' = steppedBack
  BY DEF ClearForJump, Goto, playerVars
<1>2. Window' = << >> /\ Behind' = 0 /\ isShuttingDown' = isShuttingDown
  BY ClearWindow DEF ClearForJump
<1>3. ASSUME ~steppedBack'
      PROVE  ForwardInv'
  <2>1. InOrder(<< >>)
    BY EmptySeq DEF InOrder
  <2>2. ReaderAt(<< >>, 0, shown', jumped')
    BY DEF ReaderAt
  <2>3. StreamInv'
    BY <1>1, <1>2, <1>3 DEF ReplayInv, OrderInv, ForwardInv, StreamInv, BetweenPushes
  <2>4. QED
    BY <1>2, <2>1, <2>2, <2>3 DEF ForwardInv
<1>4. QED
  BY <1>2, <1>3 DEF OrderInv, EmptyForJump

LEMMA OrderInvPushJump ==
  ASSUME ReplayInv, PushJump
  PROVE  OrderInv'
<1>1. /\ worker = "push-jump" /\ worker' = "unset-jump" /\ frame \in Frames
      /\ position' = position /\ shown' = shown /\ steppedBack' = steppedBack
  BY DEF PushJump, Goto, ReplayInv, ReplayTypeOK, playerVars
<1>2. Window = << >> /\ Window \in Seq(Frames) /\ Behind \in 0 .. Len(Window)
  BY <1>1, WindowFacts DEF ReplayInv, OrderInv, EmptyForJump
<1>3. CASE PushHead(frame) /\ jumped' = frame
  <2>1. /\ Window' = Append(Window, frame) /\ Behind' = Behind /\ ~isShuttingDown
    BY <1>1, <1>3, PushHeadWindow DEF ReplayInv
  <2>2. ASSUME ~steppedBack'
        PROVE  ForwardInv'
    <3>1. InOrder(Window) /\ StreamInv
      BY <1>1, <2>2 DEF ReplayInv, OrderInv, ForwardInv
    <3>2. position = frame /\ position # End
      BY <1>1, <2>1, <3>1, FrameNumbers DEF StreamInv
    <3>3. InOrder(Window')
      BY <1>1, <1>2, <2>1, <3>1, InOrderAppend
    <3>4. ReaderAt(Window, Behind, shown, frame)
      <4>1. Behind = 0
        BY <1>2, EmptySeq
      <4>2. QED
        BY <1>2, <4>1 DEF ReaderAt
    <3>5. ReaderAt(Window', Behind', shown', jumped')
      BY <1>1, <1>2, <1>3, <2>1, <3>4, ReaderAtAppend
    <3>6. Newest' = frame
      BY <1>1, <1>2, <2>1, NewestOfAppend DEF Newest
    <3>7. StreamInv'
      BY <1>1, <3>2, <3>6 DEF StreamInv, BetweenPushes
    <3>8. QED
      BY <3>3, <3>5, <3>7 DEF ForwardInv
  <2>3. QED
    BY <1>1, <2>2 DEF OrderInv, EmptyForJump
<1>4. CASE isShuttingDown /\ UNCHANGED <<ringVars, jumped>>
  <2>1. StreamInv'
    BY <1>4, RingUnchanged DEF StreamInv
  <2>2. QED
    BY <1>1, <1>4, <2>1, OrderInvSameRing DEF ReplayInv
<1>5. QED
  BY <1>3, <1>4 DEF PushJump

\* The worker reads the snapshot that follows the newest one.
LEMMA OrderInvReadNext ==
  ASSUME ReplayInv, ReadNext
  PROVE  OrderInv'
<1>1. /\ worker = "forward" /\ worker' \in {"loop", "push-head"}
      /\ worker' = (IF NextSnapshot = NoFrame THEN "loop" ELSE "push-head")
      /\ position' = NextPosition /\ frame' = NextSnapshot
      /\ shown' = shown /\ jumped' = jumped /\ steppedBack' = steppedBack
      /\ UNCHANGED ringVars
  BY DEF ReadNext, Goto, playerVars
<1>2. Window' = Window /\ isShuttingDown' = isShuttingDown
  BY <1>1, RingUnchanged
<1>3. Newest' = Newest
  BY <1>1, <1>2 DEF Newest
<1>4. ASSUME StreamInv
      PROVE  StreamInv'
  <2> SUFFICES ASSUME ~isShuttingDown
               PROVE  /\ NextSnapshot = NoFrame => position' = End /\ Newest = Last
                      /\ NextSnapshot # NoFrame => /\ position' = frame'
                                                   /\ frame' = Following(Newest)
    BY <1>1, <1>2, <1>3 DEF StreamInv, BetweenPushes
  <2>1. IF position = End THEN Newest \in {Last, NoFrame} ELSE Newest = position
    BY <1>1, <1>4 DEF StreamInv, BetweenPushes
  <2>2. position \in First .. End
    BY DEF ReplayInv, ReplayTypeOK
  <2>3. CASE position = End
    <3>1. NextPosition = 1 /\ NextSnapshot = 1
      BY <2>3, FrameNumbers DEF NextPosition, NextSnapshot
    <3>2. Following(Newest) = 1
      BY <2>1, <2>3, FollowingValue, FrameNumbers
    <3>3. QED
      BY <1>1, <3>1, <3>2, FrameNumbers
  <2>4. CASE position = Last
    <3>1. NextPosition = End /\ NextSnapshot = 0
      BY <2>4, FrameNumbers DEF NextPosition, NextSnapshot
    <3>2. Newest = Last
      BY <2>1, <2>4, FrameNumbers
    <3>3. QED
      BY <1>1, <3>1, <3>2, FrameNumbers
  <2>5. CASE position # End /\ position # Last
    <3>1. position \in Frames
      BY <2>2, <2>5, FrameNumbers
    <3>2. /\ NextPosition = position + 1 /\ NextPosition # End
          /\ NextSnapshot = position + 1 /\ NextSnapshot # NoFrame
      BY <2>5, <3>1, FrameNumbers DEF NextPosition, NextSnapshot
    <3>3. Following(Newest) = position + 1
      BY <2>1, <2>5, <3>1, FollowingValue
    <3>4. QED
      BY <1>1, <3>2, <3>3
  <2>6. QED
    BY <2>3, <2>4, <2>5
<1>5. QED
  BY <1>1, <1>4, OrderInvSameRing DEF ReplayInv

LEMMA OrderInvWorker ==
  ASSUME ReplayInv, WorkerStep
  PROVE  OrderInv'
<1> USE DEF Goto, ringVars, playerVars, BetweenPushes
<1>1. CASE \/ Start \/ Loop \/ NoBackwardStep \/ CheckJump \/ UnsetJump \/ SkipForward
           \/ TakeJump
  <2>1. /\ UNCHANGED ringVars /\ shown' = shown /\ jumped' = jumped
        /\ steppedBack' = steppedBack /\ worker' # "push-jump"
    BY <1>1 DEF Start, Loop, NoBackwardStep, CheckJump, UnsetJump, SkipForward, TakeJump
  <2>2. Newest' = Newest /\ isShuttingDown' = isShuttingDown
    BY <2>1, RingUnchanged DEF Newest
  <2>3. CASE TakeJump
    <3>1. worker' = "clear" /\ position' = frame'
      BY <2>3 DEF TakeJump
    <3>2. StreamInv'
      BY <3>1 DEF StreamInv
    <3>3. QED
      BY <2>1, <3>2, OrderInvSameRing DEF ReplayInv
  <2>4. CASE \/ Start \/ Loop \/ NoBackwardStep \/ CheckJump \/ UnsetJump \/ SkipForward
    <3>1. /\ worker \in BetweenPushes /\ worker' \in BetweenPushes \cup {"finished"}
          /\ position' = position
      BY <2>4 DEF Start, Loop, NoBackwardStep, CheckJump, UnsetJump, SkipForward
    <3>2. StreamInv => StreamInv'
      BY <2>2, <3>1 DEF StreamInv
    <3>3. QED
      BY <2>1, <3>2, OrderInvSameRing DEF ReplayInv
  <2>5. QED
    BY <1>1, <2>3, <2>4
<1>2. CASE TakeBackwardStep \/ ReadTailTime \/ PushPreceding \/ AfterPushTail
  <2>1. steppedBack
    <3>1. CASE TakeBackwardStep
      <4>1. backwardSteps > 0
        BY <3>1 DEF TakeBackwardStep
      <4>2. backwardSteps # 0
        BY <4>1
      <4>3. QED
        BY <4>2 DEF ReplayInv, NotAtTail
    <3>2. CASE ReadTailTime \/ PushPreceding \/ AfterPushTail
      BY <3>2 DEF ReadTailTime, PushPreceding, AfterPushTail, ReplayInv, NotAtTail
    <3>3. QED
      BY <1>2, <3>1, <3>2
  <2>2. steppedBack' = steppedBack /\ worker' # "push-jump"
    BY <1>2 DEF TakeBackwardStep, ReadTailTime, PushPreceding, AfterPushTail
  <2>3. QED
    BY <2>1, <2>2 DEF OrderInv, EmptyForJump
<1>3. QED
  BY <1>1, <1>2, OrderInvClear, OrderInvPushJump, OrderInvReadNext, OrderInvPushNext
     DEF WorkerStep

LEMMA OrderInvStep ==
  ASSUME ReplayInv, [ReplayNext]_replayVars
  PROVE  OrderInv'
<1> USE DEF playerVars, workerVars
<1>1. CASE WorkerStep
  BY <1>1, OrderInvWorker
<1>2. CASE TimerFires \/ StepForward
  <2>1. ShowNext /\ UNCHANGED <<workerVars, jumped, steppedBack>>
    BY <1>2 DEF TimerFires, StepForward
  <2>2. QED
    BY <2>1, OrderInvShowNext DEF ReplayInv
<1>3. CASE TogglePlayback
  <2>1. UNCHANGED <<workerVars, jumped, steppedBack>>
    BY <1>3 DEF TogglePlayback
  <2>2. CASE ShowNext
    BY <2>1, <2>2, OrderInvShowNext DEF ReplayInv
  <2>3. CASE UNCHANGED <<ringVars, shown>>
    <3>1. StreamInv => StreamInv'
      BY <2>1, <2>3, RingUnchanged DEF StreamInv, Newest
    <3>2. QED
      BY <2>1, <2>3, <3>1, OrderInvSameRing DEF ReplayInv
  <2>4. QED
    BY <1>3, <2>2, <2>3 DEF TogglePlayback
<1>4. CASE StepBackward
  <2>1. steppedBack' = TRUE /\ worker' = worker
    BY <1>4 DEF StepBackward
  <2>2. worker = "push-jump" => UNCHANGED ringVars
    <3>1. ASSUME worker = "push-jump", CanReadBackward
          PROVE  FALSE
      <4>1. Behind \in 0 .. Len(Window) /\ Window = << >>
        BY <3>1, WindowFacts DEF ReplayInv, OrderInv, EmptyForJump
      <4>2. Behind = 0
        BY <4>1, EmptySeq
      <4>3. QED
        BY <3>1, <4>2 DEF CanReadBackward, Behind
    <3>2. QED
      BY <1>4, <3>1 DEF StepBackward, ReadBackward
  <2>3. EmptyForJump'
    BY <2>1, <2>2, RingUnchanged DEF ReplayInv, OrderInv, EmptyForJump
  <2>4. QED
    BY <2>1, <2>3 DEF OrderInv
<1>5. CASE Jump \/ Close \/ JoinWorker \/ Closed \/ UNCHANGED replayVars
  <2>1. UNCHANGED <<ringVars, workerVars, shown, jumped, steppedBack>>
    BY <1>5 DEF Jump, Close, JoinWorker, Closed, replayVars
  <2>2. StreamInv => StreamInv'
    BY <2>1, RingUnchanged DEF StreamInv, Newest
  <2>3. QED
    BY <2>1, <2>2, OrderInvSameRing DEF ReplayInv
<1>6. CASE ShutdownBuffer
  <2>1. /\ isShuttingDown' = TRUE /\ UNCHANGED <<buffer, tail, read, head>>
        /\ UNCHANGED <<workerVars, shown, jumped, steppedBack>>
    BY <1>6 DEF ShutdownBuffer, Shutdown
  <2>2. Window' = Window /\ Behind' = Behind
    BY <2>1, WindowValue DEF Behind
  <2>3. EmptyForJump'
    BY <2>1, <2>2 DEF ReplayInv, OrderInv, EmptyForJump
  <2>4. ASSUME ~steppedBack'
        PROVE  ForwardInv'
    BY <2>1, <2>2, <2>4 DEF ReplayInv, OrderInv, ForwardInv, StreamInv
  <2>5. QED
    BY <2>3, <2>4 DEF OrderInv
<1>7. QED
  BY <1>1, <1>2, <1>3, <1>4, <1>5, <1>6 DEF ReplayNext

LEMMA ReplayInvInit == ReplayInit => ReplayInv
<1> SUFFICES ASSUME ReplayInit
             PROVE  ReplayInv
  OBVIOUS
<1>1. RingInv
  BY RingInvInit DEF ReplayInit
<1>2. ReplayTypeOK
  BY FrameNumbers DEF ReplayInit, StreamInit, ReplayTypeOK, Places
<1>3. NotAtTail
  BY DEF ReplayInit, NotAtTail
<1>4. QED
  BY <1>1, <1>2, <1>3, OrderInvInit DEF ReplayInv

LEMMA ReplayInvStep == ReplayInv /\ [ReplayNext]_replayVars => ReplayInv'
<1> SUFFICES ASSUME ReplayInv, [ReplayNext]_replayVars
             PROVE  ReplayInv'
  OBVIOUS
<1>1. RingInv'
  BY RingInvStep DEF ReplayInv
<1>2. ReplayTypeOK'
  BY ReplayTypeOKStep DEF ReplayInv
<1>3. NotAtTail'
  BY NotAtTailStep DEF ReplayInv
<1>4. OrderInv'
  BY OrderInvStep
<1>5. QED
  BY <1>1, <1>2, <1>3, <1>4 DEF ReplayInv

LEMMA ReplayInvariant == ReplaySpec => []ReplayInv
  BY ReplayInvInit, ReplayInvStep, PTL DEF ReplaySpec

-----------------------------------------------------------------------------
\* While nobody steps backward no snapshot is dropped, repeated or put out of
\* order in the ring, whatever the player and its timers do and however often
\* the user jumps.
THEOREM ReplayWindowContiguous == ReplaySpec => []ForwardWindowContiguous
<1>1. ReplayInv => ForwardWindowContiguous
  BY DEF ReplayInv, OrderInv, ForwardInv, InOrder, ForwardWindowContiguous, WindowContiguous
<1>2. QED
  BY <1>1, ReplayInvariant, PTL

\* Between two rounds of the worker the stream stands at the newest snapshot
\* of the ring.
THEOREM ReplayStreamFollows == ReplaySpec => []StreamFollowsWindow
<1>1. ReplayInv => StreamFollowsWindow
  <2> SUFFICES ASSUME ReplayInv, worker \in {"loop", "backward", "jump", "forward"},
                      Window # << >>, ~isShuttingDown, ~steppedBack
               PROVE  IF position = End THEN HeadFrame = Last ELSE HeadFrame = position
    BY DEF StreamFollowsWindow
  <2>1. Newest = HeadFrame
    BY HeadFrameValue DEF Newest, NewestOf, ReplayInv, RingInv
  <2>2. HeadFrame \in Frames
    <3>1. Window \in Seq(Frames) /\ Len(Window) \in 1 .. Len(Window)
      BY WindowFacts, EmptySeq DEF ReplayInv
    <3>2. QED
      BY <3>1, ElementOfSeq, HeadFrameValue DEF ReplayInv, RingInv
  <2>3. IF position = End THEN Newest \in {Last, NoFrame} ELSE Newest = position
    BY DEF ReplayInv, OrderInv, ForwardInv, StreamInv, BetweenPushes
  <2>4. QED
    BY <2>1, <2>2, <2>3, FrameNumbers
<1>2. QED
  BY <1>1, ReplayInvariant, PTL

\* Every picture the player shows is the snapshot that follows the one before,
\* or the one jumped to.
THEOREM ReplayShownInOrder == ReplaySpec => ShownInOrder
<1>1. ReplayInv /\ [ReplayNext]_replayVars =>
        [shown' # shown /\ ~steppedBack' =>
           \/ shown' \in {Following(shown), jumped}
           \/ (shown = NoFrame /\ shown' = First)]_replayVars
  <2> SUFFICES ASSUME ReplayInv, ReplayNext, shown' # shown, ~steppedBack'
               PROVE  shown' \in {Following(shown), jumped}
    OBVIOUS
  <2>1. CASE TimerFires \/ TogglePlayback \/ StepForward
    <3>1. ShowNext /\ jumped' = jumped /\ steppedBack' = steppedBack
      BY <2>1 DEF TimerFires, TogglePlayback, StepForward
    <3>2. InOrder(Window) /\ ReaderAt(Window, Behind, shown, jumped)
      BY <3>1 DEF ReplayInv, OrderInv, ForwardInv
    <3>3. QED
      BY <3>1, <3>2, ShowNextOrder DEF ReplayInv
  <2>2. CASE StepBackward
    BY <2>2 DEF StepBackward
  <2>3. CASE WorkerStep \/ Jump \/ Close \/ ShutdownBuffer \/ JoinWorker \/ Closed
    BY <2>3 DEF WorkerStep, Start, Loop, TakeBackwardStep, NoBackwardStep, ReadTailTime,
                PushPreceding, AfterPushTail, CheckJump, TakeJump, ClearForJump, PushJump,
                UnsetJump, SkipForward, ReadNext, PushNext, playerVars,
                Jump, Close, ShutdownBuffer, JoinWorker, Closed, replayVars
  <2>4. QED
    BY <2>1, <2>2, <2>3 DEF ReplayNext
<1>2. QED
  BY <1>1, ReplayInvariant, PTL DEF ReplaySpec, ShownInOrder
=============================================================================
