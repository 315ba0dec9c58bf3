-------------------------- MODULE SystemRingBuffer --------------------------
(***************************************************************************)
(* app/src/core/dataflow/system_ring_buffer.cpp: the ring of snapshots     *)
(* between the thread that parses a recorded simulation and the GUI thread *)
(* that plays it.  Every operation that changes an index or hands out a    *)
(* snapshot holds the mutex, so each is one action; one that returns early *)
(* (false or nullopt) changes nothing.  isFull, isEmpty, hasReaderCaughtUp *)
(* and size do not hold it.  From outside, isFull is asked by the worker   *)
(* alone, which is the only one to change head_, so that it reads one      *)
(* index another thread may change; size is only shown.                    *)
(***************************************************************************)
EXTENDS Integers, Sequences

CONSTANTS Capacity,     \* constructor argument capacity, 512 in the program
          RetainCount,  \* constructor argument retain_count, 8 in the program
          Frames,       \* the snapshots
          NoFrame       \* nullptr in a slot, nullopt as a result

\* simulation_player.cpp keeps far fewer snapshots than the ring can hold.
ASSUME RingAssumption ==
  /\ Capacity \in Nat
  /\ RetainCount \in Nat
  /\ RetainCount < Capacity
  /\ NoFrame \notin Frames

VARIABLES buffer,         \* buffer_
          tail,           \* tail_: oldest retained
          read,           \* read_: next to be read
          head,           \* head_: right after the last written
          isShuttingDown  \* is_shutting_down_

ringVars == <<buffer, tail, read, head, isShuttingDown>>

Size  == Capacity + 1        \* buffer_(capacity + 1)
Index == 0 .. Capacity

\* Faulty variant: the index does not wrap.
AdvanceUnwrapped(idx) == idx + 1

Advance(idx) == (idx + 1) % Size
Retreat(idx) == (idx + Size - 1) % Size
Distance(from, to) == IF to >= from THEN to - from ELSE to + Size - from

IsFull  == Advance(head) = tail
IsEmpty == tail = head
HasReaderCaughtUp == read = head

RingInit ==
  /\ buffer = [idx \in Index |-> NoFrame]
  /\ tail = 0 /\ read = 0 /\ head = 0
  /\ isShuttingDown = FALSE

\* Faulty variant: the index moves before the slot is written.
WriteAfterAdvance(snapshot) ==
  /\ ~IsFull /\ ~isShuttingDown
  /\ buffer' = [buffer EXCEPT ![Advance(head)] = snapshot]
  /\ head' = Advance(head)
  /\ UNCHANGED <<tail, read, isShuttingDown>>

PushHead(snapshot) ==
  /\ ~IsFull /\ ~isShuttingDown
  /\ buffer' = [buffer EXCEPT ![head] = snapshot]
  /\ head' = Advance(head)
  /\ UNCHANGED <<tail, read, isShuttingDown>>

PushTail(snapshot) ==
  /\ IsFull => ~HasReaderCaughtUp
  /\ head' = IF IsFull THEN Retreat(head) ELSE head
  /\ tail' = Retreat(tail)
  /\ buffer' = [buffer EXCEPT ![Retreat(tail)] = snapshot]
  /\ read' = IF Distance(Retreat(tail), read) > RetainCount THEN Retreat(read) ELSE read
  /\ UNCHANGED isShuttingDown

\* The loop that advances tail_ while too many snapshots are behind the reader.
TrimmedTail(newRead) ==
  LET excess == Distance(tail, newRead) - RetainCount
  IN  IF excess > 0 THEN (tail + excess) % Size ELSE tail

\* Faulty variant: the index moves before the slot is read.
ReadAfterAdvance == IF HasReaderCaughtUp THEN NoFrame ELSE buffer[Advance(read)]

ReadForwardResult == IF HasReaderCaughtUp THEN NoFrame ELSE buffer[read]

ReadForward ==
  /\ ~HasReaderCaughtUp
  /\ read' = Advance(read)
  /\ tail' = TrimmedTail(Advance(read))
  /\ UNCHANGED <<buffer, head, isShuttingDown>>

\* Faulty variant: the oldest snapshot is not the end.
CanReadBehindTail == Distance(tail, read) >= 0

CanReadBackward == Distance(tail, read) >= 1

ReadBackwardResult == IF CanReadBackward THEN buffer[Retreat(read)] ELSE NoFrame

ReadBackward ==
  /\ CanReadBackward
  /\ read' = Retreat(read)
  /\ UNCHANGED <<buffer, tail, head, isShuttingDown>>

\* headTime and tailTime: a frame stands for its time.
HeadFrame == IF IsEmpty THEN NoFrame ELSE buffer[Retreat(head)]
TailFrame == IF IsEmpty THEN NoFrame ELSE buffer[tail]

\* Faulty variant: the reader stays where it was.
ClearEnds ==
  /\ tail' = 0 /\ head' = 0
  /\ buffer' = [idx \in Index |-> NoFrame]
  /\ UNCHANGED <<read, isShuttingDown>>

Clear ==
  /\ tail' = 0 /\ read' = 0 /\ head' = 0
  /\ buffer' = [idx \in Index |-> NoFrame]
  /\ UNCHANGED isShuttingDown

Shutdown == isShuttingDown' = TRUE /\ UNCHANGED <<buffer, tail, read, head>>

RingNext ==
  \/ \E f \in Frames : PushHead(f) \/ PushTail(f)
  \/ ReadForward
  \/ ReadBackward
  \/ Clear
  \/ Shutdown

RingSpec == RingInit /\ [][RingNext]_ringVars
-----------------------------------------------------------------------------
\* Every index stays inside the array and every slot holds a snapshot or
\* nullptr (system_ring_buffer.h 94-105).
RingTypeOK ==
  /\ buffer \in [Index -> Frames \cup {NoFrame}]
  /\ tail \in Index /\ read \in Index /\ head \in Index
  /\ isShuttingDown \in BOOLEAN

\* The reader never leaves the stretch from tail_ to head_, whatever the
\* writer does at either end ("Can't go before tail").
ReaderInWindow == Distance(tail, read) <= Distance(tail, head)

\* At most retain_count_ snapshots stay behind read_ ("How many snapshots
\* behind read_ we must retain"), so the writer always finds room ahead.
RetainBounded == Distance(tail, read) <= RetainCount

\* No slot between tail_ and head_ is empty, so a successful read never
\* hands nullptr to the renderer and headTime and tailTime find a snapshot.
WindowFilled ==
  \A idx \in Index : Distance(tail, idx) < Distance(tail, head) => buffer[idx] # NoFrame
-----------------------------------------------------------------------------
\* The stretch of the array from tail_ up to head_, as a sequence.
Window == [i \in 1 .. Distance(tail, head) |-> buffer[(tail + i - 1) % Size]]

Abstract == INSTANCE FrameWindow
  WITH window <- Window, behind <- Distance(tail, read), closed <- isShuttingDown

\* The ring implements the frame window: every operation on the three indices
\* is the corresponding operation on a sequence, or changes nothing.
ImplementsWindow == Abstract!Spec
=============================================================================
