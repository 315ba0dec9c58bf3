----------------------------- MODULE FrameWindow -----------------------------
(***************************************************************************)
(* What the replay buffer promises: a window of at most Capacity frames,   *)
(* cut by the reader into the frames already read (at most RetainCount of  *)
(* them are kept) and the frames still to be read.  The writer extends the *)
(* window at either end; the reader moves the cut.  SystemRingBuffer       *)
(* implements this with three indices into a circular array.               *)
(***************************************************************************)
EXTENDS Integers, Sequences

CONSTANTS Capacity,     \* frames the window holds
          RetainCount,  \* frames kept behind the reader
          Frames        \* the frames

VARIABLES window,  \* the buffered frames, oldest position first
          behind,  \* how many of them the reader has passed
          closed   \* no frame is accepted at the head any more

windowVars == <<window, behind, closed>>

Init == window = <<>> /\ behind = 0 /\ closed = FALSE

Full     == Len(window) = Capacity
CaughtUp == behind = Len(window)

PushHead(f) ==
  /\ ~Full /\ ~closed
  /\ window' = Append(window, f)
  /\ UNCHANGED <<behind, closed>>

\* A full window makes room for an older frame by giving up its newest one,
\* unless the reader has passed it.
PushTail(f) ==
  /\ Full => ~CaughtUp
  /\ window' = <<f>> \o SubSeq(window, 1, IF Full THEN Len(window) - 1 ELSE Len(window))
  /\ behind' = IF behind < RetainCount THEN behind + 1 ELSE behind
  /\ UNCHANGED closed

ReadForward ==
  /\ ~CaughtUp
  /\ IF behind < RetainCount
     THEN behind' = behind + 1 /\ UNCHANGED window
     ELSE window' = Tail(window) /\ UNCHANGED behind
  /\ UNCHANGED closed

ReadBackward ==
  /\ behind > 0
  /\ behind' = behind - 1
  /\ UNCHANGED <<window, closed>>

Clear    == window' = <<>> /\ behind' = 0 /\ UNCHANGED closed
Shutdown == closed' = TRUE /\ UNCHANGED <<window, behind>>

Next ==
  \/ \E f \in Frames : PushHead(f) \/ PushTail(f)
  \/ ReadForward \/ ReadBackward
  \/ Clear \/ Shutdown

Spec == Init /\ [][Next]_windowVars
=============================================================================
