----------------------- MODULE SystemRingBufferProofs -----------------------
(***************************************************************************)
(* Proofs about SystemRingBuffer for every capacity, retain count and set  *)
(* of snapshots.                                                           *)
(***************************************************************************)
EXTENDS SystemRingBuffer, SequenceTheorems, TLAPS

USE RingAssumption DEF Size, Index

-----------------------------------------------------------------------------
(* Index arithmetic without the remainder.                                 *)

\* advance() steps to the next slot and wraps after the last one.
LEMMA AdvanceValue ==
  ASSUME NEW i \in Index
  PROVE  /\ Advance(i) = IF i = Capacity THEN 0 ELSE i + 1
         /\ Advance(i) \in Index
  BY DEF Advance

\* retreat() steps to the previous slot and wraps before the first one.
LEMMA RetreatValue ==
  ASSUME NEW i \in Index
  PROVE  /\ Retreat(i) = IF i = 0 THEN Capacity ELSE i - 1
         /\ Retreat(i) \in Index
  BY DEF Retreat

\* distance() counts the slots from one index to another.
LEMMA DistanceRange ==
  ASSUME NEW i \in Index, NEW j \in Index
  PROVE  /\ Distance(i, j) \in 0 .. Capacity
         /\ Distance(i, j) = 0 <=> i = j
  BY DEF Distance

\* One slot further for the second index is one more, around the ring.
LEMMA DistanceAdvanceTo ==
  ASSUME NEW i \in Index, NEW j \in Index
  PROVE  Distance(i, Advance(j)) = IF Distance(i, j) = Capacity THEN 0 ELSE Distance(i, j) + 1
<1>1. CASE j = Capacity
  BY <1>1, AdvanceValue DEF Distance
<1>2. CASE j # Capacity
  BY <1>2, AdvanceValue DEF Distance
<1>3. QED
  BY <1>1, <1>2

LEMMA DistanceRetreatTo ==
  ASSUME NEW i \in Index, NEW j \in Index
  PROVE  Distance(i, Retreat(j)) = IF i = j THEN Capacity ELSE Distance(i, j) - 1
  BY RetreatValue DEF Distance

\* One slot back for the first index is one more, too.
LEMMA DistanceRetreatFrom ==
  ASSUME NEW i \in Index, NEW j \in Index
  PROVE  Distance(Retreat(i), j) = IF Distance(i, j) = Capacity THEN 0 ELSE Distance(i, j) + 1
  BY RetreatValue DEF Distance

LEMMA DistanceAdvanceFrom ==
  ASSUME NEW i \in Index, NEW j \in Index
  PROVE  Distance(Advance(i), j) = IF i = j THEN Capacity ELSE Distance(i, j) - 1
  BY AdvanceValue DEF Distance

\* isFull() holds exactly when all but one slot are in use.
LEMMA FullMeansCapacity ==
  ASSUME tail \in Index, head \in Index
  PROVE  IsFull <=> Distance(tail, head) = Capacity
  BY AdvanceValue DEF Distance, IsFull

\* While at most RetainCount snapshots are behind the reader, the trimming
\* loop of readForward() runs at most once.
LEMMA TrimOnce ==
  ASSUME tail \in Index, read \in Index, RetainBounded
  PROVE  TrimmedTail(Advance(read)) =
           IF Distance(tail, read) = RetainCount THEN Advance(tail) ELSE tail
<1>1. Distance(tail, Advance(read)) = Distance(tail, read) + 1
  BY DistanceAdvanceTo, DistanceRange DEF RetainBounded
<1>2. CASE Distance(tail, read) = RetainCount
  <2>1. Distance(tail, Advance(read)) - RetainCount = 1
    BY <1>1, <1>2
  <2>2. QED
    BY <2>1, <1>2 DEF TrimmedTail, Advance
<1>3. CASE Distance(tail, read) # RetainCount
  <2>1. ~(Distance(tail, Advance(read)) - RetainCount > 0)
    BY <1>1, <1>3, DistanceRange DEF RetainBounded
  <2>2. QED
    BY <2>1, <1>3 DEF TrimmedTail
<1>4. QED
  BY <1>2, <1>3

-----------------------------------------------------------------------------
(* The inductive invariant: no part of it is inductive alone.  The reader  *)
(* stays in the window only because the retain bound keeps a writer at the *)
(* tail from reaching it, and WindowFilled needs both.                     *)
IndexInv == RingTypeOK /\ ReaderInWindow /\ RetainBounded

LEMMA IndexInvInit == RingInit => IndexInv
<1> SUFFICES ASSUME RingInit PROVE IndexInv
  OBVIOUS
<1>1. RingTypeOK
  <2>1. buffer \in [Index -> Frames \cup {NoFrame}]
    BY DEF RingInit
  <2>2. tail \in Index /\ read \in Index /\ head \in Index
    BY DEF RingInit
  <2>3. isShuttingDown \in BOOLEAN
    BY DEF RingInit
  <2>4. QED
    BY <2>1, <2>2, <2>3 DEF RingTypeOK
<1>2. tail = 0 /\ read = 0 /\ head = 0 /\ 0 \in Index
  BY DEF RingInit
<1>3. Distance(tail, read) = 0 /\ Distance(tail, head) = 0
  BY <1>2, DistanceRange
<1>4. ReaderInWindow /\ RetainBounded
  BY <1>3 DEF ReaderInWindow, RetainBounded
<1>5. QED
  BY <1>1, <1>4 DEF IndexInv

\* pushTail() puts one snapshot more behind the reader, up to the bound, and
\* one more into the ring, up to its capacity.
LEMMA PushTailMoves ==
  ASSUME IndexInv, NEW f \in Frames, PushTail(f)
  PROVE  /\ Distance(tail', read') =
              IF Distance(tail, read) = RetainCount THEN RetainCount ELSE Distance(tail, read) + 1
         /\ Distance(tail', head') = IF IsFull THEN Capacity ELSE Distance(tail, head) + 1
<1> USE DEF IndexInv, ReaderInWindow, RetainBounded
<1>1. tail \in Index /\ read \in Index /\ head \in Index
  BY DEF RingTypeOK
<1>2. Retreat(tail) \in Index /\ Retreat(read) \in Index /\ Retreat(head) \in Index
  BY <1>1, RetreatValue
<1>3. /\ Distance(tail, read) \in 0 .. RetainCount
      /\ Distance(tail, head) \in 0 .. Capacity
  BY <1>1, DistanceRange
<1>4. IsFull <=> Distance(tail, head) = Capacity
  BY <1>1, FullMeansCapacity
<1>5. /\ tail' = Retreat(tail)
      /\ head' = IF IsFull THEN Retreat(head) ELSE head
      /\ read' = IF Distance(Retreat(tail), read) > RetainCount THEN Retreat(read) ELSE read
  BY DEF PushTail
<1>6. Distance(Retreat(tail), read) = Distance(tail, read) + 1
  BY <1>1, <1>3, DistanceRetreatFrom
<1>7. Distance(tail', read') =
        IF Distance(tail, read) = RetainCount THEN RetainCount ELSE Distance(tail, read) + 1
  <2>1. CASE Distance(tail, read) = RetainCount
    <3>1. read' = Retreat(read)
      BY <1>5, <1>6, <2>1
    <3>2. Retreat(tail) # read
      BY <1>2, <1>3, <1>6, DistanceRange
    <3>3. Distance(Retreat(tail), Retreat(read)) = Distance(Retreat(tail), read) - 1
      BY <1>1, <1>2, <3>2, DistanceRetreatTo
    <3>4. QED
      BY <1>3, <1>5, <1>6, <2>1, <3>1, <3>3
  <2>2. CASE Distance(tail, read) # RetainCount
    <3>1. read' = read
      BY <1>3, <1>5, <1>6, <2>2
    <3>2. QED
      BY <1>5, <1>6, <2>2, <3>1
  <2>3. QED
    BY <2>1, <2>2
<1>8. Distance(tail', head') = IF IsFull THEN Capacity ELSE Distance(tail, head) + 1
  <2>1. CASE IsFull
    <3>1. tail # head
      BY <1>1, <1>4, <2>1, DistanceRange
    <3>2. Distance(tail, Retreat(head)) = Capacity - 1
      BY <1>1, <1>4, <2>1, <3>1, DistanceRetreatTo
    <3>3. Distance(Retreat(tail), Retreat(head)) = Capacity
      BY <1>1, <1>2, <3>2, DistanceRetreatFrom
    <3>4. QED
      BY <1>5, <2>1, <3>3
  <2>2. CASE ~IsFull
    <3>1. Distance(Retreat(tail), head) = Distance(tail, head) + 1
      BY <1>1, <1>3, <1>4, <2>2, DistanceRetreatFrom
    <3>2. QED
      BY <1>5, <2>2, <3>1
  <2>3. QED
    BY <2>1, <2>2
<1>9. QED
  BY <1>7, <1>8

\* readForward() puts one snapshot more behind the reader, or drops the oldest.
LEMMA ReadForwardMoves ==
  ASSUME IndexInv, ReadForward
  PROVE  /\ tail' = IF Distance(tail, read) = RetainCount THEN Advance(tail) ELSE tail
         /\ read' = Advance(read) /\ head' = head
         /\ Distance(tail, read) < Distance(tail, head)
         /\ Distance(tail', read') =
              IF Distance(tail, read) = RetainCount THEN RetainCount ELSE Distance(tail, read) + 1
         /\ Distance(tail', head') =
              IF Distance(tail, read) = RetainCount
              THEN Distance(tail, head) - 1
              ELSE Distance(tail, head)
<1> USE DEF IndexInv, ReaderInWindow, RetainBounded
<1>1. tail \in Index /\ read \in Index /\ head \in Index
  BY DEF RingTypeOK
<1>2. Advance(tail) \in Index /\ Advance(read) \in Index
  BY <1>1, AdvanceValue
<1>3. /\ Distance(tail, read) \in 0 .. RetainCount
      /\ Distance(tail, head) \in 0 .. Capacity
  BY <1>1, DistanceRange
<1>4. /\ tail' = IF Distance(tail, read) = RetainCount THEN Advance(tail) ELSE tail
      /\ read' = Advance(read) /\ head' = head
  BY <1>1, TrimOnce DEF ReadForward
<1>5. Distance(tail, read) < Distance(tail, head)
  <2>1. Distance(tail, read) # Distance(tail, head)
    BY <1>1 DEF ReadForward, HasReaderCaughtUp, Distance
  <2>2. QED
    BY <1>3, <2>1
<1>6. Distance(tail, Advance(read)) = Distance(tail, read) + 1
  BY <1>1, <1>3, DistanceAdvanceTo
<1>7. CASE Distance(tail, read) = RetainCount
  <2>1. tail # Advance(read) /\ tail # head
    BY <1>1, <1>2, <1>3, <1>5, <1>6 DEF Distance
  <2>2. Distance(Advance(tail), Advance(read)) = Distance(tail, Advance(read)) - 1
    BY <1>1, <1>2, <2>1, DistanceAdvanceFrom
  <2>3. Distance(Advance(tail), head) = Distance(tail, head) - 1
    BY <1>1, <2>1, DistanceAdvanceFrom
  <2>4. tail' = Advance(tail)
    BY <1>4, <1>7
  <2>5. QED
    BY <1>4, <1>5, <1>6, <1>7, <2>2, <2>3, <2>4
<1>8. CASE Distance(tail, read) # RetainCount
  <2>1. tail' = tail
    BY <1>4, <1>8
  <2>2. QED
    BY <1>4, <1>5, <1>6, <1>8, <2>1
<1>9. QED
  BY <1>7, <1>8

LEMMA IndexInvStep == IndexInv /\ [RingNext]_ringVars => IndexInv'
<1> SUFFICES ASSUME IndexInv, [RingNext]_ringVars
             PROVE  IndexInv'
  OBVIOUS
<1> USE DEF IndexInv, ReaderInWindow, RetainBounded
<1>1. tail \in Index /\ read \in Index /\ head \in Index
  BY DEF RingTypeOK
<1>2. /\ Advance(tail) \in Index /\ Advance(read) \in Index /\ Advance(head) \in Index
      /\ Retreat(tail) \in Index /\ Retreat(read) \in Index /\ Retreat(head) \in Index
  BY <1>1, AdvanceValue, RetreatValue
<1>3. /\ Distance(tail, read) \in 0 .. RetainCount
      /\ Distance(tail, head) \in 0 .. Capacity
      /\ Distance(tail, read) <= Distance(tail, head)
  BY <1>1, DistanceRange
<1>4. IsFull <=> Distance(tail, head) = Capacity
  BY <1>1, FullMeansCapacity
<1>5. ASSUME NEW f \in Frames, PushHead(f)
      PROVE  IndexInv'
  <2>1. RingTypeOK'
    BY <1>2, <1>5 DEF PushHead, RingTypeOK
  <2>2. tail' = tail /\ read' = read /\ head' = Advance(head)
    BY <1>5 DEF PushHead
  <2>3. Distance(tail, Advance(head)) = Distance(tail, head) + 1
    BY <1>1, <1>3, <1>4, <1>5, DistanceAdvanceTo DEF PushHead
  <2>4. QED
    BY <1>3, <2>1, <2>2, <2>3
<1>6. ASSUME NEW f \in Frames, PushTail(f)
      PROVE  IndexInv'
  <2>1. RingTypeOK'
    BY <1>2, <1>6 DEF PushTail, RingTypeOK
  <2>2. QED
    BY <1>3, <1>4, <1>6, <2>1, PushTailMoves
<1>7. CASE ReadForward
  <2>1. RingTypeOK'
    BY <1>2, <1>7, ReadForwardMoves DEF ReadForward, RingTypeOK
  <2>2. QED
    BY <1>3, <1>7, <2>1, ReadForwardMoves
<1>8. CASE ReadBackward
  <2>1. RingTypeOK'
    BY <1>2, <1>8 DEF ReadBackward, RingTypeOK
  <2>2. tail' = tail /\ read' = Retreat(read) /\ head' = head
    BY <1>8 DEF ReadBackward
  <2>3. tail # read
    BY <1>1, <1>3, <1>8, DistanceRange DEF ReadBackward, CanReadBackward
  <2>4. Distance(tail, Retreat(read)) = Distance(tail, read) - 1
    BY <1>1, <2>3, DistanceRetreatTo
  <2>5. QED
    BY <1>3, <2>1, <2>2, <2>4
<1>9. CASE Clear
  BY <1>9 DEF Clear, Distance, RingTypeOK
<1>10. CASE Shutdown
  BY <1>10 DEF Shutdown, RingTypeOK
<1>11. CASE UNCHANGED ringVars
  BY <1>11 DEF ringVars, RingTypeOK
<1>12. QED
  BY <1>5, <1>6, <1>7, <1>8, <1>9, <1>10, <1>11 DEF RingNext

\* Every index stays in the array, whatever is called in whatever order.
THEOREM RingTypeCorrect == RingSpec => []RingTypeOK
  BY IndexInvInit, IndexInvStep, PTL DEF RingSpec, IndexInv

\* The reader stays between tail and head.
THEOREM RingReaderInWindow == RingSpec => []ReaderInWindow
  BY IndexInvInit, IndexInvStep, PTL DEF RingSpec, IndexInv

\* At most RetainCount snapshots stay behind the reader.
THEOREM RingRetainBounded == RingSpec => []RetainBounded
  BY IndexInvInit, IndexInvStep, PTL DEF RingSpec, IndexInv
-----------------------------------------------------------------------------
(* The slots of the window are filled.                                     *)

\* Equal distances from the tail mean the same slot.
LEMMA DistanceInjective ==
  ASSUME NEW i \in Index, NEW j \in Index, NEW k \in Index, Distance(i, j) = Distance(i, k)
  PROVE  j = k
  BY DEF Distance

LEMMA WindowFilledStep ==
  IndexInv /\ WindowFilled /\ [RingNext]_ringVars => WindowFilled'
<1> SUFFICES ASSUME IndexInv, WindowFilled, [RingNext]_ringVars,
                    NEW idx \in Index, Distance(tail', idx) < Distance(tail', head')
             PROVE  buffer'[idx] # NoFrame
  BY DEF WindowFilled
<1>1. /\ tail \in Index /\ read \in Index /\ head \in Index
      /\ buffer \in [Index -> Frames \cup {NoFrame}]
  BY DEF IndexInv, RingTypeOK
<1>2. Advance(head) \in Index /\ Retreat(tail) \in Index /\ Retreat(head) \in Index
  BY <1>1, AdvanceValue, RetreatValue
<1>3. /\ Distance(tail, idx) \in 0 .. Capacity
      /\ Distance(tail, head) \in 0 .. Capacity
      /\ Distance(tail, read) \in 0 .. Capacity
  BY <1>1, DistanceRange
<1>4. Distance(tail, idx) < Distance(tail, head) => buffer[idx] # NoFrame
  BY DEF WindowFilled
<1>5. IsFull <=> Distance(tail, head) = Capacity
  BY <1>1, FullMeansCapacity
<1>6. ASSUME NEW f \in Frames, PushHead(f)
      PROVE  buffer'[idx] # NoFrame
  <2>1. tail' = tail /\ head' = Advance(head) /\ buffer' = [buffer EXCEPT ![head] = f]
    BY <1>6 DEF PushHead
  <2>2. Distance(tail, Advance(head)) = Distance(tail, head) + 1
    BY <1>1, <1>3, <1>5, <1>6, DistanceAdvanceTo DEF PushHead
  <2>3. CASE idx = head
    BY <1>1, <2>1, <2>3
  <2>4. CASE idx # head
    <3>1. Distance(tail, idx) # Distance(tail, head)
      BY <1>1, <2>4, DistanceInjective
    <3>2. Distance(tail, idx) < Distance(tail, head)
      BY <1>3, <2>1, <2>2, <3>1
    <3>3. QED
      BY <1>1, <1>4, <2>1, <2>4, <3>2
  <2>5. QED
    BY <2>3, <2>4
<1>7. ASSUME NEW f \in Frames, PushTail(f)
      PROVE  buffer'[idx] # NoFrame
  <2>1. /\ tail' = Retreat(tail)
        /\ head' = IF IsFull THEN Retreat(head) ELSE head
        /\ buffer' = [buffer EXCEPT ![Retreat(tail)] = f]
    BY <1>7 DEF PushTail
  <2>2. CASE idx = Retreat(tail)
    BY <1>1, <1>2, <2>1, <2>2
  <2>3. CASE idx # Retreat(tail)
    <3>1. Distance(Retreat(tail), idx) = Distance(tail, idx) + 1
      <4>1. Distance(Retreat(tail), idx) # 0
        BY <1>2, <2>3, DistanceRange
      <4>2. QED
        BY <1>1, <4>1, DistanceRetreatFrom
    <3>2. Distance(tail, idx) < Distance(tail, head)
      <4>1. CASE IsFull
        <5>1. tail # head
          BY <1>1, <1>5, <4>1, DistanceRange
        <5>2. Distance(tail, Retreat(head)) = Capacity - 1
          BY <1>1, <1>5, <4>1, <5>1, DistanceRetreatTo
        <5>3. Distance(Retreat(tail), Retreat(head)) = Capacity
          BY <1>1, <1>2, <5>2, DistanceRetreatFrom
        <5>4. QED
          BY <1>3, <1>5, <2>1, <3>1, <4>1, <5>3
      <4>2. CASE ~IsFull
        <5>1. Distance(Retreat(tail), head) = Distance(tail, head) + 1
          BY <1>1, <1>3, <1>5, <4>2, DistanceRetreatFrom
        <5>2. QED
          BY <1>3, <2>1, <3>1, <4>2, <5>1
      <4>3. QED
        BY <4>1, <4>2
    <3>3. QED
      BY <1>1, <1>2, <1>4, <2>1, <2>3, <3>2
  <2>4. QED
    BY <2>2, <2>3
<1>8. CASE ReadForward
  <2>1. /\ tail' = IF Distance(tail, read) = RetainCount THEN Advance(tail) ELSE tail
        /\ head' = head /\ buffer' = buffer
    BY <1>1, <1>8, TrimOnce DEF ReadForward, IndexInv
  <2>2. CASE Distance(tail, read) = RetainCount
    <3>1. Distance(tail, read) <= Distance(tail, head) /\ read # head
      BY <1>8 DEF ReadForward, HasReaderCaughtUp, IndexInv, ReaderInWindow
    <3>2. tail # head
      BY <1>1, <1>3, <3>1, DistanceRange
    <3>3. Distance(Advance(tail), head) = Distance(tail, head) - 1
      BY <1>1, <3>2, DistanceAdvanceFrom
    <3>4. Distance(Advance(tail), idx) = IF tail = idx THEN Capacity ELSE Distance(tail, idx) - 1
      BY <1>1, DistanceAdvanceFrom
    <3>5. Distance(tail, idx) < Distance(tail, head)
      BY <1>3, <2>1, <2>2, <3>3, <3>4
    <3>6. QED
      BY <1>4, <2>1, <3>5
  <2>3. CASE Distance(tail, read) # RetainCount
    BY <1>4, <2>1, <2>3
  <2>4. QED
    BY <2>2, <2>3
<1>9. CASE ReadBackward
  BY <1>4, <1>9 DEF ReadBackward
<1>10. CASE Clear
  <2>1. tail' = 0 /\ head' = 0
    BY <1>10 DEF Clear
  <2>2. QED
    BY <2>1, DistanceRange
<1>11. CASE Shutdown
  BY <1>4, <1>11 DEF Shutdown
<1>12. CASE UNCHANGED ringVars
  BY <1>4, <1>12 DEF ringVars
<1>13. QED
  BY <1>6, <1>7, <1>8, <1>9, <1>10, <1>11, <1>12 DEF RingNext

LEMMA WindowFilledInit == RingInit => WindowFilled
<1> SUFFICES ASSUME RingInit, NEW idx \in Index, Distance(tail, idx) < Distance(tail, head)
             PROVE  FALSE
  BY DEF WindowFilled
<1>1. tail = 0 /\ head = 0
  BY DEF RingInit
<1>2. QED
  BY <1>1, DistanceRange

\* A read that succeeds returns a snapshot: no slot of the window is empty.
THEOREM RingWindowFilled == RingSpec => []WindowFilled
  BY WindowFilledInit, IndexInvInit, IndexInvStep, WindowFilledStep, PTL DEF RingSpec
-----------------------------------------------------------------------------
(* The stretch of the array between two indices, as a sequence.  Index and *)
(* arrays are kept opaque from here on: these lemmas speak of slots, not   *)
(* of numbers.                                                             *)

\* The slot of the i-th snapshot of the stretch that starts at t.
Slot(t, i) == (t + i - 1) % Size

\* A slot index wraps at most once.
LEMMA SlotValue ==
  ASSUME NEW t \in Index, NEW i \in 1 .. Size
  PROVE  /\ Slot(t, i) = IF t + i <= Size THEN t + i - 1 ELSE t + i - 1 - Size
         /\ Slot(t, i) \in Index
<1>1. t + i - 1 \in 0 .. 2 * Size - 1 /\ Size \in Nat /\ Size > 0
  OBVIOUS
<1>2. QED
  BY <1>1 DEF Slot

\* Slot and Distance are inverses: the slot right after the stretch is its end.
LEMMA SlotDistance ==
  ASSUME NEW t \in Index, NEW k \in Index
  PROVE  Slot(t, Distance(t, k) + 1) = k
<1>1. CASE k >= t
  <2>1. Distance(t, k) + 1 = k - t + 1 /\ k - t + 1 \in 1 .. Size /\ t + (k - t + 1) <= Size
    BY <1>1 DEF Distance
  <2>2. Slot(t, k - t + 1) = t + (k - t + 1) - 1
    BY <2>1, SlotValue
  <2>3. QED
    BY <2>1, <2>2
<1>2. CASE k < t
  <2>1. /\ Distance(t, k) + 1 = k + Size - t + 1
        /\ k + Size - t + 1 \in 1 .. Size
        /\ ~(t + (k + Size - t + 1) <= Size)
    BY <1>2 DEF Distance
  <2>2. Slot(t, k + Size - t + 1) = t + (k + Size - t + 1) - 1 - Size
    BY <2>1, SlotValue
  <2>3. QED
    BY <2>1, <2>2
<1>3. QED
  BY <1>1, <1>2

LEMMA DistanceSlot ==
  ASSUME NEW t \in Index, NEW i \in 1 .. Size
  PROVE  Distance(t, Slot(t, i)) = i - 1
<1>1. CASE t + i <= Size
  <2>1. Slot(t, i) = t + i - 1
    BY <1>1, SlotValue
  <2>2. QED
    BY <2>1 DEF Distance
<1>2. CASE ~(t + i <= Size)
  <2>1. Slot(t, i) = t + i - 1 - Size
    BY <1>2, SlotValue
  <2>2. QED
    BY <1>2, <2>1 DEF Distance
<1>3. QED
  BY <1>1, <1>2

\* No other position of the stretch is in that slot.
LEMMA SlotAway ==
  ASSUME NEW t \in Index, NEW k \in Index, NEW i \in 1 .. Size, i # Distance(t, k) + 1
  PROVE  Slot(t, i) # k
  BY SlotValue DEF Distance

\* A stretch that starts one slot later has every position one earlier.
LEMMA SlotShift ==
  ASSUME NEW t \in Index, NEW i \in 1 .. Capacity
  PROVE  Slot(Advance(t), i) = Slot(t, i + 1)
<1>1. i + 1 \in 1 .. Size /\ i \in 1 .. Size
  OBVIOUS
<1>2. Advance(t) \in Index /\ Advance(t) = IF t = Capacity THEN 0 ELSE t + 1
  BY AdvanceValue
<1>3. Slot(t, i + 1) = IF t + (i + 1) <= Size THEN t + (i + 1) - 1 ELSE t + (i + 1) - 1 - Size
  BY <1>1, SlotValue
<1>4. Slot(Advance(t), i) = IF Advance(t) + i <= Size THEN Advance(t) + i - 1
                                                        ELSE Advance(t) + i - 1 - Size
  BY <1>1, <1>2, SlotValue
<1>5. QED
  BY <1>2, <1>3, <1>4

\* A stretch that starts one slot earlier has every position one later.
LEMMA SlotShiftBack ==
  ASSUME NEW t \in Index, NEW i \in 1 .. Capacity
  PROVE  Slot(Retreat(t), i + 1) = Slot(t, i)
<1>1. i + 1 \in 1 .. Size /\ i \in 1 .. Size
  OBVIOUS
<1>2. Retreat(t) \in Index /\ Retreat(t) = IF t = 0 THEN Capacity ELSE t - 1
  BY RetreatValue
<1>3. Slot(t, i) = IF t + i <= Size THEN t + i - 1 ELSE t + i - 1 - Size
  BY <1>1, SlotValue
<1>4. Slot(Retreat(t), i + 1) = IF Retreat(t) + (i + 1) <= Size
                                THEN Retreat(t) + (i + 1) - 1
                                ELSE Retreat(t) + (i + 1) - 1 - Size
  BY <1>1, <1>2, SlotValue
<1>5. QED
  BY <1>2, <1>3, <1>4

HIDE DEF Index

\* What a slot and the array hold.
Slots   == Frames \cup {NoFrame}
Arrays  == [Index -> Slots]

\* Array c is array b with snapshot f written to slot k.
Written(b, k, f, c) == c = [b EXCEPT ![k] = f]

\* The snapshots of array b from index t up to index h.
Stretch(b, t, h) == [i \in 1 .. Distance(t, h) |-> b[Slot(t, i)]]

\* A stretch is a sequence as long as the distance of its ends.
LEMMA StretchType ==
  ASSUME NEW b \in Arrays, NEW t \in Index, NEW h \in Index
  PROVE  /\ Stretch(b, t, h) \in Seq(Slots)
         /\ Len(Stretch(b, t, h)) = Distance(t, h)
<1>1. Distance(t, h) \in 0 .. Capacity
  BY DistanceRange
<1>2. \A i \in 1 .. Distance(t, h) : Slot(t, i) \in Index
  BY <1>1, SlotValue
<1>3. QED
  BY <1>1, <1>2 DEF Stretch, Arrays

\* A snapshot written at the end makes the stretch longer by it.
LEMMA StretchAppend ==
  ASSUME NEW b \in Arrays, NEW c \in Arrays,
         NEW t \in Index, NEW h \in Index, NEW f \in Frames,
         Distance(t, h) < Capacity, Written(b, h, f, c)
  PROVE  Stretch(c, t, Advance(h)) = Append(Stretch(b, t, h), f)
<1>1. c[h] = f /\ \A j \in Index : j # h => c[j] = b[j]
  BY DEF Written, Arrays
<1>2. f \in Slots
  BY DEF Slots
<1>3. PICK s : s = Stretch(b, t, h)
  OBVIOUS
<1>4. PICK u : u = Stretch(c, t, Advance(h))
  OBVIOUS
<1>5. PICK n \in 0 .. Capacity : n = Distance(t, h)
  BY DistanceRange
<1>6. Advance(h) \in Index /\ Distance(t, Advance(h)) = n + 1 /\ n < Capacity
  BY <1>5, AdvanceValue, DistanceAdvanceTo
<1>7. s \in Seq(Slots) /\ Len(s) = n /\ \A i \in 1 .. n : s[i] = b[Slot(t, i)]
  <2>1. s \in Seq(Slots) /\ Len(s) = n
    BY <1>3, <1>5, StretchType
  <2>2. \A i \in 1 .. n : s[i] = b[Slot(t, i)]
    BY <1>3, <1>5 DEF Stretch
  <2>3. QED
    BY <2>1, <2>2
<1>8. u \in Seq(Slots) /\ Len(u) = n + 1 /\ \A i \in 1 .. n + 1 : u[i] = c[Slot(t, i)]
  <2>1. u \in Seq(Slots) /\ Len(u) = n + 1
    BY <1>4, <1>6, StretchType
  <2>2. \A i \in 1 .. n + 1 : u[i] = c[Slot(t, i)]
    BY <1>4, <1>6 DEF Stretch
  <2>3. QED
    BY <2>1, <2>2
<1>9. /\ Append(s, f) \in Seq(Slots) /\ Len(Append(s, f)) = n + 1
      /\ \A i \in 1 .. n : Append(s, f)[i] = s[i]
      /\ Append(s, f)[n + 1] = f
  BY <1>7, <1>2, AppendProperties
<1>10. ASSUME NEW i \in 1 .. n + 1
      PROVE  u[i] = Append(s, f)[i]
  <2>1. i \in 1 .. Size
    BY <1>6
  <2>2. CASE i = n + 1
    <3>1. Slot(t, i) = h
      BY <1>5, <2>2, SlotDistance
    <3>2. QED
      BY <1>1, <1>8, <1>9, <2>2, <3>1
  <2>3. CASE i # n + 1
    <3>1. Slot(t, i) # h /\ Slot(t, i) \in Index
      BY <1>5, <2>1, <2>3, SlotAway, SlotValue
    <3>2. i \in 1 .. n
      BY <2>3
    <3>3. QED
      BY <1>1, <1>7, <1>8, <1>9, <3>1, <3>2
  <2>4. QED
    BY <2>2, <2>3
<1>11. u = Append(s, f)
  BY <1>8, <1>9, <1>10, SeqEqual
<1>12. QED
  BY <1>3, <1>4, <1>11

\* Advancing the start drops the first snapshot.
LEMMA StretchTail ==
  ASSUME NEW b \in Arrays, NEW t \in Index, NEW h \in Index, Distance(t, h) > 0
  PROVE  Stretch(b, Advance(t), h) = Tail(Stretch(b, t, h))
<1>1. PICK s : s = Stretch(b, t, h)
  OBVIOUS
<1>2. PICK u : u = Stretch(b, Advance(t), h)
  OBVIOUS
<1>3. PICK n \in 0 .. Capacity : n = Distance(t, h)
  BY DistanceRange
<1>4. n # 0 /\ t # h
  BY <1>3 DEF Distance, Index
<1>5. Advance(t) \in Index /\ Distance(Advance(t), h) = n - 1
  BY <1>3, <1>4, AdvanceValue, DistanceAdvanceFrom
<1>6. s \in Seq(Slots) /\ Len(s) = n /\ \A i \in 1 .. n : s[i] = b[Slot(t, i)]
  <2>1. s \in Seq(Slots) /\ Len(s) = n
    BY <1>1, <1>3, StretchType
  <2>2. \A i \in 1 .. n : s[i] = b[Slot(t, i)]
    BY <1>1, <1>3 DEF Stretch
  <2>3. QED
    BY <2>1, <2>2
<1>7. /\ u \in Seq(Slots) /\ Len(u) = n - 1
      /\ \A i \in 1 .. n - 1 : u[i] = b[Slot(Advance(t), i)]
  <2>1. u \in Seq(Slots) /\ Len(u) = n - 1
    BY <1>2, <1>5, StretchType
  <2>2. \A i \in 1 .. n - 1 : u[i] = b[Slot(Advance(t), i)]
    BY <1>2, <1>5 DEF Stretch
  <2>3. QED
    BY <2>1, <2>2
<1>8. s # << >>
  BY <1>6, <1>4
<1>9. /\ Tail(s) \in Seq(Slots) /\ Len(Tail(s)) = n - 1
      /\ \A i \in 1 .. n - 1 : Tail(s)[i] = s[i + 1]
  BY <1>6, <1>8, HeadTailProperties
<1>10. ASSUME NEW i \in 1 .. n - 1
      PROVE  u[i] = Tail(s)[i]
  <2>1. i \in 1 .. Capacity /\ i + 1 \in 1 .. n
    OBVIOUS
  <2>2. Slot(Advance(t), i) = Slot(t, i + 1)
    BY <2>1, SlotShift
  <2>3. QED
    BY <1>6, <1>7, <1>9, <2>1, <2>2
<1>11. u = Tail(s)
  BY <1>7, <1>9, <1>10, SeqEqual
<1>12. QED
  BY <1>1, <1>2, <1>11

\* Retreating the end drops the last snapshot.
LEMMA StretchFront ==
  ASSUME NEW b \in Arrays, NEW t \in Index, NEW h \in Index, Distance(t, h) > 0
  PROVE  Stretch(b, t, Retreat(h)) = SubSeq(Stretch(b, t, h), 1, Distance(t, h) - 1)
<1>1. PICK s : s = Stretch(b, t, h)
  OBVIOUS
<1>2. PICK k \in Index : k = Retreat(h)
  BY RetreatValue
<1>3. PICK u : u = Stretch(b, t, k)
  OBVIOUS
<1>4. PICK n \in 0 .. Capacity : n = Distance(t, h)
  BY DistanceRange
<1>5. n # 0 /\ t # h
  BY <1>4 DEF Distance, Index
<1>6. PICK m \in 0 .. Capacity : m = Distance(t, k)
  BY DistanceRange
<1>7. m = n - 1
  BY <1>4, <1>6, <1>5, <1>2, DistanceRetreatTo
<1>8. s \in Seq(Slots) /\ Len(s) = n /\ \A i \in 1 .. n : s[i] = b[Slot(t, i)]
  <2>1. s \in Seq(Slots) /\ Len(s) = n
    BY <1>1, <1>4, StretchType
  <2>2. \A i \in 1 .. n : s[i] = b[Slot(t, i)]
    BY <1>1, <1>4 DEF Stretch
  <2>3. QED
    BY <2>1, <2>2
<1>9. u \in Seq(Slots) /\ Len(u) = n - 1 /\ \A i \in 1 .. n - 1 : u[i] = b[Slot(t, i)]
  <2>1. u \in Seq(Slots) /\ Len(u) = m
    BY <1>3, <1>6, StretchType
  <2>2. \A i \in 1 .. m : u[i] = b[Slot(t, i)]
    BY <1>3, <1>6 DEF Stretch
  <2>3. QED
    BY <1>7, <2>1, <2>2
<1>10. /\ SubSeq(s, 1, n - 1) \in Seq(Slots)
      /\ Len(SubSeq(s, 1, n - 1)) = n - 1
      /\ \A i \in 1 .. n - 1 : SubSeq(s, 1, n - 1)[i] = s[i]
  <2>1. 1 \in Int /\ n - 1 \in Int /\ \A i \in 1 .. n - 1 : s[i] \in Slots
    BY <1>8, ElementOfSeq
  <2>2. \A i \in 1 .. n - 1 : s[1 + i - 1] = s[i]
    OBVIOUS
  <2>3. /\ SubSeq(s, 1, n - 1) \in Seq(Slots)
        /\ Len(SubSeq(s, 1, n - 1)) = IF 1 <= n - 1 THEN n - 1 - 1 + 1 ELSE 0
        /\ \A i \in 1 .. n - 1 - 1 + 1 : SubSeq(s, 1, n - 1)[i] = s[1 + i - 1]
    BY <2>1, SubSeqProperties
  <2>4. QED
    BY <2>2, <2>3, <1>5
<1>11. \A i \in 1 .. n - 1 : u[i] = SubSeq(s, 1, n - 1)[i]
  BY <1>8, <1>9, <1>10
<1>12. u = SubSeq(s, 1, n - 1)
  BY <1>9, <1>10, <1>11, SeqEqual
<1>13. QED
  BY <1>1, <1>3, <1>4, <1>12, <1>2

\* A snapshot written in front of the start makes the stretch longer by it.
LEMMA StretchCons ==
  ASSUME NEW b \in Arrays, NEW c \in Arrays,
         NEW t \in Index, NEW h \in Index, NEW f \in Frames,
         Distance(t, h) < Capacity,
         Written(b, Retreat(t), f, c)
  PROVE  Stretch(c, Retreat(t), h) = <<f>> \o Stretch(b, t, h)
<1>1. PICK k \in Index : k = Retreat(t)
  BY RetreatValue
<1>2. c[k] = f /\ \A j \in Index : j # k => c[j] = b[j]
  BY <1>1 DEF Written, Arrays
<1>3. f \in Slots
  BY DEF Slots
<1>4. PICK s : s = Stretch(b, t, h)
  OBVIOUS
<1>5. PICK u : u = Stretch(c, k, h)
  OBVIOUS
<1>6. PICK n \in 0 .. Capacity : n = Distance(t, h)
  BY DistanceRange
<1>7. Distance(k, h) = n + 1 /\ n < Capacity
  BY <1>1, <1>6, DistanceRetreatFrom
<1>8. s \in Seq(Slots) /\ Len(s) = n /\ \A i \in 1 .. n : s[i] = b[Slot(t, i)]
  <2>1. s \in Seq(Slots) /\ Len(s) = n
    BY <1>4, <1>6, StretchType
  <2>2. \A i \in 1 .. n : s[i] = b[Slot(t, i)]
    BY <1>4, <1>6 DEF Stretch
  <2>3. QED
    BY <2>1, <2>2
<1>9. u \in Seq(Slots) /\ Len(u) = n + 1 /\ \A i \in 1 .. n + 1 : u[i] = c[Slot(k, i)]
  <2>1. u \in Seq(Slots) /\ Len(u) = n + 1
    BY <1>5, <1>7, StretchType
  <2>2. \A i \in 1 .. n + 1 : u[i] = c[Slot(k, i)]
    BY <1>5, <1>7 DEF Stretch
  <2>3. QED
    BY <2>1, <2>2
<1>10. /\ <<f>> \o s \in Seq(Slots) /\ Len(<<f>> \o s) = n + 1
      /\ (<<f>> \o s)[1] = f
      /\ \A i \in 1 .. n : (<<f>> \o s)[i + 1] = s[i]
  <2>1. PICK one \in Seq(Slots) : one = <<f>> /\ Len(one) = 1 /\ one[1] = f
    <3>1. <<f>> \in Seq(Slots) /\ Len(<<f>>) = 1 /\ <<f>>[1] = f
      BY <1>3
    <3>2. QED
      BY <3>1
  <2>2. /\ one \o s \in Seq(Slots) /\ Len(one \o s) = 1 + n
        /\ \A i \in 1 .. 1 + n : (one \o s)[i] = IF i <= 1 THEN one[i] ELSE s[i - 1]
    BY <1>8, <2>1, ConcatProperties
  <2>3. \A i \in 1 .. n : i + 1 \in 1 .. 1 + n /\ ~(i + 1 <= 1) /\ (i + 1) - 1 = i
    OBVIOUS
  <2>4. \A i \in 1 .. n : (one \o s)[i + 1] = s[i]
    BY <2>2, <2>3
  <2>5. (one \o s)[1] = f
    BY <2>1, <2>2
  <2>6. QED
    BY <2>1, <2>2, <2>4, <2>5
<1>11. Slot(k, 1) = k
  BY SlotValue DEF Index
<1>12. ASSUME NEW i \in 1 .. n
       PROVE  Slot(k, i + 1) = Slot(t, i) /\ Slot(t, i) # k /\ Slot(t, i) \in Index
  <2>1. i \in 1 .. Capacity /\ i \in 1 .. Size
    OBVIOUS
  <2>2. Slot(k, i + 1) = Slot(t, i)
    BY <1>1, <2>1, SlotShiftBack
  <2>3. Distance(t, k) = Capacity
    BY <1>1, DistanceRetreatTo, DistanceRange
  <2>4. i # Distance(t, k) + 1
    BY <1>7, <2>3
  <2>5. QED
    BY <2>1, <2>2, <2>4, SlotAway, SlotValue
<1>13. ASSUME NEW i \in 1 .. n + 1
       PROVE  u[i] = (<<f>> \o s)[i]
  <2>1. CASE i = 1
    BY <1>2, <1>9, <1>10, <1>11, <2>1
  <2>2. CASE i # 1
    <3>1. PICK j \in 1 .. n : i = j + 1
      <4>1. i - 1 \in 1 .. n /\ i = (i - 1) + 1
        BY <2>2
      <4>2. QED
        BY <4>1
    <3>2. u[i] = c[Slot(t, j)]
      BY <1>9, <1>12, <3>1
    <3>3. c[Slot(t, j)] = s[j]
      BY <1>2, <1>8, <1>12
    <3>4. QED
      BY <1>10, <3>1, <3>2, <3>3
  <2>3. QED
    BY <2>1, <2>2
<1>14. u = <<f>> \o s
  BY <1>9, <1>10, <1>13, SeqEqual
<1>15. QED
  BY <1>1, <1>4, <1>5, <1>14

-----------------------------------------------------------------------------
(* The ring implements the frame window: each operation on the three       *)
(* indices is the operation on the sequence between tail and head.         *)

\* The window is the stretch from tail to head, before and after a step.
LEMMA WindowValue ==
  /\ Window = Stretch(buffer, tail, head)
  /\ Window' = Stretch(buffer', tail', head')
  BY DEF Window, Stretch, Slot

\* The two ways of being full, and of having nothing left to read, agree.
LEMMA WindowMeans ==
  ASSUME IndexInv
  PROVE  /\ Window \in Seq(Slots)
         /\ Len(Window) = Distance(tail, head)
         /\ Abstract!Full <=> IsFull
         /\ Abstract!CaughtUp <=> HasReaderCaughtUp
<1>1. /\ tail \in Index /\ read \in Index /\ head \in Index
      /\ buffer \in Arrays
  BY DEF IndexInv, RingTypeOK, Arrays, Slots
<1>2. Window \in Seq(Slots) /\ Len(Window) = Distance(tail, head)
  BY <1>1, WindowValue, StretchType
<1>3. Abstract!Full <=> IsFull
  BY <1>1, <1>2, FullMeansCapacity DEF Abstract!Full
<1>4. Distance(tail, read) = Distance(tail, head) <=> read = head
  BY <1>1, DistanceInjective
<1>5. QED
  BY <1>2, <1>3, <1>4 DEF Abstract!CaughtUp, HasReaderCaughtUp

\* pushHead() appends to the window.
LEMMA PushHeadImplements ==
  ASSUME IndexInv, NEW f \in Frames, PushHead(f)
  PROVE  Abstract!PushHead(f)
<1>1. /\ tail \in Index /\ read \in Index /\ head \in Index
      /\ buffer \in Arrays
  BY DEF IndexInv, RingTypeOK, Arrays, Slots
<1>2. /\ ~IsFull /\ ~isShuttingDown
      /\ buffer' = [buffer EXCEPT ![head] = f] /\ head' = Advance(head)
      /\ tail' = tail /\ read' = read /\ isShuttingDown' = isShuttingDown
  BY DEF PushHead
<1>3. Distance(tail, head) < Capacity
  BY <1>1, <1>2, FullMeansCapacity, DistanceRange
<1>4. Stretch(buffer', tail, Advance(head))
        = Append(Stretch(buffer, tail, head), f)
  <2>1. buffer' \in Arrays /\ Written(buffer, head, f, buffer')
    BY <1>1, <1>2 DEF Arrays, Slots, Written
  <2>2. QED
    BY <1>1, <1>3, <2>1, StretchAppend
<1>5. Window' = Append(Window, f)
  BY <1>2, <1>4, WindowValue
<1>6. QED
  BY <1>2, <1>5, WindowMeans DEF Abstract!PushHead

\* pushTail() puts a snapshot in front, for the newest one when full.
LEMMA PushTailImplements ==
  ASSUME IndexInv, NEW f \in Frames, PushTail(f)
  PROVE  Abstract!PushTail(f)
<1>1. /\ tail \in Index /\ read \in Index /\ head \in Index
      /\ buffer \in Arrays
  BY DEF IndexInv, RingTypeOK, Arrays, Slots
<1>2. /\ IsFull => ~HasReaderCaughtUp
      /\ buffer' = [buffer EXCEPT ![Retreat(tail)] = f]
      /\ tail' = Retreat(tail)
      /\ head' = IF IsFull THEN Retreat(head) ELSE head
      /\ isShuttingDown' = isShuttingDown
  BY DEF PushTail
<1>3. buffer' \in Arrays /\ Written(buffer, Retreat(tail), f, buffer')
  BY <1>1, <1>2, RetreatValue DEF Arrays, Slots, Written
<1>4. PICK w \in Seq(Slots) : w = Window /\ Len(w) = Distance(tail, head)
  BY WindowMeans
<1>5. PICK front : front = SubSeq(w, 1, IF IsFull THEN Len(w) - 1 ELSE Len(w))
  OBVIOUS
<1>6. Window' = <<f>> \o front
  <2>1. CASE IsFull
    <3>1. Distance(tail, head) = Capacity
      BY <1>1, <2>1, FullMeansCapacity
    <3>2. PICK h \in Index : h = Retreat(head)
      BY <1>1, RetreatValue
    <3>3. Distance(tail, h) < Capacity
      <4>1. tail # head
        BY <1>1, <3>1, DistanceRange
      <4>2. Distance(tail, Retreat(head)) = Distance(tail, head) - 1
        BY <1>1, <4>1, DistanceRetreatTo
      <4>3. QED
        BY <3>1, <3>2, <4>2
    <3>4. front = Stretch(buffer, tail, h)
      <4>1. Stretch(buffer, tail, Retreat(head))
              = SubSeq(Stretch(buffer, tail, head), 1, Distance(tail, head) - 1)
        BY <1>1, <3>1, StretchFront
      <4>2. QED
        BY <1>4, <1>5, <2>1, <3>2, <4>1, WindowValue
    <3>5. Stretch(buffer', Retreat(tail), h) = <<f>> \o Stretch(buffer, tail, h)
      BY <1>1, <1>3, <3>3, StretchCons
    <3>6. QED
      BY <1>2, <2>1, <3>2, <3>4, <3>5, WindowValue
  <2>2. CASE ~IsFull
    <3>1. Distance(tail, head) < Capacity
      BY <1>1, <2>2, FullMeansCapacity, DistanceRange
    <3>2. front = w
      BY <1>4, <1>5, <2>2, SubSeqFull
    <3>3. Stretch(buffer', Retreat(tail), head) = <<f>> \o Stretch(buffer, tail, head)
      BY <1>1, <1>3, <3>1, StretchCons
    <3>4. QED
      BY <1>2, <1>4, <2>2, <3>2, <3>3, WindowValue
  <2>3. QED
    BY <2>1, <2>2
<1>7. Distance(tail, read)' = IF Distance(tail, read) < RetainCount
                              THEN Distance(tail, read) + 1
                              ELSE Distance(tail, read)
  <2>1. Distance(tail, read) \in 0 .. RetainCount
    <3>1. Distance(tail, read) \in 0 .. Capacity
      BY <1>1, DistanceRange
    <3>2. QED
      BY <3>1 DEF IndexInv, RetainBounded
  <2>2. Distance(tail', read') =
          IF Distance(tail, read) = RetainCount THEN RetainCount ELSE Distance(tail, read) + 1
    BY PushTailMoves
  <2>3. QED
    BY <2>1, <2>2
<1>8. QED
  BY <1>2, <1>4, <1>5, <1>6, <1>7, WindowMeans DEF Abstract!PushTail

\* readForward() passes a snapshot, for the oldest one at the bound.
LEMMA ReadForwardImplements ==
  ASSUME IndexInv, ReadForward
  PROVE  Abstract!ReadForward
<1>1. /\ tail \in Index /\ read \in Index /\ head \in Index
      /\ buffer \in Arrays
  BY DEF IndexInv, RingTypeOK, Arrays, Slots
<1>2. ~HasReaderCaughtUp /\ buffer' = buffer /\ isShuttingDown' = isShuttingDown
  BY DEF ReadForward
<1>3. Distance(tail, read) \in 0 .. RetainCount /\ Distance(tail, head) \in 0 .. Capacity
  <2>1. Distance(tail, read) \in 0 .. Capacity /\ Distance(tail, head) \in 0 .. Capacity
    BY <1>1, DistanceRange
  <2>2. QED
    BY <2>1 DEF IndexInv, RetainBounded
<1>4. CASE Distance(tail, read) = RetainCount
  <2>1. tail' = Advance(tail) /\ head' = head /\ Distance(tail', read') = RetainCount
    BY <1>4, ReadForwardMoves
  <2>2. Distance(tail, head) > 0
    BY <1>3, ReadForwardMoves
  <2>3. Stretch(buffer, Advance(tail), head) = Tail(Stretch(buffer, tail, head))
    BY <1>1, <2>2, StretchTail
  <2>4. Window' = Tail(Window)
    BY <1>2, <2>1, <2>3, WindowValue
  <2>5. ~(Distance(tail, read) < RetainCount) /\ Distance(tail, read)' = Distance(tail, read)
    BY <1>3, <1>4, <2>1
  <2>6. QED
    BY <1>2, <2>4, <2>5, WindowMeans DEF Abstract!ReadForward
<1>5. CASE Distance(tail, read) # RetainCount
  <2>1. tail' = tail /\ head' = head
    BY <1>5, ReadForwardMoves
  <2>2. Distance(tail', read') = Distance(tail, read) + 1
    BY <1>5, ReadForwardMoves
  <2>3. Window' = Window
    BY <1>2, <2>1, WindowValue
  <2>4. Distance(tail, read) < RetainCount
    BY <1>3, <1>5
  <2>5. QED
    BY <1>2, <2>2, <2>3, <2>4, WindowMeans DEF Abstract!ReadForward
<1>6. QED
  BY <1>4, <1>5

\* readBackward() takes a snapshot back.
LEMMA ReadBackwardImplements ==
  ASSUME IndexInv, ReadBackward
  PROVE  Abstract!ReadBackward
<1>1. tail \in Index /\ read \in Index
  BY DEF IndexInv, RingTypeOK
<1>2. /\ tail' = tail /\ read' = Retreat(read) /\ head' = head /\ buffer' = buffer
      /\ isShuttingDown' = isShuttingDown
  BY DEF ReadBackward
<1>3. Distance(tail, read) >= 1 /\ tail # read
  BY <1>1, DistanceRange DEF ReadBackward, CanReadBackward
<1>4. Distance(tail, Retreat(read)) = Distance(tail, read) - 1
  BY <1>1, <1>3, DistanceRetreatTo
<1>5. Window' = Window
  BY <1>2, WindowValue
<1>6. Distance(tail, read)' = Distance(tail, read) - 1
  BY <1>2, <1>4
<1>7. QED
  BY <1>1, <1>2, <1>3, <1>5, <1>6, DistanceRange DEF Abstract!ReadBackward

\* clear() empties the window.
LEMMA ClearImplements ==
  ASSUME Clear
  PROVE  Abstract!Clear
<1>1. tail' = 0 /\ read' = 0 /\ head' = 0 /\ isShuttingDown' = isShuttingDown
  BY DEF Clear
<1>2. Distance(tail', head') = 0 /\ Distance(tail', read') = 0
  BY <1>1 DEF Distance
<1>3. Window' = << >>
  BY <1>2, WindowValue DEF Stretch
<1>4. QED
  BY <1>1, <1>2, <1>3 DEF Abstract!Clear

\* Every step of the ring is a step of the window or leaves it alone.
LEMMA RingStepImplements ==
  ASSUME IndexInv, [RingNext]_ringVars
  PROVE  [Abstract!Next]_(Abstract!windowVars)
<1>1. ASSUME NEW f \in Frames, PushHead(f)
      PROVE  Abstract!Next
  BY <1>1, PushHeadImplements DEF Abstract!Next
<1>2. ASSUME NEW f \in Frames, PushTail(f)
      PROVE  Abstract!Next
  BY <1>2, PushTailImplements DEF Abstract!Next
<1>3. CASE ReadForward
  BY <1>3, ReadForwardImplements DEF Abstract!Next
<1>4. CASE ReadBackward
  BY <1>4, ReadBackwardImplements DEF Abstract!Next
<1>5. CASE Clear
  BY <1>5, ClearImplements DEF Abstract!Next
<1>6. CASE Shutdown
  <2>1. Abstract!Shutdown
    BY <1>6, WindowValue DEF Shutdown, Abstract!Shutdown
  <2>2. QED
    BY <2>1 DEF Abstract!Next
<1>7. CASE UNCHANGED ringVars
  BY <1>7, WindowValue DEF ringVars, Abstract!windowVars
<1>8. QED
  BY <1>1, <1>2, <1>3, <1>4, <1>5, <1>6, <1>7 DEF RingNext

\* Every run of the ring is a run of the frame window: a bounded sequence of
\* snapshots that grows at both ends and is cut by the reader.
THEOREM RingImplementsWindow == RingSpec => ImplementsWindow
<1>1. RingInit => Abstract!Init
  <2> SUFFICES ASSUME RingInit
               PROVE  Abstract!Init
    OBVIOUS
  <2>1. tail = 0 /\ read = 0 /\ head = 0 /\ isShuttingDown = FALSE
    BY DEF RingInit
  <2>2. Distance(tail, head) = 0 /\ Distance(tail, read) = 0
    BY <2>1 DEF Distance
  <2>3. Window = << >>
    BY <2>2, WindowValue DEF Stretch
  <2>4. QED
    BY <2>1, <2>2, <2>3 DEF Abstract!Init
<1>2. IndexInv /\ [RingNext]_ringVars => [Abstract!Next]_(Abstract!windowVars)
  BY RingStepImplements
<1>3. QED
  BY <1>1, <1>2, IndexInvInit, IndexInvStep, PTL
     DEF RingSpec, ImplementsWindow, Abstract!Spec
-----------------------------------------------------------------------------
(* What a reader of the ring sees, in terms of the window.                 *)

\* A ring without empty slots is a window of snapshots.
LEMMA WindowOfFrames ==
  ASSUME IndexInv, WindowFilled
  PROVE  Window \in Seq(Frames)
<1>1. tail \in Index /\ head \in Index /\ buffer \in [Index -> Frames \cup {NoFrame}]
  BY DEF IndexInv, RingTypeOK
<1>2. PICK n \in 0 .. Capacity : n = Distance(tail, head)
  BY <1>1, DistanceRange
<1>3. ASSUME NEW i \in 1 .. n
      PROVE  buffer[Slot(tail, i)] \in Frames
  <2>1. i \in 1 .. Size
    OBVIOUS
  <2>2. Slot(tail, i) \in Index
    BY <1>1, <2>1, SlotValue
  <2>3. Distance(tail, Slot(tail, i)) = i - 1
    BY <1>1, <2>1, DistanceSlot
  <2>4. Distance(tail, Slot(tail, i)) < Distance(tail, head)
    BY <1>2, <2>3
  <2>5. buffer[Slot(tail, i)] # NoFrame
    BY <2>2, <2>4 DEF WindowFilled
  <2>6. QED
    BY <1>1, <2>2, <2>5
<1>4. [i \in 1 .. n |-> buffer[Slot(tail, i)]] \in Seq(Frames)
  BY <1>3
<1>5. QED
  BY <1>2, <1>4, WindowValue DEF Stretch

\* readForward() returns the first snapshot ahead of the reader.
LEMMA ReadForwardValue ==
  ASSUME IndexInv, ~HasReaderCaughtUp
  PROVE  /\ Distance(tail, read) + 1 \in 1 .. Distance(tail, head)
         /\ ReadForwardResult = Window[Distance(tail, read) + 1]
<1>1. tail \in Index /\ read \in Index /\ head \in Index
  BY DEF IndexInv, RingTypeOK
<1>2. Distance(tail, read) \in 0 .. Capacity /\ Distance(tail, head) \in 0 .. Capacity
  BY <1>1, DistanceRange
<1>3. Distance(tail, read) # Distance(tail, head)
  BY <1>1, DistanceInjective DEF HasReaderCaughtUp
<1>4. Distance(tail, read) + 1 \in 1 .. Distance(tail, head)
  BY <1>2, <1>3 DEF IndexInv, ReaderInWindow
<1>5. Window[Distance(tail, read) + 1] = buffer[Slot(tail, Distance(tail, read) + 1)]
  BY <1>4, WindowValue DEF Stretch
<1>6. QED
  BY <1>1, <1>4, <1>5, SlotDistance DEF ReadForwardResult

\* headTime() is the time of the last snapshot of the window.
LEMMA HeadFrameValue ==
  ASSUME IndexInv, Window # << >>
  PROVE  HeadFrame = Window[Len(Window)]
<1>1. tail \in Index /\ head \in Index /\ Retreat(head) \in Index
  BY RetreatValue DEF IndexInv, RingTypeOK
<1>2. Window \in Seq(Slots) /\ Len(Window) = Distance(tail, head)
  BY WindowMeans
<1>3. Distance(tail, head) \in 1 .. Capacity
  <2>1. Distance(tail, head) \in 0 .. Capacity
    BY <1>1, DistanceRange
  <2>2. Distance(tail, head) # 0
    BY <1>2
  <2>3. QED
    BY <2>1, <2>2
<1>4. tail # head
  BY <1>1, <1>3, DistanceRange
<1>5. Distance(tail, Retreat(head)) + 1 = Distance(tail, head)
  BY <1>1, <1>3, <1>4, DistanceRetreatTo
<1>6. Slot(tail, Distance(tail, head)) = Retreat(head)
  BY <1>1, <1>5, SlotDistance
<1>7. Window[Distance(tail, head)] = buffer[Slot(tail, Distance(tail, head))]
  BY <1>3, WindowValue DEF Stretch
<1>8. QED
  BY <1>2, <1>4, <1>6, <1>7 DEF HeadFrame, IsEmpty
=============================================================================
