------------------------- MODULE BlockingQueueProofs -------------------------
(***************************************************************************)
(* Proofs about BlockingQueue for every set of threads, items and every    *)
(* capacity.                                                               *)
(***************************************************************************)
EXTENDS BlockingQueue, FiniteSetTheorems, TLAPS

-----------------------------------------------------------------------------
(* What notify_one does to the thread states.                              *)

\* Only the thread that acts changes its state.
LEMMA BecomeEffect ==
  ASSUME QueueTypeOK, NEW t \in Threads, NEW s, Become(t, s)
  PROVE  \A u \in Threads : status'[u] = IF u = t THEN s ELSE status[u]
  BY DEF Become, QueueTypeOK

\* notify_one leaves the notifying thread idle, wakes at most one waiter of
\* the group and touches nobody else.
LEMMA NotifyOneEffect ==
  ASSUME QueueTypeOK, NEW t \in Threads, NEW group \in SUBSET Threads,
         status[t] = "notifying", NotifyOne(t, group)
  PROVE  /\ status' \in [Threads -> Status]
         /\ \A u \in Threads :
              (status'[u] \in {"checking", "waiting"}) <=> (status[u] \in {"checking", "waiting"})
<1>1. CASE At(group, "waiting") = {}
  BY <1>1 DEF NotifyOne, Become, QueueTypeOK, Status
<1>2. CASE At(group, "waiting") # {}
  <2>1. PICK w \in At(group, "waiting") :
          status' = [status EXCEPT ![t] = "idle", ![w] = "checking"]
    BY <1>2 DEF NotifyOne
  <2>2. w \in Threads /\ status[w] = "waiting" /\ w # t
    BY <2>1 DEF At
  <2>3. QED
    BY <2>1, <2>2 DEF QueueTypeOK, Status
<1>3. QED
  BY <1>1, <1>2

-----------------------------------------------------------------------------
LEMMA TypeInit == Init => QueueTypeOK
<1> SUFFICES ASSUME Init PROVE QueueTypeOK
  OBVIOUS
<1> USE QueueAssumption DEF Init
<1>1. buffer \in Seq(Items) /\ Len(buffer) <= MaxSize
  OBVIOUS
<1>2. status \in [Threads -> Status]
  BY DEF Status
<1>3. item \in [Producers -> Items \cup {NoItem}] /\ result \in [Consumers -> Items \cup {NoItem}]
  OBVIOUS
<1>4. \A p \in Producers : item[p] = NoItem /\ status[p] = "idle"
  BY DEF Threads
<1>5. QED
  BY <1>1, <1>2, <1>3, <1>4 DEF QueueTypeOK

LEMMA TypeStep == QueueTypeOK /\ [Next]_queueVars => QueueTypeOK'
<1> SUFFICES ASSUME QueueTypeOK, [Next]_queueVars PROVE QueueTypeOK'
  OBVIOUS
<1> USE QueueAssumption DEF QueueTypeOK
<1>1. ASSUME NEW p \in Producers, NEW i \in Items, CallPush(p, i)
      PROVE  QueueTypeOK'
  BY <1>1 DEF CallPush, Become, Threads, Status
<1>2. ASSUME NEW p \in Producers, Push(p)
      PROVE  QueueTypeOK'
  <2>1. item[p] \in Items
    BY <1>2 DEF Push
  <2>2. buffer' \in Seq(Items) /\ Len(buffer') <= MaxSize
    BY <1>2, <2>1 DEF Push
  <2>3. QED
    BY <1>2, <2>2 DEF Push, Become, Threads, Status
<1>3. ASSUME NEW p \in Producers, WaitWhileFull(p)
      PROVE  QueueTypeOK'
  BY <1>3 DEF WaitWhileFull, Wait, Become, Threads, Status
<1>4. ASSUME NEW p \in Producers, NotifyEmpty(p)
      PROVE  QueueTypeOK'
  <2>1. p \in Threads /\ Consumers \in SUBSET Threads
    BY DEF Threads
  <2>2. status[p] = "notifying" /\ NotifyOne(p, Consumers) /\ UNCHANGED <<buffer, item, result>>
    BY <1>4 DEF NotifyEmpty
  <2>3. /\ status' \in [Threads -> Status]
        /\ \A u \in Threads :
             (status'[u] \in {"checking", "waiting"}) <=> (status[u] \in {"checking", "waiting"})
    BY <2>1, <2>2, NotifyOneEffect
  <2>4. QED
    BY <2>2, <2>3 DEF Threads
<1>5. ASSUME NEW c \in Consumers, CallPop(c)
      PROVE  QueueTypeOK'
  BY <1>5 DEF CallPop, Become, Threads, Status
<1>6. ASSUME NEW c \in Consumers, Pop(c)
      PROVE  QueueTypeOK'
  <2>1. Head(buffer) \in Items /\ Tail(buffer) \in Seq(Items) /\ Len(Tail(buffer)) <= MaxSize
    BY <1>6 DEF Pop
  <2>2. QED
    BY <1>6, <2>1 DEF Pop, Become, Threads, Status
<1>7. ASSUME NEW c \in Consumers, WaitWhileEmpty(c)
      PROVE  QueueTypeOK'
  BY <1>7 DEF WaitWhileEmpty, Wait, Become, Threads, Status
<1>8. ASSUME NEW c \in Consumers, NotifyFull(c)
      PROVE  QueueTypeOK'
  <2>1. c \in Threads /\ Producers \in SUBSET Threads
    BY DEF Threads
  <2>2. status[c] = "notifying" /\ NotifyOne(c, Producers) /\ UNCHANGED <<buffer, item, result>>
    BY <1>8 DEF NotifyFull
  <2>3. /\ status' \in [Threads -> Status]
        /\ \A u \in Threads :
             (status'[u] \in {"checking", "waiting"}) <=> (status[u] \in {"checking", "waiting"})
    BY <2>1, <2>2, NotifyOneEffect
  <2>4. QED
    BY <2>2, <2>3 DEF Threads
<1>9. ASSUME NEW t \in Threads, SpuriousWakeup(t)
      PROVE  QueueTypeOK'
  BY <1>9 DEF SpuriousWakeup, Become, Threads, Status
<1>10. CASE UNCHANGED queueVars
  BY <1>10 DEF queueVars
<1>11. QED
  BY <1>1, <1>2, <1>3, <1>4, <1>5, <1>6, <1>7, <1>8, <1>9, <1>10 DEF Next, PushStep, PopStep

\* The queue never holds more than MaxSize items, and a producer has an item
\* in hand exactly while its push is still to happen.
THEOREM QueueTypeCorrect == SafeSpec => []QueueTypeOK
  BY TypeInit, TypeStep, PTL DEF SafeSpec
-----------------------------------------------------------------------------
(* Every step of the queue is a step of the bounded FIFO or changes        *)
(* nothing in it: a push is an Enter, a pop a Take, a call an Offer or an  *)
(* Ask, and waiting, waking and notifying are invisible.                   *)

\* A consumer inside popBlocking that has not got its item yet.
Asking == {c \in Consumers : status[c] \in {"checking", "waiting"}}

LEMMA FifoStep ==
  QueueTypeOK /\ [Next]_queueVars => [Fifo!Next]_(Fifo!fifoVars)
<1> SUFFICES ASSUME QueueTypeOK, [Next]_queueVars PROVE [Fifo!Next]_(Fifo!fifoVars)
  OBVIOUS
<1> USE QueueAssumption DEF Fifo!fifoVars
<1>0. \A c \in Consumers, p \in Producers : c # p /\ c \in Threads /\ p \in Threads
  BY DEF Threads
<1>1. ASSUME NEW p \in Producers, NEW i \in Items, CallPush(p, i)
      PROVE  Fifo!Offer(p, i)
  <2>1. Asking' = Asking
    BY <1>0, <1>1 DEF CallPush, Become, Asking, QueueTypeOK
  <2>2. item[p] = NoItem
    BY <1>1 DEF CallPush, QueueTypeOK
  <2>3. QED
    BY <1>1, <2>1, <2>2 DEF CallPush, Fifo!Offer, Asking
<1>2. ASSUME NEW p \in Producers, Push(p)
      PROVE  Fifo!Enter(p)
  <2>1. Asking' = Asking
    BY <1>0, <1>2 DEF Push, Become, Asking, QueueTypeOK
  <2>2. item[p] # NoItem
    BY <1>2 DEF Push, QueueTypeOK
  <2>3. QED
    BY <1>2, <2>1, <2>2 DEF Push, Fifo!Enter, Asking
<1>3. ASSUME NEW t \in Threads, Wait(t), status[t] = "checking"
      PROVE  UNCHANGED Fifo!fifoVars
  <2>1. Asking' = Asking
    BY <1>3 DEF Wait, Become, Asking, QueueTypeOK
  <2>2. QED
    BY <1>3, <2>1 DEF Wait, Asking
<1>4. ASSUME NEW t \in Threads, NEW group \in SUBSET Threads, status[t] = "notifying",
             NotifyOne(t, group), UNCHANGED <<buffer, item, result>>
      PROVE  UNCHANGED Fifo!fifoVars
  <2>1. \A u \in Threads :
          (status'[u] \in {"checking", "waiting"}) <=> (status[u] \in {"checking", "waiting"})
    BY <1>4, NotifyOneEffect
  <2>2. Asking' = Asking
    BY <1>0, <2>1 DEF Asking, Threads
  <2>3. QED
    BY <1>4, <2>2 DEF Asking
<1>5. ASSUME NEW c \in Consumers, CallPop(c)
      PROVE  Fifo!Ask(c)
  <2>1. \A u \in Consumers : status'[u] = IF u = c THEN "checking" ELSE status[u]
    BY <1>5, BecomeEffect DEF CallPop, Threads
  <2>2. Asking' = Asking \cup {c} /\ c \notin Asking
    BY <1>5, <2>1 DEF CallPop, Asking
  <2>3. QED
    BY <1>5, <2>2 DEF CallPop, Fifo!Ask, Asking
<1>6. ASSUME NEW c \in Consumers, Pop(c)
      PROVE  Fifo!Take(c)
  <2>1. \A u \in Consumers : status'[u] = IF u = c THEN "notifying" ELSE status[u]
    BY <1>6, BecomeEffect DEF Pop, Threads
  <2>2. Asking' = Asking \ {c} /\ c \in Asking
    BY <1>6, <2>1 DEF Pop, Asking
  <2>3. QED
    BY <1>6, <2>2 DEF Pop, Fifo!Take, Asking
<1>7. ASSUME NEW t \in Threads, SpuriousWakeup(t)
      PROVE  UNCHANGED Fifo!fifoVars
  <2>1. Asking' = Asking
    BY <1>7 DEF SpuriousWakeup, Become, Asking, QueueTypeOK
  <2>2. QED
    BY <1>7, <2>1 DEF SpuriousWakeup, Asking
<1>8. CASE UNCHANGED queueVars
  BY <1>8 DEF queueVars
<1>9. Producers \in SUBSET Threads /\ Consumers \in SUBSET Threads
  BY DEF Threads
<1>10. ASSUME NEW p \in Producers, PushStep(p)
       PROVE  [Fifo!Next]_(Fifo!fifoVars)
  <2>1. CASE Push(p)
    BY <1>2, <2>1 DEF Fifo!Next
  <2>2. CASE WaitWhileFull(p)
    BY <1>3, <1>9, <2>2 DEF WaitWhileFull
  <2>3. CASE NotifyEmpty(p)
    BY <1>4, <1>9, <2>3 DEF NotifyEmpty
  <2>4. QED
    BY <1>10, <2>1, <2>2, <2>3 DEF PushStep
<1>11. ASSUME NEW c \in Consumers, PopStep(c)
       PROVE  [Fifo!Next]_(Fifo!fifoVars)
  <2>1. CASE Pop(c)
    BY <1>6, <2>1 DEF Fifo!Next
  <2>2. CASE WaitWhileEmpty(c)
    BY <1>3, <1>9, <2>2 DEF WaitWhileEmpty
  <2>3. CASE NotifyFull(c)
    BY <1>4, <1>9, <2>3 DEF NotifyFull
  <2>4. QED
    BY <1>11, <2>1, <2>2, <2>3 DEF PopStep
<1>12. QED
  BY <1>1, <1>5, <1>7, <1>8, <1>10, <1>11 DEF Next, Fifo!Next

\* The queue is a bounded FIFO: items come out in the order they went in,
\* none lost, none twice, whatever the threads and the wakeups do.
THEOREM QueueImplementsFifo == SafeSpec => IsFifo
<1>1. Init => Fifo!Init
  <2> SUFFICES ASSUME Init PROVE Fifo!Init
    OBVIOUS
  <2>1. {c \in Consumers : status[c] \in {"checking", "waiting"}} = {}
    BY DEF Init, Threads
  <2>2. QED
    BY <2>1 DEF Init, Fifo!Init
<1>2. QED
  BY <1>1, FifoStep, QueueTypeCorrect, PTL DEF SafeSpec, IsFifo, Fifo!SafeSpec
-----------------------------------------------------------------------------
(* No wakeup is lost.  A thread that changes its state enters one of the   *)
(* sets At(group, s) and leaves another, so their cardinalities follow.    *)

\* The threads of a finite group in some state are finitely many.
LEMMA AtFinite ==
  ASSUME NEW group, IsFiniteSet(group), NEW s
  PROVE  IsFiniteSet(At(group, s)) /\ Cardinality(At(group, s)) \in Nat
  BY FS_Subset, FS_CardinalityType DEF At

\* One thread entering or leaving a state changes the count by one.
LEMMA AtCount ==
  ASSUME NEW group, IsFiniteSet(group), NEW s, NEW t \in group
  PROVE  /\ At(group, s)' = At(group, s) \cup {t} /\ t \notin At(group, s)
              => Cardinality(At(group, s)') = Cardinality(At(group, s)) + 1
         /\ At(group, s)' = At(group, s) \ {t} /\ t \in At(group, s)
              => Cardinality(At(group, s)') = Cardinality(At(group, s)) - 1
  BY AtFinite, FS_AddElement, FS_RemoveElement

\* Waking a thread that waits moves it among those on the way.
LEMMA NotifyOneCounts ==
  ASSUME QueueTypeOK, NEW t \in Threads, NEW own, NEW other,
         own \in {Producers, Consumers}, other \in {Producers, Consumers}, own # other,
         t \in own, status[t] = "notifying", NotifyOne(t, other)
  PROVE  /\ At(own, "notifying")' = At(own, "notifying") \ {t} /\ t \in At(own, "notifying")
         /\ At(own, "checking")' = At(own, "checking")
         /\ At(own, "waiting")' = At(own, "waiting")
         /\ At(other, "notifying")' = At(other, "notifying")
         /\ \/ At(other, "waiting") = {} /\ At(other, "waiting")' = {}
            \/ /\ At(other, "waiting") # {}
               /\ \E w \in other : /\ At(other, "checking")' = At(other, "checking") \cup {w}
                                   /\ w \notin At(other, "checking")
<1>0. /\ own \in SUBSET Threads /\ other \in SUBSET Threads /\ t \notin other
      /\ \A u \in other : u \notin own
  BY QueueAssumption DEF Threads
<1>1. CASE At(other, "waiting") = {}
  <2>1. \A u \in Threads : status'[u] = IF u = t THEN "idle" ELSE status[u]
    BY <1>1, BecomeEffect DEF NotifyOne
  <2>2. QED
    BY <1>0, <1>1, <2>1 DEF At
<1>2. CASE At(other, "waiting") # {}
  <2>1. PICK w \in At(other, "waiting") :
          status' = [status EXCEPT ![t] = "idle", ![w] = "checking"]
    BY <1>2 DEF NotifyOne
  <2>2. w \in other /\ status[w] = "waiting" /\ w # t
    BY <2>1 DEF At
  <2>3. \A u \in Threads :
          status'[u] = IF u = w THEN "checking" ELSE IF u = t THEN "idle" ELSE status[u]
    BY <1>0, <2>1, <2>2 DEF QueueTypeOK
  <2>4. /\ At(other, "checking")' = At(other, "checking") \cup {w}
        /\ w \notin At(other, "checking")
    BY <1>0, <2>2, <2>3 DEF At
  <2>5. /\ At(own, "notifying")' = At(own, "notifying") \ {t} /\ t \in At(own, "notifying")
        /\ At(own, "checking")' = At(own, "checking")
        /\ At(own, "waiting")' = At(own, "waiting")
    BY <1>0, <2>2, <2>3 DEF At
  <2>6. At(other, "notifying")' = At(other, "notifying")
    BY <1>0, <2>2, <2>3 DEF At
  <2>7. QED
    BY <1>2, <2>2, <2>4, <2>5, <2>6
<1>3. QED
  BY <1>1, <1>2

\* WakeupsCover in the state after a step, for a number known before it.
CoverAfter(notifiers, group, n) ==
  At(group, "waiting")' # {} =>
    n <= Cardinality(At(notifiers, "notifying")') + Cardinality(At(group, "checking")')

\* A thread of the notifying side that starts a call, waits or wakes leaves
\* the cover alone; one that has put or taken something adds itself to it.
LEMMA NotifierMoves ==
  ASSUME QueueTypeOK, NEW d, NEW g, d \in {Producers, Consumers}, g \in {Producers, Consumers},
         d # g, NEW t \in d, NEW s, Become(t, s), status[t] # "notifying",
         NEW n \in Int, NEW m \in Int, m <= (IF s = "notifying" THEN n + 1 ELSE n),
         WakeupsCover(d, g, n)
  PROVE  CoverAfter(d, g, m)
<1>0. /\ d \in SUBSET Threads /\ g \in SUBSET Threads /\ t \notin g
      /\ IsFiniteSet(d) /\ IsFiniteSet(g)
  BY QueueAssumption DEF Threads
<1>1. \A u \in Threads : status'[u] = IF u = t THEN s ELSE status[u]
  BY <1>0, BecomeEffect
<1>2. At(g, "checking")' = At(g, "checking") /\ At(g, "waiting")' = At(g, "waiting")
  BY <1>0, <1>1 DEF At
<1>3. Cardinality(At(d, "notifying")) \in Nat /\ Cardinality(At(g, "checking")) \in Nat
  BY <1>0, AtFinite
<1>4. Cardinality(At(d, "notifying")') =
        IF s = "notifying" THEN Cardinality(At(d, "notifying")) + 1
                           ELSE Cardinality(At(d, "notifying"))
  <2>1. CASE s = "notifying"
    <3>1. At(d, "notifying")' = At(d, "notifying") \cup {t} /\ t \notin At(d, "notifying")
      BY <1>0, <1>1, <2>1 DEF At
    <3>2. QED
      BY <1>0, <2>1, <3>1, AtCount
  <2>2. CASE s # "notifying"
    <3>1. At(d, "notifying")' = At(d, "notifying")
      BY <1>0, <1>1, <2>2 DEF At
    <3>2. QED
      BY <2>2, <3>1
  <2>3. QED
    BY <2>1, <2>2
<1>5. QED
  BY <1>2, <1>3, <1>4 DEF WakeupsCover, CoverAfter

\* A thread of the waiting side that is awake counts until it has acted; it
\* waits only when nothing is there for it.
LEMMA WaiterMoves ==
  ASSUME QueueTypeOK, NEW d, NEW g, d \in {Producers, Consumers}, g \in {Producers, Consumers},
         d # g, NEW t \in g, NEW s, Become(t, s),
         NEW n \in Int, NEW m \in Int, WakeupsCover(d, g, n),
         \/ s = "checking" /\ status[t] # "checking" /\ m = n
         \/ s = "notifying" /\ status[t] = "checking" /\ m = n - 1
         \/ s = "waiting" /\ m <= 0
  PROVE  CoverAfter(d, g, m)
<1>0. /\ d \in SUBSET Threads /\ g \in SUBSET Threads /\ t \notin d
      /\ IsFiniteSet(d) /\ IsFiniteSet(g)
  BY QueueAssumption DEF Threads
<1>1. \A u \in Threads : status'[u] = IF u = t THEN s ELSE status[u]
  BY <1>0, BecomeEffect
<1>2. At(d, "notifying")' = At(d, "notifying")
  BY <1>0, <1>1 DEF At
<1>3. Cardinality(At(d, "notifying")) \in Nat /\ Cardinality(At(g, "checking")) \in Nat
  BY <1>0, AtFinite
<1>4. CASE s = "checking" /\ status[t] # "checking" /\ m = n
  <2>1. At(g, "checking")' = At(g, "checking") \cup {t} /\ t \notin At(g, "checking")
    BY <1>0, <1>1, <1>4 DEF At
  <2>2. Cardinality(At(g, "checking")') = Cardinality(At(g, "checking")) + 1
    BY <1>0, <2>1, AtCount
  <2>3. At(g, "waiting")' \subseteq At(g, "waiting")
    BY <1>0, <1>1, <1>4 DEF At
  <2>4. QED
    BY <1>2, <1>3, <1>4, <2>2, <2>3 DEF WakeupsCover, CoverAfter
<1>5. CASE s = "notifying" /\ status[t] = "checking" /\ m = n - 1
  <2>1. At(g, "checking")' = At(g, "checking") \ {t} /\ t \in At(g, "checking")
    BY <1>0, <1>1, <1>5 DEF At
  <2>2. Cardinality(At(g, "checking")') = Cardinality(At(g, "checking")) - 1
    BY <1>0, <2>1, AtCount
  <2>3. At(g, "waiting")' = At(g, "waiting")
    BY <1>0, <1>1, <1>5 DEF At
  <2>4. QED
    BY <1>2, <1>3, <1>5, <2>2, <2>3 DEF WakeupsCover, CoverAfter
<1>6. CASE s = "waiting" /\ m <= 0
  <2>1. At(g, "checking")' \in SUBSET At(g, "checking")
    BY <1>0, <1>1, <1>6 DEF At
  <2>2. Cardinality(At(g, "checking")') \in Nat
    BY <1>0, <2>1, AtFinite, FS_Subset, FS_CardinalityType
  <2>3. QED
    BY <1>2, <1>3, <1>6, <2>2 DEF WakeupsCover, CoverAfter
<1>7. QED
  BY <1>4, <1>5, <1>6

\* notify_one keeps the cover of both sides: the notifier stops counting
\* when the thread it woke starts to, or when nobody is left to wake.
LEMMA NotifyKeepsCover ==
  ASSUME QueueTypeOK, NEW d, NEW g, d \in {Producers, Consumers}, g \in {Producers, Consumers},
         d # g, NEW t \in d, status[t] = "notifying", NotifyOne(t, g), NEW n \in Int
  PROVE  /\ WakeupsCover(d, g, n) => CoverAfter(d, g, n)
         /\ WakeupsCover(g, d, n) => CoverAfter(g, d, n)
<1>0. IsFiniteSet(d) /\ IsFiniteSet(g) /\ t \in Threads
  BY QueueAssumption DEF Threads
<1>1. /\ At(d, "notifying")' = At(d, "notifying") \ {t} /\ t \in At(d, "notifying")
      /\ At(d, "checking")' = At(d, "checking")
      /\ At(d, "waiting")' = At(d, "waiting")
      /\ At(g, "notifying")' = At(g, "notifying")
      /\ \/ At(g, "waiting") = {} /\ At(g, "waiting")' = {}
         \/ /\ At(g, "waiting") # {}
            /\ \E w \in g : /\ At(g, "checking")' = At(g, "checking") \cup {w}
                            /\ w \notin At(g, "checking")
  BY <1>0, NotifyOneCounts
<1>2. Cardinality(At(d, "notifying")) \in Nat /\ Cardinality(At(g, "checking")) \in Nat
  BY <1>0, AtFinite
<1>3. WakeupsCover(g, d, n) => CoverAfter(g, d, n)
  BY <1>1 DEF WakeupsCover, CoverAfter
<1>4. ASSUME WakeupsCover(d, g, n) PROVE CoverAfter(d, g, n)
  <2>1. CASE At(g, "waiting")' = {}
    BY <2>1 DEF WakeupsCover, CoverAfter
  <2>2. CASE At(g, "waiting")' # {}
    <3>1. At(g, "waiting") # {}
      BY <1>1, <2>2
    <3>2. PICK w \in g : /\ At(g, "checking")' = At(g, "checking") \cup {w}
                         /\ w \notin At(g, "checking")
      BY <1>1, <2>2
    <3>3. Cardinality(At(g, "checking")') = Cardinality(At(g, "checking")) + 1
      BY <1>0, <3>2, AtCount
    <3>4. Cardinality(At(d, "notifying")') = Cardinality(At(d, "notifying")) - 1
      BY <1>0, <1>1, AtCount
    <3>5. QED
      BY <1>2, <1>4, <3>1, <3>3, <3>4 DEF WakeupsCover, CoverAfter
  <2>3. QED
    BY <2>1, <2>2
<1>5. QED
  BY <1>3, <1>4

LEMMA WakeupsStep ==
  /\ QueueTypeOK /\ ConsumerWakeupPending /\ ProducerWakeupPending /\ [Next]_queueVars
  => ConsumerWakeupPending' /\ ProducerWakeupPending'
<1> SUFFICES ASSUME QueueTypeOK, ConsumerWakeupPending, ProducerWakeupPending, [Next]_queueVars
             PROVE  ConsumerWakeupPending' /\ ProducerWakeupPending'
  OBVIOUS
<1> DEFINE items == Len(buffer)
           room  == MaxSize - Len(buffer)
<1>0. /\ items \in Nat /\ room \in Int /\ buffer \in Seq(Items) /\ room >= 0
      /\ Producers # Consumers \/ (Producers = {} /\ Consumers = {})
  BY QueueAssumption DEF QueueTypeOK
<1>1. WakeupsCover(Producers, Consumers, items) /\ WakeupsCover(Consumers, Producers, room)
  BY DEF ConsumerWakeupPending, ProducerWakeupPending
<1>2. SUFFICES CoverAfter(Producers, Consumers, items') /\ CoverAfter(Consumers, Producers, room')
  BY DEF ConsumerWakeupPending, ProducerWakeupPending, WakeupsCover, CoverAfter
<1>3. \A t \in Threads : Producers # Consumers
  BY <1>0 DEF Threads
<1> HIDE DEF items, room
<1>4. ASSUME NEW p \in Producers, NEW s, Become(p, s), status[p] # "notifying",
             s = "notifying" => status[p] = "checking" /\ items' = items + 1 /\ room' = room - 1,
             s # "notifying" => items' = items /\ room' = room,
             \/ s = "checking" /\ status[p] # "checking"
             \/ s = "notifying"
             \/ s = "waiting" /\ room <= 0
      PROVE  CoverAfter(Producers, Consumers, items') /\ CoverAfter(Consumers, Producers, room')
  <2>1. p \in Threads /\ items' \in Int /\ room' \in Int /\ items \in Int
    BY <1>0, <1>4 DEF Threads
  <2>2. CoverAfter(Producers, Consumers, items')
    BY <1>0, <1>1, <1>3, <1>4, <2>1, NotifierMoves
  <2>3. CoverAfter(Consumers, Producers, room')
    BY <1>0, <1>1, <1>3, <1>4, <2>1, WaiterMoves
  <2>4. QED
    BY <2>2, <2>3
<1>5. ASSUME NEW c \in Consumers, NEW s, Become(c, s), status[c] # "notifying",
             s = "notifying" => status[c] = "checking" /\ items' = items - 1 /\ room' = room + 1,
             s # "notifying" => items' = items /\ room' = room,
             \/ s = "checking" /\ status[c] # "checking"
             \/ s = "notifying"
             \/ s = "waiting" /\ items <= 0
      PROVE  CoverAfter(Producers, Consumers, items') /\ CoverAfter(Consumers, Producers, room')
  <2>1. c \in Threads /\ items' \in Int /\ room' \in Int /\ items \in Int
    BY <1>0, <1>5 DEF Threads
  <2>2. CoverAfter(Consumers, Producers, room')
    BY <1>0, <1>1, <1>3, <1>5, <2>1, NotifierMoves
  <2>3. CoverAfter(Producers, Consumers, items')
    BY <1>0, <1>1, <1>3, <1>5, <2>1, WaiterMoves
  <2>4. QED
    BY <2>2, <2>3
<1>6. ASSUME UNCHANGED buffer
      PROVE  items' = items /\ room' = room
  BY <1>6 DEF items, room
<1>7. ASSUME NEW p \in Producers, PushStep(p) \/ SpuriousWakeup(p) \/ \E i \in Items : CallPush(p, i)
      PROVE  CoverAfter(Producers, Consumers, items') /\ CoverAfter(Consumers, Producers, room')
  <2>1. CASE Push(p)
    <3>1. items' = items + 1 /\ room' = room - 1
      BY <1>0, <2>1, QueueAssumption DEF Push, items, room, QueueTypeOK
    <3>2. QED
      BY <1>4, <2>1, <3>1 DEF Push
  <2>2. CASE WaitWhileFull(p)
    <3>1. room <= 0
      BY <1>0, <2>2, QueueAssumption DEF WaitWhileFull, room
    <3>2. QED
      BY <1>4, <1>6, <2>2, <3>1 DEF WaitWhileFull, Wait
  <2>3. CASE NotifyEmpty(p)
    <3>1. p \in Threads /\ Producers # Consumers /\ UNCHANGED buffer
      BY <1>3, <2>3 DEF Threads, NotifyEmpty
    <3>2. status[p] = "notifying" /\ NotifyOne(p, Consumers)
      BY <2>3 DEF NotifyEmpty
    <3>3. items \in Int /\ room \in Int /\ items' = items /\ room' = room
      BY <1>0, <1>6, <3>1
    <3>4. WakeupsCover(Producers, Consumers, items) => CoverAfter(Producers, Consumers, items)
      BY <3>1, <3>2, <3>3, NotifyKeepsCover
    <3>5. WakeupsCover(Consumers, Producers, room) => CoverAfter(Consumers, Producers, room)
      BY <3>1, <3>2, <3>3, NotifyKeepsCover
    <3>6. QED
      BY <1>1, <3>3, <3>4, <3>5
  <2>4. CASE \E i \in Items : CallPush(p, i)
    BY <1>4, <1>6, <2>4 DEF CallPush
  <2>5. CASE SpuriousWakeup(p)
    BY <1>4, <1>6, <2>5 DEF SpuriousWakeup
  <2>6. QED
    BY <1>7, <2>1, <2>2, <2>3, <2>4, <2>5 DEF PushStep
<1>8. ASSUME NEW c \in Consumers, PopStep(c) \/ SpuriousWakeup(c) \/ CallPop(c)
      PROVE  CoverAfter(Producers, Consumers, items') /\ CoverAfter(Consumers, Producers, room')
  <2>1. CASE Pop(c)
    <3>1. items' = items - 1 /\ room' = room + 1
      BY <1>0, <2>1, QueueAssumption DEF Pop, items, room
    <3>2. QED
      BY <1>5, <2>1, <3>1 DEF Pop
  <2>2. CASE WaitWhileEmpty(c)
    <3>1. items <= 0
      BY <2>2 DEF WaitWhileEmpty, items
    <3>2. QED
      BY <1>5, <1>6, <2>2, <3>1 DEF WaitWhileEmpty, Wait
  <2>3. CASE NotifyFull(c)
    <3>1. c \in Threads /\ Producers # Consumers /\ UNCHANGED buffer
      BY <1>3, <2>3 DEF Threads, NotifyFull
    <3>2. status[c] = "notifying" /\ NotifyOne(c, Producers)
      BY <2>3 DEF NotifyFull
    <3>3. items \in Int /\ room \in Int /\ items' = items /\ room' = room
      BY <1>0, <1>6, <3>1
    <3>4. WakeupsCover(Consumers, Producers, room) => CoverAfter(Consumers, Producers, room)
      BY <3>1, <3>2, <3>3, NotifyKeepsCover
    <3>5. WakeupsCover(Producers, Consumers, items) => CoverAfter(Producers, Consumers, items)
      BY <3>1, <3>2, <3>3, NotifyKeepsCover
    <3>6. QED
      BY <1>1, <3>3, <3>4, <3>5
  <2>4. CASE CallPop(c)
    BY <1>5, <1>6, <2>4 DEF CallPop
  <2>5. CASE SpuriousWakeup(c)
    BY <1>5, <1>6, <2>5 DEF SpuriousWakeup
  <2>6. QED
    BY <1>8, <2>1, <2>2, <2>3, <2>4, <2>5 DEF PopStep
<1>9. CASE UNCHANGED queueVars
  <2>1. items' = items /\ room' = room /\ status' = status
    BY <1>6, <1>9 DEF queueVars
  <2>2. /\ At(Consumers, "waiting")' = At(Consumers, "waiting")
        /\ At(Producers, "waiting")' = At(Producers, "waiting")
        /\ At(Consumers, "checking")' = At(Consumers, "checking")
        /\ At(Producers, "checking")' = At(Producers, "checking")
        /\ At(Consumers, "notifying")' = At(Consumers, "notifying")
        /\ At(Producers, "notifying")' = At(Producers, "notifying")
    BY <2>1 DEF At
  <2>3. QED
    BY <1>1, <2>1, <2>2 DEF WakeupsCover, CoverAfter
<1>10. QED
  BY <1>7, <1>8, <1>9 DEF Next, Threads

\* Neither side loses a wakeup: while a thread waits for something that is
\* there, another thread is on its way to it or about to notify it.
THEOREM NoLostWakeup == SafeSpec => []WakeupsPending
<1>1. Init => ConsumerWakeupPending /\ ProducerWakeupPending
  <2> SUFFICES ASSUME Init PROVE At(Consumers, "waiting") = {} /\ At(Producers, "waiting") = {}
    BY DEF ConsumerWakeupPending, ProducerWakeupPending, WakeupsCover
  <2>1. QED
    BY DEF Init, At, Threads
<1>2. QED
  BY <1>1, WakeupsStep, QueueTypeCorrect, PTL DEF SafeSpec, WakeupsPending
=============================================================================
