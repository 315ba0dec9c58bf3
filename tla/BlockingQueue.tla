---------------------------- MODULE BlockingQueue ----------------------------
(***************************************************************************)
(* app/src/core/dataflow/blocking_queue.h: the bounded queue between the   *)
(* simulation thread and the storage and chart workers.  A thread that has *)
(* the mutex either acts or starts to wait, in one action; the notify_one  *)
(* that follows the unlock is a step of its own, so other threads may come *)
(* in between.  A waiting thread may also wake with no notification.       *)
(*                                                                         *)
(* In the program the producers of a storage queue are the simulation      *)
(* thread and the thread that pushes the nullptr sentinel; the consumer is *)
(* the queue's worker.                                                     *)
(***************************************************************************)
EXTENDS Integers, Sequences, FiniteSets

CONSTANTS Producers, Consumers, Items, NoItem,
          MaxSize  \* max_size_

ASSUME QueueAssumption ==
  /\ Producers \cap Consumers = {}
  /\ NoItem \notin Items
  /\ MaxSize \in Nat \ {0}
  /\ IsFiniteSet(Producers) /\ IsFiniteSet(Consumers)

VARIABLES buffer,  \* buffer_
          status,  \* where each thread is in its call
          item,    \* the argument of each producer's pushBlocking
          result   \* what each consumer's last popBlocking returned

queueVars == <<buffer, status, item, result>>

Threads == Producers \cup Consumers

\* idle: outside the queue.  checking: about to hold the mutex and evaluate
\* the wait predicate.  waiting: blocked on the condition variable, producers
\* on cond_full_, consumers on cond_empty_.  notifying: done, mutex released,
\* notify_one still to come.
Status == {"idle", "checking", "waiting", "notifying"}

At(group, s) == {t \in group : status[t] = s}

Init ==
  /\ buffer = <<>>
  /\ status = [t \in Threads |-> "idle"]
  /\ item = [p \in Producers |-> NoItem]
  /\ result = [c \in Consumers |-> NoItem]

Become(t, s) == status' = [status EXCEPT ![t] = s]

\* notify_one: t is done, and one of the threads that wait, if any, wakes.
NotifyOne(t, group) ==
  IF At(group, "waiting") = {}
  THEN Become(t, "idle")
  ELSE \E w \in At(group, "waiting") :
         status' = [status EXCEPT ![t] = "idle", ![w] = "checking"]

Wait(t) ==
  /\ Become(t, "waiting")
  /\ UNCHANGED <<buffer, item, result>>

CallPush(p, i) ==
  /\ status[p] = "idle"
  /\ item' = [item EXCEPT ![p] = i]
  /\ Become(p, "checking")
  /\ UNCHANGED <<buffer, result>>

\* Faulty variant: push without waiting for room.
PushAnyway(p) ==
  /\ status[p] = "checking"
  /\ buffer' = Append(buffer, item[p])
  /\ item' = [item EXCEPT ![p] = NoItem]
  /\ Become(p, "notifying")
  /\ UNCHANGED result

Push(p) ==
  /\ status[p] = "checking" /\ Len(buffer) < MaxSize
  /\ buffer' = Append(buffer, item[p])
  /\ item' = [item EXCEPT ![p] = NoItem]
  /\ Become(p, "notifying")
  /\ UNCHANGED result

WaitWhileFull(p) == status[p] = "checking" /\ ~(Len(buffer) < MaxSize) /\ Wait(p)

\* Faulty variant: the notification is forgotten.
NotifyNobody(t) ==
  /\ status[t] = "notifying"
  /\ Become(t, "idle")
  /\ UNCHANGED <<buffer, item, result>>

NotifyEmpty(p) ==
  /\ status[p] = "notifying"
  /\ NotifyOne(p, Consumers)
  /\ UNCHANGED <<buffer, item, result>>

CallPop(c) ==
  /\ status[c] = "idle"
  /\ Become(c, "checking")
  /\ UNCHANGED <<buffer, item, result>>

\* Faulty variant: last in, first out.
PopBack(c) ==
  /\ status[c] = "checking" /\ buffer # <<>>
  /\ result' = [result EXCEPT ![c] = buffer[Len(buffer)]]
  /\ buffer' = SubSeq(buffer, 1, Len(buffer) - 1)
  /\ Become(c, "notifying")
  /\ UNCHANGED item

Pop(c) ==
  /\ status[c] = "checking" /\ buffer # <<>>
  /\ result' = [result EXCEPT ![c] = Head(buffer)]
  /\ buffer' = Tail(buffer)
  /\ Become(c, "notifying")
  /\ UNCHANGED item

WaitWhileEmpty(c) == status[c] = "checking" /\ buffer = <<>> /\ Wait(c)

NotifyFull(c) ==
  /\ status[c] = "notifying"
  /\ NotifyOne(c, Producers)
  /\ UNCHANGED <<buffer, item, result>>

SpuriousWakeup(t) ==
  /\ status[t] = "waiting"
  /\ Become(t, "checking")
  /\ UNCHANGED <<buffer, item, result>>

PushStep(p) == Push(p) \/ WaitWhileFull(p) \/ NotifyEmpty(p)
PopStep(c)  == Pop(c) \/ WaitWhileEmpty(c) \/ NotifyFull(c)

Next ==
  \/ \E p \in Producers : PushStep(p) \/ \E i \in Items : CallPush(p, i)
  \/ \E c \in Consumers : PopStep(c) \/ CallPop(c)
  \/ \E t \in Threads : SpuriousWakeup(t)

SafeSpec == Init /\ [][Next]_queueVars

\* A thread inside a call that is not blocked keeps running.  Nothing makes
\* a thread call, and nothing makes a spurious wakeup happen.
Spec ==
  /\ SafeSpec
  /\ \A p \in Producers : WF_queueVars(PushStep(p))
  /\ \A c \in Consumers : WF_queueVars(PopStep(c))
-----------------------------------------------------------------------------
\* Thread states and queue contents are well formed, and an item is with a
\* producer exactly while its push has still to happen.
QueueTypeOK ==
  /\ buffer \in Seq(Items) /\ Len(buffer) <= MaxSize
  /\ status \in [Threads -> Status]
  /\ item \in [Producers -> Items \cup {NoItem}]
  /\ result \in [Consumers -> Items \cup {NoItem}]
  /\ \A p \in Producers : item[p] # NoItem <=> status[p] \in {"checking", "waiting"}

\* If some of the group wait, the threads on their way (those that still
\* notify it and those of it that are awake) are no fewer than n.
WakeupsCover(notifiers, group, n) ==
  At(group, "waiting") # {} =>
    n <= Cardinality(At(notifiers, "notifying")) + Cardinality(At(group, "checking"))

\* No wakeup of a consumer is lost: while consumers wait, every item in the
\* queue has a thread on its way to it, because the notify_one that follows
\* each push (line 24) reaches a consumer that is still waiting.
ConsumerWakeupPending == WakeupsCover(Producers, Consumers, Len(buffer))

\* The same for producers that wait (the simulation thread and the thread that
\* pushes the sentinel share cond_full_): every free place has a thread on
\* its way to it.
ProducerWakeupPending == WakeupsCover(Consumers, Producers, MaxSize - Len(buffer))

\* Both: a thread never sleeps in a call that could return.
WakeupsPending == ConsumerWakeupPending /\ ProducerWakeupPending
-----------------------------------------------------------------------------
Fifo == INSTANCE BoundedFifo
  WITH queue <- buffer, offer <- item,
       asking <- {c \in Consumers : status[c] \in {"checking", "waiting"}},
       taken <- result

\* The queue is a bounded FIFO: first in first out, nothing lost or repeated.
IsFifo == Fifo!SafeSpec

\* And it makes progress: with room a waiting push gets in, with items a
\* waiting pop is served ("blocking until space is available", "blocking
\* until an item is available").
IsLiveFifo == Fifo!Spec
=============================================================================
