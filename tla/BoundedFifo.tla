----------------------------- MODULE BoundedFifo -----------------------------
(***************************************************************************)
(* What a blocking queue promises: items leave in the order in which they  *)
(* entered, never more than MaxSize are inside, an offered item enters     *)
(* once there is room and a consumer that asks is served once there is an  *)
(* item.  Nothing is said of which of several waiting threads goes first.  *)
(***************************************************************************)
EXTENDS Integers, Sequences

CONSTANTS Producers, Consumers, Items, NoItem, MaxSize

VARIABLES queue,   \* the items inside, oldest first
          offer,   \* what each producer waits to put in, or NoItem
          asking,  \* the consumers that wait for an item
          taken    \* what each consumer took last, or NoItem

fifoVars == <<queue, offer, asking, taken>>

Init ==
  /\ queue = <<>>
  /\ offer = [p \in Producers |-> NoItem]
  /\ asking = {}
  /\ taken = [c \in Consumers |-> NoItem]

Offer(p, item) ==
  /\ offer[p] = NoItem
  /\ offer' = [offer EXCEPT ![p] = item]
  /\ UNCHANGED <<queue, asking, taken>>

Enter(p) ==
  /\ offer[p] # NoItem /\ Len(queue) < MaxSize
  /\ queue' = Append(queue, offer[p])
  /\ offer' = [offer EXCEPT ![p] = NoItem]
  /\ UNCHANGED <<asking, taken>>

Ask(c) ==
  /\ c \notin asking
  /\ asking' = asking \cup {c}
  /\ UNCHANGED <<queue, offer, taken>>

Take(c) ==
  /\ c \in asking /\ queue # <<>>
  /\ taken' = [taken EXCEPT ![c] = Head(queue)]
  /\ queue' = Tail(queue)
  /\ asking' = asking \ {c}
  /\ UNCHANGED offer

Next ==
  \/ \E p \in Producers : Enter(p) \/ \E item \in Items : Offer(p, item)
  \/ \E c \in Consumers : Ask(c) \/ Take(c)

SafeSpec == Init /\ [][Next]_fifoVars

\* Some waiting producer enters while there is room, some waiting consumer is
\* served while there are items.
Spec ==
  /\ SafeSpec
  /\ WF_fifoVars(\E p \in Producers : Enter(p))
  /\ WF_fifoVars(\E c \in Consumers : Take(c))
=============================================================================
