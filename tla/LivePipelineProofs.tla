------------------------- MODULE LivePipelineProofs -------------------------
(***************************************************************************)
(* Proofs about LivePipeline for every set of configurations: pools and    *)
(* queues of any size, runs of any length, any choice of files.            *)
(***************************************************************************)
EXTENDS LivePipeline, SequenceTheorems, TLAPS

-----------------------------------------------------------------------------
(* What a thread still has to do is in the order of the code: of two calls *)
(* that are left, the one that comes first has the lower rank.             *)

Verbs   == {"acquire", "step", "snapshot", "set", "push", "stop", "join", "free"}
Objects == {"system", "diagnostics", "simulator", "slot", "chart", "simulation", "runner",
            "presenter"}
Calls   == Verbs \X Objects

Rank(op) ==
  CASE op = Op("acquire", "system")       -> 1
    [] op = Op("acquire", "diagnostics")  -> 2
    [] op = Op("step", "simulator")       -> 3
    [] op = Op("snapshot", "system")      -> 4
    [] op = Op("set", "slot")             -> 5
    [] op = Op("push", "system")          -> 6
    [] op = Op("snapshot", "diagnostics") -> 7
    [] op = Op("push", "chart")           -> 8
    [] op = Op("push", "diagnostics")     -> 9
    [] op = Op("stop", "system")          -> 11
    [] op = Op("stop", "diagnostics")     -> 12
    [] op = Op("join", "simulation")      -> 13
    [] op = Op("join", "system")          -> 14
    [] op = Op("join", "diagnostics")     -> 15
    [] op = Op("free", "runner")          -> 16
    [] op = Op("stop", "chart")           -> 21
    [] op = Op("join", "chart")           -> 22
    [] op = Op("free", "presenter")       -> 23
    [] OTHER -> 0

\* The calls in todo have ranks from low to high, and come in their order.
InCodeOrder(todo, low, high) ==
  /\ todo \in Seq(Calls)
  /\ \A i \in DOMAIN todo : Rank(todo[i]) \in low .. high
  /\ \A i, j \in DOMAIN todo : i < j => Rank(todo[i]) < Rank(todo[j])

SimPending(op) == op \in Elements(simTodo)
GuiPending(op) == op \in Elements(guiTodo)

\* The system snapshot of the current step is made before it is handed on,
\* and only when the system is retrieved.
SimTodoInv ==
  /\ InCodeOrder(simTodo, 1, 9)
  /\ simTodo # <<>> => sim = "running" /\ step \in Steps /\ want \in Wants
  /\ \A op \in {Op("set", "slot"), Op("push", "system")} :
       SimPending(op) /\ SimPending(Op("step", "simulator")) =>
         SimPending(Op("snapshot", "system"))
  /\ \A op \in {Op("snapshot", "system"), Op("set", "slot"), Op("push", "system")} :
       SimPending(op) => "system" \in want

EventKinds == {"generated", "initialized", "plot", "delete-presenter", "delete-window"}

\* Only the closures for the chart carry a snapshot.
AreEvents(events) ==
  /\ events \in Seq(EventKinds \X Snapshots)
  /\ \A i \in DOMAIN events : events[i][1] = "plot" => events[i][2] \in Steps

PipelineTypeOK ==
  /\ config \in Configurations
  /\ step \in 0 .. MaxSteps
  /\ simEvents \in Seq({"generate", "initialize", "run"})
  /\ slot \in Snapshots /\ rendered \in Snapshots
  /\ queue \in [Channels -> Seq(Snapshots)] /\ hand \in [Channels -> Snapshots]
  /\ stopped \subseteq Channels
  /\ AreEvents(guiEvents)
  /\ runner \in {"alive", "destroying", "gone"}
  /\ presenter \in BOOLEAN /\ stopRequested \in BOOLEAN
  /\ sent \in [Channels -> SUBSET Steps]
  /\ got \in [Channels -> Seq(Steps)]
  /\ content \in [Buffers -> Int]

-----------------------------------------------------------------------------
(* The simulation runs once: one signal at a time asks for the next phase, *)
(* and none is under way after the run has begun.                          *)

Announces(event) == event[1] \in {"generated", "initialized"}

NoneAnnounced(events) == \A i \in DOMAIN events : ~Announces(events[i])

OneAnnounced(events) ==
  \A i, j \in DOMAIN events : Announces(events[i]) /\ Announces(events[j]) => i = j

PhaseInv ==
  /\ Len(simEvents) <= 1 /\ OneAnnounced(guiEvents)
  /\ simEvents # <<>> => NoneAnnounced(guiEvents)
  /\ simEvents # <<>> \/ ~NoneAnnounced(guiEvents) => sim # "running" /\ step = 0

\* What the destructors have done: a file's worker gets one sentinel, after
\* the simulation was told to stop, and is waited for.
GuiInv ==
  /\ InCodeOrder(guiTodo, 11, 23)
  /\ stopRequested = (runner # "alive")
  /\ guiTodo # <<>> => stopRequested
  /\ \A e \in Elements(guiEvents) : e[1] = "delete-presenter" => stopRequested
  /\ runner = "destroying" =>
       /\ GuiPending(Op("free", "runner"))
       /\ \A c \in Saved : c \in stopped \/ GuiPending(Op("join", c))
  /\ runner = "gone" => Saved \subseteq stopped
  /\ \A c \in Kinds :
       /\ GuiPending(Op("stop", c)) => None \notin Elements(queue[c]) /\ c \notin stopped
       /\ c \in stopped \/ None \in Elements(queue[c]) => stopRequested

\* Behind a sentinel there is only the snapshot of the iteration under way.
SentinelOf(c) ==
  /\ \A i, j \in DOMAIN queue[c] : i < j /\ queue[c][i] = None => queue[c][j] = step
  /\ c \in stopped => hand[c] = None /\ \A i \in DOMAIN queue[c] : queue[c][i] = step

SentinelInv == \A c \in Kinds : SentinelOf(c)

\* The stretches of a channel's path follow one another: what it has received,
\* the closures posted for it, what its worker holds and what is queued.
Before(S, T) == \A s \in S \ {None}, t \in T \ {None} : s < t

InOrder(g, p, h, q) ==
  /\ Ascending(g) /\ Ascending(p) /\ Ascending(q)
  /\ Before(Elements(g), Elements(p)) /\ Before(Elements(g), {h})
  /\ Before(Elements(g), Elements(q))
  /\ Before(Elements(p), {h}) /\ Before(Elements(p), Elements(q))
  /\ Before({h}, Elements(q))

AllOf(g, p, h, q) == (Elements(g) \cup Elements(p) \cup {h} \cup Elements(q)) \ {None}

PlotsIn(events) ==
  [i \in DOMAIN events |-> IF events[i][1] = "plot" THEN events[i][2] ELSE None]

PlotsFor(c, events) == IF c = "chart" THEN PlotsIn(events) ELSE <<>>

PathOf(c) ==
  /\ InOrder(got[c], PlotsFor(c, guiEvents), hand[c], queue[c])
  /\ AllOf(got[c], PlotsFor(c, guiEvents), hand[c], queue[c]) = sent[c]

PathInv == \A c \in Channels : c \in Kinds \/ presenter => PathOf(c)

\* The snapshot of a step is pushed once, and those pushed before are of
\* earlier steps.
SentInv ==
  \A c \in Channels :
    /\ \A s \in sent[c] : s <= step
    /\ SimPending(Op("push", c)) => step \notin sent[c]

\* The system snapshots that other threads or the slot hold.
Published ==
  (Elements(queue["system"]) \cup {hand["system"], slot, rendered}) \ {None}

\* Which snapshots the simulator's own buffers can be: the one it writes to
\* next, when it is given none, is at least two steps old.
BuffersInv ==
  /\ config.copies => previous \in {None, InitialSystem}
  /\ previous \in Steps => previous <= step
  /\ current \in Steps => current < step
  /\ SimPending(Op("step", "simulator")) =>
       /\ previous \in Steps => previous < step
       /\ current \in Steps => current + 1 < step

HoldsState(s) ==
  \/ content[s] = s
  \/ ~LeavesPublished /\ content[s] \in s + 2 .. step /\ content[s] \notin sent["system"]

ContentInv ==
  /\ \A s \in Published : HoldsState(s)
  /\ SimPending(Op("step", "simulator")) => step \notin sent["system"]
  /\ SimPending(Op("push", "system")) => \A s \in Published \ {step} : content[s] # step
  /\ \A op \in {Op("snapshot", "system"), Op("set", "slot"), Op("push", "system")} :
       SimPending(op) /\ ~SimPending(Op("step", "simulator")) => content[step] = step

PipelineInv ==
  /\ PipelineTypeOK /\ SimTodoInv /\ PhaseInv /\ GuiInv
  /\ SentinelInv /\ SentInv /\ PathInv /\ BuffersInv /\ ContentInv
-----------------------------------------------------------------------------
(* Sequences.                                                              *)

LEMMA AppendFacts ==
  ASSUME NEW S, NEW s \in Seq(S), NEW x \in S
  PROVE  /\ Append(s, x) \in Seq(S)
         /\ DOMAIN s = 1 .. Len(s) /\ Len(s) \in Nat
         /\ DOMAIN Append(s, x) = 1 .. Len(s) + 1
         /\ \A i \in 1 .. Len(s) : Append(s, x)[i] = s[i]
         /\ Append(s, x)[Len(s) + 1] = x
         /\ Elements(Append(s, x)) = Elements(s) \cup {x}
<1>1. /\ Append(s, x) \in Seq(S) /\ Len(Append(s, x)) = Len(s) + 1
      /\ \A i \in 1 .. Len(s) : Append(s, x)[i] = s[i]
      /\ Append(s, x)[Len(s) + 1] = x
  BY AppendProperties
<1>2. DOMAIN s = 1 .. Len(s) /\ Len(s) \in Nat /\ DOMAIN Append(s, x) = 1 .. Len(s) + 1
  BY <1>1, LenProperties
<1>3. Elements(Append(s, x)) = Elements(s) \cup {x}
  BY <1>1, <1>2 DEF Elements
<1>4. QED
  BY <1>1, <1>2, <1>3

LEMMA TailFacts ==
  ASSUME NEW S, NEW s \in Seq(S), s # <<>>
  PROVE  /\ Head(s) \in S /\ Tail(s) \in Seq(S)
         /\ Len(s) \in Nat \ {0} /\ DOMAIN s = 1 .. Len(s)
         /\ Head(s) = s[1]
         /\ DOMAIN Tail(s) = 1 .. Len(s) - 1
         /\ \A i \in DOMAIN Tail(s) : i + 1 \in DOMAIN s /\ Tail(s)[i] = s[i + 1]
         /\ Elements(s) = {Head(s)} \cup Elements(Tail(s))
<1>1. /\ Head(s) \in S /\ Tail(s) \in Seq(S) /\ Len(Tail(s)) = Len(s) - 1
      /\ \A i \in 1 .. Len(s) - 1 : Tail(s)[i] = s[i + 1]
  BY HeadTailProperties
<1>2. Len(s) \in Nat \ {0} /\ DOMAIN s = 1 .. Len(s) /\ Head(s) = s[1]
  BY LenProperties, EmptySeq
<1>3. DOMAIN Tail(s) = 1 .. Len(s) - 1
  BY <1>1, LenProperties
<1>4. \A i \in DOMAIN Tail(s) : i + 1 \in DOMAIN s /\ Tail(s)[i] = s[i + 1]
  BY <1>1, <1>2, <1>3
<1>5. ASSUME NEW i \in DOMAIN s
      PROVE  s[i] \in {Head(s)} \cup Elements(Tail(s))
  <2>1. CASE i = 1
    BY <2>1, <1>2
  <2>2. CASE i # 1
    <3>1. i - 1 \in DOMAIN Tail(s)
      BY <2>2, <1>2, <1>3
    <3>2. Tail(s)[i - 1] = s[i]
      BY <3>1, <1>4, <1>2
    <3>3. QED
      BY <3>1, <3>2 DEF Elements
  <2>3. QED
    BY <2>1, <2>2
<1>6. Elements(s) = {Head(s)} \cup Elements(Tail(s))
  BY <1>2, <1>4, <1>5 DEF Elements
<1>7. QED
  BY <1>1, <1>2, <1>3, <1>4, <1>6

LEMMA ConcatFacts ==
  ASSUME NEW S, NEW s \in Seq(S), NEW t \in Seq(S)
  PROVE  /\ s \o t \in Seq(S)
         /\ Len(s) \in Nat /\ Len(t) \in Nat
         /\ DOMAIN s = 1 .. Len(s) /\ DOMAIN t = 1 .. Len(t)
         /\ DOMAIN (s \o t) = 1 .. Len(s) + Len(t)
         /\ \A i \in DOMAIN (s \o t) :
              (s \o t)[i] = IF i <= Len(s) THEN s[i] ELSE t[i - Len(s)]
         /\ Elements(s \o t) = Elements(s) \cup Elements(t)
<1>1. /\ s \o t \in Seq(S) /\ Len(s \o t) = Len(s) + Len(t)
      /\ \A i \in 1 .. Len(s) + Len(t) :
           (s \o t)[i] = IF i <= Len(s) THEN s[i] ELSE t[i - Len(s)]
  BY ConcatProperties
<1>2. /\ Len(s) \in Nat /\ Len(t) \in Nat
      /\ DOMAIN s = 1 .. Len(s) /\ DOMAIN t = 1 .. Len(t)
      /\ DOMAIN (s \o t) = 1 .. Len(s) + Len(t)
  BY <1>1, LenProperties
<1>3. Elements(s \o t) \subseteq Elements(s) \cup Elements(t)
  <2> SUFFICES ASSUME NEW i \in DOMAIN (s \o t)
               PROVE  (s \o t)[i] \in Elements(s) \cup Elements(t)
    BY DEF Elements
  <2>1. CASE i <= Len(s)
    BY <1>1, <1>2, <2>1 DEF Elements
  <2>2. CASE ~(i <= Len(s))
    <3>1. i - Len(s) \in DOMAIN t
      BY <1>2, <2>2
    <3>2. QED
      BY <1>1, <1>2, <2>2, <3>1 DEF Elements
  <2>3. QED
    BY <2>1, <2>2
<1>4. Elements(s) \subseteq Elements(s \o t)
  BY <1>1, <1>2 DEF Elements
<1>5. ASSUME NEW j \in DOMAIN t
      PROVE  t[j] \in Elements(s \o t)
  <2>1. j + Len(s) \in 1 .. Len(s) + Len(t) /\ ~(j + Len(s) <= Len(s))
        /\ j + Len(s) - Len(s) = j
    BY <1>2
  <2>2. (s \o t)[j + Len(s)] = t[j]
    BY <1>1, <2>1
  <2>3. QED
    BY <1>2, <2>1, <2>2 DEF Elements
<1>6. Elements(t) \subseteq Elements(s \o t)
  BY <1>5 DEF Elements
<1>7. QED
  BY <1>1, <1>2, <1>3, <1>4, <1>6

-----------------------------------------------------------------------------
(* What is left to do.                                                     *)

LEMMA RankValues ==
  /\ Rank(Op("acquire", "system")) = 1 /\ Rank(Op("acquire", "diagnostics")) = 2
  /\ Rank(Op("step", "simulator")) = 3
  /\ Rank(Op("snapshot", "system")) = 4 /\ Rank(Op("set", "slot")) = 5
  /\ Rank(Op("push", "system")) = 6 /\ Rank(Op("snapshot", "diagnostics")) = 7
  /\ Rank(Op("push", "chart")) = 8 /\ Rank(Op("push", "diagnostics")) = 9
  /\ Rank(Op("stop", "system")) = 11 /\ Rank(Op("stop", "diagnostics")) = 12
  /\ Rank(Op("join", "simulation")) = 13
  /\ Rank(Op("join", "system")) = 14 /\ Rank(Op("join", "diagnostics")) = 15
  /\ Rank(Op("free", "runner")) = 16
  /\ Rank(Op("stop", "chart")) = 21 /\ Rank(Op("join", "chart")) = 22
  /\ Rank(Op("free", "presenter")) = 23
  BY DEF Rank, Op

\* The first call is the only one of its kind, and comes before the others.
LEMMA CodeOrderTail ==
  ASSUME NEW s, NEW low \in Nat, NEW high \in Nat, InCodeOrder(s, low, high), s # <<>>
  PROVE  /\ InCodeOrder(Tail(s), low, high)
         /\ Elements(s) = {Head(s)} \cup Elements(Tail(s))
         /\ \A op \in Elements(Tail(s)) : Rank(Head(s)) < Rank(op)
         /\ Head(s) \notin Elements(Tail(s))
         /\ Rank(Head(s)) \in low .. high
<1>1. s \in Seq(Calls)
  BY DEF InCodeOrder
<1>2. /\ Tail(s) \in Seq(Calls)
      /\ Len(s) \in Nat \ {0} /\ DOMAIN s = 1 .. Len(s)
      /\ Head(s) = s[1]
      /\ DOMAIN Tail(s) = 1 .. Len(s) - 1
      /\ \A i \in DOMAIN Tail(s) : i + 1 \in DOMAIN s /\ Tail(s)[i] = s[i + 1]
      /\ Elements(s) = {Head(s)} \cup Elements(Tail(s))
  BY <1>1, TailFacts
<1>3. /\ \A i \in DOMAIN s : Rank(s[i]) \in low .. high
      /\ \A i, j \in DOMAIN s : i < j => Rank(s[i]) < Rank(s[j])
  BY DEF InCodeOrder
<1>4. \A i, j \in DOMAIN Tail(s) : i < j => Rank(Tail(s)[i]) < Rank(Tail(s)[j])
  BY <1>2, <1>3
<1>5. InCodeOrder(Tail(s), low, high)
  BY <1>2, <1>3, <1>4 DEF InCodeOrder
<1>6. 1 \in DOMAIN s
  BY <1>2
<1>7. \A i \in DOMAIN Tail(s) : Rank(Head(s)) < Rank(Tail(s)[i])
  BY <1>2, <1>3, <1>6
<1>8. \A op \in Elements(Tail(s)) : Rank(Head(s)) < Rank(op)
  BY <1>7 DEF Elements
<1>9. Rank(Head(s)) \in low .. high
  BY <1>2, <1>3, <1>6
<1>10. Head(s) \notin Elements(Tail(s))
  <2>1. ~(Rank(Head(s)) < Rank(Head(s)))
    BY <1>9
  <2>2. QED
    BY <1>8, <2>1
<1>11. QED
  BY <1>2, <1>5, <1>8, <1>9, <1>10

LEMMA CodeOrderConcat ==
  ASSUME NEW s, NEW t, NEW a \in Nat, NEW b \in Nat, NEW c \in Nat, NEW d \in Nat,
         a <= b, b < c, c <= d, InCodeOrder(s, a, b), InCodeOrder(t, c, d)
  PROVE  InCodeOrder(s \o t, a, d) /\ Elements(s \o t) = Elements(s) \cup Elements(t)
<1>1. s \in Seq(Calls) /\ t \in Seq(Calls)
  BY DEF InCodeOrder
<1>2. /\ s \o t \in Seq(Calls)
      /\ Len(s) \in Nat /\ Len(t) \in Nat
      /\ DOMAIN s = 1 .. Len(s) /\ DOMAIN t = 1 .. Len(t)
      /\ DOMAIN (s \o t) = 1 .. Len(s) + Len(t)
      /\ \A i \in DOMAIN (s \o t) :
           (s \o t)[i] = IF i <= Len(s) THEN s[i] ELSE t[i - Len(s)]
      /\ Elements(s \o t) = Elements(s) \cup Elements(t)
  BY <1>1, ConcatFacts
<1>3. /\ \A i \in DOMAIN s : Rank(s[i]) \in a .. b
      /\ \A i, j \in DOMAIN s : i < j => Rank(s[i]) < Rank(s[j])
      /\ \A i \in DOMAIN t : Rank(t[i]) \in c .. d
      /\ \A i, j \in DOMAIN t : i < j => Rank(t[i]) < Rank(t[j])
  BY DEF InCodeOrder
<1>4. ASSUME NEW i \in DOMAIN (s \o t)
      PROVE  /\ i <= Len(s) => i \in DOMAIN s /\ (s \o t)[i] = s[i]
             /\ ~(i <= Len(s)) => i - Len(s) \in DOMAIN t /\ (s \o t)[i] = t[i - Len(s)]
  BY <1>2
<1>5. \A i \in DOMAIN (s \o t) : Rank((s \o t)[i]) \in a .. d
  BY <1>3, <1>4
<1>6. ASSUME NEW i \in DOMAIN (s \o t), NEW j \in DOMAIN (s \o t), i < j
      PROVE  Rank((s \o t)[i]) < Rank((s \o t)[j])
  <2>1. CASE j <= Len(s)
    <3>1. i <= Len(s)
      BY <1>2, <1>6, <2>1
    <3>2. QED
      BY <1>3, <1>4, <1>6, <2>1, <3>1
  <2>2. CASE ~(j <= Len(s)) /\ i <= Len(s)
    <3>1. Rank((s \o t)[i]) \in a .. b /\ Rank((s \o t)[j]) \in c .. d
      BY <1>3, <1>4, <2>2
    <3>2. QED
      BY <3>1
  <2>3. CASE ~(j <= Len(s)) /\ ~(i <= Len(s))
    <3>1. i - Len(s) < j - Len(s)
      BY <1>2, <1>6
    <3>2. QED
      BY <1>3, <1>4, <2>3, <3>1
  <2>4. QED
    BY <2>1, <2>2, <2>3
<1>7. QED
  BY <1>2, <1>5, <1>6 DEF InCodeOrder

LEMMA TwoAppended ==
  ASSUME NEW S, NEW s \in Seq(S), NEW a \in S, NEW b \in S
  PROVE  s \o <<a, b>> = Append(Append(s, a), b)
<1>1. <<a, b>> \in Seq(S) /\ Len(<<a, b>>) = 2 /\ <<a, b>>[1] = a /\ <<a, b>>[2] = b
  OBVIOUS
<1>2. /\ s \o <<a, b>> \in Seq(S) /\ Len(s) \in Nat /\ Len(s \o <<a, b>>) = Len(s) + 2
      /\ \A i \in 1 .. Len(s) + 2 :
           (s \o <<a, b>>)[i] = IF i <= Len(s) THEN s[i] ELSE <<a, b>>[i - Len(s)]
  BY <1>1, ConcatProperties, LenProperties
<1>3. /\ Append(s, a) \in Seq(S) /\ Len(Append(s, a)) = Len(s) + 1
      /\ \A i \in 1 .. Len(s) : Append(s, a)[i] = s[i]
      /\ Append(s, a)[Len(s) + 1] = a
  BY AppendProperties
<1>4. /\ Append(Append(s, a), b) \in Seq(S) /\ Len(Append(Append(s, a), b)) = Len(s) + 2
      /\ \A i \in 1 .. Len(s) + 1 : Append(Append(s, a), b)[i] = Append(s, a)[i]
      /\ Append(Append(s, a), b)[Len(s) + 2] = b
  BY <1>2, <1>3, AppendProperties
<1>5. ASSUME NEW i \in 1 .. Len(s) + 2
      PROVE  (s \o <<a, b>>)[i] = Append(Append(s, a), b)[i]
  <2>1. CASE i <= Len(s)
    BY <1>2, <1>3, <1>4, <2>1
  <2>2. CASE i = Len(s) + 1
    BY <1>1, <1>2, <1>3, <1>4, <2>2
  <2>3. CASE i = Len(s) + 2
    BY <1>1, <1>2, <1>3, <1>4, <2>3
  <2>4. QED
    BY <1>2, <2>1, <2>2, <2>3
<1>6. QED
  BY <1>2, <1>4, <1>5, SeqEqual

\* A call, two calls, no call.
LEMMA OneCall ==
  ASSUME NEW op \in Calls, NEW r \in Nat, Rank(op) = r
  PROVE  InCodeOrder(<<op>>, r, r) /\ Elements(<<op>>) = {op}
<1>1. <<op>> \in Seq(Calls) /\ DOMAIN <<op>> = {1} /\ <<op>>[1] = op
  OBVIOUS
<1>2. QED
  BY <1>1 DEF InCodeOrder, Elements

LEMMA PairOfCalls ==
  ASSUME NEW op \in Calls, NEW then \in Calls,
         NEW a \in Nat, NEW b \in Nat, Rank(op) = a, Rank(then) = b, a < b
  PROVE  /\ InCodeOrder(<<op, then>>, a, b)
         /\ Elements(<<op, then>>) = {op, then}
<1>1. /\ <<op, then>> \in Seq(Calls)
      /\ DOMAIN <<op, then>> = {1, 2} /\ <<op, then>>[1] = op /\ <<op, then>>[2] = then
  OBVIOUS
<1>2. QED
  BY <1>1 DEF InCodeOrder, Elements

LEMMA NoCalls ==
  ASSUME NEW low \in Nat, NEW high \in Nat
  PROVE  InCodeOrder(<<>>, low, high) /\ Elements(<<>>) = {}
<1>1. <<>> \in Seq(Calls) /\ DOMAIN <<>> = {}
  OBVIOUS
<1>2. QED
  BY <1>1 DEF InCodeOrder, Elements

\* Wider bounds.
LEMMA CodeOrderWithin ==
  ASSUME NEW s, NEW a \in Nat, NEW b \in Nat, NEW c \in Nat, NEW d \in Nat,
         InCodeOrder(s, b, c), a <= b, c <= d
  PROVE  InCodeOrder(s, a, d)
  BY DEF InCodeOrder

\* The calls of an iteration, in their order, and which of them there are.
LEMMA IterationCalls ==
  ASSUME NEW wanted \in SUBSET Kinds, Saved \subseteq Kinds
  PROVE  /\ InCodeOrder(Iteration(wanted), 1, 9)
         /\ Op("snapshot", "system") \in Elements(Iteration(wanted)) <=> "system" \in wanted
         /\ Op("set", "slot") \in Elements(Iteration(wanted)) <=> "system" \in wanted
         /\ Op("push", "system") \in Elements(Iteration(wanted)) => "system" \in wanted
         /\ Op("step", "simulator") \in Elements(Iteration(wanted))
<1> DEFINE sys  == "system" \in wanted
           diag == "diagnostics" \in wanted
           a1 == Given(sys, <<Op("acquire", "system")>>)
           a2 == Given(diag, <<Op("acquire", "diagnostics")>>)
           a3 == <<Op("step", "simulator")>>
           p1 == <<Op("snapshot", "system"), Op("set", "slot")>>
           p2 == Given("system" \in Saved, <<Op("push", "system")>>)
           q1 == <<Op("snapshot", "diagnostics"), Op("push", "chart")>>
           q2 == Given("diagnostics" \in Saved, <<Op("push", "diagnostics")>>)
           p  == Given(sys, p1 \o p2)
           q  == Given(diag, q1 \o q2)
<1>1. Iteration(wanted) = a1 \o a2 \o a3 \o p \o q
  BY DEF Iteration
<1>2. \A v \in Verbs, o \in Objects : Op(v, o) \in Calls
  BY DEF Op, Calls
<1>3. InCodeOrder(a1, 1, 1) /\ Elements(a1) \subseteq {Op("acquire", "system")}
  BY <1>2, OneCall, NoCalls, RankValues DEF Given, Verbs, Objects
<1>4. InCodeOrder(a2, 2, 2) /\ Elements(a2) \subseteq {Op("acquire", "diagnostics")}
  BY <1>2, OneCall, NoCalls, RankValues DEF Given, Verbs, Objects
<1>5. InCodeOrder(a3, 3, 3) /\ Elements(a3) = {Op("step", "simulator")}
  BY <1>2, OneCall, RankValues DEF Verbs, Objects
<1>6. InCodeOrder(p1, 4, 5) /\ Elements(p1) = {Op("snapshot", "system"), Op("set", "slot")}
  BY <1>2, PairOfCalls, RankValues DEF Verbs, Objects
<1>7. InCodeOrder(p2, 6, 6) /\ Elements(p2) \subseteq {Op("push", "system")}
  BY <1>2, OneCall, NoCalls, RankValues DEF Given, Verbs, Objects
<1>8. InCodeOrder(q1, 7, 8)
      /\ Elements(q1) = {Op("snapshot", "diagnostics"), Op("push", "chart")}
  BY <1>2, PairOfCalls, RankValues DEF Verbs, Objects
<1>9. InCodeOrder(q2, 9, 9) /\ Elements(q2) \subseteq {Op("push", "diagnostics")}
  BY <1>2, OneCall, NoCalls, RankValues DEF Given, Verbs, Objects
<1> HIDE DEF a1, a2, a3, p1, p2, q1, q2
<1>10. InCodeOrder(p1 \o p2, 4, 6) /\ Elements(p1 \o p2) = Elements(p1) \cup Elements(p2)
  BY <1>6, <1>7, CodeOrderConcat
<1>11. InCodeOrder(q1 \o q2, 7, 9) /\ Elements(q1 \o q2) = Elements(q1) \cup Elements(q2)
  BY <1>8, <1>9, CodeOrderConcat
<1>12. InCodeOrder(p, 4, 6) /\ Elements(p) = IF sys THEN Elements(p1) \cup Elements(p2) ELSE {}
  BY <1>10, NoCalls DEF Given
<1>13. InCodeOrder(q, 7, 9) /\ Elements(q) = IF diag THEN Elements(q1) \cup Elements(q2) ELSE {}
  BY <1>11, NoCalls DEF Given
<1> HIDE DEF p, q
<1>14. InCodeOrder(a1 \o a2, 1, 2) /\ Elements(a1 \o a2) = Elements(a1) \cup Elements(a2)
  BY <1>3, <1>4, CodeOrderConcat
<1>15. /\ InCodeOrder(a1 \o a2 \o a3, 1, 3)
       /\ Elements(a1 \o a2 \o a3) = Elements(a1) \cup Elements(a2) \cup Elements(a3)
  BY <1>14, <1>5, CodeOrderConcat
<1>16. /\ InCodeOrder(a1 \o a2 \o a3 \o p, 1, 6)
       /\ Elements(a1 \o a2 \o a3 \o p)
            = Elements(a1) \cup Elements(a2) \cup Elements(a3) \cup Elements(p)
  BY <1>15, <1>12, CodeOrderConcat
<1>17. /\ InCodeOrder(Iteration(wanted), 1, 9)
       /\ Elements(Iteration(wanted))
            = Elements(a1) \cup Elements(a2) \cup Elements(a3) \cup Elements(p) \cup Elements(q)
  BY <1>1, <1>16, <1>13, CodeOrderConcat
<1>18. /\ Op("snapshot", "system") # Op("acquire", "system")
       /\ \A o \in {Op("snapshot", "system"), Op("set", "slot"), Op("push", "system")} :
            o \notin {Op("acquire", "system"), Op("acquire", "diagnostics"),
                      Op("step", "simulator"), Op("snapshot", "diagnostics"),
                      Op("push", "chart"), Op("push", "diagnostics")}
  BY DEF Op
<1>19. QED
  BY <1>3, <1>4, <1>5, <1>6, <1>7, <1>8, <1>9, <1>12, <1>13, <1>17, <1>18

\* The calls of ~SimulationRunner.
LEMMA DestructorCalls ==
  ASSUME Saved \subseteq Kinds
  PROVE  /\ InCodeOrder(Destructor, 11, 23)
         /\ Op("free", "runner") \in Elements(Destructor)
         /\ \A c \in Saved : Op("join", c) \in Elements(Destructor)
<1> DEFINE s1 == Given("system" \in Saved, <<Op("stop", "system")>>)
           s2 == Given("diagnostics" \in Saved, <<Op("stop", "diagnostics")>>)
           j1 == Given("system" \in Saved, <<Op("join", "system")>>)
           j2 == Given("diagnostics" \in Saved, <<Op("join", "diagnostics")>>)
           js == <<Op("join", "simulation")>>
           fr == <<Op("free", "runner")>>
<1>1. Destructor = (s1 \o s2) \o js \o (j1 \o j2) \o fr
  BY DEF Destructor, Each
<1>2. \A v \in Verbs, o \in Objects : Op(v, o) \in Calls
  BY DEF Op, Calls
<1>3. InCodeOrder(s1, 11, 11)
  BY <1>2, OneCall, NoCalls, RankValues DEF Given, Verbs, Objects
<1>4. InCodeOrder(s2, 12, 12)
  BY <1>2, OneCall, NoCalls, RankValues DEF Given, Verbs, Objects
<1>5. InCodeOrder(js, 13, 13)
  BY <1>2, OneCall, RankValues DEF Verbs, Objects
<1>6. InCodeOrder(j1, 14, 14) /\ ("system" \in Saved => Op("join", "system") \in Elements(j1))
  BY <1>2, OneCall, NoCalls, RankValues DEF Given, Verbs, Objects
<1>7. InCodeOrder(j2, 15, 15)
      /\ ("diagnostics" \in Saved => Op("join", "diagnostics") \in Elements(j2))
  BY <1>2, OneCall, NoCalls, RankValues DEF Given, Verbs, Objects
<1>8. InCodeOrder(fr, 16, 16) /\ Op("free", "runner") \in Elements(fr)
  BY <1>2, OneCall, RankValues DEF Verbs, Objects
<1> HIDE DEF s1, s2, j1, j2, js, fr
<1>9. InCodeOrder(s1 \o s2, 11, 12)
  BY <1>3, <1>4, CodeOrderConcat
<1>10. InCodeOrder((s1 \o s2) \o js, 11, 13)
  BY <1>9, <1>5, CodeOrderConcat
<1>11. InCodeOrder(j1 \o j2, 14, 15) /\ Elements(j1 \o j2) = Elements(j1) \cup Elements(j2)
  BY <1>6, <1>7, CodeOrderConcat
<1>12. /\ InCodeOrder((s1 \o s2) \o js \o (j1 \o j2), 11, 15)
       /\ Elements(j1 \o j2) \subseteq Elements((s1 \o s2) \o js \o (j1 \o j2))
  BY <1>10, <1>11, CodeOrderConcat
<1>13. /\ InCodeOrder(Destructor, 11, 16)
       /\ Elements(Destructor) = Elements((s1 \o s2) \o js \o (j1 \o j2)) \cup Elements(fr)
  BY <1>1, <1>12, <1>8, CodeOrderConcat
<1>14. InCodeOrder(Destructor, 11, 23)
  BY <1>13, CodeOrderWithin
<1>15. \A c \in Saved : Op("join", c) \in Elements(Destructor)
  BY <1>6, <1>7, <1>11, <1>12, <1>13 DEF Kinds
<1>16. QED
  BY <1>8, <1>13, <1>14, <1>15

-----------------------------------------------------------------------------
(* The simulation thread's calls.                                          *)

\* The first call is made and the others are left.
LEMMA CallIsMade ==
  ASSUME SimTodoInv, NEW op, Perform(op)
  PROVE  /\ simTodo # <<>> /\ InCodeOrder(simTodo', 1, 9)
         /\ \A o : SimPending(o) <=> (o = op \/ SimPending(o)')
         /\ ~SimPending(op)'
         /\ \A o : SimPending(o)' => Rank(op) < Rank(o)
<1>1. simTodo # <<>> /\ Head(simTodo) = op /\ simTodo' = Tail(simTodo)
  BY DEF Perform, Next1
<1>2. /\ InCodeOrder(Tail(simTodo), 1, 9)
      /\ Elements(simTodo) = {op} \cup Elements(Tail(simTodo))
      /\ \A o \in Elements(Tail(simTodo)) : Rank(op) < Rank(o)
      /\ op \notin Elements(Tail(simTodo))
  BY <1>1, CodeOrderTail DEF SimTodoInv
<1>3. \A o : SimPending(o)' <=> o \in Elements(Tail(simTodo))
  BY <1>1 DEF SimPending, Elements
<1>4. \A o : SimPending(o) <=> o \in Elements(simTodo)
  BY DEF SimPending
<1>5. QED
  BY <1>1, <1>2, <1>3, <1>4

\* The actions that make a call of the iteration.
MakesCall(op) ==
  \/ \E kind \in Kinds : op = Op("acquire", kind) /\ AcquireData(kind)
  \/ \E kind \in Kinds : op = Op("snapshot", kind) /\ AcquireSnapshot(kind)
  \/ op = Op("step", "simulator") /\ StepSimulator
  \/ op = Op("set", "slot") /\ SetRenderingSnapshot
  \/ \E channel \in Channels : op = Op("push", channel) /\ PushSnapshot(channel)

LEMMA CallOfIteration ==
  ASSUME NEW op, MakesCall(op)
  PROVE  Perform(op) /\ UNCHANGED <<sim, simEvents, step, want, guiVars>>
  BY DEF MakesCall, AcquireData, AcquireSnapshot, StepSimulator, SetRenderingSnapshot,
         PushSnapshot, guiVars

\* A step of the pipeline, apart from what the simulation does to itself.
OthersStep ==
  \/ \E channel \in Channels : WorkerStep(channel)
  \/ HandleGuiEvent \/ UpdateRendering \/ DestroyRunner \/ DestructorStep

LEMMA StepKinds ==
  ASSUME [PipelineNext]_pipelineVars
  PROVE  /\ config' = config
         /\ \/ StartGeneration \/ StartInitialization \/ RunSimulation
            \/ BeginIteration \/ EndSimulation \/ FinishThread
            \/ \E op : MakesCall(op)
            \/ OthersStep
            \/ UNCHANGED pipelineVars
<1>1. CASE UNCHANGED pipelineVars
  BY <1>1 DEF pipelineVars
<1>2. CASE PipelineNext
  <2>1. config' = config
    BY <1>2 DEF PipelineNext
  <2>2. CASE SimulationStep
    <3>1. ASSUME NEW kind \in Kinds, AcquireData(kind) \/ AcquireSnapshot(kind)
          PROVE  \E op : MakesCall(op)
      BY <3>1 DEF MakesCall
    <3>2. ASSUME StepSimulator \/ SetRenderingSnapshot
          PROVE  \E op : MakesCall(op)
      BY <3>2 DEF MakesCall
    <3>3. ASSUME NEW channel \in Channels, PushSnapshot(channel)
          PROVE  \E op : MakesCall(op)
      BY <3>3 DEF MakesCall
    <3>4. QED
      BY <2>1, <2>2, <3>1, <3>2, <3>3 DEF SimulationStep
  <2>3. CASE OthersStep
    BY <2>1, <2>3
  <2>4. QED
    BY <1>2, <2>1, <2>2, <2>3 DEF PipelineNext, OthersStep
<1>3. QED
  BY <1>1, <1>2

\* Other threads leave the simulation thread's variables alone, but for the
\* signals the GUI thread posts to it.
LEMMA OthersLeaveSimulation ==
  ASSUME OthersStep
  PROVE  /\ UNCHANGED <<sim, step, want, simTodo, simulatorVars>>
         /\ sent' = sent
<1>1. ASSUME NEW channel \in Channels, WorkerStep(channel)
      PROVE  UNCHANGED <<simulationVars, sent>>
  BY <1>1 DEF WorkerStep, Pop, WriteSnapshot, PostToChart
<1>2. CASE HandleGuiEvent
  BY <1>2 DEF HandleGuiEvent, ReceivedGenerationCompleted, ReceivedInitializationCompleted,
              UpdateDiagnostics, DropEvent, DeletePresenter, DeleteWindow, simulationVars,
              channelVars, simulatorVars
<1>3. CASE UpdateRendering \/ DestroyRunner
  BY <1>3 DEF UpdateRendering, DestroyRunner, simulationVars, channelVars, simulatorVars
<1>4. ASSUME DestructorStep
      PROVE  UNCHANGED <<simulationVars, sent>>
  BY <1>4 DEF DestructorStep, StopWorker, JoinThread, FreeRunner, FreePresenter, channelVars
<1>5. QED
  BY <1>1, <1>2, <1>3, <1>4 DEF OthersStep, simulationVars, simulatorVars

LEMMA ConfigFacts ==
  ASSUME config \in Configurations
  PROVE  /\ Saved \subseteq Kinds /\ Wants \subseteq SUBSET Kinds
         /\ config.steps \in 0 .. MaxSteps /\ MaxSteps \in Nat /\ None \notin Int
         /\ Steps \subseteq Nat /\ config.copies \in BOOLEAN
  BY PipelineAssumption DEF Saved, Wants, SimulatorAssumption, Steps

LEMMA SimTodoInvStep ==
  ASSUME PipelineTypeOK, SimTodoInv, [PipelineNext]_pipelineVars
  PROVE  SimTodoInv'
<1>1. /\ config \in Configurations /\ Saved \subseteq Kinds /\ Wants \subseteq SUBSET Kinds
      /\ config.steps \in 0 .. MaxSteps /\ MaxSteps \in Nat /\ config' = config
  BY ConfigFacts, StepKinds DEF PipelineTypeOK
<1>2. Wants' = Wants
  BY <1>1 DEF Wants
<1>3. CASE StartGeneration \/ StartInitialization \/ RunSimulation \/ EndSimulation \/ FinishThread
  <2>1. simTodo' = simTodo /\ simTodo = <<>>
    BY <1>3 DEF SimTodoInv, StartGeneration, StartInitialization, RunSimulation, EndSimulation,
                FinishThread, TakeSimEvent
  <2>2. \A op : ~SimPending(op)'
    BY <2>1 DEF SimPending, Elements
  <2>3. InCodeOrder(simTodo', 1, 9)
    BY <2>1 DEF SimTodoInv
  <2>4. QED
    BY <2>1, <2>2, <2>3 DEF SimTodoInv
<1>4. CASE BeginIteration
  <2>1. PICK wanted \in Wants : want' = wanted /\ simTodo' = Iteration(wanted)
    BY <1>4 DEF BeginIteration
  <2>2. sim' = "running" /\ step' \in Steps
    BY <1>4, <1>1 DEF BeginIteration, ContinueLoop, PipelineTypeOK, Steps
  <2>3. wanted \in SUBSET Kinds
    BY <1>1
  <2>4. \A op : SimPending(op)' <=> op \in Elements(Iteration(wanted))
    BY <2>1 DEF SimPending, Elements
  <2>5. InCodeOrder(simTodo', 1, 9)
    BY <2>1, <2>3, <1>1, IterationCalls
  <2>6. /\ SimPending(Op("snapshot", "system"))' <=> "system" \in wanted
        /\ SimPending(Op("set", "slot"))' <=> "system" \in wanted
        /\ SimPending(Op("push", "system"))' => "system" \in wanted
    BY <2>3, <2>4, <1>1, IterationCalls
  <2>7. QED
    BY <2>1, <2>2, <2>5, <2>6, <1>2 DEF SimTodoInv
<1>5. ASSUME NEW op, MakesCall(op)
      PROVE  SimTodoInv'
  <2>1. Perform(op) /\ UNCHANGED <<sim, step, want>>
    BY <1>5, CallOfIteration
  <2>2. /\ simTodo # <<>> /\ InCodeOrder(simTodo', 1, 9)
        /\ \A o : SimPending(o) <=> (o = op \/ SimPending(o)')
        /\ \A o : SimPending(o)' => Rank(op) < Rank(o)
    BY <2>1, CallIsMade
  <2>3. sim = "running" /\ step \in Steps /\ want \in Wants
    BY <2>2 DEF SimTodoInv
  <2>4. SimPending(Op("step", "simulator"))' => op # Op("snapshot", "system")
    BY <2>2, RankValues
  <2>5. \A o \in {Op("set", "slot"), Op("push", "system")} :
          SimPending(o)' /\ SimPending(Op("step", "simulator"))' =>
            SimPending(Op("snapshot", "system"))'
    BY <2>2, <2>4 DEF SimTodoInv
  <2>6. \A o \in {Op("snapshot", "system"), Op("set", "slot"), Op("push", "system")} :
          SimPending(o)' => "system" \in want'
    BY <2>1, <2>2 DEF SimTodoInv
  <2>7. QED
    BY <2>1, <2>2, <2>3, <2>5, <2>6, <1>2 DEF SimTodoInv
<1>6. CASE OthersStep \/ UNCHANGED pipelineVars
  <2>1. UNCHANGED <<sim, step, want, simTodo>>
    BY <1>6, OthersLeaveSimulation DEF pipelineVars, simulationVars
  <2>2. QED
    BY <2>1, <1>2 DEF SimTodoInv, SimPending, Elements, InCodeOrder
<1>7. QED
  BY StepKinds, <1>3, <1>4, <1>5, <1>6

-----------------------------------------------------------------------------
(* Types.                                                                  *)

LEMMA EventsAppend ==
  ASSUME NEW events, AreEvents(events), NEW event \in EventKinds \X Snapshots,
         event[1] = "plot" => event[2] \in Steps
  PROVE  AreEvents(Append(events, event))
<1>1. events \in Seq(EventKinds \X Snapshots)
  BY DEF AreEvents
<1>2. /\ Append(events, event) \in Seq(EventKinds \X Snapshots)
      /\ DOMAIN events = 1 .. Len(events) /\ Len(events) \in Nat
      /\ DOMAIN Append(events, event) = 1 .. Len(events) + 1
      /\ \A i \in 1 .. Len(events) : Append(events, event)[i] = events[i]
      /\ Append(events, event)[Len(events) + 1] = event
  BY <1>1, AppendFacts
<1>3. ASSUME NEW i \in DOMAIN Append(events, event), Append(events, event)[i][1] = "plot"
      PROVE  Append(events, event)[i][2] \in Steps
  <2>1. CASE i = Len(events) + 1
    BY <1>2, <1>3, <2>1
  <2>2. CASE i \in 1 .. Len(events)
    <3>1. i \in DOMAIN events /\ Append(events, event)[i] = events[i]
      BY <1>2, <2>2
    <3>2. QED
      BY <1>3, <3>1 DEF AreEvents
  <2>3. QED
    BY <1>2, <2>1, <2>2
<1>4. QED
  BY <1>2, <1>3 DEF AreEvents

LEMMA EventsTail ==
  ASSUME NEW events, AreEvents(events), events # <<>>
  PROVE  /\ AreEvents(Tail(events))
         /\ Head(events) \in EventKinds \X Snapshots
         /\ Head(events)[1] = "plot" => Head(events)[2] \in Steps
<1>1. events \in Seq(EventKinds \X Snapshots)
  BY DEF AreEvents
<1>2. /\ Head(events) \in EventKinds \X Snapshots
      /\ Tail(events) \in Seq(EventKinds \X Snapshots)
      /\ Len(events) \in Nat \ {0} /\ DOMAIN events = 1 .. Len(events)
      /\ Head(events) = events[1]
      /\ \A i \in DOMAIN Tail(events) : i + 1 \in DOMAIN events /\ Tail(events)[i] = events[i + 1]
  BY <1>1, TailFacts
<1>3. 1 \in DOMAIN events
  BY <1>2
<1>4. QED
  BY <1>2, <1>3 DEF AreEvents

\* The events that are posted.
LEMMA PostedEvents ==
  /\ \A kind \in EventKinds : Op(kind, None) \in EventKinds \X Snapshots /\ Op(kind, None)[1] = kind
  /\ \A s \in Steps : Op("plot", s) \in EventKinds \X Snapshots
                      /\ Op("plot", s)[1] = "plot" /\ Op("plot", s)[2] = s
  BY DEF Op, EventKinds, Snapshots

LEMMA PipelineTypeOKInit ==
  ASSUME PipelineInit
  PROVE  PipelineTypeOK
<1>1. /\ <<"generate">> \in Seq({"generate", "initialize", "run"})
      /\ <<>> \in Seq(EventKinds \X Snapshots) /\ DOMAIN <<>> = {}
      /\ <<>> \in Seq(Snapshots) /\ <<>> \in Seq(Steps)
  OBVIOUS
<1>2. AreEvents(guiEvents)
  BY <1>1 DEF AreEvents, PipelineInit
<1>3. 0 \in 0 .. MaxSteps /\ None \in Snapshots
  BY PipelineAssumption DEF SimulatorAssumption, Snapshots
<1>4. /\ queue \in [Channels -> Seq(Snapshots)] /\ hand \in [Channels -> Snapshots]
      /\ sent \in [Channels -> SUBSET Steps] /\ got \in [Channels -> Seq(Steps)]
      /\ simEvents \in Seq({"generate", "initialize", "run"})
  BY <1>1, <1>3 DEF PipelineInit
<1>5. content \in [Buffers -> Int] /\ step \in 0 .. MaxSteps
  BY <1>3 DEF PipelineInit, SimulatorInit
<1>6. QED
  BY <1>2, <1>3, <1>4, <1>5 DEF PipelineInit, PipelineTypeOK

LEMMA PipelineTypeOKStep ==
  ASSUME PipelineTypeOK, SimTodoInv, [PipelineNext]_pipelineVars
  PROVE  PipelineTypeOK'
<1>1. /\ config \in Configurations /\ config' = config /\ MaxSteps \in Nat
      /\ config.steps \in 0 .. MaxSteps
  BY ConfigFacts, StepKinds DEF PipelineTypeOK
<1>2. None \in Snapshots /\ Steps \subseteq Snapshots
  BY DEF Snapshots
<1>3. /\ AreEvents(guiEvents) /\ simEvents \in Seq({"generate", "initialize", "run"})
      /\ queue \in [Channels -> Seq(Snapshots)] /\ hand \in [Channels -> Snapshots]
      /\ sent \in [Channels -> SUBSET Steps] /\ got \in [Channels -> Seq(Steps)]
  BY DEF PipelineTypeOK
<1>4. \A event \in {"generate", "initialize", "run"} :
        Append(simEvents, event) \in Seq({"generate", "initialize", "run"})
  BY <1>3, AppendFacts
<1>5. simEvents # <<>> => Tail(simEvents) \in Seq({"generate", "initialize", "run"})
  BY <1>3, TailFacts
<1>6. \A kind \in EventKinds : kind # "plot" => AreEvents(Append(guiEvents, Op(kind, None)))
  BY <1>3, EventsAppend, PostedEvents
<1>7. guiEvents # <<>> => AreEvents(Tail(guiEvents))
  BY <1>3, EventsTail
<1>8. CASE StartGeneration \/ StartInitialization
  <2>1. simEvents' = Tail(simEvents) /\ simEvents # <<>>
    BY <1>8 DEF StartGeneration, StartInitialization, TakeSimEvent
  <2>2. /\ \/ \E kind \in EventKinds : kind # "plot" /\ guiEvents' = Append(guiEvents, Op(kind, None))
           \/ guiEvents' = guiEvents
        /\ content' = content
    BY <1>8 DEF StartGeneration, StartInitialization, Post, EventKinds, Initialize, simulatorVars
  <2>3. AreEvents(guiEvents)'
    BY <1>3, <1>6, <2>2
  <2>4. QED
    BY <1>1, <1>5, <1>8, <2>1, <2>2, <2>3
       DEF PipelineTypeOK, StartGeneration, StartInitialization, channelVars
<1>9. CASE RunSimulation \/ BeginIteration \/ EndSimulation \/ FinishThread
  <2>1. simEvents' \in Seq({"generate", "initialize", "run"})
    <3>1. <<>> \in Seq({"generate", "initialize", "run"})
      OBVIOUS
    <3>2. QED
      BY <1>3, <1>5, <1>9, <3>1
         DEF RunSimulation, BeginIteration, EndSimulation, FinishThread, TakeSimEvent
  <2>2. step' \in 0 .. MaxSteps
    BY <1>1, <1>9 DEF PipelineTypeOK, RunSimulation, BeginIteration, EndSimulation, FinishThread,
                      ContinueLoop
  <2>3. UNCHANGED <<channelVars, guiVars, content>>
    BY <1>9 DEF RunSimulation, BeginIteration, EndSimulation, FinishThread, simulatorVars,
                DestroySimulator
  <2>4. QED
    BY <1>1, <2>1, <2>2, <2>3 DEF PipelineTypeOK, channelVars, guiVars
<1>10. ASSUME NEW op, MakesCall(op)
       PROVE  PipelineTypeOK'
  <2>1. step \in Steps /\ UNCHANGED <<simEvents, step, guiVars>>
    <3>1. Perform(op) /\ UNCHANGED <<simEvents, step, guiVars>>
      BY <1>10, CallOfIteration
    <3>2. QED
      BY <3>1, CallIsMade DEF SimTodoInv
  <2>2. content' \in [Buffers -> Int]
    <3>1. CASE StepSimulator
      BY <3>1, <2>1 DEF StepSimulator, SimulatorStep, CopyStep, SwapStep, PipelineTypeOK, Steps
    <3>2. CASE ~StepSimulator
      BY <1>10, <3>2 DEF MakesCall, AcquireData, AcquireSnapshot, SetRenderingSnapshot, PushSnapshot,
                         simulatorVars, PipelineTypeOK
    <3>3. QED
      BY <3>1, <3>2
  <2>3. /\ slot' \in Snapshots /\ queue' \in [Channels -> Seq(Snapshots)]
        /\ sent' \in [Channels -> SUBSET Steps] /\ UNCHANGED <<hand, stopped, got>>
    <3>1. ASSUME NEW channel \in Channels, PushSnapshot(channel)
          PROVE  /\ queue' \in [Channels -> Seq(Snapshots)] /\ sent' \in [Channels -> SUBSET Steps]
                 /\ UNCHANGED <<slot, hand, stopped, got>>
      <4>1. Append(queue[channel], step) \in Seq(Snapshots)
        BY <1>2, <1>3, <2>1, AppendFacts
      <4>2. QED
        BY <1>3, <2>1, <3>1, <4>1 DEF PushSnapshot
    <3>2. CASE SetRenderingSnapshot
      BY <1>2, <1>3, <2>1, <3>2 DEF SetRenderingSnapshot
    <3>3. QED
      BY <1>3, <1>10, <3>1, <3>2 DEF MakesCall, AcquireData, AcquireSnapshot, StepSimulator,
                                     channelVars, PipelineTypeOK
  <2>4. QED
    BY <1>1, <2>1, <2>2, <2>3 DEF PipelineTypeOK, guiVars
<1>11. CASE OthersStep
  <2>1. UNCHANGED <<step, sent, content>>
    BY <1>11, OthersLeaveSimulation DEF simulatorVars
  <2>2. ASSUME NEW channel \in Channels, WorkerStep(channel)
        PROVE  PipelineTypeOK'
    <3>1. CASE Pop(channel)
      <4>1. queue[channel] \in Seq(Snapshots) /\ queue[channel] # <<>>
        BY <1>3, <3>1 DEF Pop, CanPop
      <4>2. Head(queue[channel]) \in Snapshots /\ Tail(queue[channel]) \in Seq(Snapshots)
        BY <4>1, TailFacts
      <4>3. /\ queue' \in [Channels -> Seq(Snapshots)] /\ hand' \in [Channels -> Snapshots]
            /\ stopped' \subseteq Channels
        BY <1>3, <3>1, <4>2 DEF Pop, PipelineTypeOK
      <4>4. QED
        BY <1>1, <3>1, <4>3 DEF Pop, PipelineTypeOK, simulationVars, guiVars, simulatorVars
    <3>2. CASE WriteSnapshot(channel)
      <4>1. hand[channel] \in Steps
        BY <1>3, <3>2 DEF WriteSnapshot, Snapshots
      <4>2. Append(got[channel], hand[channel]) \in Seq(Steps)
        BY <1>3, <4>1, AppendFacts
      <4>3. got' \in [Channels -> Seq(Steps)] /\ hand' \in [Channels -> Snapshots]
        BY <1>2, <1>3, <3>2, <4>2 DEF WriteSnapshot
      <4>4. QED
        BY <1>1, <3>2, <4>3 DEF WriteSnapshot, PipelineTypeOK, simulationVars, guiVars, simulatorVars
    <3>3. CASE PostToChart
      <4>1. hand["chart"] \in Steps
        BY <1>3, <3>3 DEF PostToChart, Snapshots, Channels
      <4>2. AreEvents(guiEvents')
        <5>1. Op("plot", hand["chart"]) \in EventKinds \X Snapshots
              /\ Op("plot", hand["chart"])[2] \in Steps
          BY <4>1, PostedEvents
        <5>2. QED
          BY <1>3, <3>3, <5>1, EventsAppend DEF PostToChart, Post
      <4>3. hand' \in [Channels -> Snapshots]
        BY <1>2, <1>3, <3>3 DEF PostToChart
      <4>4. QED
        BY <1>1, <3>3, <4>2, <4>3 DEF PostToChart, PipelineTypeOK, simulationVars, simulatorVars
    <3>4. QED
      BY <2>2, <3>1, <3>2, <3>3 DEF WorkerStep
  <2>3. CASE HandleGuiEvent
    <3>1. /\ guiEvents # <<>> /\ guiEvents' = Tail(guiEvents)
          /\ UNCHANGED <<slot, queue, hand, stopped, runner, presenter, stopRequested>>
          /\ rendered' \in {rendered, None}
      BY <2>3 DEF HandleGuiEvent, ReceivedGenerationCompleted, ReceivedInitializationCompleted,
                  UpdateDiagnostics, DropEvent, DeletePresenter, DeleteWindow, TakeGuiEvent,
                  channelVars
    <3>2. simEvents' \in Seq({"generate", "initialize", "run"})
      BY <1>3, <1>4, <2>3
         DEF HandleGuiEvent, ReceivedGenerationCompleted, ReceivedInitializationCompleted,
             UpdateDiagnostics, DropEvent, DeletePresenter, DeleteWindow, simulationVars
    <3>3. got' \in [Channels -> Seq(Steps)]
      <4>1. CASE UpdateDiagnostics
        <5>1. Head(guiEvents)[2] \in Steps /\ "chart" \in Channels
          BY <1>3, <4>1, EventsTail DEF UpdateDiagnostics, TakeGuiEvent, Channels
        <5>2. Append(got["chart"], Head(guiEvents)[2]) \in Seq(Steps)
          BY <1>3, <5>1, AppendFacts
        <5>3. QED
          BY <1>3, <4>1, <5>2 DEF UpdateDiagnostics
      <4>2. CASE ~UpdateDiagnostics
        BY <1>3, <2>3, <4>2
           DEF HandleGuiEvent, ReceivedGenerationCompleted, ReceivedInitializationCompleted,
               DropEvent, DeletePresenter, DeleteWindow, channelVars
      <4>3. QED
        BY <4>1, <4>2
    <3>4. AreEvents(guiEvents')
      BY <1>7, <3>1
    <3>5. QED
      BY <1>1, <1>2, <2>1, <3>1, <3>2, <3>3, <3>4 DEF PipelineTypeOK
  <2>4. CASE UpdateRendering
    BY <1>1, <1>2, <2>4 DEF UpdateRendering, PipelineTypeOK, simulationVars, simulatorVars
  <2>5. CASE DestroyRunner
    <3>1. guiEvents' = Append(Append(guiEvents, Op("delete-presenter", None)), Op("delete-window", None))
      <4>1. guiEvents \in Seq(EventKinds \X Snapshots)
        BY <1>3 DEF AreEvents
      <4>2. /\ Op("delete-presenter", None) \in EventKinds \X Snapshots
            /\ Op("delete-window", None) \in EventKinds \X Snapshots
        BY PostedEvents DEF EventKinds
      <4>3. QED
        BY <2>5, <4>1, <4>2, TwoAppended DEF DestroyRunner
    <3>2. AreEvents(Append(guiEvents, Op("delete-presenter", None)))
      BY <1>6 DEF EventKinds
    <3>3. AreEvents(guiEvents')
      BY <3>1, <3>2, EventsAppend, PostedEvents DEF EventKinds
    <3>4. QED
      BY <1>1, <2>5, <3>3
         DEF DestroyRunner, PipelineTypeOK, simulationVars, channelVars, simulatorVars
  <2>6. ASSUME DestructorStep
        PROVE  PipelineTypeOK'
    <3>1. ASSUME NEW channel \in Channels, StopWorker(channel)
          PROVE  PipelineTypeOK'
      <4>1. Append(queue[channel], None) \in Seq(Snapshots)
        BY <1>2, <1>3, AppendFacts
      <4>2. queue' \in [Channels -> Seq(Snapshots)]
        BY <1>3, <3>1, <4>1 DEF StopWorker
      <4>3. QED
        BY <1>1, <3>1, <4>2 DEF StopWorker, PipelineTypeOK, simulationVars, simulatorVars
    <3>2. CASE FreePresenter
      <4>1. queue' \in [Channels -> Seq(Snapshots)]
        <5>1. <<>> \in Seq(Snapshots)
          OBVIOUS
        <5>2. QED
          BY <1>3, <3>2, <5>1 DEF FreePresenter
      <4>2. QED
        BY <1>1, <1>2, <3>2, <4>1 DEF FreePresenter, PipelineTypeOK, simulationVars, simulatorVars
    <3>3. CASE FreeRunner
      BY <1>1, <3>3 DEF FreeRunner, PipelineTypeOK, simulationVars, simulatorVars, channelVars
    <3>4. ASSUME NEW thread, JoinThread(thread)
          PROVE  PipelineTypeOK'
      BY <1>1, <3>4 DEF JoinThread, PipelineTypeOK, simulationVars, simulatorVars, channelVars
    <3>5. QED
      BY <2>6, <3>1, <3>2, <3>3, <3>4 DEF DestructorStep
  <2>7. QED
    BY <1>11, <2>2, <2>3, <2>4, <2>5, <2>6 DEF OthersStep
<1>12. CASE UNCHANGED pipelineVars
  BY <1>12 DEF pipelineVars, simulationVars, channelVars, guiVars, simulatorVars, PipelineTypeOK
<1>13. QED
  BY <1>8, <1>9, <1>10, <1>11, <1>12, StepKinds

-----------------------------------------------------------------------------
(* Phases.                                                                 *)

LEMMA AnnouncedAppend ==
  ASSUME NEW S, NEW events \in Seq(S), NEW event \in S
  PROVE  /\ NoneAnnounced(events) => OneAnnounced(Append(events, event))
         /\ ~Announces(event) =>
              /\ NoneAnnounced(Append(events, event)) <=> NoneAnnounced(events)
              /\ OneAnnounced(events) => OneAnnounced(Append(events, event))
<1>1. /\ DOMAIN events = 1 .. Len(events) /\ Len(events) \in Nat
      /\ DOMAIN Append(events, event) = 1 .. Len(events) + 1
      /\ \A i \in 1 .. Len(events) : Append(events, event)[i] = events[i]
      /\ Append(events, event)[Len(events) + 1] = event
  BY AppendFacts
<1>2. \A i \in DOMAIN Append(events, event) :
        \/ i \in DOMAIN events /\ Append(events, event)[i] = events[i]
        \/ i = Len(events) + 1 /\ Append(events, event)[i] = event
  BY <1>1
<1>3. \A i \in DOMAIN events :
        i \in DOMAIN Append(events, event) /\ Append(events, event)[i] = events[i]
  BY <1>1
<1>4. QED
  BY <1>2, <1>3 DEF NoneAnnounced, OneAnnounced

LEMMA AnnouncedTail ==
  ASSUME NEW S, NEW events \in Seq(S), events # <<>>, OneAnnounced(events)
  PROVE  /\ OneAnnounced(Tail(events))
         /\ NoneAnnounced(events) \/ Announces(Head(events)) => NoneAnnounced(Tail(events))
         /\ ~NoneAnnounced(Tail(events)) => ~NoneAnnounced(events)
<1>1. /\ Head(events) = events[1] /\ 1 \in DOMAIN events
      /\ DOMAIN Tail(events) = 1 .. Len(events) - 1 /\ Len(events) \in Nat \ {0}
      /\ \A i \in DOMAIN Tail(events) : i + 1 \in DOMAIN events /\ Tail(events)[i] = events[i + 1]
  BY TailFacts
<1>2. OneAnnounced(Tail(events))
  <2>1. ASSUME NEW i \in DOMAIN Tail(events), NEW j \in DOMAIN Tail(events),
               Announces(Tail(events)[i]), Announces(Tail(events)[j])
        PROVE  i = j
    <3>1. i + 1 = j + 1
      BY <1>1, <2>1 DEF OneAnnounced
    <3>2. QED
      BY <1>1, <3>1
  <2>2. QED
    BY <2>1 DEF OneAnnounced
<1>3. ASSUME Announces(Head(events)), NEW i \in DOMAIN Tail(events), Announces(Tail(events)[i])
      PROVE  FALSE
  <2>1. i + 1 = 1
    BY <1>1, <1>3 DEF OneAnnounced
  <2>2. QED
    BY <1>1, <2>1
<1>4. QED
  BY <1>1, <1>2, <1>3 DEF NoneAnnounced

LEMMA PhaseInvInit ==
  ASSUME PipelineInit
  PROVE  PhaseInv
<1>1. Len(simEvents) = 1 /\ DOMAIN guiEvents = {}
  BY DEF PipelineInit
<1>2. QED
  BY <1>1 DEF PipelineInit, PhaseInv, OneAnnounced, NoneAnnounced

LEMMA PhaseInvStep ==
  ASSUME PipelineTypeOK, PhaseInv, [PipelineNext]_pipelineVars
  PROVE  PhaseInv'
<1>1. /\ guiEvents \in Seq(EventKinds \X Snapshots)
      /\ simEvents \in Seq({"generate", "initialize", "run"})
  BY DEF PipelineTypeOK, AreEvents
<1>2. simEvents # <<>> => Len(simEvents) = 1 /\ Tail(simEvents) = <<>>
  <2> SUFFICES ASSUME simEvents # <<>>
               PROVE  Len(simEvents) = 1 /\ Tail(simEvents) = <<>>
    OBVIOUS
  <2>1. Len(simEvents) \in Nat \ {0}
    BY <1>1, TailFacts
  <2>2. Len(simEvents) = 1
    BY <2>1 DEF PhaseInv
  <2>3. Tail(simEvents) \in Seq({"generate", "initialize", "run"}) /\ Len(Tail(simEvents)) = 0
    BY <1>1, <2>2, HeadTailProperties
  <2>4. QED
    BY <2>2, <2>3, EmptySeq
<1>3. Len(<<>>) = 0
  OBVIOUS
<1>4. CASE StartGeneration \/ StartInitialization
  <2>1. /\ simEvents # <<>> /\ simEvents' = <<>> /\ step' = step /\ sim' = sim
        /\ \/ guiEvents' = guiEvents
           \/ \E kind \in EventKinds : guiEvents' = Append(guiEvents, Op(kind, None))
    BY <1>2, <1>4 DEF StartGeneration, StartInitialization, TakeSimEvent, Post, EventKinds
  <2>2. NoneAnnounced(guiEvents) /\ OneAnnounced(guiEvents) /\ sim # "running" /\ step = 0
    BY <2>1 DEF PhaseInv
  <2>3. OneAnnounced(guiEvents')
    <3>1. ASSUME NEW kind \in EventKinds, guiEvents' = Append(guiEvents, Op(kind, None))
          PROVE  OneAnnounced(guiEvents')
      <4>1. PICK event \in EventKinds \X Snapshots : event = Op(kind, None)
        BY PostedEvents
      <4>2. QED
        BY <1>1, <2>2, <3>1, <4>1, AnnouncedAppend
    <3>2. QED
      BY <2>1, <2>2, <3>1
  <2>4. QED
    BY <1>3, <2>1, <2>2, <2>3 DEF PhaseInv
<1>5. CASE RunSimulation
  <2>1. simEvents # <<>> /\ simEvents' = <<>> /\ guiEvents' = guiEvents
    BY <1>2, <1>5 DEF RunSimulation, TakeSimEvent, guiVars
  <2>2. NoneAnnounced(guiEvents) /\ OneAnnounced(guiEvents)
    BY <2>1 DEF PhaseInv
  <2>3. QED
    BY <1>3, <2>1, <2>2 DEF PhaseInv
<1>6. CASE FinishThread
  <2>1. simEvents' = <<>> /\ guiEvents' = guiEvents /\ step' = step /\ sim' # "running"
    BY <1>6 DEF FinishThread, guiVars
  <2>2. QED
    BY <1>3, <2>1 DEF PhaseInv
<1>7. CASE BeginIteration \/ EndSimulation
  <2>1. /\ sim = "running" /\ UNCHANGED <<simEvents, guiEvents>>
    BY <1>7 DEF BeginIteration, EndSimulation, guiVars
  <2>2. QED
    BY <2>1 DEF PhaseInv
<1>8. ASSUME NEW op, MakesCall(op)
      PROVE  PhaseInv'
  <2>1. UNCHANGED <<sim, simEvents, step, guiEvents>>
    BY <1>8, CallOfIteration DEF guiVars
  <2>2. QED
    BY <2>1 DEF PhaseInv
<1>9. ASSUME UNCHANGED <<sim, simEvents, step>>,
             \/ guiEvents' = guiEvents
             \/ guiEvents # <<>> /\ guiEvents' = Tail(guiEvents)
             \/ \E event \in EventKinds \X Snapshots :
                  ~Announces(event) /\ guiEvents' = Append(guiEvents, event)
      PROVE  PhaseInv'
  <2>1. OneAnnounced(guiEvents') /\ (NoneAnnounced(guiEvents) => NoneAnnounced(guiEvents'))
    BY <1>1, <1>9, AnnouncedAppend, AnnouncedTail DEF PhaseInv
  <2>2. QED
    BY <1>9, <2>1 DEF PhaseInv
<1>10. CASE OthersStep
  <2>1. UNCHANGED <<sim, step>>
    BY <1>10, OthersLeaveSimulation
  <2>2. ASSUME NEW channel \in Channels, WorkerStep(channel)
        PROVE  PhaseInv'
    <3>1. simEvents' = simEvents
      BY <2>2 DEF WorkerStep, Pop, WriteSnapshot, PostToChart, simulationVars
    <3>2. CASE PostToChart
      <4>1. hand["chart"] \in Steps
        BY <3>2 DEF PostToChart, PipelineTypeOK, Snapshots, Channels
      <4>2. PICK event \in EventKinds \X Snapshots : event = Op("plot", hand["chart"])
        BY <4>1, PostedEvents
      <4>3. ~Announces(event) /\ guiEvents' = Append(guiEvents, event)
        BY <3>2, <4>2 DEF PostToChart, Post, Announces, Op
      <4>4. QED
        BY <1>9, <2>1, <3>1, <4>3
    <3>3. CASE ~PostToChart
      <4>1. guiEvents' = guiEvents
        BY <2>2, <3>3 DEF WorkerStep, Pop, WriteSnapshot, guiVars
      <4>2. QED
        BY <1>9, <2>1, <3>1, <4>1
    <3>4. QED
      BY <3>2, <3>3
  <2>3. CASE ReceivedGenerationCompleted \/ ReceivedInitializationCompleted
    <3>1. /\ guiEvents # <<>> /\ guiEvents' = Tail(guiEvents) /\ Announces(Head(guiEvents))
          /\ \E event \in {"initialize", "run"} : simEvents' = Append(simEvents, event)
      BY <2>3 DEF ReceivedGenerationCompleted, ReceivedInitializationCompleted, TakeGuiEvent,
                  Announces
    <3>2. ~NoneAnnounced(guiEvents)
      <4>1. 1 \in DOMAIN guiEvents /\ Head(guiEvents) = guiEvents[1]
        BY <1>1, <3>1, TailFacts
      <4>2. QED
        BY <3>1, <4>1 DEF NoneAnnounced
    <3>3. simEvents = <<>> /\ sim # "running" /\ step = 0 /\ OneAnnounced(guiEvents)
      BY <3>2 DEF PhaseInv
    <3>4. Len(simEvents') = 1
      BY <1>1, <3>1, <3>3
    <3>5. OneAnnounced(guiEvents') /\ NoneAnnounced(guiEvents')
      BY <1>1, <3>1, <3>3, AnnouncedTail
    <3>6. QED
      BY <2>1, <3>3, <3>4, <3>5 DEF PhaseInv
  <2>4. CASE UpdateDiagnostics \/ DropEvent \/ DeletePresenter \/ DeleteWindow
    <3>1. guiEvents # <<>> /\ guiEvents' = Tail(guiEvents) /\ simEvents' = simEvents
      BY <2>4 DEF UpdateDiagnostics, DropEvent, DeletePresenter, DeleteWindow, TakeGuiEvent,
                  simulationVars
    <3>2. QED
      BY <1>9, <2>1, <3>1
  <2>5. CASE UpdateRendering
    BY <1>9, <2>1, <2>5 DEF UpdateRendering, simulationVars
  <2>6. CASE DestroyRunner
    <3>1. PICK first \in EventKinds \X Snapshots, second \in EventKinds \X Snapshots :
            first = Op("delete-presenter", None) /\ second = Op("delete-window", None)
      BY PostedEvents DEF EventKinds
    <3>2. ~Announces(first) /\ ~Announces(second)
      BY <3>1 DEF Announces, Op
    <3>3. guiEvents' = Append(Append(guiEvents, first), second)
      BY <1>1, <2>6, <3>1, TwoAppended DEF DestroyRunner
    <3>4. Append(guiEvents, first) \in Seq(EventKinds \X Snapshots)
      BY <1>1, AppendFacts
    <3>5. /\ OneAnnounced(guiEvents') 
          /\ NoneAnnounced(guiEvents') <=> NoneAnnounced(guiEvents)
      BY <1>1, <3>2, <3>3, <3>4, AnnouncedAppend DEF PhaseInv
    <3>6. simEvents' = simEvents
      BY <2>6 DEF DestroyRunner, simulationVars
    <3>7. QED
      BY <2>1, <3>5, <3>6 DEF PhaseInv
  <2>7. CASE DestructorStep
    <3>1. guiEvents' = guiEvents /\ simEvents' = simEvents
      BY <2>7 DEF DestructorStep, StopWorker, JoinThread, FreeRunner, FreePresenter, simulationVars
    <3>2. QED
      BY <1>9, <2>1, <3>1
  <2>8. QED
    BY <1>10, <2>2, <2>3, <2>4, <2>5, <2>6, <2>7 DEF OthersStep, HandleGuiEvent
<1>11. CASE UNCHANGED pipelineVars
  BY <1>11 DEF pipelineVars, simulationVars, guiVars, PhaseInv
<1>12. QED
  BY <1>4, <1>5, <1>6, <1>7, <1>8, <1>10, <1>11, StepKinds

\* Once the simulation has been told to stop, no other iteration begins.
LEMMA StepFrozen ==
  ASSUME PipelineTypeOK, PhaseInv, [PipelineNext]_pipelineVars, stopRequested
  PROVE  step' = step
<1>1. CASE StartGeneration \/ StartInitialization \/ EndSimulation \/ FinishThread
  BY <1>1 DEF StartGeneration, StartInitialization, EndSimulation, FinishThread
<1>2. CASE RunSimulation
  BY <1>2 DEF RunSimulation, TakeSimEvent, PhaseInv
<1>3. CASE BeginIteration
  BY <1>3 DEF BeginIteration, ContinueLoop
<1>4. ASSUME NEW op, MakesCall(op)
      PROVE  step' = step
  BY <1>4, CallOfIteration
<1>5. CASE OthersStep
  BY <1>5, OthersLeaveSimulation
<1>6. CASE UNCHANGED pipelineVars
  BY <1>6 DEF pipelineVars, simulationVars
<1>7. QED
  BY <1>1, <1>2, <1>3, <1>4, <1>5, <1>6, StepKinds

-----------------------------------------------------------------------------
(* The destructors.                                                        *)

LEMMA GuiCallIsMade ==
  ASSUME GuiInv, NEW op, GuiPerforms(op)
  PROVE  /\ guiTodo # <<>> /\ InCodeOrder(guiTodo', 11, 23)
         /\ \A o : GuiPending(o) <=> (o = op \/ GuiPending(o)')
         /\ ~GuiPending(op)'
         /\ \A o : GuiPending(o)' => Rank(op) < Rank(o)
<1>1. guiTodo # <<>> /\ Head(guiTodo) = op /\ guiTodo' = Tail(guiTodo)
  BY DEF GuiPerforms, Next1
<1>2. /\ InCodeOrder(Tail(guiTodo), 11, 23)
      /\ Elements(guiTodo) = {op} \cup Elements(Tail(guiTodo))
      /\ \A o \in Elements(Tail(guiTodo)) : Rank(op) < Rank(o)
      /\ op \notin Elements(Tail(guiTodo))
  BY <1>1, CodeOrderTail DEF GuiInv
<1>3. \A o : GuiPending(o)' <=> o \in Elements(Tail(guiTodo))
  BY <1>1 DEF GuiPending, Elements
<1>4. \A o : GuiPending(o) <=> o \in Elements(guiTodo)
  BY DEF GuiPending
<1>5. QED
  BY <1>1, <1>2, <1>3, <1>4

LEMMA GuiInvInit ==
  ASSUME PipelineInit
  PROVE  GuiInv
<1>1. InCodeOrder(guiTodo, 11, 23) /\ Elements(guiTodo) = {} /\ guiTodo = <<>>
  BY NoCalls DEF PipelineInit
<1>2. Elements(guiEvents) = {}
  BY DEF PipelineInit, Elements
<1>3. \A c \in Kinds : Elements(queue[c]) = {}
  BY DEF PipelineInit, Elements, Channels
<1>4. QED
  BY <1>1, <1>2, <1>3 DEF PipelineInit, GuiInv, GuiPending

\* The events that are posted and taken do not announce the presenter's end
\* before the simulation was told to stop.
StopsFirst(events) == \A e \in Elements(events) : e[1] = "delete-presenter" => stopRequested

LEMMA EventsStopFirst ==
  ASSUME PipelineTypeOK, GuiInv
  PROVE  /\ StopsFirst(guiEvents)
         /\ guiEvents # <<>> => StopsFirst(Tail(guiEvents)) /\ Head(guiEvents) \in Elements(guiEvents)
         /\ \A event \in EventKinds \X Snapshots :
              event[1] # "delete-presenter" => StopsFirst(Append(guiEvents, event))
<1>1. guiEvents \in Seq(EventKinds \X Snapshots)
  BY DEF PipelineTypeOK, AreEvents
<1>2. guiEvents # <<>> => Elements(guiEvents) = {Head(guiEvents)} \cup Elements(Tail(guiEvents))
  BY <1>1, TailFacts
<1>3. \A event \in EventKinds \X Snapshots :
        Elements(Append(guiEvents, event)) = Elements(guiEvents) \cup {event}
  BY <1>1, AppendFacts
<1>4. QED
  BY <1>2, <1>3 DEF GuiInv, StopsFirst

\* While the GUI thread's own state stays, sentinels only pass.
LEMMA GuiInvKept ==
  ASSUME GuiInv, UNCHANGED <<config, guiTodo, runner, stopRequested>>,
         StopsFirst(guiEvents'), stopped \subseteq stopped',
         \A c \in Kinds :
           /\ c \in stopped' => c \in stopped \/ None \in Elements(queue[c])
           /\ None \in Elements(queue'[c]) => None \in Elements(queue[c])
  PROVE  GuiInv'
<1>1. \A op : GuiPending(op)' <=> GuiPending(op)
  BY DEF GuiPending, Elements
<1>2. InCodeOrder(guiTodo', 11, 23)
  BY DEF GuiInv
<1>3. Saved' = Saved
  BY DEF Saved
<1>4. \A e \in Elements(guiEvents') : e[1] = "delete-presenter" => stopRequested'
  BY DEF StopsFirst
<1>5. QED
  BY <1>1, <1>2, <1>3, <1>4 DEF GuiInv

LEMMA GuiInvStep ==
  ASSUME PipelineTypeOK, SimTodoInv, GuiInv, [PipelineNext]_pipelineVars
  PROVE  GuiInv'
<1>1. /\ config \in Configurations /\ config' = config /\ Saved \subseteq Kinds /\ Saved' = Saved
      /\ None \notin Int /\ Steps \subseteq Nat
  BY ConfigFacts, StepKinds DEF PipelineTypeOK, Saved
<1>2. StopsFirst(guiEvents)
  BY EventsStopFirst
<1>3. /\ \A c \in Channels : queue[c] \in Seq(Snapshots)
      /\ queue \in [Channels -> Seq(Snapshots)] /\ Kinds \subseteq Channels
  BY DEF PipelineTypeOK, Channels
<1>4. CASE StartGeneration \/ StartInitialization
  <2>1. \/ guiEvents' = guiEvents
        \/ \E kind \in {"generated", "initialized"} : guiEvents' = Append(guiEvents, Op(kind, None))
    BY <1>4 DEF StartGeneration, StartInitialization, Post
  <2>2. ASSUME NEW kind \in {"generated", "initialized"}
        PROVE  StopsFirst(Append(guiEvents, Op(kind, None)))
    <3>1. PICK event \in EventKinds \X Snapshots : event = Op(kind, None) /\ event[1] = kind
      BY PostedEvents DEF EventKinds
    <3>2. QED
      BY <3>1, EventsStopFirst
  <2>3. StopsFirst(guiEvents')
    BY <1>2, <2>1, <2>2
  <2>4. UNCHANGED <<guiTodo, runner, stopRequested, stopped, queue>>
    BY <1>4 DEF StartGeneration, StartInitialization, channelVars
  <2>5. QED
    BY <1>1, <2>3, <2>4, GuiInvKept
<1>5. CASE RunSimulation \/ BeginIteration \/ EndSimulation \/ FinishThread
  <2>1. UNCHANGED <<guiTodo, runner, stopRequested, stopped, queue, guiEvents>>
    BY <1>5 DEF RunSimulation, BeginIteration, EndSimulation, FinishThread, channelVars, guiVars
  <2>2. QED
    BY <1>1, <1>2, <2>1, GuiInvKept
<1>6. ASSUME NEW op, MakesCall(op)
      PROVE  GuiInv'
  <2>1. UNCHANGED <<guiTodo, runner, stopRequested, guiEvents>> /\ step \in Steps
    <3>1. Perform(op) /\ UNCHANGED guiVars
      BY <1>6, CallOfIteration
    <3>2. QED
      BY <3>1, CallIsMade DEF SimTodoInv, guiVars
  <2>2. /\ stopped' = stopped
        /\ \/ queue' = queue
           \/ \E channel \in Channels :
                queue' = [queue EXCEPT ![channel] = Append(@, step)]
    BY <1>6 DEF MakesCall, AcquireData, AcquireSnapshot, StepSimulator, SetRenderingSnapshot,
                PushSnapshot, channelVars
  <2>3. ASSUME NEW channel \in Channels, queue' = [queue EXCEPT ![channel] = Append(@, step)],
               NEW c \in Kinds, None \in Elements(queue'[c])
        PROVE  None \in Elements(queue[c])
    <3>1. CASE c = channel
      <4>1. Elements(queue'[c]) = Elements(queue[c]) \cup {step}
        <5>1. queue'[c] = Append(queue[c], step) /\ step \in Snapshots
          BY <1>3, <2>1, <2>3, <3>1 DEF Snapshots
        <5>2. QED
          BY <1>3, <5>1, AppendFacts
      <4>2. step # None
        BY <1>1, <2>1
      <4>3. QED
        BY <2>3, <4>1, <4>2
    <3>2. CASE c # channel
      BY <1>3, <2>3, <3>2
    <3>3. QED
      BY <3>1, <3>2
  <2>4. QED
    BY <1>1, <1>2, <2>1, <2>2, <2>3, GuiInvKept
<1>7. ASSUME NEW channel \in Channels, WorkerStep(channel)
      PROVE  GuiInv'
  <2>1. UNCHANGED <<guiTodo, runner, stopRequested>>
    BY <1>7 DEF WorkerStep, Pop, WriteSnapshot, PostToChart, guiVars
  <2>2. CASE Pop(channel)
    <3>1. guiEvents' = guiEvents
      BY <2>2 DEF Pop, guiVars
    <3>2. Elements(queue[channel]) = {Head(queue[channel])} \cup Elements(Tail(queue[channel]))
      BY <1>3, <2>2, TailFacts DEF Pop, CanPop
    <3>3. /\ queue'[channel] = Tail(queue[channel])
          /\ \A c \in Channels \ {channel} : queue'[c] = queue[c]
          /\ stopped' = IF Head(queue[channel]) = None THEN stopped \cup {channel} ELSE stopped
      BY <1>3, <2>2 DEF Pop
    <3>4. QED
      BY <1>1, <1>2, <1>3, <2>1, <3>1, <3>2, <3>3, GuiInvKept
  <2>3. CASE WriteSnapshot(channel)
    <3>1. UNCHANGED <<queue, stopped, guiEvents>>
      BY <2>3 DEF WriteSnapshot, guiVars
    <3>2. QED
      BY <1>1, <1>2, <2>1, <3>1, GuiInvKept
  <2>4. CASE PostToChart
    <3>1. hand["chart"] \in Steps
      BY <2>4 DEF PostToChart, PipelineTypeOK, Snapshots, Channels
    <3>2. PICK event \in EventKinds \X Snapshots :
            event = Op("plot", hand["chart"]) /\ event[1] = "plot"
      BY <3>1, PostedEvents
    <3>3. StopsFirst(guiEvents') /\ UNCHANGED <<queue, stopped>>
      BY <2>4, <3>2, EventsStopFirst DEF PostToChart, Post
    <3>4. QED
      BY <1>1, <2>1, <3>3, GuiInvKept
  <2>5. QED
    BY <1>7, <2>2, <2>3, <2>4 DEF WorkerStep
<1>8. CASE HandleGuiEvent
  <2>1. /\ guiTodo = <<>> /\ guiEvents # <<>> /\ guiEvents' = Tail(guiEvents)
        /\ UNCHANGED <<queue, stopped, runner, stopRequested>>
    BY <1>8 DEF HandleGuiEvent, ReceivedGenerationCompleted, ReceivedInitializationCompleted,
                UpdateDiagnostics, DropEvent, DeletePresenter, DeleteWindow, TakeGuiEvent,
                channelVars
  <2>2. StopsFirst(guiEvents')
    BY <2>1, EventsStopFirst
  <2>3. CASE DeletePresenter
    <3>1. Head(guiEvents) \in Elements(guiEvents) /\ Head(guiEvents)[1] = "delete-presenter"
      BY <2>1, <2>3, EventsStopFirst DEF DeletePresenter, TakeGuiEvent
    <3>2. stopRequested
      BY <3>1 DEF GuiInv
    <3>3. \A o : ~GuiPending(o)
      BY <2>1 DEF GuiPending, Elements
    <3>4. runner # "destroying"
      BY <3>3 DEF GuiInv
    <3>5. /\ guiTodo' = <<Op("stop", "chart"), Op("join", "chart"), Op("free", "presenter")>>
          /\ DOMAIN guiTodo' = {1, 2, 3} /\ guiTodo' \in Seq(Calls)
          /\ guiTodo'[1] = Op("stop", "chart") /\ guiTodo'[2] = Op("join", "chart")
          /\ guiTodo'[3] = Op("free", "presenter")
      BY <2>3 DEF DeletePresenter, Op, Calls, Verbs, Objects
    <3>6. InCodeOrder(guiTodo', 11, 23)
      BY <3>5, RankValues DEF InCodeOrder
    <3>7. \A c \in Kinds : ~GuiPending(Op("stop", c))'
      BY <3>5 DEF GuiPending, Elements, Op, Kinds
    <3>8. QED
      BY <1>1, <2>1, <2>2, <3>2, <3>4, <3>6, <3>7 DEF GuiInv, StopsFirst
  <2>4. CASE ~DeletePresenter
    <3>1. guiTodo' = guiTodo
      BY <1>8, <2>4 DEF HandleGuiEvent, ReceivedGenerationCompleted,
              ReceivedInitializationCompleted, UpdateDiagnostics, DropEvent, DeleteWindow
    <3>2. QED
      BY <1>1, <2>1, <2>2, <3>1, GuiInvKept
  <2>5. QED
    BY <2>3, <2>4
<1>9. CASE UpdateRendering
  <2>1. UNCHANGED <<guiTodo, runner, stopRequested, queue, stopped, guiEvents>>
    BY <1>9 DEF UpdateRendering
  <2>2. QED
    BY <1>1, <1>2, <2>1, GuiInvKept
<1>10. CASE DestroyRunner
  <2>1. /\ ~stopRequested /\ stopRequested' /\ runner' = "destroying" /\ guiTodo' = Destructor
        /\ UNCHANGED <<queue, stopped>>
    BY <1>10 DEF DestroyRunner, GuiInv, channelVars
  <2>2. /\ InCodeOrder(guiTodo', 11, 23)
        /\ GuiPending(Op("free", "runner"))' /\ \A c \in Saved : GuiPending(Op("join", c))'
    <3>1. \A o : GuiPending(o)' <=> o \in Elements(Destructor)
      BY <2>1 DEF GuiPending, Elements
    <3>2. QED
      BY <1>1, <2>1, <3>1, DestructorCalls
  <2>3. \A c \in Kinds : None \notin Elements(queue[c]) /\ c \notin stopped
    BY <2>1 DEF GuiInv
  <2>4. QED
    BY <1>1, <2>1, <2>2, <2>3 DEF GuiInv
<1>11. ASSUME NEW op, GuiPerforms(op), UNCHANGED <<stopRequested, guiEvents, stopped>>,
              op # Op("free", "runner") => runner' = runner,
              \A c \in Channels : op = Op("join", c) => c \in stopped,
              \A c \in Kinds :
                None \in Elements(queue'[c]) => None \in Elements(queue[c]) \/ op = Op("stop", c),
              op = Op("free", "runner") => runner' = "gone"
       PROVE  GuiInv'
  <2>1. /\ guiTodo # <<>> /\ InCodeOrder(guiTodo', 11, 23)
        /\ \A o : GuiPending(o) <=> (o = op \/ GuiPending(o)')
        /\ ~GuiPending(op)'
        /\ \A o : GuiPending(o)' => Rank(op) < Rank(o)
    BY <1>11, GuiCallIsMade
  <2>2. stopRequested /\ runner # "alive"
    BY <2>1 DEF GuiInv
  <2>3. \A e \in Elements(guiEvents') : e[1] = "delete-presenter" => stopRequested'
    BY <1>2, <1>11, <2>2
  <2>4. \A c \in Kinds :
          /\ GuiPending(Op("stop", c))' => None \notin Elements(queue'[c]) /\ c \notin stopped'
          /\ c \in stopped' \/ None \in Elements(queue'[c]) => stopRequested'
    BY <1>11, <2>1, <2>2 DEF GuiInv
  <2>5. CASE op = Op("free", "runner")
    <3>1. \A c \in Kinds : ~GuiPending(Op("join", c))' /\ Op("join", c) # op
      BY <2>1, <2>5, RankValues DEF Kinds
    <3>2. Saved \subseteq stopped
      BY <1>1, <2>1, <2>2, <3>1 DEF GuiInv, PipelineTypeOK
    <3>3. QED
      BY <1>1, <1>11, <2>1, <2>2, <2>3, <2>4, <2>5, <3>2 DEF GuiInv
  <2>6. CASE op # Op("free", "runner")
    <3>1. runner' = runner
      BY <1>11, <2>6
    <3>2. runner = "destroying" =>
            /\ GuiPending(Op("free", "runner"))'
            /\ \A c \in Saved : c \in stopped' \/ GuiPending(Op("join", c))'
      BY <1>1, <1>3, <1>11, <2>1, <2>6 DEF GuiInv
    <3>3. QED
      BY <1>1, <1>11, <2>1, <2>2, <2>3, <2>4, <3>1, <3>2 DEF GuiInv
  <2>7. QED
    BY <2>5, <2>6
<1>12. CASE DestructorStep
  <2>1. ASSUME NEW channel \in Channels, StopWorker(channel)
        PROVE  GuiInv'
    <3>1. PICK op : op = Op("stop", channel)
      OBVIOUS
    <3>2. /\ GuiPerforms(op) /\ UNCHANGED <<stopRequested, guiEvents, stopped, runner>>
          /\ queue' = [queue EXCEPT ![channel] = Append(@, None)]
      BY <2>1, <3>1 DEF StopWorker
    <3>3. op # Op("free", "runner") /\ \A c : op # Op("join", c)
      BY <3>1 DEF Op
    <3>4. \A c \in Kinds : c # channel => queue'[c] = queue[c]
      BY <1>3, <3>2
    <3>5. QED
      BY <1>11, <3>1, <3>2, <3>3, <3>4
  <2>2. ASSUME NEW thread \in Channels \cup {"simulation"}, JoinThread(thread)
        PROVE  GuiInv'
    <3>1. PICK op : op = Op("join", thread)
      OBVIOUS
    <3>2. /\ GuiPerforms(op) /\ UNCHANGED <<stopRequested, guiEvents, stopped, runner, queue>>
          /\ thread # "simulation" => thread \in stopped
      BY <2>2, <3>1 DEF JoinThread, channelVars
    <3>3. op # Op("free", "runner") /\ \A c \in Channels : op = Op("join", c) => c \in stopped
      BY <3>1, <3>2 DEF Op, Channels, Kinds
    <3>4. QED
      BY <1>11, <3>2, <3>3
  <2>3. CASE FreeRunner
    <3>1. PICK op : op = Op("free", "runner")
      OBVIOUS
    <3>2. /\ GuiPerforms(op) /\ UNCHANGED <<stopRequested, guiEvents, stopped, queue>>
          /\ runner' = "gone"
      BY <2>3, <3>1 DEF FreeRunner, channelVars
    <3>3. \A c : op # Op("join", c)
      BY <3>1 DEF Op
    <3>4. QED
      BY <1>11, <3>1, <3>2, <3>3
  <2>4. CASE FreePresenter
    <3>1. PICK op : op = Op("free", "presenter")
      OBVIOUS
    <3>2. /\ GuiPerforms(op) /\ UNCHANGED <<stopRequested, guiEvents, stopped, runner>>
          /\ queue' = [queue EXCEPT !["chart"] = <<>>]
      BY <2>4, <3>1 DEF FreePresenter
    <3>3. op # Op("free", "runner") /\ \A c : op # Op("join", c)
      BY <3>1 DEF Op
    <3>4. \A c \in Kinds : queue'[c] = queue[c]
      BY <1>3, <3>2 DEF Kinds
    <3>5. QED
      BY <1>11, <3>2, <3>3, <3>4
  <2>5. QED
    BY <1>12, <2>1, <2>2, <2>3, <2>4 DEF DestructorStep
<1>13. CASE UNCHANGED pipelineVars
  <2>1. UNCHANGED <<guiTodo, runner, stopRequested, queue, stopped, guiEvents>>
    BY <1>13 DEF pipelineVars, channelVars, guiVars
  <2>2. QED
    BY <1>1, <1>2, <2>1, GuiInvKept
<1>14. QED
  BY <1>4, <1>5, <1>6, <1>7, <1>8, <1>9, <1>10, <1>12, <1>13, StepKinds DEF OthersStep

-----------------------------------------------------------------------------
(* Sentinels.                                                              *)

LEMMA SentinelInvInit ==
  ASSUME PipelineInit
  PROVE  SentinelInv
<1>1. \A c \in Kinds : DOMAIN queue[c] = {}
  BY DEF PipelineInit, Channels
<1>2. QED
  BY <1>1 DEF PipelineInit, SentinelInv, SentinelOf

\* The queue of a file as it is.
LEMMA SentinelKept ==
  ASSUME PipelineTypeOK, PhaseInv, GuiInv, SentinelInv, [PipelineNext]_pipelineVars,
         NEW c \in Kinds, queue'[c] = queue[c], hand'[c] \in {hand[c], None},
         c \in stopped' <=> c \in stopped
  PROVE  SentinelOf(c)'
<1>1. stopRequested => step' = step
  BY StepFrozen
<1>2. c \in stopped \/ None \in Elements(queue[c]) => stopRequested
  BY DEF GuiInv
<1>3. ASSUME NEW i \in DOMAIN queue[c], NEW j \in DOMAIN queue[c], i < j, queue[c][i] = None
      PROVE  queue[c][j] = step'
  <2>1. None \in Elements(queue[c])
    BY <1>3 DEF Elements
  <2>2. QED
    BY <1>1, <1>2, <1>3, <2>1 DEF SentinelInv, SentinelOf
<1>4. c \in stopped => hand'[c] = None /\ \A i \in DOMAIN queue[c] : queue[c][i] = step'
  BY <1>1, <1>2 DEF SentinelInv, SentinelOf
<1>5. QED
  BY <1>3, <1>4 DEF SentinelOf

LEMMA SentinelInvStep ==
  ASSUME PipelineTypeOK, SimTodoInv, PhaseInv, GuiInv, SentinelInv, [PipelineNext]_pipelineVars
  PROVE  SentinelInv'
<1>1. /\ queue \in [Channels -> Seq(Snapshots)] /\ hand \in [Channels -> Snapshots]
      /\ Kinds \subseteq Channels /\ None \in Snapshots
  BY DEF PipelineTypeOK, Channels, Snapshots
<1>2. ASSUME UNCHANGED <<queue, stopped>>, \A c \in Kinds : hand'[c] \in {hand[c], None}
      PROVE  SentinelInv'
  BY <1>2, SentinelKept DEF SentinelInv
<1>3. CASE StartGeneration \/ StartInitialization \/ RunSimulation \/ BeginIteration
             \/ EndSimulation \/ FinishThread
  <2>1. UNCHANGED <<queue, stopped, hand>>
    BY <1>3 DEF StartGeneration, StartInitialization, RunSimulation, BeginIteration,
                EndSimulation, FinishThread, channelVars
  <2>2. QED
    BY <1>2, <2>1
<1>4. ASSUME NEW op, MakesCall(op)
      PROVE  SentinelInv'
  <2>1. /\ UNCHANGED <<hand, stopped>>
        /\ \/ queue' = queue
           \/ \E channel \in Channels : queue' = [queue EXCEPT ![channel] = Append(@, step)]
    BY <1>4 DEF MakesCall, AcquireData, AcquireSnapshot, StepSimulator, SetRenderingSnapshot,
                PushSnapshot, channelVars
  <2>2. step \in Snapshots /\ step' = step
    <3>1. Perform(op) /\ step' = step
      BY <1>4, CallOfIteration
    <3>2. QED
      BY <3>1, CallIsMade DEF SimTodoInv, Snapshots
  <2>3. ASSUME NEW channel \in Channels, queue' = [queue EXCEPT ![channel] = Append(@, step)],
               NEW c \in Kinds
        PROVE  SentinelOf(c)'
    <3>1. CASE c # channel
      <4>1. queue'[c] = queue[c] /\ hand'[c] = hand[c] /\ stopped' = stopped
        BY <1>1, <2>1, <2>3, <3>1
      <4>2. QED
        BY <4>1, SentinelKept
    <3>2. CASE c = channel
      <4>1. queue'[c] = Append(queue[c], step) /\ queue[c] \in Seq(Snapshots)
        BY <1>1, <2>3, <3>2
      <4>2. /\ DOMAIN queue[c] = 1 .. Len(queue[c]) /\ Len(queue[c]) \in Nat
            /\ DOMAIN queue'[c] = 1 .. Len(queue[c]) + 1
            /\ \A i \in 1 .. Len(queue[c]) : queue'[c][i] = queue[c][i]
            /\ queue'[c][Len(queue[c]) + 1] = step
        BY <2>2, <4>1, AppendFacts
      <4>3. SentinelOf(c)
        BY DEF SentinelInv
      <4>4. ASSUME NEW i \in DOMAIN queue'[c], NEW j \in DOMAIN queue'[c], i < j,
                   queue'[c][i] = None
            PROVE  queue'[c][j] = step
        <5>1. CASE j = Len(queue[c]) + 1
          BY <4>2, <5>1
        <5>2. CASE j \in DOMAIN queue[c]
          <6>1. i \in DOMAIN queue[c]
            BY <4>2, <4>4, <5>2
          <6>2. QED
            BY <4>2, <4>3, <4>4, <5>2, <6>1 DEF SentinelOf
        <5>3. QED
          BY <4>2, <5>1, <5>2
      <4>5. c \in stopped => hand[c] = None /\ \A i \in DOMAIN queue'[c] : queue'[c][i] = step
        BY <4>2, <4>3 DEF SentinelOf
      <4>6. QED
        BY <2>1, <2>2, <4>4, <4>5 DEF SentinelOf
    <3>3. QED
      BY <3>1, <3>2
  <2>4. QED
    BY <1>2, <2>1, <2>3 DEF SentinelInv
<1>5. ASSUME NEW channel \in Channels, WorkerStep(channel)
      PROVE  SentinelInv'
  <2>1. CASE Pop(channel)
    <3>1. /\ channel \notin stopped /\ queue[channel] # <<>>
          /\ queue'[channel] = Tail(queue[channel])
          /\ hand'[channel] = Head(queue[channel])
          /\ \A c \in Channels \ {channel} : queue'[c] = queue[c] /\ hand'[c] = hand[c]
          /\ stopped' = IF Head(queue[channel]) = None THEN stopped \cup {channel} ELSE stopped
          /\ step' = step
      BY <1>1, <2>1 DEF Pop, CanPop, simulationVars
    <3>2. ASSUME NEW c \in Kinds, c # channel
          PROVE  SentinelOf(c)'
      <4>1. queue'[c] = queue[c] /\ hand'[c] = hand[c] /\ (c \in stopped' <=> c \in stopped)
        BY <1>1, <3>1, <3>2
      <4>2. QED
        BY <4>1, SentinelKept
    <3>3. ASSUME channel \in Kinds
          PROVE  SentinelOf(channel)'
      <4>1. /\ DOMAIN queue[channel] = 1 .. Len(queue[channel]) /\ Len(queue[channel]) \in Nat \ {0}
            /\ Head(queue[channel]) = queue[channel][1]
            /\ DOMAIN queue'[channel] = 1 .. Len(queue[channel]) - 1
            /\ \A i \in DOMAIN queue'[channel] :
                 i + 1 \in DOMAIN queue[channel] /\ queue'[channel][i] = queue[channel][i + 1]
        BY <1>1, <3>1, TailFacts
      <4>2. \A i, j \in DOMAIN queue[channel] :
              i < j /\ queue[channel][i] = None => queue[channel][j] = step
        BY <3>3 DEF SentinelInv, SentinelOf
      <4>3. ASSUME NEW i \in DOMAIN queue'[channel], NEW j \in DOMAIN queue'[channel], i < j,
                   queue'[channel][i] = None
            PROVE  queue'[channel][j] = step
        <5>1. i + 1 < j + 1
          BY <4>1, <4>3
        <5>2. QED
          BY <4>1, <4>2, <4>3, <5>1
      <4>4. ASSUME Head(queue[channel]) = None, NEW i \in DOMAIN queue'[channel]
            PROVE  queue'[channel][i] = step
        <5>1. 1 \in DOMAIN queue[channel] /\ 1 < i + 1
          BY <4>1, <4>4
        <5>2. QED
          BY <4>1, <4>2, <4>4, <5>1
      <4>5. QED
        BY <3>1, <4>3, <4>4 DEF SentinelOf
    <3>4. QED
      BY <3>2, <3>3 DEF SentinelInv
  <2>2. CASE WriteSnapshot(channel)
    <3>1. UNCHANGED <<queue, stopped>> /\ \A c \in Kinds : hand'[c] \in {hand[c], None}
      BY <1>1, <2>2 DEF WriteSnapshot
    <3>2. QED
      BY <1>2, <3>1
  <2>3. CASE PostToChart
    <3>1. UNCHANGED <<queue, stopped>> /\ \A c \in Kinds : hand'[c] \in {hand[c], None}
      BY <1>1, <2>3 DEF PostToChart
    <3>2. QED
      BY <1>2, <3>1
  <2>4. QED
    BY <1>5, <2>1, <2>2, <2>3 DEF WorkerStep
<1>6. CASE HandleGuiEvent \/ UpdateRendering \/ DestroyRunner
  <2>1. UNCHANGED <<queue, stopped, hand>>
    BY <1>6 DEF HandleGuiEvent, ReceivedGenerationCompleted, ReceivedInitializationCompleted,
                UpdateDiagnostics, DropEvent, DeletePresenter, DeleteWindow, UpdateRendering,
                DestroyRunner, channelVars
  <2>2. QED
    BY <1>2, <2>1
<1>7. CASE DestructorStep
  <2>1. ASSUME NEW channel \in Channels, StopWorker(channel)
        PROVE  SentinelInv'
    <3>1. /\ queue' = [queue EXCEPT ![channel] = Append(@, None)] /\ UNCHANGED <<hand, stopped>>
          /\ GuiPending(Op("stop", channel))
      BY <2>1, GuiCallIsMade DEF StopWorker
    <3>2. ASSUME NEW c \in Kinds, c # channel
          PROVE  SentinelOf(c)'
      <4>1. queue'[c] = queue[c] /\ hand'[c] = hand[c] /\ stopped' = stopped
        BY <1>1, <3>1, <3>2
      <4>2. QED
        BY <4>1, SentinelKept
    <3>3. ASSUME channel \in Kinds
          PROVE  SentinelOf(channel)'
      <4>1. queue'[channel] = Append(queue[channel], None) /\ queue[channel] \in Seq(Snapshots)
        BY <1>1, <3>1
      <4>2. /\ DOMAIN queue[channel] = 1 .. Len(queue[channel]) /\ Len(queue[channel]) \in Nat
            /\ DOMAIN queue'[channel] = 1 .. Len(queue[channel]) + 1
            /\ \A i \in 1 .. Len(queue[channel]) : queue'[channel][i] = queue[channel][i]
        BY <1>1, <4>1, AppendFacts
      <4>3. None \notin Elements(queue[channel]) /\ channel \notin stopped
        BY <3>1, <3>3 DEF GuiInv
      <4>4. \A i \in DOMAIN queue[channel] : queue'[channel][i] # None
        BY <4>2, <4>3 DEF Elements
      <4>5. \A i, j \in DOMAIN queue'[channel] :
              i < j => i \in DOMAIN queue[channel]
        BY <4>2
      <4>6. QED
        BY <3>1, <4>3, <4>4, <4>5 DEF SentinelOf
    <3>4. QED
      BY <3>2, <3>3 DEF SentinelInv
  <2>2. ASSUME NEW thread, JoinThread(thread) \/ FreeRunner
        PROVE  SentinelInv'
    <3>1. UNCHANGED <<queue, stopped, hand>>
      BY <2>2 DEF JoinThread, FreeRunner, channelVars
    <3>2. QED
      BY <1>2, <3>1
  <2>3. CASE FreePresenter
    <3>1. UNCHANGED <<hand, stopped>> /\ \A c \in Kinds : queue'[c] = queue[c]
      BY <1>1, <2>3 DEF FreePresenter, Kinds
    <3>2. QED
      BY <3>1, SentinelKept DEF SentinelInv
  <2>4. QED
    BY <1>7, <2>1, <2>2, <2>3 DEF DestructorStep
<1>8. CASE UNCHANGED pipelineVars
  <2>1. UNCHANGED <<queue, stopped, hand>>
    BY <1>8 DEF pipelineVars, channelVars
  <2>2. QED
    BY <1>2, <2>1
<1>9. QED
  BY <1>3, <1>4, <1>5, <1>6, <1>7, <1>8, StepKinds DEF OthersStep

-----------------------------------------------------------------------------
(* Paths.                                                                  *)

LEMMA AscendingAppend ==
  ASSUME NEW S, NEW s \in Seq(S), NEW x \in S, Ascending(s), Before(Elements(s), {x})
  PROVE  Ascending(Append(s, x)) /\ Elements(Append(s, x)) = Elements(s) \cup {x}
<1>1. /\ DOMAIN s = 1 .. Len(s) /\ Len(s) \in Nat
      /\ DOMAIN Append(s, x) = 1 .. Len(s) + 1
      /\ \A i \in 1 .. Len(s) : Append(s, x)[i] = s[i]
      /\ Append(s, x)[Len(s) + 1] = x
      /\ Elements(Append(s, x)) = Elements(s) \cup {x}
  BY AppendFacts
<1>2. ASSUME NEW i \in DOMAIN Append(s, x), NEW j \in DOMAIN Append(s, x), i < j,
             Append(s, x)[i] # None, Append(s, x)[j] # None
      PROVE  Append(s, x)[i] < Append(s, x)[j]
  <2>1. i \in DOMAIN s /\ Append(s, x)[i] = s[i] /\ s[i] \in Elements(s)
    BY <1>1, <1>2 DEF Elements
  <2>2. CASE j = Len(s) + 1
    BY <1>1, <1>2, <2>1, <2>2 DEF Before
  <2>3. CASE j \in DOMAIN s
    BY <1>1, <1>2, <2>1, <2>3 DEF Ascending
  <2>4. QED
    BY <1>1, <2>2, <2>3
<1>3. QED
  BY <1>1, <1>2 DEF Ascending

LEMMA AscendingTail ==
  ASSUME NEW S, NEW s \in Seq(S), s # <<>>, Ascending(s)
  PROVE  /\ Ascending(Tail(s)) /\ Before({Head(s)}, Elements(Tail(s)))
         /\ Elements(s) = {Head(s)} \cup Elements(Tail(s))
<1>1. /\ Len(s) \in Nat \ {0} /\ DOMAIN s = 1 .. Len(s)
      /\ Head(s) = s[1]
      /\ DOMAIN Tail(s) = 1 .. Len(s) - 1
      /\ \A i \in DOMAIN Tail(s) : i + 1 \in DOMAIN s /\ Tail(s)[i] = s[i + 1]
      /\ Elements(s) = {Head(s)} \cup Elements(Tail(s))
  BY TailFacts
<1>2. \A i, j \in DOMAIN s : i < j /\ s[i] # None /\ s[j] # None => s[i] < s[j]
  BY DEF Ascending
<1>3. ASSUME NEW i \in DOMAIN Tail(s), NEW j \in DOMAIN Tail(s), i < j,
             Tail(s)[i] # None, Tail(s)[j] # None
      PROVE  Tail(s)[i] < Tail(s)[j]
  <2>1. i + 1 < j + 1
    BY <1>1, <1>3
  <2>2. QED
    BY <1>1, <1>2, <1>3, <2>1
<1>4. ASSUME NEW i \in DOMAIN Tail(s), Head(s) # None, Tail(s)[i] # None
      PROVE  Head(s) < Tail(s)[i]
  <2>1. 1 \in DOMAIN s /\ 1 < i + 1
    BY <1>1
  <2>2. QED
    BY <1>1, <1>2, <1>4, <2>1
<1>5. QED
  BY <1>1, <1>3, <1>4 DEF Ascending, Before, Elements

LEMMA AscendingConcat ==
  ASSUME NEW S, NEW s \in Seq(S), NEW t \in Seq(S), Ascending(s), Ascending(t),
         Before(Elements(s), Elements(t))
  PROVE  Ascending(s \o t) /\ Elements(s \o t) = Elements(s) \cup Elements(t)
<1>1. /\ Len(s) \in Nat /\ Len(t) \in Nat
      /\ DOMAIN s = 1 .. Len(s) /\ DOMAIN t = 1 .. Len(t)
      /\ DOMAIN (s \o t) = 1 .. Len(s) + Len(t)
      /\ \A i \in DOMAIN (s \o t) :
           (s \o t)[i] = IF i <= Len(s) THEN s[i] ELSE t[i - Len(s)]
      /\ Elements(s \o t) = Elements(s) \cup Elements(t)
  BY ConcatFacts
<1>2. ASSUME NEW i \in DOMAIN (s \o t)
      PROVE  /\ i <= Len(s) => i \in DOMAIN s /\ (s \o t)[i] = s[i]
             /\ ~(i <= Len(s)) => i - Len(s) \in DOMAIN t /\ (s \o t)[i] = t[i - Len(s)]
  BY <1>1
<1>3. ASSUME NEW i \in DOMAIN (s \o t), NEW j \in DOMAIN (s \o t), i < j,
             (s \o t)[i] # None, (s \o t)[j] # None
      PROVE  (s \o t)[i] < (s \o t)[j]
  <2>1. CASE j <= Len(s)
    <3>1. i <= Len(s)
      BY <1>1, <1>3, <2>1
    <3>2. QED
      BY <1>2, <1>3, <2>1, <3>1 DEF Ascending
  <2>2. CASE ~(j <= Len(s)) /\ i <= Len(s)
    <3>1. (s \o t)[i] \in Elements(s) /\ (s \o t)[j] \in Elements(t)
      BY <1>2, <2>2 DEF Elements
    <3>2. QED
      BY <1>3, <3>1 DEF Before
  <2>3. CASE ~(j <= Len(s)) /\ ~(i <= Len(s))
    <3>1. i - Len(s) < j - Len(s)
      BY <1>1, <1>3
    <3>2. QED
      BY <1>2, <1>3, <2>3, <3>1 DEF Ascending
  <2>4. QED
    BY <2>1, <2>2, <2>3
<1>4. QED
  BY <1>1, <1>3 DEF Ascending

\* A snapshot, or a sentinel, is queued.
LEMMA PathPush ==
  ASSUME NEW g \in Seq(Steps), NEW p \in Seq(Snapshots), NEW h \in Snapshots,
         NEW q \in Seq(Snapshots), InOrder(g, p, h, q), NEW x \in Snapshots,
         x # None => \A s \in AllOf(g, p, h, q) : s < x
  PROVE  /\ InOrder(g, p, h, Append(q, x))
         /\ AllOf(g, p, h, Append(q, x)) = AllOf(g, p, h, q) \cup ({x} \ {None})
<1>1. Before(Elements(q), {x}) /\ Before(Elements(g), {x}) /\ Before(Elements(p), {x})
      /\ Before({h}, {x})
  BY DEF Before, AllOf
<1>2. Ascending(Append(q, x)) /\ Elements(Append(q, x)) = Elements(q) \cup {x}
  BY <1>1, AscendingAppend DEF InOrder
<1>3. QED
  BY <1>1, <1>2 DEF InOrder, AllOf, Before

\* The worker takes the head of its queue.
LEMMA PathPop ==
  ASSUME NEW g \in Seq(Steps), NEW p \in Seq(Snapshots), NEW q \in Seq(Snapshots),
         q # <<>>, InOrder(g, p, None, q)
  PROVE  /\ InOrder(g, p, Head(q), Tail(q))
         /\ AllOf(g, p, Head(q), Tail(q)) = AllOf(g, p, None, q)
<1>1. /\ Ascending(Tail(q)) /\ Before({Head(q)}, Elements(Tail(q)))
      /\ Elements(q) = {Head(q)} \cup Elements(Tail(q))
  BY AscendingTail DEF InOrder
<1>2. QED
  BY <1>1 DEF InOrder, AllOf, Before

\* It writes the snapshot it holds.
LEMMA PathWrite ==
  ASSUME NEW g \in Seq(Steps), NEW p, NEW h \in Steps, NEW q, Elements(p) = {},
         InOrder(g, p, h, q), None \notin Steps
  PROVE  /\ InOrder(Append(g, h), p, None, q)
         /\ AllOf(Append(g, h), p, None, q) = AllOf(g, p, h, q)
<1>1. Ascending(Append(g, h)) /\ Elements(Append(g, h)) = Elements(g) \cup {h}
  BY AscendingAppend DEF InOrder
<1>2. QED
  BY <1>1 DEF InOrder, AllOf, Before

\* It posts the snapshot it holds.
LEMMA PathPost ==
  ASSUME NEW g, NEW p \in Seq(Snapshots), NEW h \in Snapshots, NEW q, InOrder(g, p, h, q)
  PROVE  /\ InOrder(g, Append(p, h), None, q)
         /\ AllOf(g, Append(p, h), None, q) = AllOf(g, p, h, q)
<1>1. Ascending(Append(p, h)) /\ Elements(Append(p, h)) = Elements(p) \cup {h}
  BY AscendingAppend DEF InOrder
<1>2. QED
  BY <1>1 DEF InOrder, AllOf, Before

\* Another event is posted.
LEMMA PathEvent ==
  ASSUME NEW g, NEW p \in Seq(Snapshots), NEW h, NEW q, InOrder(g, p, h, q), None \in Snapshots
  PROVE  /\ InOrder(g, Append(p, None), h, q)
         /\ AllOf(g, Append(p, None), h, q) = AllOf(g, p, h, q)
<1>1. Before(Elements(p), {None})
  BY DEF Before
<1>2. Ascending(Append(p, None)) /\ Elements(Append(p, None)) = Elements(p) \cup {None}
  BY <1>1, AscendingAppend DEF InOrder
<1>3. QED
  BY <1>2 DEF InOrder, AllOf, Before

\* The chart receives the first closure.
LEMMA PathPlot ==
  ASSUME NEW g \in Seq(Steps), NEW p \in Seq(Snapshots), NEW h, NEW q, InOrder(g, p, h, q),
         p # <<>>, Head(p) \in Steps, None \notin Steps
  PROVE  /\ InOrder(Append(g, Head(p)), Tail(p), h, q)
         /\ AllOf(Append(g, Head(p)), Tail(p), h, q) = AllOf(g, p, h, q)
<1>1. /\ Ascending(Tail(p)) /\ Before({Head(p)}, Elements(Tail(p)))
      /\ Elements(p) = {Head(p)} \cup Elements(Tail(p))
  BY AscendingTail DEF InOrder
<1>2. Before(Elements(g), {Head(p)})
  BY <1>1 DEF InOrder, Before
<1>3. /\ Ascending(Append(g, Head(p)))
      /\ Elements(Append(g, Head(p))) = Elements(g) \cup {Head(p)}
  BY <1>2, AscendingAppend DEF InOrder
<1>4. QED
  BY <1>1, <1>3 DEF InOrder, AllOf, Before

\* Another event is taken.
LEMMA PathOther ==
  ASSUME NEW g, NEW p \in Seq(Snapshots), NEW h, NEW q, InOrder(g, p, h, q),
         p # <<>>, Head(p) = None
  PROVE  /\ InOrder(g, Tail(p), h, q)
         /\ AllOf(g, Tail(p), h, q) = AllOf(g, p, h, q)
<1>1. Ascending(Tail(p)) /\ Elements(p) = {Head(p)} \cup Elements(Tail(p))
  BY AscendingTail DEF InOrder
<1>2. QED
  BY <1>1 DEF InOrder, AllOf, Before

\* The closures among the events are posted and taken with them.
LEMMA PlotsAppend ==
  ASSUME NEW events, AreEvents(events), NEW event \in EventKinds \X Snapshots,
         None \in Snapshots
  PROVE  /\ PlotsIn(events) \in Seq(Snapshots)
         /\ PlotsIn(Append(events, event))
              = Append(PlotsIn(events), IF event[1] = "plot" THEN event[2] ELSE None)
<1> DEFINE x == IF event[1] = "plot" THEN event[2] ELSE None
<1>1. events \in Seq(EventKinds \X Snapshots)
  BY DEF AreEvents
<1>2. /\ DOMAIN events = 1 .. Len(events) /\ Len(events) \in Nat
      /\ DOMAIN Append(events, event) = 1 .. Len(events) + 1
      /\ \A i \in 1 .. Len(events) : Append(events, event)[i] = events[i]
      /\ Append(events, event)[Len(events) + 1] = event
  BY <1>1, AppendFacts
<1>3. \A i \in DOMAIN events : events[i] \in EventKinds \X Snapshots
  BY <1>1, <1>2, ElementOfSeq
<1>4. \A i \in DOMAIN events : events[i][2] \in Snapshots
  BY <1>3
<1>5. PlotsIn(events) \in [1 .. Len(events) -> Snapshots]
  BY <1>2, <1>4 DEF PlotsIn
<1>6. PlotsIn(events) \in Seq(Snapshots) /\ Len(PlotsIn(events)) = Len(events)
  BY <1>2, <1>5
<1>7. x \in Snapshots
  OBVIOUS
<1> HIDE DEF x
<1>8. /\ DOMAIN Append(PlotsIn(events), x) = 1 .. Len(events) + 1
      /\ \A i \in 1 .. Len(events) : Append(PlotsIn(events), x)[i] = PlotsIn(events)[i]
      /\ Append(PlotsIn(events), x)[Len(events) + 1] = x
      /\ Append(PlotsIn(events), x) \in Seq(Snapshots)
      /\ Len(Append(PlotsIn(events), x)) = Len(events) + 1
  BY <1>6, <1>7, AppendFacts, AppendProperties
<1>9. /\ DOMAIN PlotsIn(Append(events, event)) = 1 .. Len(events) + 1
      /\ \A i \in 1 .. Len(events) + 1 :
           PlotsIn(Append(events, event))[i] =
             IF Append(events, event)[i][1] = "plot" THEN Append(events, event)[i][2] ELSE None
  BY <1>2 DEF PlotsIn
<1>10. \A i \in 1 .. Len(events) : PlotsIn(Append(events, event))[i] = PlotsIn(events)[i]
  BY <1>2, <1>9 DEF PlotsIn
<1>11. PlotsIn(Append(events, event))[Len(events) + 1] = x
  BY <1>2, <1>9 DEF x
<1>12. \A i \in 1 .. Len(events) + 1 :
         PlotsIn(Append(events, event))[i] = Append(PlotsIn(events), x)[i]
  BY <1>2, <1>8, <1>10, <1>11
<1>13. PlotsIn(Append(events, event)) = [i \in 1 .. Len(events) + 1 |-> Append(PlotsIn(events), x)[i]]
  BY <1>9, <1>12 DEF PlotsIn
<1>14. Append(PlotsIn(events), x) \in [1 .. Len(events) + 1 -> Snapshots]
  BY <1>8, LenProperties
<1>15. PlotsIn(Append(events, event)) = Append(PlotsIn(events), x)
  BY <1>13, <1>14
<1>16. QED
  BY <1>6, <1>15 DEF x

LEMMA PlotsTail ==
  ASSUME NEW events, AreEvents(events), events # <<>>, None \in Snapshots
  PROVE  /\ PlotsIn(events) \in Seq(Snapshots) /\ PlotsIn(events) # <<>>
         /\ Head(PlotsIn(events)) = IF Head(events)[1] = "plot" THEN Head(events)[2] ELSE None
         /\ PlotsIn(Tail(events)) = Tail(PlotsIn(events))
<1>1. events \in Seq(EventKinds \X Snapshots)
  BY DEF AreEvents
<1>2. /\ DOMAIN Tail(events) = 1 .. Len(events) - 1 /\ Len(events) \in Nat \ {0}
      /\ DOMAIN events = 1 .. Len(events) /\ Head(events) = events[1]
      /\ \A i \in DOMAIN Tail(events) : i + 1 \in DOMAIN events /\ Tail(events)[i] = events[i + 1]
  BY <1>1, TailFacts
<1>3. \A i \in DOMAIN events : events[i] \in EventKinds \X Snapshots
  BY <1>1, <1>2, ElementOfSeq
<1>4. \A i \in DOMAIN events : events[i][2] \in Snapshots
  BY <1>3
<1>5. PlotsIn(events) \in [1 .. Len(events) -> Snapshots]
  BY <1>2, <1>4 DEF PlotsIn
<1>6. PlotsIn(events) \in Seq(Snapshots) /\ Len(PlotsIn(events)) = Len(events)
  BY <1>2, <1>5
<1>7. PlotsIn(events) # <<>>
  BY <1>2, <1>6, EmptySeq
<1>8. /\ Head(PlotsIn(events)) = PlotsIn(events)[1]
      /\ Tail(PlotsIn(events)) \in Seq(Snapshots)
      /\ DOMAIN Tail(PlotsIn(events)) = 1 .. Len(events) - 1
      /\ \A i \in DOMAIN Tail(PlotsIn(events)) : Tail(PlotsIn(events))[i] = PlotsIn(events)[i + 1]
  BY <1>6, <1>7, TailFacts
<1>9. Head(PlotsIn(events)) = IF Head(events)[1] = "plot" THEN Head(events)[2] ELSE None
  BY <1>2, <1>8 DEF PlotsIn
<1>10. \A i \in 1 .. Len(events) - 1 :
         PlotsIn(events)[i + 1] =
           IF Tail(events)[i][1] = "plot" THEN Tail(events)[i][2] ELSE None
  BY <1>2 DEF PlotsIn
<1>11. PlotsIn(Tail(events)) = [i \in 1 .. Len(events) - 1 |-> Tail(PlotsIn(events))[i]]
  BY <1>2, <1>8, <1>10 DEF PlotsIn
<1>12. Len(Tail(PlotsIn(events))) = Len(events) - 1
  BY <1>6, <1>7, HeadTailProperties
<1>13. Tail(PlotsIn(events)) \in [1 .. Len(events) - 1 -> Snapshots]
  BY <1>8, <1>12, LenProperties
<1>14. PlotsIn(Tail(events)) = Tail(PlotsIn(events))
  BY <1>11, <1>13
<1>15. QED
  BY <1>6, <1>7, <1>9, <1>14

-----------------------------------------------------------------------------
(* What is pushed.                                                         *)

LEMMA SentInvInit ==
  ASSUME PipelineInit
  PROVE  SentInv
<1>1. \A op : ~SimPending(op)
  BY DEF PipelineInit, SimPending, Elements
<1>2. \A c \in Channels : sent[c] = {}
  BY DEF PipelineInit
<1>3. QED
  BY <1>1, <1>2 DEF SentInv

LEMMA SentInvStep ==
  ASSUME PipelineTypeOK, SimTodoInv, PhaseInv, SentInv, [PipelineNext]_pipelineVars
  PROVE  SentInv'
<1>1. /\ sent \in [Channels -> SUBSET Steps] /\ Steps \subseteq Nat /\ step \in Nat
      /\ config.steps \in 0 .. MaxSteps
  BY ConfigFacts DEF PipelineTypeOK
<1>2. CASE StartGeneration \/ StartInitialization \/ RunSimulation \/ EndSimulation \/ FinishThread
  <2>1. UNCHANGED <<simTodo, sent>>
    BY <1>2 DEF StartGeneration, StartInitialization, RunSimulation, EndSimulation,
                FinishThread, channelVars
  <2>2. CASE RunSimulation
    <3>1. step' = 0 /\ step = 0
      BY <2>2 DEF RunSimulation, TakeSimEvent, PhaseInv
    <3>2. QED
      BY <2>1, <3>1 DEF SentInv, SimPending, Elements
  <2>3. CASE StartGeneration \/ StartInitialization \/ EndSimulation \/ FinishThread
    <3>1. step' = step
      BY <2>3 DEF StartGeneration, StartInitialization, EndSimulation, FinishThread
    <3>2. QED
      BY <2>1, <3>1 DEF SentInv, SimPending, Elements
  <2>4. QED
    BY <1>2, <2>2, <2>3
<1>3. CASE BeginIteration
  <2>1. sent' = sent /\ step' = step + 1
    BY <1>3 DEF BeginIteration, channelVars
  <2>2. \A c \in Channels : \A s \in sent[c] : s \in Nat /\ s <= step
    BY <1>1 DEF SentInv
  <2>3. \A c \in Channels : \A s \in sent[c] : s <= step + 1 /\ s # step + 1
    BY <1>1, <2>2
  <2>4. QED
    BY <2>1, <2>3 DEF SentInv
<1>4. ASSUME NEW op, MakesCall(op)
      PROVE  SentInv'
  <2>1. Perform(op) /\ step' = step
    BY <1>4, CallOfIteration
  <2>2. \A o : SimPending(o)' => SimPending(o) /\ o # op
    BY <2>1, CallIsMade
  <2>3. CASE sent' = sent
    BY <2>1, <2>2, <2>3 DEF SentInv
  <2>4. ASSUME NEW channel \in Channels, op = Op("push", channel),
               sent' = [sent EXCEPT ![channel] = @ \cup {step}]
        PROVE  SentInv'
    <3>1. /\ sent'[channel] = sent[channel] \cup {step}
          /\ \A c \in Channels \ {channel} : sent'[c] = sent[c]
      BY <1>1, <2>4
    <3>2. step <= step
      BY <1>1
    <3>3. ~SimPending(Op("push", channel))'
      BY <2>2, <2>4
    <3>4. \A c \in Channels : \A s \in sent'[c] : s <= step
      BY <3>1, <3>2 DEF SentInv
    <3>5. \A c \in Channels : SimPending(Op("push", c))' => step \notin sent'[c]
      BY <2>2, <3>1, <3>3 DEF SentInv
    <3>6. QED
      BY <2>1, <3>4, <3>5 DEF SentInv
  <2>5. \/ sent' = sent
        \/ \E channel \in Channels :
             op = Op("push", channel) /\ sent' = [sent EXCEPT ![channel] = @ \cup {step}]
    BY <1>4 DEF MakesCall, AcquireData, AcquireSnapshot, StepSimulator, SetRenderingSnapshot,
                PushSnapshot, channelVars
  <2>6. QED
    BY <2>3, <2>4, <2>5
<1>5. CASE OthersStep \/ UNCHANGED pipelineVars
  <2>1. UNCHANGED <<step, simTodo, sent>>
    BY <1>5, OthersLeaveSimulation DEF pipelineVars, simulationVars, channelVars
  <2>2. QED
    BY <2>1 DEF SentInv, SimPending, Elements
<1>6. QED
  BY <1>2, <1>3, <1>4, <1>5, StepKinds

-----------------------------------------------------------------------------
(* What is on its way.                                                     *)

LEMMA PathInvInit ==
  ASSUME PipelineInit
  PROVE  PathInv
<1>1. Elements(<<>>) = {} /\ Ascending(<<>>)
  BY DEF Elements, Ascending
<1>2. PlotsIn(<<>>) = <<>>
  BY DEF PlotsIn
<1>3. \A c : PlotsFor(c, <<>>) = <<>>
  BY <1>2 DEF PlotsFor
<1>4. InOrder(<<>>, <<>>, None, <<>>)
  BY <1>1 DEF InOrder, Before
<1>5. AllOf(<<>>, <<>>, None, <<>>) = {}
  BY <1>1 DEF AllOf
<1>6. \A c \in Channels : /\ got[c] = <<>> /\ hand[c] = None /\ queue[c] = <<>> /\ sent[c] = {}
                          /\ guiEvents = <<>>
  BY DEF PipelineInit
<1>7. QED
  BY <1>3, <1>4, <1>5, <1>6 DEF PathInv, PathOf

\* A channel nothing happens to.
LEMMA PathKept ==
  ASSUME NEW c \in Channels, PathInv, c \in Kinds \/ presenter,
         got'[c] = got[c], hand'[c] = hand[c], queue'[c] = queue[c], sent'[c] = sent[c],
         c = "chart" => guiEvents' = guiEvents
  PROVE  PathOf(c)'
<1>1. PathOf(c)
  BY DEF PathInv
<1>2. PlotsFor(c, guiEvents') = PlotsFor(c, guiEvents)
  BY DEF PlotsFor
<1>3. QED
  BY <1>1, <1>2 DEF PathOf

\* An event that is not the chart's is posted or taken.
LEMMA PathBesideEvent ==
  ASSUME NEW c \in Channels, PipelineTypeOK, PathInv, c \in Kinds \/ presenter,
         got'[c] = got[c], hand'[c] = hand[c], queue'[c] = queue[c], sent'[c] = sent[c],
         \/ \E event \in EventKinds \X Snapshots :
              event[1] # "plot" /\ guiEvents' = Append(guiEvents, event)
         \/ guiEvents # <<>> /\ Head(guiEvents)[1] # "plot" /\ guiEvents' = Tail(guiEvents)
  PROVE  PathOf(c)'
<1>1. PathOf(c) /\ AreEvents(guiEvents) /\ None \in Snapshots
  BY DEF PathInv, PipelineTypeOK, Snapshots
<1>2. CASE c # "chart"
  BY <1>2, PathKept
<1>3. CASE c = "chart"
  <2>1. PlotsFor(c, guiEvents) = PlotsIn(guiEvents) /\ PlotsFor(c, guiEvents)' = PlotsIn(guiEvents')
    BY <1>3 DEF PlotsFor
  <2>2. /\ InOrder(got[c], PlotsIn(guiEvents), hand[c], queue[c])
        /\ AllOf(got[c], PlotsIn(guiEvents), hand[c], queue[c]) = sent[c]
    BY <1>1, <2>1 DEF PathOf
  <2>3. ASSUME NEW event \in EventKinds \X Snapshots,
               event[1] # "plot", guiEvents' = Append(guiEvents, event)
        PROVE  PathOf(c)'
    <3>1. /\ PlotsIn(guiEvents) \in Seq(Snapshots)
          /\ PlotsIn(guiEvents') = Append(PlotsIn(guiEvents), None)
      BY <1>1, <2>3, PlotsAppend
    <3>2. QED
      BY <1>1, <2>1, <2>2, <3>1, PathEvent DEF PathOf
  <2>4. ASSUME guiEvents # <<>>, Head(guiEvents)[1] # "plot", guiEvents' = Tail(guiEvents)
        PROVE  PathOf(c)'
    <3>1. /\ PlotsIn(guiEvents) \in Seq(Snapshots) /\ PlotsIn(guiEvents) # <<>>
          /\ Head(PlotsIn(guiEvents)) = None /\ PlotsIn(guiEvents') = Tail(PlotsIn(guiEvents))
      BY <1>1, <2>4, PlotsTail
    <3>2. QED
      BY <2>1, <2>2, <3>1, PathOther DEF PathOf
  <2>5. QED
    BY <2>3, <2>4
<1>4. QED
  BY <1>2, <1>3

LEMMA PathPushed ==
  ASSUME NEW c \in Channels, PipelineTypeOK, SentInv, PathInv, c \in Kinds \/ presenter,
         NEW x \in Snapshots, x \in {step, None}, x = step => SimPending(Op("push", c)),
         got'[c] = got[c], hand'[c] = hand[c], guiEvents' = guiEvents,
         queue'[c] = Append(queue[c], x), sent'[c] = sent[c] \cup ({x} \ {None})
  PROVE  PathOf(c)'
<1>1. /\ got[c] \in Seq(Steps) /\ hand[c] \in Snapshots /\ queue[c] \in Seq(Snapshots)
      /\ AreEvents(guiEvents) /\ sent[c] \subseteq Steps /\ Steps \subseteq Nat
      /\ None \in Snapshots /\ step \in Nat
  BY ConfigFacts DEF PipelineTypeOK, Snapshots
<1>2. /\ InOrder(got[c], PlotsFor(c, guiEvents), hand[c], queue[c])
      /\ AllOf(got[c], PlotsFor(c, guiEvents), hand[c], queue[c]) = sent[c]
  BY DEF PathInv, PathOf
<1>3. PlotsFor(c, guiEvents) \in Seq(Snapshots)
  <2>1. <<>> \in Seq(Snapshots)
    OBVIOUS
  <2>2. Op("generated", None) \in EventKinds \X Snapshots
    BY PostedEvents DEF EventKinds
  <2>3. PlotsIn(guiEvents) \in Seq(Snapshots)
    BY <1>1, <2>2, PlotsAppend
  <2>4. QED
    BY <2>1, <2>3 DEF PlotsFor
<1>4. ASSUME x # None, NEW s \in sent[c]
      PROVE  s < x
  <2>1. x = step /\ s <= step /\ s # step /\ s \in Nat
    BY <1>1, <1>4 DEF SentInv
  <2>2. QED
    BY <1>1, <2>1
<1>5. /\ InOrder(got[c], PlotsFor(c, guiEvents), hand[c], Append(queue[c], x))
      /\ AllOf(got[c], PlotsFor(c, guiEvents), hand[c], Append(queue[c], x))
           = sent[c] \cup ({x} \ {None})
  <2>1. PICK g, p, h, q : /\ g = got[c] /\ p = PlotsFor(c, guiEvents)
                          /\ h = hand[c] /\ q = queue[c]
    OBVIOUS
  <2>2. /\ g \in Seq(Steps) /\ p \in Seq(Snapshots) /\ h \in Snapshots /\ q \in Seq(Snapshots)
        /\ InOrder(g, p, h, q) /\ AllOf(g, p, h, q) = sent[c]
    BY <1>1, <1>2, <1>3, <2>1
  <2>3. x # None => \A s \in AllOf(g, p, h, q) : s < x
    BY <1>4, <2>2
  <2>4. /\ InOrder(g, p, h, Append(q, x))
        /\ AllOf(g, p, h, Append(q, x)) = AllOf(g, p, h, q) \cup ({x} \ {None})
    BY <2>2, <2>3, PathPush
  <2>5. QED
    BY <2>1, <2>2, <2>4
<1>6. QED
  BY <1>5 DEF PathOf

\* A path loses, gains and moves snapshots as its channel's actions say.
LEMMA PathInvStep ==
  ASSUME PipelineTypeOK, SimTodoInv, SentInv, PathInv, [PipelineNext]_pipelineVars
  PROVE  PathInv'
<1>1. /\ queue \in [Channels -> Seq(Snapshots)] /\ hand \in [Channels -> Snapshots]
      /\ sent \in [Channels -> SUBSET Steps] /\ got \in [Channels -> Seq(Steps)]
      /\ AreEvents(guiEvents) /\ Kinds \subseteq Channels /\ "chart" \in Channels
      /\ None \in Snapshots /\ None \notin Steps
  BY ConfigFacts DEF PipelineTypeOK, Channels, Snapshots
<1>2. "chart" \notin Kinds
  BY DEF Kinds
<1>3. ASSUME UNCHANGED <<got, hand, queue, sent, guiEvents>>, presenter' => presenter
      PROVE  PathInv'
  BY <1>3, PathKept DEF PathInv
<1>4. ASSUME UNCHANGED <<got, hand, queue, sent>>, presenter' => presenter,
             \/ \E event \in EventKinds \X Snapshots :
                  event[1] # "plot" /\ guiEvents' = Append(guiEvents, event)
             \/ guiEvents # <<>> /\ Head(guiEvents)[1] # "plot" /\ guiEvents' = Tail(guiEvents)
      PROVE  PathInv'
  BY <1>4, PathBesideEvent DEF PathInv
<1>5. CASE StartGeneration \/ StartInitialization
  <2>1. UNCHANGED <<got, hand, queue, sent, presenter>>
    BY <1>5 DEF StartGeneration, StartInitialization, channelVars
  <2>2. \/ guiEvents' = guiEvents
        \/ \E kind \in {"generated", "initialized"} : guiEvents' = Append(guiEvents, Op(kind, None))
    BY <1>5 DEF StartGeneration, StartInitialization, Post
  <2>3. ASSUME NEW kind \in {"generated", "initialized"},
               guiEvents' = Append(guiEvents, Op(kind, None))
        PROVE  PathInv'
    <3>1. kind \in EventKinds /\ kind # "plot"
      BY <2>3 DEF EventKinds
    <3>2. Op(kind, None) \in EventKinds \X Snapshots /\ Op(kind, None)[1] # "plot"
      BY <3>1, PostedEvents
    <3>3. QED
      BY <1>4, <2>1, <2>3, <3>2
  <2>4. QED
    BY <1>3, <2>1, <2>2, <2>3
<1>6. CASE RunSimulation \/ BeginIteration \/ EndSimulation \/ FinishThread
  <2>1. UNCHANGED <<got, hand, queue, sent, guiEvents, presenter>>
    BY <1>6 DEF RunSimulation, BeginIteration, EndSimulation, FinishThread, channelVars, guiVars
  <2>2. QED
    BY <1>3, <2>1
<1>7. ASSUME NEW op, MakesCall(op)
      PROVE  PathInv'
  <2>1. Perform(op) /\ UNCHANGED <<guiEvents, presenter>>
    BY <1>7, CallOfIteration DEF guiVars
  <2>2. SimPending(op) /\ step \in Snapshots
    BY <2>1, CallIsMade DEF SimTodoInv, Snapshots
  <2>3. CASE UNCHANGED <<got, hand, queue, sent>>
    BY <1>3, <2>1, <2>3
  <2>4. ASSUME NEW channel \in Channels, op = Op("push", channel), PushSnapshot(channel)
        PROVE  PathInv'
    <3>1. /\ UNCHANGED <<got, hand>>
          /\ queue'[channel] = Append(queue[channel], step)
          /\ sent'[channel] = sent[channel] \cup {step}
          /\ \A c \in Channels \ {channel} : queue'[c] = queue[c] /\ sent'[c] = sent[c]
      BY <1>1, <2>4 DEF PushSnapshot
    <3>2. step # None
      BY <1>1, <2>1, CallIsMade DEF SimTodoInv
    <3>3. sent'[channel] = sent[channel] \cup ({step} \ {None})
      BY <3>1, <3>2
    <3>4. ASSUME channel \in Kinds \/ presenter
          PROVE  PathOf(channel)'
      BY <2>1, <2>2, <2>4, <3>1, <3>3, <3>4, PathPushed
    <3>5. ASSUME NEW c \in Channels \ {channel}, c \in Kinds \/ presenter
          PROVE  PathOf(c)'
      BY <2>1, <3>1, <3>5, PathKept
    <3>6. QED
      BY <2>1, <3>4, <3>5 DEF PathInv
  <2>5. \/ UNCHANGED <<got, hand, queue, sent>>
        \/ \E channel \in Channels : op = Op("push", channel) /\ PushSnapshot(channel)
    BY <1>7 DEF MakesCall, AcquireData, AcquireSnapshot, StepSimulator, SetRenderingSnapshot,
                channelVars
  <2>6. QED
    BY <2>3, <2>4, <2>5
<1>8. ASSUME NEW channel \in Channels, WorkerStep(channel)
      PROVE  PathInv'
  <2>1. presenter' = presenter
    BY <1>8 DEF WorkerStep, Pop, WriteSnapshot, PostToChart, guiVars
  <2>2. ASSUME PathOf(channel)',
               \A c \in Channels \ {channel} :
                 /\ got'[c] = got[c] /\ hand'[c] = hand[c]
                 /\ queue'[c] = queue[c] /\ sent'[c] = sent[c],
               channel # "chart" => guiEvents' = guiEvents
        PROVE  PathInv'
    <3>1. ASSUME NEW c \in Channels \ {channel}, c \in Kinds \/ presenter
          PROVE  PathOf(c)'
      BY <2>2, <3>1, PathKept
    <3>2. QED
      BY <2>1, <2>2, <3>1 DEF PathInv
  <2>3. ASSUME channel \in Kinds \/ presenter
        PROVE  PathOf(channel) /\ PlotsFor(channel, guiEvents) \in Seq(Snapshots)
    <3>1. <<>> \in Seq(Snapshots)
      OBVIOUS
    <3>2. PlotsIn(guiEvents) \in Seq(Snapshots)
      <4>1. Op("generated", None) \in EventKinds \X Snapshots
        BY PostedEvents DEF EventKinds
      <4>2. QED
        BY <1>1, <4>1, PlotsAppend
    <3>3. QED
      BY <2>3, <3>1, <3>2 DEF PlotsFor, PathInv
  <2>4. ASSUME ~(channel \in Kinds \/ presenter)
        PROVE  PathInv'
    <3>1. channel = "chart" /\ presenter' = presenter /\ ~presenter
      BY <2>1, <2>4 DEF Channels
    <3>2. \A c \in Kinds :
            got'[c] = got[c] /\ hand'[c] = hand[c] /\ queue'[c] = queue[c] /\ sent'[c] = sent[c]
      <4>1. \A c \in Kinds : c # channel /\ c \in Channels
        BY <1>1, <1>2, <3>1
      <4>2. QED
        BY <1>1, <1>8, <4>1 DEF WorkerStep, Pop, WriteSnapshot, PostToChart
    <3>3. ASSUME NEW c \in Kinds
          PROVE  PathOf(c)'
      <4>1. c \in Channels /\ c # "chart"
        BY <1>1, <1>2
      <4>2. QED
        BY <3>2, <4>1, PathKept
    <3>4. QED
      BY <3>1, <3>3 DEF PathInv, Channels
  <2>5. CASE (channel \in Kinds \/ presenter) /\ Pop(channel)
    <3>1. /\ UNCHANGED <<got, sent, guiEvents>>
          /\ hand[channel] = None /\ queue[channel] # <<>> /\ queue[channel] \in Seq(Snapshots)
          /\ got[channel] \in Seq(Steps)
          /\ hand'[channel] = Head(queue[channel]) /\ queue'[channel] = Tail(queue[channel])
          /\ \A c \in Channels \ {channel} : hand'[c] = hand[c] /\ queue'[c] = queue[c]
      BY <1>1, <2>5 DEF Pop, CanPop, guiVars
    <3>2. PICK g, p, q : g = got[channel] /\ p = PlotsFor(channel, guiEvents) /\ q = queue[channel]
      OBVIOUS
    <3>3. /\ InOrder(g, p, None, q) /\ AllOf(g, p, None, q) = sent[channel]
          /\ g \in Seq(Steps) /\ p \in Seq(Snapshots) /\ q \in Seq(Snapshots) /\ q # <<>>
      BY <2>3, <2>5, <3>1, <3>2 DEF PathOf
    <3>4. InOrder(g, p, Head(q), Tail(q)) /\ AllOf(g, p, Head(q), Tail(q)) = sent[channel]
      BY <3>3, PathPop
    <3>5. PathOf(channel)'
      BY <3>1, <3>2, <3>4 DEF PathOf
    <3>6. QED
      BY <2>2, <3>1, <3>5
  <2>6. CASE (channel \in Kinds \/ presenter) /\ WriteSnapshot(channel)
    <3>1. /\ UNCHANGED <<queue, sent, guiEvents>>
          /\ hand[channel] # None /\ hand[channel] \in Snapshots /\ channel # "chart"
          /\ got[channel] \in Seq(Steps)
          /\ hand'[channel] = None /\ got'[channel] = Append(got[channel], hand[channel])
          /\ \A c \in Channels \ {channel} : hand'[c] = hand[c] /\ got'[c] = got[c]
      BY <1>1, <1>2, <2>6 DEF WriteSnapshot, guiVars
    <3>2. PICK g, p, h, q : /\ g = got[channel] /\ p = PlotsFor(channel, guiEvents)
                            /\ h = hand[channel] /\ q = queue[channel]
      OBVIOUS
    <3>3. p = <<>>
      BY <3>1, <3>2 DEF PlotsFor
    <3>4. /\ InOrder(g, p, h, q) /\ AllOf(g, p, h, q) = sent[channel]
          /\ g \in Seq(Steps) /\ h \in Steps /\ Elements(p) = {}
      BY <2>3, <2>6, <3>1, <3>2, <3>3 DEF PathOf, Snapshots, Elements
    <3>5. InOrder(Append(g, h), p, None, q) /\ AllOf(Append(g, h), p, None, q) = sent[channel]
      BY <1>1, <3>4, PathWrite
    <3>6. PathOf(channel)'
      BY <3>1, <3>2, <3>5 DEF PathOf
    <3>7. QED
      BY <2>2, <3>1, <3>6
  <2>7. CASE presenter /\ channel = "chart" /\ PostToChart
    <3>1. /\ UNCHANGED <<queue, sent, got>>
          /\ hand["chart"] # None /\ hand["chart"] \in Snapshots /\ hand["chart"] \in Steps
          /\ hand'["chart"] = None /\ guiEvents' = Append(guiEvents, Op("plot", hand["chart"]))
          /\ \A c \in Channels \ {"chart"} : hand'[c] = hand[c]
      BY <1>1, <2>7 DEF PostToChart, Post, Snapshots
    <3>2. PICK g, p, h, q : /\ g = got["chart"] /\ p = PlotsIn(guiEvents)
                            /\ h = hand["chart"] /\ q = queue["chart"]
      OBVIOUS
    <3>3. PlotsFor("chart", guiEvents) = p /\ PlotsFor("chart", guiEvents)' = PlotsIn(guiEvents')
      BY <3>2 DEF PlotsFor
    <3>4. /\ InOrder(g, p, h, q) /\ AllOf(g, p, h, q) = sent["chart"]
          /\ p \in Seq(Snapshots) /\ h \in Snapshots
      BY <2>3, <2>7, <3>1, <3>2, <3>3 DEF PathOf
    <3>5. PlotsIn(guiEvents') = Append(p, h)
      <4>1. /\ Op("plot", h) \in EventKinds \X Snapshots
            /\ Op("plot", h)[1] = "plot" /\ Op("plot", h)[2] = h
        BY <3>1, <3>2, PostedEvents
      <4>2. PICK event : event = Op("plot", h)
        OBVIOUS
      <4>3. event \in EventKinds \X Snapshots /\ event[1] = "plot" /\ event[2] = h
        BY <4>1, <4>2
      <4>4. PlotsIn(Append(guiEvents, event)) = Append(PlotsIn(guiEvents), h)
        BY <1>1, <4>3, PlotsAppend
      <4>5. QED
        BY <3>1, <3>2, <4>2, <4>4
    <3>6. InOrder(g, Append(p, h), None, q) /\ AllOf(g, Append(p, h), None, q) = sent["chart"]
      BY <3>4, PathPost
    <3>7. PathOf(channel)'
      BY <2>7, <3>1, <3>2, <3>3, <3>5, <3>6 DEF PathOf
    <3>8. QED
      BY <2>2, <2>7, <3>1, <3>7
  <2>8. QED
    BY <1>2, <1>8, <2>4, <2>5, <2>6, <2>7 DEF WorkerStep
<1>9. CASE HandleGuiEvent
  <2>1. CASE UpdateDiagnostics
    <3>1. /\ presenter /\ UNCHANGED <<queue, sent, hand, presenter>>
          /\ guiEvents # <<>> /\ guiEvents' = Tail(guiEvents) /\ Head(guiEvents)[1] = "plot"
          /\ got'["chart"] = Append(got["chart"], Head(guiEvents)[2])
          /\ \A c \in Channels \ {"chart"} : got'[c] = got[c]
      BY <1>1, <2>1 DEF UpdateDiagnostics, TakeGuiEvent
    <3>2. PICK g, p, h, q : /\ g = got["chart"] /\ p = PlotsIn(guiEvents)
                            /\ h = hand["chart"] /\ q = queue["chart"]
      OBVIOUS
    <3>3. PlotsFor("chart", guiEvents) = p /\ PlotsFor("chart", guiEvents)' = PlotsIn(guiEvents')
      BY <3>2 DEF PlotsFor
    <3>4. /\ p \in Seq(Snapshots) /\ p # <<>> /\ Head(p) = Head(guiEvents)[2]
          /\ PlotsIn(guiEvents') = Tail(p) /\ Head(p) \in Steps
      BY <1>1, <3>1, <3>2, PlotsTail, EventsTail
    <3>5. InOrder(g, p, h, q) /\ AllOf(g, p, h, q) = sent["chart"] /\ g \in Seq(Steps)
      BY <1>1, <3>1, <3>2, <3>3 DEF PathInv, PathOf
    <3>6. /\ InOrder(Append(g, Head(p)), Tail(p), h, q)
          /\ AllOf(Append(g, Head(p)), Tail(p), h, q) = sent["chart"]
      BY <1>1, <3>4, <3>5, PathPlot
    <3>7. PathOf("chart")'
      BY <3>1, <3>2, <3>3, <3>4, <3>6 DEF PathOf
    <3>8. ASSUME NEW c \in Channels \ {"chart"}
          PROVE  PathOf(c)'
      BY <3>1, <3>8, PathKept DEF Channels
    <3>9. QED
      BY <3>7, <3>8 DEF PathInv
  <2>2. CASE DropEvent /\ Head(guiEvents)[1] = "plot"
    <3>1. ~presenter /\ UNCHANGED <<got, hand, queue, sent, presenter>>
      BY <2>2 DEF DropEvent, TakeGuiEvent, channelVars
    <3>2. ASSUME NEW c \in Kinds
          PROVE  PathOf(c)'
      <4>1. c \in Channels /\ c # "chart"
        BY <1>1, <1>2
      <4>2. QED
        BY <3>1, <4>1, PathKept
    <3>3. QED
      BY <3>1, <3>2 DEF PathInv
  <2>3. CASE ~UpdateDiagnostics /\ ~(DropEvent /\ Head(guiEvents)[1] = "plot")
    <3>1. /\ UNCHANGED <<got, hand, queue, sent, presenter>>
          /\ guiEvents # <<>> /\ Head(guiEvents)[1] # "plot" /\ guiEvents' = Tail(guiEvents)
      BY <1>9, <2>3 DEF HandleGuiEvent, ReceivedGenerationCompleted,
                        ReceivedInitializationCompleted, DropEvent, DeletePresenter,
                        DeleteWindow, TakeGuiEvent, channelVars
    <3>2. QED
      BY <1>4, <3>1
  <2>4. QED
    BY <2>1, <2>2, <2>3
<1>10. CASE UpdateRendering
  <2>1. UNCHANGED <<got, hand, queue, sent, guiEvents, presenter>>
    BY <1>10 DEF UpdateRendering
  <2>2. QED
    BY <1>3, <2>1
<1>11. CASE DestroyRunner
  <2>1. /\ UNCHANGED <<got, hand, queue, sent, presenter>>
        /\ guiEvents' = guiEvents \o <<Op("delete-presenter", None), Op("delete-window", None)>>
    BY <1>11 DEF DestroyRunner, channelVars
  <2>2. PICK first, second : first = Op("delete-presenter", None) /\ second = Op("delete-window", None)
    OBVIOUS
  <2>3. /\ first \in EventKinds \X Snapshots /\ first[1] # "plot"
        /\ second \in EventKinds \X Snapshots /\ second[1] # "plot"
    BY <2>2, PostedEvents DEF EventKinds
  <2>4. guiEvents' = Append(Append(guiEvents, first), second)
    <3>1. guiEvents \in Seq(EventKinds \X Snapshots)
      BY <1>1 DEF AreEvents
    <3>2. QED
      BY <2>1, <2>2, <2>3, <3>1, TwoAppended
  <2>5. AreEvents(Append(guiEvents, first))
    BY <1>1, <2>3, EventsAppend
  <2>6. /\ PlotsIn(guiEvents) \in Seq(Snapshots)
        /\ PlotsIn(Append(guiEvents, first)) = Append(PlotsIn(guiEvents), None)
    BY <1>1, <2>3, PlotsAppend
  <2>7. /\ PlotsIn(Append(guiEvents, first)) \in Seq(Snapshots)
        /\ PlotsIn(guiEvents') = Append(PlotsIn(Append(guiEvents, first)), None)
    BY <1>1, <2>3, <2>4, <2>5, PlotsAppend
  <2>8. ASSUME presenter
        PROVE  PathOf("chart")'
    <3>1. PICK g, p, h, q : /\ g = got["chart"] /\ p = PlotsIn(guiEvents)
                            /\ h = hand["chart"] /\ q = queue["chart"]
      OBVIOUS
    <3>2. PlotsFor("chart", guiEvents) = p /\ PlotsFor("chart", guiEvents)' = PlotsIn(guiEvents')
      BY <3>1 DEF PlotsFor
    <3>3. InOrder(g, p, h, q) /\ AllOf(g, p, h, q) = sent["chart"]
      BY <1>1, <2>8, <3>1, <3>2 DEF PathInv, PathOf
    <3>4. PICK r : r = Append(p, None)
      OBVIOUS
    <3>5. /\ p \in Seq(Snapshots) /\ r \in Seq(Snapshots) /\ PlotsIn(guiEvents') = Append(r, None)
      BY <2>6, <2>7, <3>1, <3>4
    <3>6. InOrder(g, r, h, q) /\ AllOf(g, r, h, q) = sent["chart"]
      BY <1>1, <3>3, <3>4, <3>5, PathEvent
    <3>7. InOrder(g, Append(r, None), h, q) /\ AllOf(g, Append(r, None), h, q) = sent["chart"]
      BY <1>1, <3>5, <3>6, PathEvent
    <3>8. QED
      BY <2>1, <3>1, <3>2, <3>5, <3>7 DEF PathOf
  <2>9. ASSUME NEW c \in Kinds
        PROVE  PathOf(c)'
    <3>1. c \in Channels /\ c # "chart"
      BY <1>1, <1>2
    <3>2. QED
      BY <2>1, <3>1, PathKept
  <2>10. QED
    BY <2>1, <2>8, <2>9 DEF PathInv, Channels
<1>12. CASE DestructorStep
  <2>1. ASSUME NEW channel \in Channels, StopWorker(channel)
        PROVE  PathInv'
    <3>1. /\ UNCHANGED <<got, hand, sent, guiEvents, presenter>>
          /\ queue'[channel] = Append(queue[channel], None)
          /\ \A c \in Channels \ {channel} : queue'[c] = queue[c]
      BY <1>1, <2>1 DEF StopWorker, simulationVars
    <3>2. sent'[channel] = sent[channel] \cup ({None} \ {None})
      BY <3>1
    <3>3. step # None
      BY <1>1, ConfigFacts DEF PipelineTypeOK
    <3>4. ASSUME channel \in Kinds \/ presenter
          PROVE  PathOf(channel)'
      BY <1>1, <3>1, <3>2, <3>3, <3>4, PathPushed
    <3>5. ASSUME NEW c \in Channels \ {channel}, c \in Kinds \/ presenter
          PROVE  PathOf(c)'
      BY <3>1, <3>5, PathKept
    <3>6. QED
      BY <3>1, <3>4, <3>5 DEF PathInv
  <2>2. ASSUME NEW thread, JoinThread(thread) \/ FreeRunner
        PROVE  PathInv'
    <3>1. UNCHANGED <<got, hand, queue, sent, guiEvents, presenter>>
      BY <2>2 DEF JoinThread, FreeRunner, channelVars
    <3>2. QED
      BY <1>3, <3>1
  <2>3. CASE FreePresenter
    <3>1. /\ UNCHANGED <<got, hand, sent, guiEvents>> /\ ~presenter'
          /\ \A c \in Kinds : queue'[c] = queue[c]
      BY <1>1, <1>2, <2>3 DEF FreePresenter
    <3>2. ASSUME NEW c \in Kinds
          PROVE  PathOf(c)'
      <4>1. c \in Channels /\ c # "chart"
        BY <1>1, <1>2
      <4>2. QED
        BY <3>1, <4>1, PathKept
    <3>3. QED
      BY <3>1, <3>2 DEF PathInv
  <2>4. QED
    BY <1>12, <2>1, <2>2, <2>3 DEF DestructorStep
<1>13. CASE UNCHANGED pipelineVars
  <2>1. UNCHANGED <<got, hand, queue, sent, guiEvents, presenter>>
    BY <1>13 DEF pipelineVars, channelVars, guiVars
  <2>2. QED
    BY <1>3, <2>1
<1>14. QED
  BY <1>5, <1>6, <1>7, <1>8, <1>9, <1>10, <1>11, <1>12, <1>13, StepKinds DEF OthersStep

-----------------------------------------------------------------------------
(* What the snapshots hold.                                                *)

LEMMA ContentInvInit ==
  ASSUME PipelineInit
  PROVE  BuffersInv /\ ContentInv
<1>1. \A op : ~SimPending(op)
  BY DEF PipelineInit, SimPending, Elements
<1>2. Published = {}
  <2>1. Elements(<<>>) = {}
    BY DEF Elements
  <2>2. "system" \in Channels
    BY DEF Channels, Kinds
  <2>3. /\ queue["system"] = <<>> /\ hand["system"] = None
        /\ slot = None /\ rendered = None
    BY <2>2 DEF PipelineInit
  <2>4. QED
    BY <2>1, <2>3 DEF Published
<1>3. previous = None /\ current = None /\ None \notin Steps
  BY PipelineAssumption DEF PipelineInit, SimulatorInit, SimulatorAssumption, Steps
<1>4. QED
  BY <1>1, <1>2, <1>3 DEF BuffersInv, ContentInv

LEMMA PublishedAreSteps ==
  ASSUME PipelineTypeOK
  PROVE  Published \subseteq Steps
<1>1. "system" \in Channels
  BY DEF Channels, Kinds
<1>2. /\ queue["system"] \in Seq(Snapshots) /\ hand["system"] \in Snapshots
      /\ slot \in Snapshots /\ rendered \in Snapshots
  BY <1>1 DEF PipelineTypeOK
<1>3. \A i \in DOMAIN queue["system"] : queue["system"][i] \in Snapshots
  BY <1>2, LenProperties, ElementOfSeq
<1>4. Elements(queue["system"]) \subseteq Snapshots
  BY <1>3 DEF Elements
<1>5. QED
  BY <1>2, <1>4 DEF Published, Snapshots

\* Another thread publishes nothing that was not published.
LEMMA OthersPublishNothing ==
  ASSUME PipelineTypeOK, OthersStep
  PROVE  Published' \subseteq Published
<1>1. /\ queue \in [Channels -> Seq(Snapshots)] /\ hand \in [Channels -> Snapshots]
      /\ "system" \in Channels /\ None \in Snapshots
  BY DEF PipelineTypeOK, Channels, Kinds, Snapshots
<1>2. ASSUME slot' \in {slot, None}, rendered' \in {rendered, slot, None},
             Elements(queue'["system"]) \subseteq Elements(queue["system"]) \cup {None},
             hand'["system"] \in Elements(queue["system"]) \cup {hand["system"], None}
      PROVE  Published' \subseteq Published
  BY <1>2 DEF Published
<1>3. ASSUME NEW channel \in Channels, WorkerStep(channel)
      PROVE  Published' \subseteq Published
  <2>1. UNCHANGED <<slot, rendered>>
    BY <1>3 DEF WorkerStep, Pop, WriteSnapshot, PostToChart, guiVars
  <2>2. CASE Pop(channel)
    <3>1. CASE channel = "system"
      <4>1. /\ queue["system"] \in Seq(Snapshots) /\ queue["system"] # <<>>
            /\ queue'["system"] = Tail(queue["system"]) /\ hand'["system"] = Head(queue["system"])
        BY <1>1, <2>2, <3>1 DEF Pop, CanPop
      <4>2. Elements(queue["system"]) = {Head(queue["system"])} \cup Elements(Tail(queue["system"]))
        BY <4>1, TailFacts
      <4>3. QED
        BY <1>2, <2>1, <4>1, <4>2
    <3>2. CASE channel # "system"
      <4>1. queue'["system"] = queue["system"] /\ hand'["system"] = hand["system"]
        BY <1>1, <2>2, <3>2 DEF Pop
      <4>2. QED
        BY <1>2, <2>1, <4>1
    <3>3. QED
      BY <3>1, <3>2
  <2>3. CASE WriteSnapshot(channel) \/ PostToChart
    <3>1. queue' = queue /\ hand'["system"] \in {hand["system"], None}
      BY <1>1, <2>3 DEF WriteSnapshot, PostToChart
    <3>2. QED
      BY <1>2, <2>1, <3>1
  <2>4. QED
    BY <1>3, <2>2, <2>3 DEF WorkerStep
<1>4. CASE HandleGuiEvent \/ DestroyRunner
  <2>1. UNCHANGED <<slot, queue, hand>> /\ rendered' \in {rendered, None}
    BY <1>4 DEF HandleGuiEvent, ReceivedGenerationCompleted, ReceivedInitializationCompleted,
                UpdateDiagnostics, DropEvent, DeletePresenter, DeleteWindow, DestroyRunner,
                channelVars
  <2>2. QED
    BY <1>2, <2>1
<1>5. CASE UpdateRendering
  <2>1. UNCHANGED <<queue, hand>> /\ rendered' \in {rendered, slot} /\ slot' = None
    BY <1>5 DEF UpdateRendering
  <2>2. QED
    BY <1>2, <2>1
<1>6. CASE DestructorStep
  <2>1. ASSUME NEW channel \in Channels, StopWorker(channel)
        PROVE  Published' \subseteq Published
    <3>1. UNCHANGED <<slot, rendered, hand>>
      BY <2>1 DEF StopWorker
    <3>2. \/ queue'["system"] = queue["system"]
          \/ queue'["system"] = Append(queue["system"], None)
      BY <1>1, <2>1 DEF StopWorker
    <3>3. Elements(Append(queue["system"], None)) = Elements(queue["system"]) \cup {None}
      BY <1>1, AppendFacts
    <3>4. Elements(queue'["system"]) \subseteq Elements(queue["system"]) \cup {None}
      BY <3>2, <3>3
    <3>5. QED
      BY <1>2, <3>1, <3>4
  <2>2. ASSUME NEW thread, JoinThread(thread) \/ FreeRunner
        PROVE  Published' \subseteq Published
    <3>1. UNCHANGED <<slot, rendered, queue, hand>>
      BY <2>2 DEF JoinThread, FreeRunner, channelVars
    <3>2. QED
      BY <1>2, <3>1
  <2>3. CASE FreePresenter
    <3>1. /\ UNCHANGED <<rendered, hand>> /\ slot' = None
          /\ queue'["system"] = queue["system"]
      BY <1>1, <2>3 DEF FreePresenter
    <3>2. QED
      BY <1>2, <3>1
  <2>4. QED
    BY <1>6, <2>1, <2>2, <2>3 DEF DestructorStep
<1>7. QED
  BY <1>3, <1>4, <1>5, <1>6 DEF OthersStep

\* The simulator writes into the buffer of the current step, or into the older
\* one of its own, and changes their roles.
LEMMA BuffersInvStep ==
  ASSUME PipelineTypeOK, SimTodoInv, PhaseInv, BuffersInv, [PipelineNext]_pipelineVars
  PROVE  BuffersInv'
<1>1. /\ MaxSteps \in Nat /\ None \notin Int /\ Steps \subseteq Nat \ {0} /\ None \notin Steps
      /\ config.copies \in BOOLEAN /\ config' = config /\ step \in Nat
      /\ InitialSystem \notin Steps /\ SystemBuffer \notin Steps
  BY ConfigFacts, StepKinds DEF PipelineTypeOK, Steps, InitialSystem, SystemBuffer
<1>2. CASE StartGeneration \/ StartInitialization \/ RunSimulation \/ EndSimulation \/ FinishThread
  <2>1. simTodo' = simTodo /\ simTodo = <<>>
    BY <1>2 DEF SimTodoInv, StartGeneration, StartInitialization, RunSimulation, EndSimulation,
                FinishThread, TakeSimEvent
  <2>2. ~SimPending(Op("step", "simulator"))'
    BY <2>1 DEF SimPending, Elements
  <2>3. /\ previous' \in {previous, None, InitialSystem}
        /\ current' \in {current, None, SystemBuffer}
    BY <1>2 DEF StartGeneration, StartInitialization, RunSimulation, EndSimulation,
                FinishThread, Initialize, DestroySimulator, simulatorVars
  <2>4. step' = step
    BY <1>2 DEF StartGeneration, StartInitialization, RunSimulation, EndSimulation,
                FinishThread, TakeSimEvent, PhaseInv
  <2>5. QED
    BY <1>1, <2>2, <2>3, <2>4 DEF BuffersInv
<1>3. CASE BeginIteration
  <2>1. UNCHANGED <<previous, current>> /\ step' = step + 1
    BY <1>3 DEF BeginIteration, simulatorVars
  <2>2. /\ previous \in Steps => previous \in Nat /\ previous <= step
        /\ current \in Steps => current \in Nat /\ current < step
    BY <1>1 DEF BuffersInv
  <2>3. /\ previous \in Steps => previous < step + 1 /\ previous <= step + 1
        /\ current \in Steps => current + 1 < step + 1 /\ current < step + 1
    BY <1>1, <2>2
  <2>4. QED
    BY <1>1, <2>1, <2>3 DEF BuffersInv
<1>4. ASSUME NEW op, MakesCall(op)
      PROVE  BuffersInv'
  <2>1. Perform(op) /\ step' = step
    BY <1>4, CallOfIteration
  <2>2. /\ SimPending(op) /\ \A o : SimPending(o)' => SimPending(o)
        /\ ~SimPending(op)' /\ step \in Steps
    BY <2>1, CallIsMade DEF SimTodoInv
  <2>3. CASE UNCHANGED <<previous, current>>
    BY <1>1, <2>1, <2>2, <2>3 DEF BuffersInv
  <2>4. CASE op = Op("step", "simulator") /\ StepSimulator
    <3>1. SimulatorStep(config.copies, IF "system" \in want THEN step ELSE None, step)
      BY <2>4 DEF StepSimulator
    <3>2. CASE config.copies
      BY <2>3, <3>1, <3>2 DEF SimulatorStep, CopyStep
    <3>3. CASE ~config.copies
      <4>1. /\ previous \in Steps => previous < step
            /\ current \in Steps => current + 1 < step
        BY <2>2, <2>4 DEF BuffersInv
      <4>2. previous' \in {step, current} /\ current' = previous
        BY <3>1, <3>3 DEF SimulatorStep, SwapStep
      <4>3. ~SimPending(Op("step", "simulator"))'
        BY <2>2, <2>4
      <4>4. previous' \in Steps => previous' <= step
        BY <1>1, <4>1, <4>2
      <4>5. QED
        BY <1>1, <2>1, <3>3, <4>1, <4>2, <4>3, <4>4 DEF BuffersInv
    <3>4. QED
      BY <1>1, <3>2, <3>3
  <2>5. \/ UNCHANGED <<previous, current>>
        \/ op = Op("step", "simulator") /\ StepSimulator
    BY <1>4 DEF MakesCall, AcquireData, AcquireSnapshot, SetRenderingSnapshot, PushSnapshot,
                simulatorVars
  <2>6. QED
    BY <2>3, <2>4, <2>5
<1>5. CASE OthersStep
  <2>1. UNCHANGED <<step, simTodo, simulatorVars>>
    BY <1>5, OthersLeaveSimulation
  <2>2. QED
    BY <1>1, <2>1 DEF BuffersInv, SimPending, Elements, simulatorVars
<1>6. CASE UNCHANGED pipelineVars
  <2>1. UNCHANGED <<step, simTodo, previous, current>>
    BY <1>6 DEF pipelineVars, simulationVars
  <2>2. QED
    BY <1>1, <2>1 DEF BuffersInv, SimPending, Elements
<1>7. QED
  BY <1>2, <1>3, <1>4, <1>5, <1>6, StepKinds

\* A buffer that is not written to holds what it held.
LEMMA StillHolds ==
  ASSUME PipelineTypeOK, config' = config, step' \in {step, step + 1},
         NEW s \in Steps, HoldsState(s), content'[s] = content[s],
         content[s] # s /\ content[s] \in sent'["system"] => content[s] \in sent["system"]
  PROVE  HoldsState(s)'
<1>1. /\ MaxSteps \in Nat /\ Steps \subseteq Nat /\ step \in Nat /\ Steps \subseteq Buffers
      /\ content \in [Buffers -> Int]
  BY ConfigFacts DEF PipelineTypeOK, Steps, Buffers
<1>2. content[s] \in Int
  BY <1>1
<1>3. LeavesPublished' <=> LeavesPublished
  BY DEF LeavesPublished, Wants
<1>4. CASE content[s] = s
  BY <1>4 DEF HoldsState
<1>5. CASE /\ ~LeavesPublished /\ content[s] \in s + 2 .. step
           /\ content[s] \notin sent["system"]
  <2>1. content[s] # s
    BY <1>1, <1>5
  <2>2. content[s] \notin sent'["system"]
    BY <1>5, <2>1
  <2>3. content[s] \in s + 2 .. step'
    BY <1>1, <1>2, <1>5
  <2>4. QED
    BY <1>3, <1>5, <2>2, <2>3 DEF HoldsState
<1>6. QED
  BY <1>4, <1>5 DEF HoldsState

\* A step that is given a buffer fills it with its state and leaves the others;
\* one that is given none writes into one that is two steps old, or older.
LEMMA StepWrites ==
  ASSUME PipelineTypeOK, SimTodoInv, BuffersInv, SimPending(Op("step", "simulator")),
         StepSimulator
  PROVE  /\ "system" \in want => content'[step] = step
         /\ \A s \in Steps :
              \/ content'[s] = content[s]
              \/ s = step /\ content'[s] = step
              \/ /\ "system" \notin want /\ ~LeavesPublished
                 /\ content'[s] = step /\ s + 2 <= step
<1>1. /\ MaxSteps \in Nat /\ None \notin Int /\ Steps \subseteq Nat \ {0} /\ None \notin Buffers
      /\ config.copies \in BOOLEAN /\ Steps \subseteq Buffers /\ None \notin Steps
      /\ content \in [Buffers -> Int] /\ InitialSystem \notin Steps
  BY ConfigFacts DEF PipelineTypeOK, Steps, Buffers, InitialSystem
<1>2. step \in Steps /\ want \in Wants /\ step \in Buffers /\ step \in Nat
  <2>1. simTodo # <<>>
    BY DEF SimPending, Elements
  <2>2. QED
    BY <1>1, <2>1 DEF SimTodoInv
<1>3. SimulatorStep(config.copies, IF "system" \in want THEN step ELSE None, step)
  BY DEF StepSimulator
<1>4. CASE config.copies
  <2>1. PICK given \in {step, None} :
          /\ given = IF "system" \in want THEN step ELSE None
          /\ content' = [b \in Buffers |-> IF b \in {previous, given} THEN step ELSE content[b]]
    BY <1>3, <1>4 DEF SimulatorStep, CopyStep
  <2>2. previous \notin Steps
    BY <1>1, <1>4 DEF BuffersInv
  <2>3. ASSUME NEW s \in Steps
        PROVE  content'[s] = content[s] \/ (s = step /\ content'[s] = step)
    <3>1. s \in Buffers /\ s # previous /\ s # None
      BY <1>1, <2>2
    <3>2. QED
      BY <2>1, <3>1
  <2>4. "system" \in want => content'[step] = step
    BY <1>2, <2>1
  <2>5. QED
    BY <2>3, <2>4
<1>5. CASE ~config.copies /\ "system" \in want
  <2>1. step # None
    BY <1>1, <1>2
  <2>2. content' = [content EXCEPT ![step] = step]
    BY <1>3, <1>5, <2>1 DEF SimulatorStep, SwapStep
  <2>3. QED
    BY <1>1, <1>2, <2>2
<1>6. CASE ~config.copies /\ "system" \notin want
  <2>1. content' = [content EXCEPT ![current] = step]
    BY <1>3, <1>6 DEF SimulatorStep, SwapStep
  <2>2. ~LeavesPublished
    BY <1>2, <1>6 DEF LeavesPublished
  <2>3. ASSUME NEW s \in Steps
        PROVE  \/ content'[s] = content[s]
               \/ content'[s] = step /\ s + 2 <= step
    <3>1. CASE s # current
      BY <1>1, <2>1, <3>1
    <3>2. CASE s = current
      <4>1. current + 1 < step
        BY <2>3, <3>2 DEF BuffersInv
      <4>2. content'[s] = step
        BY <1>1, <2>1, <2>3, <3>2
      <4>3. QED
        BY <1>1, <1>2, <3>2, <4>1, <4>2
    <3>3. QED
      BY <3>1, <3>2
  <2>4. QED
    BY <1>6, <2>2, <2>3
<1>7. QED
  BY <1>1, <1>4, <1>5, <1>6

LEMMA ContentInvStep ==
  ASSUME PipelineTypeOK, SimTodoInv, PhaseInv, SentInv, BuffersInv, ContentInv,
         [PipelineNext]_pipelineVars
  PROVE  ContentInv'
<1>1. /\ MaxSteps \in Nat /\ None \notin Int /\ Steps \subseteq Nat /\ step \in Nat
      /\ Published \subseteq Steps /\ content \in [Buffers -> Int] /\ Steps \subseteq Buffers
      /\ queue \in [Channels -> Seq(Snapshots)] /\ "system" \in Channels
      /\ sent \in [Channels -> SUBSET Steps] /\ config' = config
  BY ConfigFacts, StepKinds, PublishedAreSteps DEF PipelineTypeOK, Channels, Kinds, Steps, Buffers
<1>2. /\ \A s \in Published : HoldsState(s)
      /\ SimPending(Op("step", "simulator")) => step \notin sent["system"]
      /\ SimPending(Op("push", "system")) => \A s \in Published \ {step} : content[s] # step
      /\ \A op \in {Op("snapshot", "system"), Op("set", "slot"), Op("push", "system")} :
           SimPending(op) /\ ~SimPending(Op("step", "simulator")) => content[step] = step
  BY DEF ContentInv
\* Nothing is written, nothing is newly published, and the calls go on.
<1>3. ASSUME content' = content, sent'["system"] = sent["system"], step' = step,
             Published' \subseteq Published,
             \A o : SimPending(o)' => SimPending(o),
             SimPending(Op("step", "simulator")) => SimPending(Op("step", "simulator"))'
      PROVE  ContentInv'
  <2>1. \A s \in Published' : HoldsState(s)'
    <3>1. SUFFICES ASSUME NEW s \in Published'
                   PROVE  HoldsState(s)'
      OBVIOUS
    <3>2. s \in Steps /\ HoldsState(s)
      BY <1>1, <1>2, <1>3
    <3>3. QED
      BY <1>1, <1>3, <3>2, StillHolds
  <2>2. SimPending(Op("push", "system"))' => \A s \in Published' \ {step'} : content'[s] # step'
    BY <1>2, <1>3
  <2>3. QED
    BY <1>2, <1>3, <2>1, <2>2 DEF ContentInv
<1>4. CASE StartGeneration \/ StartInitialization \/ RunSimulation \/ EndSimulation \/ FinishThread
  <2>1. simTodo' = simTodo /\ simTodo = <<>>
    BY <1>4 DEF SimTodoInv, StartGeneration, StartInitialization, RunSimulation, EndSimulation,
                FinishThread, TakeSimEvent
  <2>2. \A op : ~SimPending(op)' /\ ~SimPending(op)
    BY <2>1 DEF SimPending, Elements
  <2>3. content' = content
    BY <1>4 DEF StartGeneration, StartInitialization, RunSimulation, EndSimulation,
                FinishThread, Initialize, DestroySimulator, simulatorVars
  <2>4. UNCHANGED <<queue, hand, slot, rendered, sent>> /\ step' = step
    BY <1>4 DEF StartGeneration, StartInitialization, RunSimulation, EndSimulation,
                FinishThread, TakeSimEvent, PhaseInv, channelVars, guiVars
  <2>5. Published' = Published
    BY <2>4 DEF Published
  <2>6. QED
    BY <1>3, <2>2, <2>3, <2>4, <2>5
<1>5. CASE BeginIteration
  <2>1. SimPending(Op("step", "simulator"))'
    <3>1. PICK wanted \in Wants : simTodo' = Iteration(wanted)
      BY <1>5 DEF BeginIteration
    <3>2. Saved \subseteq Kinds /\ wanted \in SUBSET Kinds
      BY ConfigFacts DEF PipelineTypeOK
    <3>3. QED
      BY <3>1, <3>2, IterationCalls DEF SimPending, Elements
  <2>2. UNCHANGED <<content, queue, hand, slot, rendered, sent>> /\ step' = step + 1
    BY <1>5 DEF BeginIteration, simulatorVars, channelVars, guiVars
  <2>3. Published' = Published
    BY <2>2 DEF Published
  <2>4. \A s \in Published : HoldsState(s)'
    <3>1. SUFFICES ASSUME NEW s \in Published
                   PROVE  HoldsState(s)'
      OBVIOUS
    <3>2. s \in Steps /\ HoldsState(s)
      BY <1>1, <1>2
    <3>3. QED
      BY <1>1, <2>2, <3>2, StillHolds
  <2>5. step' \notin sent'["system"]
    <3>1. \A s \in sent["system"] : s \in Nat /\ s <= step
      BY <1>1 DEF SentInv
    <3>2. QED
      BY <1>1, <2>2, <3>1
  <2>6. \A s \in Published \ {step'} : content'[s] # step'
    <3>1. SUFFICES ASSUME NEW s \in Published \ {step'}
                   PROVE  content[s] # step + 1
      BY <2>2
    <3>2. HoldsState(s)
      BY <1>2
    <3>3. QED
      BY <1>1, <2>2, <3>1, <3>2 DEF HoldsState
  <2>7. QED
    BY <2>1, <2>3, <2>4, <2>5, <2>6 DEF ContentInv
<1>6. ASSUME NEW op, MakesCall(op)
      PROVE  ContentInv'
  <2>1. Perform(op) /\ step' = step /\ rendered' = rendered
    BY <1>6, CallOfIteration DEF guiVars
  <2>2. /\ simTodo # <<>>
        /\ \A o : SimPending(o) <=> (o = op \/ SimPending(o)')
        /\ ~SimPending(op)'
        /\ \A o : SimPending(o)' => Rank(op) < Rank(o)
    BY <2>1, CallIsMade
  <2>3. step \in Steps /\ want \in Wants /\ \A o : SimPending(o)' => SimPending(o)
    BY <2>2 DEF SimTodoInv
  <2>4. CASE /\ op # Op("step", "simulator") /\ content' = content
             /\ UNCHANGED <<queue, hand, slot, sent>>
    <3>1. Published' = Published
      BY <2>1, <2>4 DEF Published
    <3>2. SimPending(Op("step", "simulator")) => SimPending(Op("step", "simulator"))'
      BY <2>2, <2>4
    <3>3. QED
      BY <1>3, <2>1, <2>3, <2>4, <3>1, <3>2
  <2>5. CASE op = Op("step", "simulator") /\ StepSimulator
    <3>1. UNCHANGED <<queue, hand, slot, sent>> /\ Published' = Published
      BY <2>1, <2>5 DEF StepSimulator, channelVars, Published
    <3>2. SimPending(Op("step", "simulator"))
      BY <2>2, <2>5
    <3>3. /\ "system" \in want => content'[step] = step
          /\ \A s \in Steps :
               \/ content'[s] = content[s]
               \/ s = step /\ content'[s] = step
               \/ /\ "system" \notin want /\ ~LeavesPublished
                  /\ content'[s] = step /\ s + 2 <= step
      BY <2>5, <3>2, StepWrites
    <3>4. ASSUME NEW o \in {Op("snapshot", "system"), Op("set", "slot"), Op("push", "system")},
                 SimPending(o)'
          PROVE  "system" \in want
      BY <2>3, <3>4 DEF SimTodoInv
    <3>5. ASSUME NEW s \in Published
          PROVE  HoldsState(s)'
      <4>1. s \in Steps /\ s \in Nat /\ HoldsState(s)
        BY <1>1, <1>2
      <4>2. CASE content'[s] = content[s]
        BY <1>1, <2>1, <3>1, <4>1, <4>2, StillHolds
      <4>3. CASE ~LeavesPublished /\ content'[s] = step /\ s + 2 <= step
        <5>1. step \notin sent["system"] /\ step \in s + 2 .. step
          BY <1>1, <1>2, <3>2, <4>1, <4>3
        <5>2. ~LeavesPublished'
          BY <1>1, <4>3 DEF LeavesPublished, Wants
        <5>3. QED
          BY <2>1, <3>1, <4>3, <5>1, <5>2 DEF HoldsState
      <4>4. CASE s = step /\ content'[s] = step
        BY <4>4 DEF HoldsState
      <4>5. QED
        BY <3>3, <4>1, <4>2, <4>3, <4>4
    <3>6. ASSUME SimPending(Op("push", "system"))', NEW s \in Published \ {step}
          PROVE  content'[s] # step
      <4>1. "system" \in want /\ SimPending(Op("push", "system"))
        BY <2>3, <3>4, <3>6
      <4>2. content'[s] = content[s]
        BY <1>1, <3>3, <3>6, <4>1
      <4>3. QED
        BY <1>2, <3>6, <4>1, <4>2
    <3>7. ~SimPending(Op("step", "simulator"))'
      BY <2>2, <2>5
    <3>8. \A o \in {Op("snapshot", "system"), Op("set", "slot"), Op("push", "system")} :
            SimPending(o)' => content'[step] = step
      BY <3>3, <3>4
    <3>9. QED
      BY <2>1, <3>1, <3>5, <3>6, <3>7, <3>8 DEF ContentInv
  <2>6. ASSUME op \in {Op("set", "slot"), Op("push", "system")}
        PROVE  content[step] = step /\ ~SimPending(Op("step", "simulator"))
    <3>1. SimPending(op)
      BY <2>2
    <3>2. Rank(op) \in {5, 6} /\ Rank(Op("step", "simulator")) = 3
      BY <2>6, RankValues
    <3>3. ~SimPending(Op("step", "simulator"))
      BY <2>2, <3>2
    <3>4. QED
      BY <1>2, <2>6, <3>1, <3>3
  <2>7. ASSUME op \in {Op("set", "slot"), Op("push", "system")}, content' = content,
               Published' \subseteq Published \cup {step},
               \/ sent'["system"] = sent["system"]
               \/ op = Op("push", "system") /\ sent'["system"] = sent["system"] \cup {step}
        PROVE  ContentInv'
    <3>1. content[step] = step /\ ~SimPending(Op("step", "simulator"))'
      BY <2>3, <2>6, <2>7
    <3>2. ASSUME NEW s \in Published'
          PROVE  HoldsState(s)'
      <4>1. CASE s = step
        BY <2>7, <3>1, <4>1 DEF HoldsState
      <4>2. CASE s # step
        <5>1. s \in Published /\ s \in Steps /\ HoldsState(s)
          BY <1>1, <1>2, <2>7, <3>2, <4>2
        <5>2. op = Op("push", "system") => content[s] # step
          BY <1>2, <2>2, <4>2, <5>1
        <5>3. content[s] \in sent'["system"] => content[s] \in sent["system"]
          BY <2>7, <5>2
        <5>4. content'[s] = content[s]
          BY <2>7
        <5>5. QED
          BY <1>1, <2>1, <5>1, <5>3, <5>4, StillHolds
      <4>3. QED
        BY <4>1, <4>2
    <3>3. SimPending(Op("push", "system"))' => \A s \in Published' \ {step} : content[s] # step
      BY <1>2, <2>3, <2>7
    <3>4. QED
      BY <2>1, <2>7, <3>1, <3>2, <3>3 DEF ContentInv
  <2>8. CASE op = Op("set", "slot") /\ SetRenderingSnapshot
    <3>1. UNCHANGED <<simulatorVars, queue, hand, sent>> /\ slot' = step
      BY <2>8 DEF SetRenderingSnapshot
    <3>2. Published' \subseteq Published \cup {step}
      BY <2>1, <3>1 DEF Published
    <3>3. content' = content
      BY <3>1 DEF simulatorVars
    <3>4. QED
      BY <2>7, <2>8, <3>1, <3>2, <3>3
  <2>9. ASSUME NEW channel \in Channels, op = Op("push", channel), PushSnapshot(channel)
        PROVE  ContentInv'
    <3>1. UNCHANGED <<slot, hand>> /\ content' = content
      BY <2>9 DEF PushSnapshot, simulatorVars
    <3>2. CASE channel = "system"
      <4>1. /\ queue'["system"] = Append(queue["system"], step)
            /\ sent'["system"] = sent["system"] \cup {step}
        BY <1>1, <2>9, <3>2 DEF PushSnapshot
      <4>2. Elements(queue'["system"]) = Elements(queue["system"]) \cup {step}
        BY <1>1, <2>3, <4>1, AppendFacts DEF Snapshots
      <4>3. Published' \subseteq Published \cup {step}
        BY <2>1, <3>1, <4>2 DEF Published
      <4>4. QED
        BY <2>7, <2>9, <3>1, <3>2, <4>1, <4>3
    <3>3. CASE channel # "system"
      <4>1. queue'["system"] = queue["system"] /\ sent'["system"] = sent["system"]
        BY <1>1, <2>9, <3>3 DEF PushSnapshot
      <4>2. Published' = Published
        BY <2>1, <3>1, <4>1 DEF Published
      <4>3. op # Op("step", "simulator")
        BY <2>9 DEF Op
      <4>4. SimPending(Op("step", "simulator")) => SimPending(Op("step", "simulator"))'
        BY <2>2, <4>3
      <4>5. QED
        BY <1>3, <2>1, <2>3, <3>1, <4>1, <4>2, <4>4
    <3>4. QED
      BY <3>2, <3>3
  <2>10. \/ /\ \E kind \in Kinds : op = Op("acquire", kind) \/ op = Op("snapshot", kind)
            /\ content' = content /\ UNCHANGED <<queue, hand, slot, sent>>
         \/ op = Op("step", "simulator") /\ StepSimulator
         \/ op = Op("set", "slot") /\ SetRenderingSnapshot
         \/ \E channel \in Channels : op = Op("push", channel) /\ PushSnapshot(channel)
    BY <1>6 DEF MakesCall, AcquireData, AcquireSnapshot, channelVars, simulatorVars
  <2>11. \A kind \in Kinds : /\ Op("acquire", kind) # Op("step", "simulator")
                             /\ Op("snapshot", kind) # Op("step", "simulator")
    BY DEF Op
  <2>12. QED
    BY <2>4, <2>5, <2>8, <2>9, <2>10, <2>11
<1>7. CASE OthersStep
  <2>1. UNCHANGED <<step, simTodo, simulatorVars, sent>>
    BY <1>7, OthersLeaveSimulation
  <2>2. Published' \subseteq Published
    BY <1>7, OthersPublishNothing
  <2>3. /\ content' = content
        /\ \A o : SimPending(o)' <=> SimPending(o)
    BY <2>1 DEF SimPending, Elements, simulatorVars
  <2>4. QED
    BY <1>3, <2>1, <2>2, <2>3
<1>8. CASE UNCHANGED pipelineVars
  <2>1. UNCHANGED <<step, simTodo, content, queue, hand, slot, rendered, sent>>
    BY <1>8 DEF pipelineVars, simulationVars, channelVars, guiVars
  <2>2. /\ Published' = Published
        /\ \A o : SimPending(o)' <=> SimPending(o)
    BY <2>1 DEF Published, SimPending, Elements
  <2>3. QED
    BY <1>3, <2>1, <2>2
<1>9. QED
  BY <1>4, <1>5, <1>6, <1>7, <1>8, StepKinds

-----------------------------------------------------------------------------
(* The invariant and what it implies.                                      *)

LEMMA PipelineInvInit == PipelineInit => PipelineInv
<1> SUFFICES ASSUME PipelineInit
             PROVE  PipelineInv
  OBVIOUS
<1>1. SimTodoInv
  <2>1. \A op : ~SimPending(op)
    BY DEF PipelineInit, SimPending, Elements
  <2>2. simTodo = <<>> /\ InCodeOrder(simTodo, 1, 9)
    BY NoCalls DEF PipelineInit
  <2>3. QED
    BY <2>1, <2>2 DEF SimTodoInv
<1>2. QED
  BY <1>1, PipelineTypeOKInit, PhaseInvInit, GuiInvInit, SentinelInvInit, SentInvInit,
     PathInvInit, ContentInvInit DEF PipelineInv

LEMMA PipelineInvStep == PipelineInv /\ [PipelineNext]_pipelineVars => PipelineInv'
  BY PipelineTypeOKStep, SimTodoInvStep, PhaseInvStep, GuiInvStep, SentinelInvStep, SentInvStep,
     PathInvStep, BuffersInvStep, ContentInvStep DEF PipelineInv

LEMMA InvGivesOrder == PipelineInv => DeliveredInOrder
<1> SUFFICES ASSUME PipelineInv, NEW c \in Channels, c \in Kinds \/ presenter
             PROVE  Ascending(Path(c)) /\ Elements(Path(c)) \ {None} = sent[c]
  BY DEF DeliveredInOrder
<1>1. PICK g, p, h, q : /\ g = got[c] /\ p = PlotsFor(c, guiEvents)
                        /\ h = hand[c] /\ q = queue[c]
  OBVIOUS
<1>2. Path(c) = ((g \o p) \o <<h>>) \o q
  BY <1>1 DEF Path, PlotsFor, Plots, PlotsIn
<1>3. /\ InOrder(g, p, h, q) /\ AllOf(g, p, h, q) = sent[c]
  BY <1>1 DEF PipelineInv, PathInv, PathOf
<1>4. /\ g \in Seq(Steps) /\ h \in Snapshots /\ q \in Seq(Snapshots) /\ AreEvents(guiEvents)
      /\ None \in Snapshots
  BY <1>1 DEF PipelineInv, PipelineTypeOK, Snapshots
<1>5. g \in Seq(Snapshots)
  BY <1>4, SeqDef DEF Snapshots
<1>6. p \in Seq(Snapshots)
  <2>1. <<>> \in Seq(Snapshots)
    OBVIOUS
  <2>2. Op("generated", None) \in EventKinds \X Snapshots
    BY PostedEvents DEF EventKinds
  <2>3. PlotsIn(guiEvents) \in Seq(Snapshots)
    BY <1>4, <2>2, PlotsAppend
  <2>4. QED
    BY <1>1, <2>1, <2>3 DEF PlotsFor
<1>7. PICK one : one = <<h>>
  OBVIOUS
<1>8. /\ one \in Seq(Snapshots) /\ Elements(one) = {h} /\ Ascending(one)
  <2>1. one \in Seq(Snapshots) /\ DOMAIN one = {1} /\ one[1] = h
    BY <1>4, <1>7
  <2>2. QED
    BY <2>1 DEF Elements, Ascending
<1>9. PICK gp : gp = g \o p
  OBVIOUS
<1>10. gp \in Seq(Snapshots) /\ Ascending(gp) /\ Elements(gp) = Elements(g) \cup Elements(p)
  BY <1>3, <1>5, <1>6, <1>9, AscendingConcat, ConcatFacts DEF InOrder
<1>11. PICK gph : gph = gp \o one
  OBVIOUS
<1>12. gph \in Seq(Snapshots) /\ Ascending(gph)
       /\ Elements(gph) = Elements(g) \cup Elements(p) \cup {h}
  <2>1. Before(Elements(gp), Elements(one))
    BY <1>3, <1>8, <1>10 DEF InOrder, Before
  <2>2. gp \o one \in Seq(Snapshots)
    BY <1>8, <1>10, ConcatFacts
  <2>3. Ascending(gp \o one) /\ Elements(gp \o one) = Elements(gp) \cup Elements(one)
    <3>1. gp \in Seq(Snapshots) /\ one \in Seq(Snapshots) /\ Ascending(gp) /\ Ascending(one)
      BY <1>8, <1>10
    <3>2. QED
      BY <2>1, <3>1, AscendingConcat
  <2>4. QED
    BY <1>8, <1>10, <1>11, <2>2, <2>3
<1>13. Before(Elements(gph), Elements(q))
  BY <1>3, <1>12 DEF InOrder, Before
<1>14. /\ Ascending(gph \o q)
       /\ Elements(gph \o q) = Elements(g) \cup Elements(p) \cup {h} \cup Elements(q)
  <2>1. Ascending(q)
    BY <1>3 DEF InOrder
  <2>2. Ascending(gph \o q) /\ Elements(gph \o q) = Elements(gph) \cup Elements(q)
    <3>1. gph \in Seq(Snapshots) /\ q \in Seq(Snapshots) /\ Ascending(gph)
      BY <1>4, <1>12
    <3>2. QED
      BY <1>13, <2>1, <3>1, AscendingConcat
  <2>3. QED
    BY <1>12, <2>2
<1>15. Path(c) = gph \o q
  BY <1>2, <1>7, <1>9, <1>11
<1>16. QED
  BY <1>3, <1>14, <1>15 DEF AllOf

LEMMA InvGivesFile == PipelineInv => FileLacksAtMostLast
<1> SUFFICES ASSUME PipelineInv, runner = "gone", NEW c \in Saved
             PROVE  sent[c] \ Elements(got[c]) \subseteq {step}
  BY DEF FileLacksAtMostLast
<1>1. c \in Kinds /\ c \in Channels /\ c # "chart"
  BY ConfigFacts DEF PipelineInv, PipelineTypeOK, Channels, Kinds
<1>2. c \in stopped
  BY DEF PipelineInv, GuiInv
<1>3. hand[c] = None /\ \A i \in DOMAIN queue[c] : queue[c][i] = step
  BY <1>1, <1>2 DEF PipelineInv, SentinelInv, SentinelOf
<1>4. Elements(queue[c]) \subseteq {step}
  BY <1>3 DEF Elements
<1>5. PlotsFor(c, guiEvents) = <<>> /\ Elements(<<>>) = {}
  BY <1>1 DEF PlotsFor, Elements
<1>6. AllOf(got[c], <<>>, hand[c], queue[c]) = sent[c]
  BY <1>1, <1>5 DEF PipelineInv, PathInv, PathOf
<1>7. QED
  BY <1>3, <1>4, <1>5, <1>6 DEF AllOf

LEMMA InvGivesState == PipelineInv => SnapshotKeepsItsState
<1> SUFFICES ASSUME PipelineInv, NEW s \in SnapshotsHeld("system")
             PROVE  HoldsState(s)
  BY DEF SnapshotKeepsItsState, HoldsState
<1>1. CASE s \in LocalSnapshot("system")
  <2>1. /\ s = step /\ Op("snapshot", "system") \notin Elements(simTodo)
        /\ Elements(simTodo) \cap UsesLocal("system") # {}
    BY <1>1 DEF LocalSnapshot, LocalData
  <2>2. PICK op \in {Op("set", "slot"), Op("push", "system")} : SimPending(op)
    BY <2>1 DEF UsesLocal, SimPending
  <2>3. ~SimPending(Op("step", "simulator"))
    BY <2>1, <2>2 DEF PipelineInv, SimTodoInv, SimPending
  <2>4. QED
    BY <2>1, <2>2, <2>3 DEF PipelineInv, ContentInv, HoldsState
<1>2. CASE s \notin LocalSnapshot("system")
  <2>1. s \in Published
    BY <1>2 DEF SnapshotsHeld, HeldByChannel, Published
  <2>2. QED
    BY <2>1 DEF PipelineInv, ContentInv
<1>3. QED
  BY <1>1, <1>2

-----------------------------------------------------------------------------
\* Every variable keeps its type, whatever the runner is constructed with: the
\* buffers named in slots and queues are those of steps taken, and only closures
\* for the chart carry one.
THEOREM PipelineTypes == PipelineSafeSpec => []PipelineTypeOK
<1>1. PipelineInv => PipelineTypeOK
  BY DEF PipelineInv
<1>2. QED
  BY <1>1, PipelineInvInit, PipelineInvStep, PTL DEF PipelineSafeSpec

\* No snapshot is lost, repeated or overtaken between runSimulation's pushes
\* and the files and the chart, for queues and pools of any size and threads
\* interleaved in any way, with the destructors at any moment.
THEOREM PathsInOrder == PipelineSafeSpec => []DeliveredInOrder
  BY InvGivesOrder, PipelineInvInit, PipelineInvStep, PTL DEF PipelineSafeSpec

\* When ~SimulationRunner has returned, each file holds every snapshot pushed
\* to its worker, save perhaps that of the iteration under way when the
\* sentinel was queued.
THEOREM FilesComplete == PipelineSafeSpec => []FileLacksAtMostLast
  BY InvGivesFile, PipelineInvInit, PipelineInvStep, PTL DEF PipelineSafeSpec

\* A system buffer that a queue, a worker, the slot or the renderer holds has
\* the state of its step, for every simulator and every choice of steps that
\* retrieve.  The exception is that of a simulator that swaps: a step that
\* retrieves nothing may overwrite it, two steps after its own at the earliest.
THEOREM SnapshotsKeepTheirState == PipelineSafeSpec => []SnapshotKeepsItsState
  BY InvGivesState, PipelineInvInit, PipelineInvStep, PTL DEF PipelineSafeSpec
=============================================================================
