------------------------- MODULE ComputationsProofs -------------------------
(***************************************************************************)
(* Proofs about the computations of the simulators and of the charts, each *)
(* for every value of its constants; they share no state.                  *)
(*                                                                         *)
(* HitsSchedule: the inductive invariant is the type invariant with        *)
(* ScheduledWhenDue and TimesPassed.  A particle stands in the schedule at *)
(* its due time, so none can stand there twice, and taking the earliest    *)
(* one leaves only later due times; no particle's own time is ahead of the *)
(* system time.                                                            *)
(*                                                                         *)
(* Integrators: both buffers have the scaled masses, and the forces are    *)
(* those of the positions that are stepped, for Hermite of its prediction. *)
(*                                                                         *)
(* BarnesHutTree: the leaf of a particle is an end of the tree, every      *)
(* other node is shared, and the call under way stands below shared nodes. *)
(* The walk then ends once on the way to each leaf, and what is accumulated*)
(* in a node is, child by child, the sum over the particles below it.      *)
(* Particles lie in the cells of the nodes above them, so that a cell that *)
(* holds a particle is not far away from it.                               *)
(*                                                                         *)
(* DiagnosticsCharts: the borders of buckets increase, so that every point *)
(* chosen is one of the series and both ends are chosen; extremes that are *)
(* widened value by value are those of the series.                         *)
(***************************************************************************)
EXTENDS HitsSchedule, Integrators, BarnesHutTree, DiagnosticsCharts, RecursionLemmas,
        SequenceTheorems, TLAPS

-----------------------------------------------------------------------------
(* HitsSchedule.                                                            *)

\* No particle's own time is ahead of the system time.
TimesPassed == \A p \in Particles : particleTime[p] <= systemTime

\* The inductive invariant of HitsSchedule.
HitsInv == HitsTypeOK /\ ScheduledWhenDue /\ TimesPassed

\* The step taken for the particle due at time t; new is what the formula yields.
StepAt(t, new) ==
  LET p == schedule[t]
  IN  /\ systemTime < Duration
      /\ Earliest(t)
      /\ systemTime' = t
      /\ timeStep' = [timeStep EXCEPT ![p] = NextTimeStep(timeStep[p], new)]
      /\ particleTime' = [particleTime EXCEPT ![p] = t]
      /\ schedule' = Inserted(Without(t), t + timeStep'[p], p)

\* A time step never becomes shorter than a tick.
LEMMA NextTimeStepPositive ==
  ASSUME NEW old \in Nat \ {0}, NEW new \in Nat \ {0}
  PROVE  NextTimeStep(old, new) \in Nat \ {0}
<1>1. (13 * old) \div 10 \in Nat \ {0}
  OBVIOUS
<1> QED BY <1>1 DEF NextTimeStep

\* insert adds the due time unless it is taken, and changes no other entry.
LEMMA InsertedEntries ==
  ASSUME NEW t, NEW due, NEW p
  PROVE  /\ DOMAIN Inserted(Without(t), due, p) = (DOMAIN schedule \ {t}) \cup {due}
         /\ \A u \in DOMAIN schedule \ {t} : Inserted(Without(t), due, p)[u] = schedule[u]
         /\ due \notin DOMAIN schedule \ {t} => Inserted(Without(t), due, p)[due] = p
BY DEF Inserted, Without

LEMMA HitsInitHolds == HitsInit => HitsInv
<1> SUFFICES ASSUME HitsInit PROVE HitsInv
  OBVIOUS
<1>1. timeStep \in [Particles -> Nat \ {0}]
  BY HitsAssumption DEF HitsInit
<1>2. /\ particleTime \in [Particles -> Nat]
      /\ DOMAIN schedule = {timeStep[p] : p \in Particles}
      /\ schedule \in [DOMAIN schedule -> Particles]
  BY DEF HitsInit
<1>3. HitsTypeOK
  BY <1>1, <1>2 DEF HitsTypeOK, HitsInit
<1>4. ASSUME NEW t \in DOMAIN schedule
      PROVE  t = Due(schedule[t]) /\ t > systemTime
  <2>1. schedule[t] \in Particles /\ timeStep[schedule[t]] = t
    BY <1>2 DEF HitsInit
  <2>2. particleTime[schedule[t]] = 0 /\ systemTime = 0
    BY <2>1 DEF HitsInit
  <2>3. t \in Nat \ {0}
    BY <1>1, <2>1
  <2> QED BY <2>1, <2>2, <2>3 DEF Due
<1>5. TimesPassed
  BY DEF HitsInit, TimesPassed
<1> QED BY <1>3, <1>4, <1>5 DEF HitsInv, ScheduledWhenDue

\* What a step of the simulator does to the invariant and to the system time,
\* in terms of the earliest due time and the particle updated.
LEMMA HitsStepHolds ==
  ASSUME HitsInv, NEW t \in DOMAIN schedule, NEW new \in StepSizes, StepAt(t, new)
  PROVE  HitsInv'
<1> DEFINE p   == schedule[t]
           n   == NextTimeStep(timeStep[p], new)
           due == t + n
<1>1. /\ t \in Nat /\ p \in Particles
      /\ timeStep \in [Particles -> Nat \ {0}]
      /\ particleTime \in [Particles -> Nat]
      /\ schedule \in [DOMAIN schedule -> Particles]
      /\ DOMAIN schedule \subseteq Nat
  BY DEF HitsInv, HitsTypeOK
<1>2. n \in Nat \ {0}
  BY <1>1, NextTimeStepPositive, HitsAssumption
<1>3. due \in Nat /\ due > t
  BY <1>1, <1>2
<1>4. /\ systemTime' = t
      /\ timeStep' = [timeStep EXCEPT ![p] = n]
      /\ particleTime' = [particleTime EXCEPT ![p] = t]
      /\ timeStep'[p] = n /\ particleTime'[p] = t
  BY <1>1 DEF StepAt
<1>5. schedule' = Inserted(Without(t), due, p)
  BY <1>4 DEF StepAt
<1> HIDE DEF n, due
<1>6. /\ DOMAIN schedule' = (DOMAIN schedule \ {t}) \cup {due}
      /\ \A u \in DOMAIN schedule \ {t} : schedule'[u] = schedule[u]
      /\ due \notin DOMAIN schedule \ {t} => schedule'[due] = p
  <2> DEFINE s == Inserted(Without(t), due, p)
  <2>1. /\ DOMAIN s = (DOMAIN schedule \ {t}) \cup {due}
        /\ \A u \in DOMAIN schedule \ {t} : s[u] = schedule[u]
        /\ due \notin DOMAIN schedule \ {t} => s[due] = p
    BY InsertedEntries
  <2>2. schedule' = s
    BY <1>5
  <2> HIDE DEF s
  <2> QED BY <2>1, <2>2
<1>7. schedule' \in [DOMAIN schedule' -> Particles]
  <2>1. schedule' = [u \in DOMAIN Without(t) \cup {due} |->
                      IF u \in DOMAIN Without(t) THEN Without(t)[u] ELSE p]
    BY <1>5 DEF Inserted
  <2>2. ASSUME NEW u \in DOMAIN schedule' PROVE schedule'[u] \in Particles
    BY <1>1, <1>6
  <2> QED BY <2>1, <2>2
<1>8. HitsTypeOK'
  BY <1>1, <1>2, <1>3, <1>4, <1>6, <1>7 DEF HitsTypeOK
<1>9. ASSUME NEW u \in DOMAIN schedule'
      PROVE  u = Due(schedule[u])' /\ u > systemTime'
  <2>1. CASE u \in DOMAIN schedule \ {t}
    <3>1. schedule'[u] = schedule[u] /\ u = Due(schedule[u])
      BY <1>6, <2>1 DEF HitsInv, ScheduledWhenDue
    <3>2. schedule[u] # p
      BY <2>1, <3>1 DEF HitsInv, ScheduledWhenDue
    <3>3. schedule[u] \in Particles
      BY <1>1, <2>1
    <3>4. timeStep'[schedule[u]] = timeStep[schedule[u]]
          /\ particleTime'[schedule[u]] = particleTime[schedule[u]]
      BY <1>1, <1>4, <3>2, <3>3
    <3>5. u >= t
      BY <2>1, <1>1 DEF StepAt, Earliest
    <3>6. u > t
      BY <2>1, <3>5, <1>1
    <3> QED BY <1>4, <3>1, <3>4, <3>6 DEF Due
  <2>2. CASE u \notin DOMAIN schedule \ {t}
    <3>1. u = due /\ schedule'[u] = p
      BY <1>6, <2>2
    <3> QED BY <1>3, <1>4, <3>1 DEF Due, due
  <2> QED BY <2>1, <2>2
<1>10. ASSUME NEW q \in Particles PROVE particleTime'[q] <= systemTime'
  <2>1. CASE q = p
    BY <1>1, <1>4, <2>1
  <2>2. CASE q # p
    <3>1. particleTime'[q] = particleTime[q] /\ particleTime[q] \in Nat
      BY <1>1, <1>4, <2>2
    <3>2. particleTime[q] <= systemTime /\ systemTime < t /\ systemTime \in Nat
      BY DEF HitsInv, HitsTypeOK, TimesPassed, ScheduledWhenDue
    <3> QED BY <1>1, <1>4, <3>1, <3>2
  <2> QED BY <2>1, <2>2
<1> QED BY <1>8, <1>9, <1>10 DEF HitsInv, ScheduledWhenDue, TimesPassed

LEMMA HitsNextIsStep ==
  ASSUME CalculateNextSystemState
  PROVE  \E t \in DOMAIN schedule, new \in StepSizes : StepAt(t, new)
BY DEF CalculateNextSystemState, StepAt

LEMMA HitsInvInductive == HitsInv /\ [HitsNext]_hitsVars => HitsInv'
<1> SUFFICES ASSUME HitsInv, [HitsNext]_hitsVars PROVE HitsInv'
  OBVIOUS
<1>1. CASE CalculateNextSystemState
  BY <1>1, HitsNextIsStep, HitsStepHolds
<1>2. CASE NothingToUpdate \/ UNCHANGED hitsVars
  BY <1>2 DEF NothingToUpdate, hitsVars, HitsInv, HitsTypeOK, ScheduledWhenDue,
             TimesPassed, Due
<1> QED BY <1>1, <1>2 DEF HitsNext

\* The inductive invariant holds in every behaviour of HitsSimulator::step.
THEOREM HitsInvariant == HitsSafeSpec => []HitsInv
BY HitsInitHolds, HitsInvInductive, PTL DEF HitsSafeSpec

\* Types: time steps stay positive, the schedule maps times to particles.
THEOREM HitsTypeCorrect == HitsSafeSpec => []HitsTypeOK
<1>1. HitsInv => HitsTypeOK
  BY DEF HitsInv
<1> QED BY <1>1, HitsInvariant, PTL

\* A scheduled particle stands at its due time, which lies ahead.
THEOREM HitsScheduledWhenDue == HitsSafeSpec => []ScheduledWhenDue
<1>1. HitsInv => ScheduledWhenDue
  BY DEF HitsInv
<1> QED BY <1>1, HitsInvariant, PTL

\* Predictions go forward, and for a scheduled particle by less than its step.
THEOREM HitsPredictsWithinStep == HitsSafeSpec => []PredictsWithinStep
<1>1. ASSUME HitsInv, NEW p \in Scheduled
      PROVE  systemTime - particleTime[p] < timeStep[p]
  <2>1. PICK t \in DOMAIN schedule : schedule[t] = p
    BY DEF Scheduled
  <2>2. t = particleTime[p] + timeStep[p] /\ t > systemTime
    BY <1>1, <2>1 DEF HitsInv, ScheduledWhenDue, Due
  <2>3. p \in Particles
    BY <1>1, <2>1 DEF HitsInv, HitsTypeOK
  <2>4. particleTime[p] \in Nat /\ timeStep[p] \in Nat /\ systemTime \in Nat
    BY <1>1, <2>3 DEF HitsInv, HitsTypeOK
  <2> QED BY <2>2, <2>4
<1>2. HitsInv => PredictsWithinStep
  BY <1>1 DEF HitsInv, TimesPassed, PredictsWithinStep
<1> QED BY <1>2, HitsInvariant, PTL

\* Every step of the simulator advances the system time, and passes no
\* scheduled particle over.
THEOREM HitsTimeAdvances == HitsSafeSpec => TimeAdvances
<1>1. ASSUME HitsInv, CalculateNextSystemState
      PROVE  /\ systemTime' > systemTime
             /\ \A p \in Scheduled : systemTime' <= Due(p)
  <2>1. PICK t \in DOMAIN schedule, new \in StepSizes : StepAt(t, new)
    BY <1>1, HitsNextIsStep
  <2>2. systemTime' = t /\ \A u \in DOMAIN schedule : t <= u
    BY <2>1 DEF StepAt, Earliest
  <2>3. \A u \in DOMAIN schedule : u = Due(schedule[u]) /\ u > systemTime
    BY <1>1 DEF HitsInv, ScheduledWhenDue
  <2>4. \A p \in Scheduled : systemTime' <= Due(p)
    BY <2>2, <2>3 DEF Scheduled
  <2> QED BY <2>2, <2>3, <2>4
<1>2. HitsInv /\ [HitsNext]_hitsVars
        => [CalculateNextSystemState =>
              /\ systemTime' > systemTime
              /\ \A p \in Scheduled : systemTime' <= Due(p)]_hitsVars
  BY <1>1
<1> QED BY <1>2, HitsInvariant, PTL DEF HitsSafeSpec, TimeAdvances

-----------------------------------------------------------------------------
(* Integrators.                                                             *)

\* What a buffer may hold.
Contents == [positions : Positions \cup {NoBuffer}, masses : {NoBuffer, "generated", "scaled"}]

IntegratorTypeOK ==
  /\ method \in Methods
  /\ older \in Pool /\ newer \in Pool /\ older # newer
  /\ holds \in [Pool -> Contents]
  /\ time \in Positions \cup {NoBuffer}

\* Both buffers have the scaled masses, and previous_system_ the positions of
\* the last step.
BuffersScaled ==
  time \in Positions =>
    /\ holds[older] = [positions |-> time, masses |-> "scaled"]
    /\ holds[newer].masses = "scaled"

\* The forces are those of previous_system_, or of its prediction, except at
\* the beginning.
ForcesCurrent ==
  /\ time \in Positions
  /\ method # "Euler"
  /\ method \in {"Leapfrog", "Hermite"} => time # 0
  => forces = SourceOf(holds[older])

\* The inductive invariant of Integrators.
IntegratorInv ==
  /\ IntegratorTypeOK
  /\ BuffersScaled
  /\ ForcesCurrent
  /\ time \in {0, NoBuffer} => kicks = {}
  /\ ForcesBelongToSystem

LEMMA IntegratorInvInit == IntegratorInit => IntegratorInv
<1> SUFFICES ASSUME IntegratorInit PROVE IntegratorInv
  OBVIOUS
<1>1. time \notin Positions
  BY IntegratorAssumption DEF IntegratorInit, Positions
<1>2. IntegratorTypeOK
  BY DEF IntegratorInit, IntegratorTypeOK, Contents, Generated, Zero
<1>3. ForcesBelongToSystem
  BY <1>1 DEF IntegratorInit, ForcesBelongToSystem, KickUsesOwnForces, KicksAreOwn,
              EnergiesOfStep
<1>4. QED
  BY <1>1, <1>2, <1>3 DEF IntegratorInit, IntegratorInv, BuffersScaled, ForcesCurrent

\* initialize, whichever buffer the forces are computed in; those of the
\* Barnes-Hut simulator are computed in the system that is stepped first.
LEMMA InitializedInv ==
  ASSUME IntegratorInv, NEW m \in Methods, NEW start \in Pool, Initialized(m, start),
         m = "BarnesHutLeapfrog" => start = older
  PROVE  IntegratorInv'
<1>1. /\ time' = 0 /\ 0 \in Positions /\ time = NoBuffer
      /\ method' = m /\ older' = older /\ newer' = newer /\ kicks' = {}
  BY IntegratorAssumption DEF Initialized, IntegratorInv, Positions
<1>2. /\ holds' \in [Pool -> Contents]
      /\ holds'[older] = Scaled
      /\ holds'[newer].masses = "scaled"
  <2>1. Scaled \in Contents
    BY <1>1 DEF Scaled, Contents
  <2>2. [holds[newer] EXCEPT !.masses = "scaled"] \in Contents
    BY DEF IntegratorInv, IntegratorTypeOK, Contents
  <2>3. QED
    BY <2>1, <2>2 DEF Initialized, IntegratorInv, IntegratorTypeOK, Contents
<1>3. IntegratorTypeOK'
  BY <1>1, <1>2 DEF IntegratorInv, IntegratorTypeOK
<1>4. BuffersScaled'
  BY <1>1, <1>2 DEF BuffersScaled, Scaled
<1>5. ForcesCurrent'
  BY <1>1 DEF ForcesCurrent, Initialized, Methods, SourceOf
<1>6. ForcesBelongToSystem'
  BY <1>1 DEF ForcesBelongToSystem, KickUsesOwnForces, KicksAreOwn, EnergiesOfStep
<1>7. QED
  BY <1>1, <1>3, <1>4, <1>5, <1>6 DEF IntegratorInv

\* A step leaves a system of the new time, with the scaled masses.
LEMMA MovedInv ==
  ASSUME IntegratorInv, NEW m \in Methods,
         NEW buffer \in (Pool \ {older, newer}) \cup {NoBuffer}, Moved(m, buffer)
  PROVE  /\ IntegratorTypeOK'
         /\ BuffersScaled'
         /\ time' \in Positions \ {0}
         /\ holds'[older'] = Advanced(Target(buffer))
         /\ Advanced(Target(buffer)) = [positions |-> time + 1, masses |-> "scaled"]
         /\ holds[older] = [positions |-> time, masses |-> "scaled"]
<1>1. /\ time \in Nat /\ time' = time + 1 /\ time' \in Positions \ {0} /\ method' = method
  BY IntegratorAssumption DEF Moved, Positions
<1>2. /\ Target(buffer) \in Pool /\ Target(buffer) # older
      /\ older' = Target(buffer) /\ newer' = older
  BY IntegratorAssumption DEF Target, Moved, IntegratorInv, IntegratorTypeOK
<1>3. /\ holds[older] = [positions |-> time, masses |-> "scaled"]
      /\ holds[newer].masses = "scaled"
  BY DEF Moved, IntegratorInv, BuffersScaled
<1>4. Advanced(Target(buffer)) = [positions |-> time', masses |-> "scaled"]
  BY <1>1, <1>3 DEF Advanced
<1>5. Advanced(Target(buffer)) \in Contents
  BY <1>1, <1>4 DEF Contents
<1>6. /\ holds' = [holds EXCEPT ![Target(buffer)] = Advanced(Target(buffer))]
      /\ holds \in [Pool -> Contents] /\ older \in Pool /\ method \in Methods
  BY DEF Moved, IntegratorInv, IntegratorTypeOK
<1>7. /\ holds' \in [Pool -> Contents]
      /\ holds'[older'] = Advanced(Target(buffer)) /\ holds'[newer'] = holds[older]
  BY <1>2, <1>5, <1>6
<1>8. IntegratorTypeOK'
  BY <1>1, <1>2, <1>6, <1>7 DEF IntegratorTypeOK
<1>9. BuffersScaled'
  BY <1>3, <1>4, <1>7 DEF BuffersScaled
<1>10. QED
  BY <1>1, <1>3, <1>4, <1>7, <1>8, <1>9

\* Euler's step uses the forces it has just computed in the same buffer.
LEMMA StepEulerInv ==
  ASSUME IntegratorInv, NEW buffer \in (Pool \ {older, newer}) \cup {NoBuffer}, StepEuler(buffer)
  PROVE  IntegratorInv'
<1>1. /\ "Euler" \in Methods /\ method' = "Euler"
      /\ time \in Int /\ time' = time + 1 /\ forces' = holds[older]
  BY IntegratorAssumption DEF Methods, StepEuler, Moved, Positions
<1>2. /\ IntegratorTypeOK' /\ BuffersScaled' /\ time' \in Positions \ {0}
      /\ holds'[older'] = [positions |-> time + 1, masses |-> "scaled"]
      /\ holds[older] = [positions |-> time, masses |-> "scaled"]
  BY <1>1, MovedInv DEF StepEuler
<1>3. kicks' = {Kick(holds[older], holds[older])}
  BY DEF StepEuler
<1>4. KicksAreOwn'
  BY <1>1, <1>2, <1>3 DEF KicksAreOwn, Kick, SourceOf
<1>5. EnergiesOfStep'
  BY <1>1, <1>2 DEF EnergiesOfStep
<1>6. ForcesBelongToSystem' /\ ForcesCurrent'
  BY <1>1, <1>4, <1>5 DEF ForcesBelongToSystem, KickUsesOwnForces, ForcesCurrent
<1>7. time' \notin {0, NoBuffer}
  BY <1>2, IntegratorAssumption DEF Positions
<1>8. QED
  BY <1>2, <1>6, <1>7 DEF IntegratorInv

\* The other simulators begin with the forces the last step left, which are
\* those of the buffer that step left its system in (or of the prediction that
\* was there before), and leave those of the new system (or its prediction).
LEMMA ForcesKeptInv ==
  ASSUME IntegratorInv, NEW buffer \in (Pool \ {older, newer}) \cup {NoBuffer},
         NEW m \in Methods \ {"Euler"}, Moved(m, buffer), NEW advanced,
         advanced = Advanced(Target(buffer)),
         forces' = SourceOf(advanced),
         kicks' = {Kick(holds[older], forces), Kick(advanced, SourceOf(advanced))}
  PROVE  IntegratorInv'
<1>1. /\ IntegratorTypeOK' /\ BuffersScaled' /\ time' \in Positions \ {0}
      /\ holds'[older'] = advanced /\ advanced.masses = "scaled"
      /\ holds[older].masses = "scaled"
  BY MovedInv
<1>2. /\ method = m /\ method' = m /\ time \in Positions /\ time' = time + 1
  BY DEF Moved
<1>3. ForcesCurrent'
  BY <1>1, <1>2 DEF ForcesCurrent, SourceOf
<1>4. EnergiesOfStep'
  BY <1>1, <1>2 DEF EnergiesOfStep, SourceOf
<1>5. KickUsesOwnForces'
  <2> SUFFICES ASSUME m \in {"Leapfrog", "Hermite"} => time' # 1 PROVE KicksAreOwn'
    BY <1>2 DEF KickUsesOwnForces
  <2>1. forces = SourceOf(holds[older])
    <3>1. m \in {"Leapfrog", "Hermite"} => time # 0
      BY <1>2
    <3>2. QED
      BY <1>2, <3>1 DEF IntegratorInv, ForcesCurrent, Methods
  <2>2. QED
    BY <1>1, <1>2, <2>1 DEF KicksAreOwn, Kick, SourceOf
<1>6. time' \notin {0, NoBuffer}
  BY <1>1, IntegratorAssumption DEF Positions
<1>7. QED
  BY <1>1, <1>3, <1>4, <1>5, <1>6 DEF IntegratorInv, ForcesBelongToSystem

LEMMA StepLeapfrogInv ==
  ASSUME IntegratorInv, NEW buffer \in (Pool \ {older, newer}) \cup {NoBuffer},
         NEW m \in {"Leapfrog", "BarnesHutLeapfrog"}, MovesThenUpdates(m, buffer)
  PROVE  IntegratorInv'
<1>1. PICK advanced : advanced = Advanced(Target(buffer))
  OBVIOUS
<1>2. /\ Moved(m, buffer) /\ method = m
      /\ forces' = advanced
      /\ kicks' = {Kick(holds[older], forces), Kick(advanced, advanced)}
  BY <1>1 DEF MovesThenUpdates, Moved
<1>3. SourceOf(advanced) = advanced /\ m \in Methods \ {"Euler"}
  BY <1>2 DEF SourceOf, Methods
<1>4. QED
  BY <1>1, <1>2, <1>3, ForcesKeptInv

LEMMA StepHermiteInv ==
  ASSUME IntegratorInv, NEW buffer \in (Pool \ {older, newer}) \cup {NoBuffer},
         StepHermite(buffer)
  PROVE  IntegratorInv'
<1>1. PICK corrected : corrected = Advanced(Target(buffer))
  OBVIOUS
<1>2. /\ Moved("Hermite", buffer) /\ method = "Hermite"
      /\ forces' = Prediction(corrected)
      /\ kicks' = {Kick(holds[older], forces), Kick(corrected, Prediction(corrected))}
  BY <1>1 DEF StepHermite, Moved
<1>3. SourceOf(corrected) = Prediction(corrected)
  BY <1>2 DEF SourceOf
<1>4. PICK m \in Methods \ {"Euler"} : m = "Hermite"
  BY DEF Methods
<1>5. Moved(m, buffer)
  BY <1>2, <1>4
<1>6. QED
  BY <1>1, <1>2, <1>3, <1>5, ForcesKeptInv

LEMMA IntegratorInvStep == IntegratorInv /\ [IntegratorNext]_integratorVars => IntegratorInv'
<1> SUFFICES ASSUME IntegratorInv, [IntegratorNext]_integratorVars PROVE IntegratorInv'
  OBVIOUS
<1>1. CASE InitializeEuler \/ InitializeLeapfrog \/ InitializeHermite
           \/ InitializeBarnesHutLeapfrog
  <2>1. older \in Pool /\ newer \in Pool
    BY DEF IntegratorInv, IntegratorTypeOK
  <2>2. QED
    BY <1>1, <2>1, InitializedInv
       DEF Methods, InitializeEuler, InitializeLeapfrog, InitializeHermite,
           InitializeBarnesHutLeapfrog
<1>2. ASSUME NEW buffer \in (Pool \ {older, newer}) \cup {NoBuffer}, StepEuler(buffer)
      PROVE  IntegratorInv'
  BY <1>2, StepEulerInv
<1>3. ASSUME NEW buffer \in (Pool \ {older, newer}) \cup {NoBuffer},
             StepLeapfrog(buffer) \/ StepHermite(buffer) \/ StepBarnesHutLeapfrog(buffer)
      PROVE  IntegratorInv'
  BY <1>3, StepLeapfrogInv, StepHermiteInv DEF StepLeapfrog, StepBarnesHutLeapfrog
<1>4. CASE UNCHANGED integratorVars
  BY <1>4 DEF integratorVars, IntegratorInv, IntegratorTypeOK, BuffersScaled, ForcesCurrent,
              ForcesBelongToSystem, KickUsesOwnForces, KicksAreOwn, EnergiesOfStep, SourceOf
<1>5. QED
  BY <1>1, <1>2, <1>3, <1>4 DEF IntegratorNext

\* For any pool and any number of steps, a system is accelerated by its own
\* forces, or those of Hermite's prediction of it, and the potential energy of
\* its diagnostics is that of the positions that EnergiesOfStep names.
THEOREM IntegratorsUseOwnForces == IntegratorSpec => []ForcesBelongToSystem
<1>1. IntegratorInv => ForcesBelongToSystem
  BY DEF IntegratorInv
<1>2. QED
  BY <1>1, IntegratorInvInit, IntegratorInvStep, PTL DEF IntegratorSpec

-----------------------------------------------------------------------------
(* BarnesHutTree: prefixes of paths.                                        *)

\* One path is a prefix of another if it goes the same way as far as it goes.
LEMMA PrefixPointwise ==
  ASSUME NEW S, NEW s \in Seq(S), NEW t \in Seq(S)
  PROVE  /\ Len(s) \in Nat /\ Len(t) \in Nat
         /\ IsPrefix(s, t) <=> Len(s) <= Len(t) /\ \A i \in 1 .. Len(s) : s[i] = t[i]
<1>1. Len(s) \in Nat /\ Len(t) \in Nat
  BY LenProperties
<1>2. SubSeq(s, 1, Len(s)) = s
  BY SubSeqFull
<1>3. ASSUME Len(s) <= Len(t)
      PROVE  s = SubSeq(t, 1, Len(s)) <=> \A i \in 1 .. Len(s) : s[i] = t[i]
  <2>1. PICK n \in Nat : n = Len(s)
    BY <1>1
  <2>2. \A i \in 1 .. n : t[i] \in S
    BY <1>1, <1>3, <2>1, ElementOfSeq
  <2>3. PICK u : u = SubSeq(t, 1, n)
    OBVIOUS
  <2>4. u \in Seq(S) /\ Len(u) = n /\ \A i \in 1 .. n : u[i] = t[i]
    <3>1. /\ SubSeq(t, 1, n) \in Seq(S)
          /\ Len(SubSeq(t, 1, n)) = IF 1 <= n THEN n - 1 + 1 ELSE 0
          /\ \A i \in 1 .. n - 1 + 1 : SubSeq(t, 1, n)[i] = t[1 + i - 1]
      BY <2>2, SubSeqProperties
    <3> QED BY <2>3, <3>1
  <2>5. (\A i \in 1 .. n : s[i] = t[i]) => s = u
    BY <2>1, <2>4, SeqEqual
  <2> QED BY <2>1, <2>3, <2>4, <2>5
<1> QED BY <1>1, <1>2, <1>3 DEF IsPrefix

\* Each path is a prefix of itself, and prefixes of prefixes are prefixes.
LEMMA PrefixReflexive ==
  ASSUME NEW S, NEW s \in Seq(S) PROVE IsPrefix(s, s)
BY PrefixPointwise

LEMMA PrefixTransitive ==
  ASSUME NEW S, NEW s \in Seq(S), NEW t \in Seq(S), NEW u \in Seq(S),
         IsPrefix(s, t), IsPrefix(t, u)
  PROVE  IsPrefix(s, u)
BY PrefixPointwise

\* Prefixes of equal length, or of each other, are the same.
LEMMA PrefixSameLength ==
  ASSUME NEW S, NEW s \in Seq(S), NEW t \in Seq(S), IsPrefix(s, t), Len(s) = Len(t)
  PROVE  s = t
<1>1. \A i \in 1 .. Len(s) : s[i] = t[i]
  BY PrefixPointwise
<1> QED BY <1>1, SeqEqual

\* A strict prefix is shorter.
LEMMA StrictPrefixShorter ==
  ASSUME NEW S, NEW s \in Seq(S), NEW t \in Seq(S)
  PROVE  IsStrictPrefix(s, t) <=> IsPrefix(s, t) /\ Len(s) < Len(t)
<1>1. IsPrefix(s, t) => Len(s) \in Nat /\ Len(t) \in Nat /\ Len(s) <= Len(t)
  BY PrefixPointwise
<1>2. IsPrefix(s, t) /\ Len(s) = Len(t) => s = t
  BY PrefixSameLength
<1> QED BY <1>1, <1>2 DEF IsStrictPrefix

\* Of two prefixes of a path, the one that is not longer is a prefix of the other.
LEMMA PrefixesComparable ==
  ASSUME NEW S, NEW s \in Seq(S), NEW t \in Seq(S), NEW u \in Seq(S),
         IsPrefix(s, u), IsPrefix(t, u), Len(s) <= Len(t)
  PROVE  IsPrefix(s, t)
<1>1. \A i \in 1 .. Len(s) : s[i] = u[i]
  BY PrefixPointwise
<1>2. \A i \in 1 .. Len(t) : t[i] = u[i]
  BY PrefixPointwise
<1>3. Len(s) \in Nat /\ Len(t) \in Nat
  BY PrefixPointwise
<1>4. \A i \in 1 .. Len(s) : s[i] = t[i]
  BY <1>1, <1>2, <1>3
<1> QED BY <1>4, PrefixPointwise

\* What is a prefix of an extended path is a prefix of the path or all of it.
LEMMA PrefixOfAppend ==
  ASSUME NEW S, NEW s \in Seq(S), NEW t \in Seq(S), NEW x \in S
  PROVE  IsStrictPrefix(s, Append(t, x)) <=> IsPrefix(s, t)
<1>1. PICK u \in Seq(S) : u = Append(t, x)
  BY AppendProperties
<1>2. Len(u) = Len(t) + 1 /\ \A i \in 1 .. Len(t) : u[i] = t[i]
  BY <1>1, AppendProperties
<1>3. Len(s) \in Nat /\ Len(t) \in Nat
  BY PrefixPointwise
<1>4. IsPrefix(t, u)
  BY <1>2, <1>3, PrefixPointwise
<1>5. ASSUME IsStrictPrefix(s, u) PROVE IsPrefix(s, t)
  <2>1. IsPrefix(s, u) /\ Len(s) < Len(u)
    BY <1>5, StrictPrefixShorter
  <2>2. Len(s) <= Len(t)
    BY <1>2, <1>3, <2>1
  <2> QED BY <1>4, <2>1, <2>2, PrefixesComparable
<1>6. ASSUME IsPrefix(s, t) PROVE IsStrictPrefix(s, u)
  <2>1. IsPrefix(s, u)
    BY <1>4, <1>6, PrefixTransitive
  <2>2. Len(s) <= Len(t)
    BY <1>6, PrefixPointwise
  <2>3. Len(s) < Len(u)
    BY <1>2, <1>3, <2>2
  <2> QED BY <2>1, <2>3, StrictPrefixShorter
<1> QED BY <1>1, <1>5, <1>6

\* A strict prefix of a path has a prefix of the path one longer than itself.
LEMMA NextOnTheWay ==
  ASSUME NEW S, NEW s \in Seq(S), NEW t \in Seq(S), IsStrictPrefix(s, t)
  PROVE  \E u \in Seq(S) : IsPrefix(s, u) /\ IsPrefix(u, t) /\ Len(u) = Len(s) + 1
<1>1. IsPrefix(s, t) /\ Len(s) < Len(t) /\ Len(s) \in Nat /\ Len(t) \in Nat
  BY StrictPrefixShorter, PrefixPointwise
<1>2. PICK n \in Nat : n = Len(s) + 1 /\ n <= Len(t)
  BY <1>1
<1>3. \A i \in 1 .. n : t[i] \in S
  BY <1>1, <1>2, ElementOfSeq
<1>4. /\ SubSeq(t, 1, n) \in Seq(S)
      /\ Len(SubSeq(t, 1, n)) = IF 1 <= n THEN n - 1 + 1 ELSE 0
      /\ \A i \in 1 .. n - 1 + 1 : SubSeq(t, 1, n)[i] = t[1 + i - 1]
  BY <1>3, SubSeqProperties
<1>5. PICK u \in Seq(S) : u = SubSeq(t, 1, n)
  BY <1>4
<1>6. Len(u) = n /\ \A i \in 1 .. n : u[i] = t[i]
  BY <1>1, <1>2, <1>4, <1>5
<1>7. IsPrefix(u, t)
  BY <1>2, <1>6, PrefixPointwise
<1>8. IsPrefix(s, u)
  BY <1>1, <1>2, <1>6, <1>7, PrefixesComparable
<1> QED BY <1>2, <1>6, <1>7, <1>8

-----------------------------------------------------------------------------
\* Where nodes may be, and what they may hold.
Paths == Seq(SUBSET Axes)
TreeNodes == [count : Nat, particle : TreeParticles \cup {NoParticle}]

\* Types; the tree is finite and no deeper than the stack lets it be.
TreeTypeOK ==
  /\ positions \in [TreeParticles -> Points] /\ next \in 0 .. TreeSize
  /\ DOMAIN node \subseteq Paths /\ IsFiniteSet(DOMAIN node) /\ <<>> \in DOMAIN node
  /\ \A path \in DOMAIN node : Len(path) <= MaxDepth
  /\ node \in [DOMAIN node -> TreeNodes]
  /\ call.path \in Paths /\ Len(call.path) <= MaxDepth

\* The node is the leaf of a particle.
HasLeaf(path) == node[path].particle # NoParticle

\* Every node but the root has a parent.
PrefixesAreNodes == \A path \in DOMAIN node, q \in Paths : IsPrefix(q, path) => q \in DOMAIN node

\* The leaf of a particle has nothing below it.
LeavesAreEnds ==
  \A path \in DOMAIN node :
    HasLeaf(path) => /\ node[path].count = 1
                     /\ \A q \in DOMAIN node : ~IsStrictPrefix(path, q)

\* A node without a particle of its own stands for several, counting the one
\* that is on its way through it; only the root of an empty tree has none.
InnerNodesAreShared ==
  \A path \in DOMAIN node :
    ~HasLeaf(path) => \/ next = 0 \/ node[path].count >= 2
                      \/ node[path].count = 1 /\ IsStrictPrefix(path, call.path)

\* Every particle inserted so far has one leaf, and no others have any.
EachHasItsLeaf ==
  /\ \A q \in 0 .. next - 1 : \E path \in DOMAIN node : node[path].particle = q
  /\ \A path \in DOMAIN node : HasLeaf(path) => node[path].particle < next
  /\ \A path, other \in DOMAIN node :
       HasLeaf(path) /\ node[path].particle = node[other].particle => path = other

\* Calls have gone through nodes only that have no particle of their own.
CallIsBelowInnerNodes ==
  \A path \in Paths : IsStrictPrefix(path, call.path) => path \in DOMAIN node /\ ~HasLeaf(path)

\* The first particle goes into the root; after the last no call is left.
BeginsAtRoot ==
  /\ next = 0 => /\ DOMAIN node = {<<>>} /\ call.path = <<>>
                 /\ node[<<>>] = [count |-> 0, particle |-> NoParticle]
  /\ Built => call.path = <<>>

\* The inductive invariant of BarnesHutTree.
TreeInv ==
  /\ TreeTypeOK /\ PrefixesAreNodes /\ LeavesAreEnds /\ InnerNodesAreShared /\ EachHasItsLeaf
  /\ CallIsBelowInnerNodes /\ BeginsAtRoot

LEMMA TreeInitHolds == TreeInit => TreeInv
<1> SUFFICES ASSUME TreeInit PROVE TreeInv
  OBVIOUS
<1>1. DOMAIN node = {<<>>} /\ node[<<>>] = [count |-> 0, particle |-> NoParticle]
  BY DEF TreeInit
<1>2. next = 0 /\ call.path = <<>> /\ positions \in [TreeParticles -> Points]
  BY DEF TreeInit, Call
<1>3. <<>> \in Paths /\ Len(<<>>) = 0
  BY EmptySeq DEF Paths
<1>4. \A path \in Paths : IsPrefix(path, <<>>) => path = <<>>
  <2> SUFFICES ASSUME NEW path \in Paths, IsPrefix(path, <<>>) PROVE path = <<>>
    OBVIOUS
  <2>0. path \in Seq(SUBSET Axes) /\ <<>> \in Seq(SUBSET Axes) /\ Len(<<>>) = 0
    BY <1>3 DEF Paths
  <2>1. Len(path) \in Nat /\ Len(path) <= 0
    BY <2>0, PrefixPointwise
  <2> QED BY <2>1, EmptySeq DEF Paths
<1>5. TreeTypeOK
  <2>1. IsFiniteSet(DOMAIN node)
    BY <1>1, FS_Singleton
  <2>2. node \in [DOMAIN node -> TreeNodes]
    BY <1>1 DEF TreeNodes, TreeInit
  <2>3. 0 \in 0 .. TreeSize /\ 0 <= MaxDepth
    BY TreeAssumption
  <2> QED BY <1>1, <1>2, <1>3, <2>1, <2>2, <2>3 DEF TreeTypeOK
<1>6. PrefixesAreNodes
  BY <1>1, <1>4 DEF PrefixesAreNodes
<1>7. ~HasLeaf(<<>>)
  BY <1>1 DEF HasLeaf
<1>8. LeavesAreEnds /\ InnerNodesAreShared
  BY <1>1, <1>2, <1>7 DEF LeavesAreEnds, InnerNodesAreShared
<1>9. EachHasItsLeaf
  BY <1>1, <1>2, <1>7 DEF EachHasItsLeaf
<1>10. CallIsBelowInnerNodes
  BY <1>2, <1>4 DEF CallIsBelowInnerNodes, IsStrictPrefix
<1>11. BeginsAtRoot
  BY <1>1, <1>2, TreeAssumption DEF BeginsAtRoot, Built
<1> QED BY <1>5, <1>6, <1>8, <1>9, <1>10, <1>11 DEF TreeInv

\* What the invariant says of the node of the call under way.
LEMMA CalledNode ==
  ASSUME TreeInv
  PROVE  /\ IsLeaf(call.path) => HasLeaf(call.path) /\ next # 0
         /\ call.path \in DOMAIN node /\ HasLeaf(call.path) => node[call.path].count = 1
         /\ IsEmptyLeaf(call.path) => call.path \notin DOMAIN node \/ next = 0
<1>1. ~IsStrictPrefix(call.path, call.path)
  BY DEF IsStrictPrefix
<1>2. IsLeaf(call.path) => next # 0
  BY DEF TreeInv, BeginsAtRoot, IsLeaf
<1>3. IsLeaf(call.path) => HasLeaf(call.path)
  BY <1>1, <1>2 DEF TreeInv, InnerNodesAreShared, IsLeaf
<1>4. call.path \in DOMAIN node /\ HasLeaf(call.path) => node[call.path].count = 1
  BY DEF TreeInv, LeavesAreEnds
<1>5. IsEmptyLeaf(call.path) => call.path \notin DOMAIN node \/ next = 0
  BY <1>1, <1>4 DEF TreeInv, InnerNodesAreShared, IsEmptyLeaf
<1> QED BY <1>2, <1>3, <1>4, <1>5

LEMMA PerturbKeeps == TreeInv /\ PerturbCoincident => TreeInv'
<1> SUFFICES ASSUME TreeInv, PerturbCoincident PROVE TreeInv'
  OBVIOUS
<1>1. UNCHANGED <<positions, node, next, Built>> /\ call'.path = call.path
  BY DEF PerturbCoincident, Call, Built
<1> QED BY <1>1 DEF TreeInv, TreeTypeOK, PrefixesAreNodes, LeavesAreEnds, InnerNodesAreShared,
                    EachHasItsLeaf, CallIsBelowInnerNodes, BeginsAtRoot, HasLeaf

\* Which nodes are above a call into a child: those above the call and its own.
LEMMA IntoChildMoves ==
  ASSUME TreeInv, NEW point, IntoChild(Octant(point, call.path))
  PROVE  /\ Octant(point, call.path) \in SUBSET Axes
         /\ call'.path = Append(call.path, Octant(point, call.path)) /\ call'.path \in Paths
         /\ Len(call'.path) <= MaxDepth
         /\ \A q \in Paths : IsStrictPrefix(q, call'.path) <=> IsPrefix(q, call.path)
<1>1. PICK octant \in SUBSET Axes : octant = Octant(point, call.path)
  BY DEF Octant
<1>2. call.path \in Seq(SUBSET Axes)
  BY DEF TreeInv, TreeTypeOK, Paths
<1>3. call'.path = Append(call.path, octant)
  BY <1>1 DEF IntoChild, Call
<1>4. call'.path \in Paths
  BY <1>2, <1>3, AppendProperties DEF Paths
<1>5. \A q \in Paths : IsStrictPrefix(q, call'.path) <=> IsPrefix(q, call.path)
  BY <1>2, <1>3, PrefixOfAppend DEF Paths
<1>6. Len(call'.path) <= MaxDepth
  <2>1. Len(call.path) < MaxDepth
    BY DEF IntoChild
  <2>2. Len(call.path) \in Nat /\ Len(call'.path) = Len(call.path) + 1
    BY <1>2, <1>3, LenProperties, AppendProperties
  <2> QED BY <2>1, <2>2, TreeAssumption
<1> QED BY <1>1, <1>3, <1>4, <1>5, <1>6

LEMMA DescendKeeps == TreeInv /\ Descend => TreeInv'
<1> SUFFICES ASSUME TreeInv, Descend PROVE TreeInv'
  OBVIOUS
<1>1. UNCHANGED <<positions, node, next>> /\ ~Built /\ ~Built'
  BY DEF Descend, Built
<1>2. call.path \in DOMAIN node /\ node[call.path].count # 0 /\ node[call.path].count # 1
  BY DEF Descend, IsEmptyLeaf, IsLeaf
<1>3. ~HasLeaf(call.path) /\ next # 0
  <2>1. ~HasLeaf(call.path)
    BY <1>2, CalledNode
  <2>2. next # 0
    BY <1>2 DEF TreeInv, BeginsAtRoot
  <2> QED BY <2>1, <2>2
<1>4. /\ call'.path \in Paths /\ Len(call'.path) <= MaxDepth
      /\ \A q \in Paths : IsStrictPrefix(q, call'.path) <=> IsPrefix(q, call.path)
  BY IntoChildMoves DEF Descend
<1>5. DOMAIN node \subseteq Paths
  BY DEF TreeInv, TreeTypeOK
<1>6. \A q \in Paths : IsPrefix(q, call.path) => q \in DOMAIN node /\ ~HasLeaf(q)
  BY <1>2, <1>3 DEF TreeInv, CallIsBelowInnerNodes, IsStrictPrefix
<1>7. TreeTypeOK'
  BY <1>1, <1>4 DEF TreeInv, TreeTypeOK
<1>8. (PrefixesAreNodes /\ LeavesAreEnds /\ EachHasItsLeaf)'
  BY <1>1 DEF TreeInv, PrefixesAreNodes, LeavesAreEnds, EachHasItsLeaf, HasLeaf
<1>9. InnerNodesAreShared'
  <2>1. \A q \in Paths : IsStrictPrefix(q, call.path) => IsStrictPrefix(q, call'.path)
    BY <1>4 DEF IsStrictPrefix
  <2> QED BY <1>1, <1>5, <2>1 DEF TreeInv, InnerNodesAreShared, HasLeaf
<1>10. CallIsBelowInnerNodes'
  BY <1>1, <1>4, <1>6 DEF CallIsBelowInnerNodes, HasLeaf
<1>11. BeginsAtRoot'
  BY <1>1, <1>3 DEF BeginsAtRoot
<1> QED BY <1>7, <1>8, <1>9, <1>10, <1>11 DEF TreeInv

LEMMA SubdivideKeeps == TreeInv /\ Subdivide => TreeInv'
<1> SUFFICES ASSUME TreeInv, Subdivide PROVE TreeInv'
  OBVIOUS
<1>1. UNCHANGED <<positions, next>> /\ ~Built /\ ~Built'
  BY DEF Subdivide, Built
<1>2. PICK path \in DOMAIN node : path = call.path /\ IsLeaf(path)
  BY DEF Subdivide, IsLeaf
<1>3. HasLeaf(path) /\ next # 0 /\ node[path].count = 1
  BY <1>2, CalledNode DEF IsLeaf
<1>4. PICK p \in TreeParticles : p = node[path].particle
  <2>1. node[path] \in TreeNodes
    BY <1>2 DEF TreeInv, TreeTypeOK
  <2> QED BY <1>3, <2>1 DEF HasLeaf, TreeNodes
<1>5. PICK octant \in SUBSET Axes : octant = Octant(positions[p], path)
  BY DEF Octant
<1>6. PICK new : new = Append(path, octant)
  OBVIOUS
<1>7. /\ DOMAIN node \subseteq Paths /\ path \in Seq(SUBSET Axes)
      /\ IsFiniteSet(DOMAIN node) /\ \A q \in DOMAIN node : Len(q) <= MaxDepth
      /\ \A q \in DOMAIN node : node[q] \in TreeNodes
  BY <1>2 DEF TreeInv, TreeTypeOK, Paths
<1>8. /\ new \in Paths /\ Len(new) = Len(path) + 1
      /\ \A q \in Paths : IsStrictPrefix(q, new) <=> IsPrefix(q, path)
  BY <1>5, <1>6, <1>7, AppendProperties, PrefixOfAppend DEF Paths
<1>9. IsStrictPrefix(path, new)
  BY <1>7, <1>8, PrefixReflexive DEF Paths
<1>10. new \notin DOMAIN node
  BY <1>2, <1>3, <1>9 DEF TreeInv, LeavesAreEnds
<1>11. PICK D : D = DOMAIN node
  OBVIOUS
<1>12. /\ DOMAIN node' = D \cup {new} /\ node'[new] = [count |-> 1, particle |-> p]
       /\ node'[path] = [count |-> 1, particle |-> NoParticle]
       /\ \A q \in D : q # path => node'[q] = node[q]
  <2>1. node' = [q \in D \cup {new} |->
                   IF q = new THEN [count |-> 1, particle |-> p]
                   ELSE IF q = path THEN [node[q] EXCEPT !.particle = NoParticle] ELSE node[q]]
    BY <1>2, <1>4, <1>5, <1>6, <1>11 DEF Subdivide, MovedDown, Leaf
  <2>2. path # new /\ path \in D
    BY <1>2, <1>10, <1>11
  <2>3. [node[path] EXCEPT !.particle = NoParticle] = [count |-> 1, particle |-> NoParticle]
    BY <1>2, <1>3, <1>7 DEF TreeNodes
  <2> QED BY <1>10, <1>11, <2>1, <2>2, <2>3
<1>13. p # NoParticle
  BY <1>3, <1>4 DEF HasLeaf
<1>14. /\ HasLeaf(new)' /\ ~HasLeaf(path)'
       /\ \A q \in D : q # path => (HasLeaf(q)' <=> HasLeaf(q))
  BY <1>12, <1>13 DEF HasLeaf
<1>15. /\ call'.path \in Paths /\ Len(call'.path) <= MaxDepth
       /\ \A q \in Paths : IsStrictPrefix(q, call'.path) <=> IsPrefix(q, path)
  BY <1>2, IntoChildMoves DEF Subdivide
<1>16. \A q \in Paths : IsPrefix(q, path) => q \in D
  BY <1>2, <1>11 DEF TreeInv, PrefixesAreNodes
<1>17. TreeTypeOK'
  <2>1. IsFiniteSet(DOMAIN node') /\ DOMAIN node' \subseteq Paths /\ <<>> \in DOMAIN node'
    BY <1>7, <1>8, <1>11, <1>12, FS_AddElement DEF TreeInv, TreeTypeOK
  <2>2. Len(new) <= MaxDepth
    <3>1. Len(path) < MaxDepth
      BY <1>2 DEF Subdivide, IntoChild
    <3>2. Len(path) \in Nat
      BY <1>7, LenProperties
    <3> QED BY <1>8, <3>1, <3>2, TreeAssumption
  <2>3. \A q \in DOMAIN node' : node'[q] \in TreeNodes
    <3> SUFFICES ASSUME NEW q \in D \cup {new} PROVE node'[q] \in TreeNodes
      BY <1>12
    <3>1. CASE q = new
      BY <1>12, <3>1 DEF TreeNodes
    <3>2. CASE q = path
      BY <1>12, <3>2 DEF TreeNodes
    <3>3. CASE q # path /\ q # new
      BY <1>7, <1>11, <1>12, <3>3
    <3> QED BY <3>1, <3>2, <3>3
  <2>4. node' \in [DOMAIN node' -> TreeNodes]
    BY <2>3 DEF Subdivide, MovedDown
  <2>5. \A q \in DOMAIN node' : Len(q) <= MaxDepth
    BY <1>7, <1>11, <1>12, <2>2
  <2> QED BY <1>1, <1>15, <2>1, <2>4, <2>5 DEF TreeInv, TreeTypeOK
<1>18. PrefixesAreNodes'
  <2> SUFFICES ASSUME NEW q \in DOMAIN node', NEW r \in Paths, IsPrefix(r, q)
               PROVE  r \in DOMAIN node'
    BY DEF PrefixesAreNodes
  <2>1. CASE q \in D
    BY <1>11, <1>12, <2>1 DEF TreeInv, PrefixesAreNodes
  <2>2. CASE q = new
    BY <1>8, <1>12, <1>16, <2>2 DEF IsStrictPrefix
  <2> QED BY <1>12, <2>1, <2>2
<1>19. LeavesAreEnds'
  <2> SUFFICES ASSUME NEW q \in D \cup {new}, HasLeaf(q)'
               PROVE  node'[q].count = 1 /\ \A r \in D \cup {new} : ~IsStrictPrefix(q, r)
    BY <1>12 DEF LeavesAreEnds
  <2>1. CASE q = new
    <3>1. \A r \in D : ~IsStrictPrefix(new, r)
      <4> SUFFICES ASSUME NEW r \in D, IsStrictPrefix(new, r) PROVE FALSE
        OBVIOUS
      <4>1. new \in D
        BY <1>8, <1>11 DEF TreeInv, PrefixesAreNodes, IsStrictPrefix
      <4> QED BY <1>10, <1>11, <4>1
    <3> QED BY <1>12, <2>1, <3>1 DEF IsStrictPrefix
  <2>2. CASE q \in D
    <3>1. q # path /\ HasLeaf(q)
      BY <1>14, <2>2
    <3>2. ~IsStrictPrefix(q, path)
      BY <1>2, <1>11, <2>2, <3>1 DEF TreeInv, LeavesAreEnds
    <3>3. ~IsStrictPrefix(q, new)
      BY <1>7, <1>8, <1>11, <2>2, <3>1, <3>2 DEF IsStrictPrefix
    <3> QED BY <1>11, <1>12, <2>2, <3>1, <3>3 DEF TreeInv, LeavesAreEnds
  <2> QED BY <2>1, <2>2
<1>20. InnerNodesAreShared'
  <2> SUFFICES ASSUME NEW q \in D, ~HasLeaf(q)'
               PROVE  node'[q].count >= 2 \/ (node'[q].count = 1 /\ IsStrictPrefix(q, call'.path))
    BY <1>12, <1>14 DEF InnerNodesAreShared
  <2>1. CASE q = path
    BY <1>7, <1>12, <1>15, <2>1, PrefixReflexive DEF Paths
  <2>2. CASE q # path
    <3>1. ~HasLeaf(q)
      BY <1>14, <2>2
    <3>2. node[q].count >= 2 \/ (node[q].count = 1 /\ IsStrictPrefix(q, path))
      BY <1>2, <1>3, <1>11, <3>1 DEF TreeInv, InnerNodesAreShared
    <3>3. q \in Paths
      BY <1>7, <1>11
    <3> QED BY <1>12, <1>15, <2>2, <3>2, <3>3 DEF IsStrictPrefix
  <2> QED BY <2>1, <2>2
<1>21. EachHasItsLeaf'
  <2>1. ASSUME NEW q \in 0 .. next - 1
        PROVE  \E r \in D \cup {new} : node'[r].particle = q
    <3>1. PICK r \in D : node[r].particle = q
      BY <1>11 DEF TreeInv, EachHasItsLeaf
    <3>2. CASE r = path
      BY <1>4, <1>12, <3>1, <3>2
    <3>3. CASE r # path
      BY <1>12, <3>1, <3>3
    <3> QED BY <3>2, <3>3
  <2>2. ASSUME NEW q \in D \cup {new}, HasLeaf(q)' PROVE node'[q].particle < next
    <3>1. CASE q = new
      BY <1>2, <1>3, <1>4, <1>12, <3>1 DEF TreeInv, EachHasItsLeaf
    <3>2. CASE q # new
      <4>1. q \in D /\ q # path /\ HasLeaf(q)
        BY <1>14, <2>2, <3>2
      <4> QED BY <1>11, <1>12, <4>1 DEF TreeInv, EachHasItsLeaf
    <3> QED BY <3>1, <3>2
  <2>3. ASSUME NEW q \in D \cup {new}, NEW r \in D \cup {new},
               HasLeaf(q)', node'[q].particle = node'[r].particle
        PROVE  q = r
    <3>1. HasLeaf(r)' /\ q # path /\ r # path
      BY <1>14, <2>3 DEF HasLeaf
    <3>2. CASE q = new /\ r # new
      <4>1. r \in D /\ node[r].particle = node[path].particle
        BY <1>4, <1>12, <2>3, <3>1, <3>2
      <4> QED BY <1>2, <1>3, <1>11, <3>1, <4>1 DEF TreeInv, EachHasItsLeaf
    <3>3. CASE q # new /\ r = new
      <4>1. q \in D /\ HasLeaf(q) /\ node[q].particle = node[path].particle
        BY <1>4, <1>12, <1>14, <2>3, <3>1, <3>3
      <4> QED BY <1>2, <1>11, <3>1, <4>1 DEF TreeInv, EachHasItsLeaf
    <3>4. CASE q # new /\ r # new
      <4>1. q \in D /\ r \in D /\ HasLeaf(q) /\ node[q].particle = node[r].particle
        BY <1>12, <1>14, <2>3, <3>1, <3>4
      <4> QED BY <1>11, <4>1 DEF TreeInv, EachHasItsLeaf
    <3> QED BY <3>2, <3>3, <3>4
  <2> QED BY <1>1, <1>12, <2>1, <2>2, <2>3 DEF EachHasItsLeaf
<1>22. CallIsBelowInnerNodes'
  <2> SUFFICES ASSUME NEW q \in Paths, IsPrefix(q, path)
               PROVE  q \in D \cup {new} /\ ~HasLeaf(q)'
    BY <1>12, <1>15 DEF CallIsBelowInnerNodes
  <2>1. CASE q = path
    BY <1>14, <1>16, <2>1
  <2>2. CASE q # path
    <3>1. q \in D /\ ~HasLeaf(q)
      BY <1>2, <1>11, <2>2 DEF TreeInv, CallIsBelowInnerNodes, IsStrictPrefix
    <3> QED BY <1>14, <2>2, <3>1
  <2> QED BY <2>1, <2>2
<1>23. BeginsAtRoot'
  BY <1>1, <1>3 DEF BeginsAtRoot
<1> QED BY <1>17, <1>18, <1>19, <1>20, <1>21, <1>22, <1>23 DEF TreeInv

LEMMA PlaceKeeps == TreeInv /\ PlaceInLeaf => TreeInv'
<1> SUFFICES ASSUME TreeInv, PlaceInLeaf PROVE TreeInv'
  OBVIOUS
<1>1. UNCHANGED positions /\ ~Built /\ next' = next + 1 /\ call'.path = <<>>
  BY DEF PlaceInLeaf, Call
<1>2. next \in Nat /\ next < TreeSize /\ next \in TreeParticles
  BY <1>1, TreeAssumption DEF TreeInv, TreeTypeOK, Built, TreeParticles
<1>3. PICK path : path = call.path
  OBVIOUS
<1>4. PICK D : D = DOMAIN node
  OBVIOUS
<1>5. /\ D \subseteq Paths /\ path \in Seq(SUBSET Axes) /\ IsFiniteSet(D) /\ <<>> \in D
      /\ \A q \in D : node[q] \in TreeNodes /\ Len(q) <= MaxDepth
  BY <1>3, <1>4 DEF TreeInv, TreeTypeOK, Paths
<1>6. path \notin D \/ (next = 0 /\ D = {path})
  <2>1. call.path \notin DOMAIN node \/ next = 0
    BY CalledNode DEF PlaceInLeaf
  <2>2. next = 0 => DOMAIN node = {<<>>} /\ call.path = <<>>
    BY DEF TreeInv, BeginsAtRoot
  <2> QED BY <1>3, <1>4, <2>1, <2>2
<1>7. next = 0 => path \in D
  BY <1>3, <1>4 DEF TreeInv, BeginsAtRoot
<1>8. /\ DOMAIN node' = D \cup {path} /\ node'[path] = [count |-> 1, particle |-> next]
      /\ \A q \in D : q # path =>
           node'[q] = IF IsPrefix(q, path) THEN [node[q] EXCEPT !.count = @ + 1] ELSE node[q]
  BY <1>3, <1>4 DEF PlaceInLeaf, CountedOnTheWay, Leaf
<1>9. ASSUME NEW q \in D, q # path
      PROVE  /\ node'[q].particle = node[q].particle /\ node'[q] \in TreeNodes
             /\ IsPrefix(q, path) => node'[q].count = node[q].count + 1
             /\ ~IsPrefix(q, path) => node'[q].count = node[q].count
  <2>1. node[q] \in TreeNodes
    BY <1>5
  <2>2. CASE IsPrefix(q, path)
    <3>1. node'[q] = [node[q] EXCEPT !.count = @ + 1]
      BY <1>8, <1>9, <2>2
    <3> QED BY <2>1, <2>2, <3>1 DEF TreeNodes
  <2>3. CASE ~IsPrefix(q, path)
    BY <1>8, <1>9, <2>1, <2>3
  <2> QED BY <2>2, <2>3
<1>10. /\ HasLeaf(path)'
       /\ \A q \in D : q # path => (HasLeaf(q)' <=> HasLeaf(q))
  <2>1. next # NoParticle
    BY <1>2, TreeAssumption
  <2> QED BY <1>8, <1>9, <2>1 DEF HasLeaf
<1>11. \A q \in Paths : IsStrictPrefix(q, path) => q \in D /\ ~HasLeaf(q)
  BY <1>3, <1>4 DEF TreeInv, CallIsBelowInnerNodes
<1>12. \A q \in D : ~IsStrictPrefix(path, q)
  <2> SUFFICES ASSUME NEW q \in D, IsStrictPrefix(path, q) PROVE FALSE
    OBVIOUS
  <2>1. path \in D
    BY <1>4, <1>5 DEF TreeInv, PrefixesAreNodes, IsStrictPrefix, Paths
  <2> QED BY <1>6, <2>1 DEF IsStrictPrefix
<1>13. TreeTypeOK'
  <2>1. IsFiniteSet(DOMAIN node') /\ DOMAIN node' \subseteq Paths /\ <<>> \in DOMAIN node'
    BY <1>5, <1>8, FS_AddElement DEF Paths
  <2>2. Len(path) <= MaxDepth
    BY <1>3 DEF TreeInv, TreeTypeOK
  <2>3. node' \in [DOMAIN node' -> TreeNodes]
    <3>1. node'[path] \in TreeNodes
      BY <1>2, <1>8 DEF TreeNodes
    <3>2. \A q \in DOMAIN node' : node'[q] \in TreeNodes
      BY <1>8, <1>9, <3>1
    <3> QED BY <3>2 DEF PlaceInLeaf, CountedOnTheWay
  <2>4. next' \in 0 .. TreeSize
    BY <1>1, <1>2, TreeAssumption
  <2>5. \A q \in DOMAIN node' : Len(q) <= MaxDepth
    BY <1>5, <1>8, <2>2
  <2>6. call'.path \in Paths /\ Len(call'.path) <= MaxDepth
    BY <1>1, EmptySeq, TreeAssumption DEF Paths
  <2>7. positions' \in [TreeParticles -> Points]
    BY <1>1 DEF TreeInv, TreeTypeOK
  <2> QED BY <2>1, <2>3, <2>4, <2>5, <2>6, <2>7 DEF TreeTypeOK
<1>14. PrefixesAreNodes'
  <2> SUFFICES ASSUME NEW q \in D \cup {path}, NEW r \in Paths, IsPrefix(r, q)
               PROVE  r \in D \cup {path}
    BY <1>8 DEF PrefixesAreNodes
  <2>1. CASE q \in D
    BY <1>4, <2>1 DEF TreeInv, PrefixesAreNodes
  <2>2. CASE q = path
    BY <1>11, <2>2 DEF IsStrictPrefix
  <2> QED BY <2>1, <2>2
<1>15. LeavesAreEnds'
  <2> SUFFICES ASSUME NEW q \in D \cup {path}, HasLeaf(q)'
               PROVE  node'[q].count = 1 /\ \A r \in D \cup {path} : ~IsStrictPrefix(q, r)
    BY <1>8 DEF LeavesAreEnds
  <2>1. CASE q = path
    BY <1>8, <1>12, <2>1 DEF IsStrictPrefix
  <2>2. CASE q # path
    <3>1. q \in D /\ HasLeaf(q)
      BY <1>10, <2>2
    <3>2. ~IsStrictPrefix(q, path)
      BY <1>5, <1>11, <3>1
    <3>3. ~IsPrefix(q, path)
      BY <2>2, <3>2 DEF IsStrictPrefix
    <3>4. node[q].count = 1 /\ \A r \in D : ~IsStrictPrefix(q, r)
      BY <1>4, <3>1 DEF TreeInv, LeavesAreEnds
    <3> QED BY <1>9, <2>2, <3>1, <3>2, <3>3, <3>4
  <2> QED BY <2>1, <2>2
<1>16. InnerNodesAreShared'
  <2> SUFFICES ASSUME NEW q \in D, q # path, ~HasLeaf(q) PROVE node'[q].count >= 2
    BY <1>8, <1>10 DEF InnerNodesAreShared
  <2>1. next # 0
    BY <1>6, <1>7
  <2>2. node[q].count \in Nat
    BY <1>5 DEF TreeNodes
  <2>3. node[q].count >= 2 \/ (node[q].count = 1 /\ IsPrefix(q, path))
    BY <1>3, <1>4, <2>1 DEF TreeInv, InnerNodesAreShared, IsStrictPrefix
  <2> QED BY <1>9, <2>2, <2>3
<1>17. EachHasItsLeaf'
  <2>1. ASSUME NEW q \in 0 .. next' - 1
        PROVE  \E r \in D \cup {path} : node'[r].particle = q
    <3>1. CASE q = next
      BY <1>8, <3>1
    <3>2. CASE q # next
      <4>1. q \in 0 .. next - 1
        BY <1>1, <1>2, <3>2
      <4>2. PICK r \in D : node[r].particle = q
        BY <1>4, <4>1 DEF TreeInv, EachHasItsLeaf
      <4>3. path \notin D
        BY <1>2, <1>6, <4>1
      <4> QED BY <1>9, <4>2, <4>3
    <3> QED BY <3>1, <3>2
  <2>2. \A q \in D : HasLeaf(q) => node[q].particle \in Nat /\ node[q].particle < next
    <3> SUFFICES ASSUME NEW q \in D, HasLeaf(q) PROVE node[q].particle \in Nat /\ node[q].particle < next
      OBVIOUS
    <3>1. node[q].particle < next
      BY <1>4 DEF TreeInv, EachHasItsLeaf
    <3>2. node[q].particle \in TreeParticles
      BY <1>5 DEF HasLeaf, TreeNodes
    <3> QED BY <3>1, <3>2, TreeAssumption DEF TreeParticles
  <2>3. ASSUME NEW q \in D \cup {path}, HasLeaf(q)' PROVE node'[q].particle < next'
    <3>1. CASE q = path
      BY <1>1, <1>2, <1>8, <3>1
    <3>2. CASE q # path
      <4>1. node'[q].particle = node[q].particle /\ HasLeaf(q) /\ q \in D
        BY <1>9, <1>10, <2>3, <3>2
      <4>2. node[q].particle \in Nat /\ node[q].particle < next
        BY <2>2, <4>1
      <4> QED BY <1>1, <1>2, <4>1, <4>2
    <3> QED BY <3>1, <3>2
  <2>4. ASSUME NEW q \in D \cup {path}, NEW r \in D \cup {path},
               HasLeaf(q)', node'[q].particle = node'[r].particle
        PROVE  q = r
    <3>1. HasLeaf(r)'
      BY <2>4 DEF HasLeaf
    <3>2. \A s \in D : s # path /\ HasLeaf(s)' => node'[s].particle # next
      <4> SUFFICES ASSUME NEW s \in D, s # path, HasLeaf(s)', node'[s].particle = next PROVE FALSE
        OBVIOUS
      <4>1. HasLeaf(s) /\ node[s].particle = next
        BY <1>9, <1>10
      <4> QED BY <1>2, <2>2, <4>1
    <3>3. CASE q # path /\ r # path
      <4>1. HasLeaf(q) /\ node[q].particle = node[r].particle /\ q \in D /\ r \in D
        BY <1>9, <1>10, <2>4, <3>3
      <4> QED BY <1>4, <4>1 DEF TreeInv, EachHasItsLeaf
    <3>4. CASE q = path /\ r # path
      BY <1>8, <2>4, <3>1, <3>2, <3>4
    <3>5. CASE q # path /\ r = path
      BY <1>8, <2>4, <3>2, <3>5
    <3> QED BY <3>3, <3>4, <3>5
  <2> QED BY <1>8, <2>1, <2>3, <2>4 DEF EachHasItsLeaf
<1>18. CallIsBelowInnerNodes'
  <2>1. \A q \in Paths : ~IsStrictPrefix(q, <<>>)
    <3> SUFFICES ASSUME NEW q \in Paths, IsStrictPrefix(q, <<>>) PROVE FALSE
      OBVIOUS
    <3>1. q \in Seq(SUBSET Axes) /\ <<>> \in Seq(SUBSET Axes) /\ Len(<<>>) = 0
      BY EmptySeq DEF Paths
    <3>2. Len(q) < 0 /\ Len(q) \in Nat
      BY <3>1, StrictPrefixShorter, LenProperties
    <3> QED BY <3>2
  <2> QED BY <1>1, <2>1 DEF CallIsBelowInnerNodes
<1>19. BeginsAtRoot'
  BY <1>1, <1>2 DEF BeginsAtRoot
<1> QED BY <1>13, <1>14, <1>15, <1>16, <1>17, <1>18, <1>19 DEF TreeInv

\* Every step of the tree preserves the invariant.
LEMMA TreeStep == TreeInv /\ [TreeNext]_treeVars => TreeInv'
<1> SUFFICES ASSUME TreeInv, [TreeNext]_treeVars PROVE TreeInv'
  OBVIOUS
<1>1. CASE PlaceInLeaf
  BY <1>1, PlaceKeeps
<1>2. CASE PerturbCoincident
  BY <1>2, PerturbKeeps
<1>3. CASE Subdivide
  BY <1>3, SubdivideKeeps
<1>4. CASE Descend
  BY <1>4, DescendKeeps
<1>5. CASE UNCHANGED treeVars
  BY <1>5 DEF treeVars, Built, TreeInv, TreeTypeOK, PrefixesAreNodes, LeavesAreEnds, InnerNodesAreShared,
              EachHasItsLeaf, CallIsBelowInnerNodes, BeginsAtRoot, HasLeaf
<1> QED BY <1>1, <1>2, <1>3, <1>4, <1>5 DEF TreeNext

LEMMA TreeInvHolds == TreeSpec => []TreeInv
<1> QED BY TreeInitHolds, TreeStep, PTL DEF TreeSpec

\* When the tree is built, each particle has one leaf of its own, and every
\* other node stands for more than one particle.
LEMMA BuiltTree ==
  ASSUME TreeInv, Built
  PROVE  /\ next \in Nat \ {0} /\ next = TreeSize
         /\ \A path \in DOMAIN node : (node[path].count = 1) <=> HasLeaf(path)
         /\ \A path, other \in DOMAIN node :
              HasLeaf(path) /\ IsPrefix(path, other) => path = other
         /\ \A q \in TreeParticles : \E path \in DOMAIN node : node[path].particle = q /\ HasLeaf(path)
<1>1. next = TreeSize /\ next \in Nat \ {0} /\ call.path = <<>>
  BY TreeAssumption DEF Built, TreeInv, BeginsAtRoot
<1>2. \A q \in Paths : ~IsStrictPrefix(q, <<>>)
  <2> SUFFICES ASSUME NEW q \in Paths, IsStrictPrefix(q, <<>>) PROVE FALSE
    OBVIOUS
  <2>1. q \in Seq(SUBSET Axes) /\ <<>> \in Seq(SUBSET Axes) /\ Len(<<>>) = 0
    BY EmptySeq DEF Paths
  <2>2. Len(q) < 0 /\ Len(q) \in Nat
    BY <2>1, StrictPrefixShorter, LenProperties
  <2> QED BY <2>2
<1>3. DOMAIN node \subseteq Paths
  BY DEF TreeInv, TreeTypeOK
<1>4. ASSUME NEW path \in DOMAIN node PROVE (node[path].count = 1) <=> HasLeaf(path)
  <2>1. ~HasLeaf(path) => node[path].count >= 2
    BY <1>1, <1>2, <1>3 DEF TreeInv, InnerNodesAreShared
  <2>2. HasLeaf(path) => node[path].count = 1
    BY DEF TreeInv, LeavesAreEnds
  <2> QED BY <2>1, <2>2
<1>5. \A path, other \in DOMAIN node : HasLeaf(path) /\ IsPrefix(path, other) => path = other
  BY DEF TreeInv, LeavesAreEnds, IsStrictPrefix
<1>6. ASSUME NEW q \in TreeParticles
      PROVE  \E path \in DOMAIN node : node[path].particle = q /\ HasLeaf(path)
  <2>1. q \in 0 .. next - 1 /\ q # NoParticle
    BY <1>1, TreeAssumption DEF TreeParticles
  <2>2. PICK path \in DOMAIN node : node[path].particle = q
    BY <2>1 DEF TreeInv, EachHasItsLeaf
  <2> QED BY <2>1, <2>2 DEF HasLeaf
<1> QED BY <1>1, <1>4, <1>5, <1>6

\* The particles below a node are those whose leaf has the node on its way.
LEMMA BelowMeans ==
  ASSUME NEW path, NEW q
  PROVE  q \in Below(path) <=>
           \E r \in DOMAIN node : IsPrefix(path, r) /\ HasLeaf(r) /\ node[r].particle = q
BY DEF Below, HasLeaf

\* On the way to the leaf of q the walk for p stops once, at the first node that
\* is a leaf or accepted: one summand has q below it.
LEMMA OthersCounted ==
  ASSUME TreeInv, Built, NEW p \in TreeParticles, NEW q \in TreeParticles, p # q,
         NEW thetaSqr \in ThetaSqrs
  PROVE  OtherCountedOnce(p, q, thetaSqr)
<1>1. PICK D : D = DOMAIN node
  OBVIOUS
<1>2. D \subseteq Seq(SUBSET Axes)
  BY <1>1 DEF TreeInv, TreeTypeOK, Paths
<1>3. PICK leaf \in D : node[leaf].particle = q /\ HasLeaf(leaf)
  BY <1>1, BuiltTree
<1>4. PICK Ends : Ends = {path \in D : node[path].count = 1 \/ Accepts(p, path, thetaSqr)}
  OBVIOUS
<1>5. PICK OnTheWay : OnTheWay = {path \in Ends : IsPrefix(path, leaf)}
  OBVIOUS
<1>6. leaf \in OnTheWay
  BY <1>1, <1>2, <1>3, <1>4, <1>5, BuiltTree, PrefixReflexive
<1>7. PICK top \in OnTheWay : \A path \in OnTheWay : Len(top) <= Len(path)
  <2>1. PICK measure : measure = [path \in D |-> Len(path)]
    OBVIOUS
  <2>2. measure \in [D -> Nat]
    BY <1>2, <2>1, LenProperties
  <2>3. OnTheWay \subseteq D /\ OnTheWay # {}
    BY <1>4, <1>5, <1>6
  <2>4. PICK top \in OnTheWay : \A path \in OnTheWay : measure[top] <= measure[path]
    BY <2>2, <2>3, LeastMeasure
  <2> QED BY <2>1, <2>3, <2>4
<1>8. \A path \in D : q \in Below(path) <=> IsPrefix(path, leaf)
  <2>1. \A r \in D : HasLeaf(r) /\ node[r].particle = q => r = leaf
    BY <1>1, <1>3 DEF TreeInv, EachHasItsLeaf
  <2> QED BY <1>1, <1>3, <2>1, BelowMeans
<1>9. top \in D /\ top \in Ends /\ IsPrefix(top, leaf)
  BY <1>4, <1>5, <1>7
<1>10. \A path \in Ends : ~IsStrictPrefix(path, top)
  <2> SUFFICES ASSUME NEW path \in Ends, IsStrictPrefix(path, top) PROVE FALSE
    OBVIOUS
  <2>1. path \in Seq(SUBSET Axes) /\ top \in Seq(SUBSET Axes) /\ leaf \in Seq(SUBSET Axes)
    BY <1>2, <1>4, <1>9
  <2>2. IsPrefix(path, top) /\ Len(path) < Len(top)
    BY <2>1, StrictPrefixShorter
  <2>3. path \in OnTheWay
    BY <1>5, <1>9, <2>1, <2>2, PrefixTransitive
  <2>4. Len(path) \in Nat /\ Len(top) \in Nat
    BY <2>1, LenProperties
  <2> QED BY <1>7, <2>2, <2>3, <2>4
<1>11. node[top].count = 1 => node[top].particle # p
  <2> SUFFICES ASSUME node[top].count = 1 PROVE node[top].particle # p
    OBVIOUS
  <2>1. HasLeaf(top)
    BY <1>1, <1>9, BuiltTree
  <2>2. top = leaf
    BY <1>1, <1>9, <2>1, BuiltTree
  <2> QED BY <1>3, <2>2
<1>12. UpdateForces(thetaSqr)[p] =
         {path \in Ends : /\ \A r \in Ends : ~IsStrictPrefix(r, path)
                          /\ node[path].count = 1 => node[path].particle # p}
  BY <1>1, <1>4 DEF UpdateForces, Summands
<1>13. {path \in UpdateForces(thetaSqr)[p] : q \in Below(path)} = {top}
  <2>1. top \in UpdateForces(thetaSqr)[p] /\ q \in Below(top)
    BY <1>8, <1>9, <1>10, <1>11, <1>12
  <2>2. ASSUME NEW path \in UpdateForces(thetaSqr)[p], q \in Below(path) PROVE path = top
    <3>1. path \in Ends /\ path \in D /\ \A r \in Ends : ~IsStrictPrefix(r, path)
      BY <1>4, <1>12
    <3>2. IsPrefix(path, leaf)
      BY <1>8, <2>2, <3>1
    <3>3. path \in OnTheWay
      BY <1>5, <3>1, <3>2
    <3>4. path \in Seq(SUBSET Axes) /\ top \in Seq(SUBSET Axes) /\ leaf \in Seq(SUBSET Axes)
      BY <1>2, <1>9, <3>1
    <3>5. IsPrefix(top, path)
      BY <1>7, <1>9, <3>2, <3>3, <3>4, PrefixesComparable
    <3> QED BY <1>9, <3>1, <3>5 DEF IsStrictPrefix
  <2> QED BY <2>1, <2>2
<1> QED BY <1>13, FS_Singleton DEF OtherCountedOnce

\* What the values of the particles below each node add up to.
Accumulates(value, total) ==
  total = [path \in DOMAIN node |->
             IF node[path].count = 1 THEN value[node[path].particle]
             ELSE SumFunctionOnSet(total, ChildrenOf(path))]

\* The children of a node are nodes, deeper ones, and finitely many.
LEMMA ChildrenAreDeeper ==
  ASSUME TreeInv, NEW path \in DOMAIN node
  PROVE  /\ IsFiniteSet(ChildrenOf(path)) /\ ChildrenOf(path) \subseteq DOMAIN node
         /\ \A c \in ChildrenOf(path) : MaxDepth - Len(c) < MaxDepth - Len(path)
         /\ MaxDepth - Len(path) \in Nat
<1>1. /\ IsFiniteSet(DOMAIN node) /\ path \in Seq(SUBSET Axes) /\ Len(path) <= MaxDepth
  BY DEF TreeInv, TreeTypeOK, Paths
<1>2. ChildrenOf(path) \subseteq DOMAIN node /\ \A c \in ChildrenOf(path) : Len(c) = Len(path) + 1
  BY DEF ChildrenOf
<1>3. IsFiniteSet(ChildrenOf(path))
  BY <1>1, <1>2, FS_Subset
<1>4. Len(path) \in Nat /\ MaxDepth \in Nat
  BY <1>1, LenProperties, TreeAssumption
<1> QED BY <1>1, <1>2, <1>3, <1>4

\* Below a node with several particles are those below its children, which have
\* none in common.
LEMMA BelowChildren ==
  ASSUME TreeInv, Built, NEW path \in DOMAIN node, node[path].count # 1
  PROVE  /\ Below(path) = UNION {Below(c) : c \in ChildrenOf(path)}
         /\ \A c, d \in ChildrenOf(path) : c # d => Below(c) \cap Below(d) = {}
<1>1. PICK D : D = DOMAIN node
  OBVIOUS
<1>2. D \subseteq Seq(SUBSET Axes)
  BY <1>1 DEF TreeInv, TreeTypeOK, Paths
<1>3. \A c \in ChildrenOf(path) : c \in D /\ IsPrefix(path, c) /\ Len(c) = Len(path) + 1
  BY <1>1 DEF ChildrenOf
<1>4. ASSUME NEW q \in Below(path)
      PROVE  \E c \in ChildrenOf(path) : q \in Below(c)
  <2>1. PICK r \in D : IsPrefix(path, r) /\ HasLeaf(r) /\ node[r].particle = q
    BY <1>1, BelowMeans
  <2>2. r # path
    BY <1>1, <2>1, BuiltTree
  <2>3. PICK c \in Seq(SUBSET Axes) :
          IsPrefix(path, c) /\ IsPrefix(c, r) /\ Len(c) = Len(path) + 1
    <3>1. IsStrictPrefix(path, r) /\ path \in Seq(SUBSET Axes) /\ r \in Seq(SUBSET Axes)
      BY <1>1, <1>2, <2>1, <2>2 DEF IsStrictPrefix
    <3> QED BY <3>1, NextOnTheWay
  <2>4. c \in D
    BY <1>1, <2>3 DEF TreeInv, PrefixesAreNodes, Paths
  <2>5. c \in ChildrenOf(path)
    BY <1>1, <2>3, <2>4 DEF ChildrenOf
  <2>6. q \in Below(c)
    BY <1>1, <2>1, <2>3, BelowMeans
  <2> QED BY <2>5, <2>6
<1>5. ASSUME NEW c \in ChildrenOf(path), NEW q \in Below(c) PROVE q \in Below(path)
  <2>1. PICK r \in D : IsPrefix(c, r) /\ HasLeaf(r) /\ node[r].particle = q
    BY <1>1, BelowMeans
  <2>2. /\ path \in Seq(SUBSET Axes) /\ c \in Seq(SUBSET Axes) /\ r \in Seq(SUBSET Axes)
        /\ IsPrefix(path, c)
    BY <1>1, <1>2, <1>3, <2>1
  <2>3. IsPrefix(path, r)
    BY <2>1, <2>2, PrefixTransitive
  <2> QED BY <1>1, <2>1, <2>3, BelowMeans
<1>6. ASSUME NEW c \in ChildrenOf(path), NEW d \in ChildrenOf(path),
             NEW q, q \in Below(c), q \in Below(d)
      PROVE  c = d
  <2>1. PICK r \in D : IsPrefix(c, r) /\ HasLeaf(r) /\ node[r].particle = q
    BY <1>1, <1>6, BelowMeans
  <2>2. PICK s \in D : IsPrefix(d, s) /\ HasLeaf(s) /\ node[s].particle = q
    BY <1>1, <1>6, BelowMeans
  <2>3. r = s
    BY <1>1, <2>1, <2>2 DEF TreeInv, EachHasItsLeaf
  <2>4. /\ c \in Seq(SUBSET Axes) /\ d \in Seq(SUBSET Axes) /\ r \in Seq(SUBSET Axes)
        /\ Len(c) = Len(d) /\ Len(c) \in Nat
    BY <1>2, <1>3, LenProperties
  <2>5. IsPrefix(c, d)
    BY <2>1, <2>2, <2>3, <2>4, PrefixesComparable
  <2> QED BY <2>4, <2>5, PrefixSameLength
<1> QED BY <1>4, <1>5, <1>6

\* What particles there are below a node.
LEMMA BelowFinite ==
  ASSUME TreeInv, NEW path
  PROVE  IsFiniteSet(Below(path)) /\ Below(path) \subseteq TreeParticles
<1>1. Below(path) \subseteq TreeParticles
  <2>1. \A r \in DOMAIN node : node[r].particle \in TreeParticles \cup {NoParticle}
    BY DEF TreeInv, TreeTypeOK, TreeNodes
  <2> QED BY <2>1 DEF Below
<1>2. IsFiniteSet(TreeParticles)
  BY TreeAssumption, FS_Interval DEF TreeParticles
<1> QED BY <1>1, <1>2, FS_Subset

\* There is a value for each node.
LEMMA AccumulatedExists ==
  ASSUME TreeInv, Built, NEW value, \A p \in TreeParticles : value[p] \in Int
  PROVE  \E total : Accumulates(value, total)
<1>1. PICK D : D = DOMAIN node
  OBVIOUS
<1>2. PICK V : V = Int
  OBVIOUS
<1>3. PICK measure : measure = [path \in D |-> MaxDepth - Len(path)]
  OBVIOUS
<1>4. measure \in [D -> Nat]
  BY <1>1, <1>3, ChildrenAreDeeper
<1>5. PICK step : step = [c \in D \X [D -> V] |->
                            IF node[c[1]].count = 1 THEN value[node[c[1]].particle]
                            ELSE SumFunctionOnSet(c[2], ChildrenOf(c[1]))]
  OBVIOUS
<1>6. \A path \in D, g \in [D -> V] :
        step[<<path, g>>] = IF node[path].count = 1 THEN value[node[path].particle]
                            ELSE SumFunctionOnSet(g, ChildrenOf(path))
  BY <1>5
<1>7. ASSUME NEW path \in D, NEW g \in [D -> V] PROVE step[<<path, g>>] \in V
  <2>1. CASE node[path].count = 1
    <3>1. HasLeaf(path) /\ node[path].particle \in TreeParticles
      BY <1>1, <2>1, BuiltTree DEF TreeInv, TreeTypeOK, TreeNodes, HasLeaf
    <3> QED BY <1>2, <1>6, <2>1, <3>1
  <2>2. CASE node[path].count # 1
    <3>1. IsFiniteSet(ChildrenOf(path)) /\ \A c \in ChildrenOf(path) : g[c] \in Int
      BY <1>1, <1>2, ChildrenAreDeeper
    <3>2. SumFunctionOnSet(g, ChildrenOf(path)) \in Int
      BY <3>1, SumType
    <3> QED BY <1>2, <1>6, <2>2, <3>2
  <2> QED BY <2>1, <2>2
<1>8. ASSUME NEW path \in D, NEW g \in [D -> V], NEW h \in [D -> V],
             \A q \in D : measure[q] < measure[path] => g[q] = h[q]
      PROVE  step[<<path, g>>] = step[<<path, h>>]
  <2>1. CASE node[path].count = 1
    BY <1>6, <2>1
  <2>2. CASE node[path].count # 1
    <3>1. IsFiniteSet(ChildrenOf(path))
      BY <1>1, ChildrenAreDeeper
    <3>2. \A c \in ChildrenOf(path) : g[c] = h[c] /\ g[c] \in Int
      <4>1. \A c \in ChildrenOf(path) : c \in D /\ measure[c] < measure[path]
        BY <1>1, <1>3, ChildrenAreDeeper
      <4> QED BY <1>2, <1>8, <4>1
    <3>3. SumFunctionOnSet(g, ChildrenOf(path)) = SumFunctionOnSet(h, ChildrenOf(path))
      BY <3>1, <3>2, SumAgree
    <3> QED BY <1>6, <2>2, <3>3
  <2> QED BY <2>1, <2>2
<1>9. Recursive(D, V, measure, step)
  <2>1. step \in [D \X [D -> V] -> V]
    BY <1>5, <1>7
  <2> QED BY <1>4, <1>8, <2>1 DEF Recursive
<1>10. PICK base \in V : base = 0
  BY <1>2
<1>11. PICK f \in [D -> V] : \A path \in D : f[path] = step[<<path, f>>]
  BY <1>9, <1>10, RecursionHasSolution
<1>12. Accumulates(value, f)
  BY <1>1, <1>6, <1>11 DEF Accumulates
<1> QED BY <1>12

\* A node's value is the sum over the particles below it.
LEMMA AccumulatedAddsUp ==
  ASSUME TreeInv, Built, NEW value, \A p \in TreeParticles : value[p] \in Int,
         NEW path \in DOMAIN node
  PROVE  Accumulated(value)[path] = SumFunctionOnSet(value, Below(path))
<1>1. PICK total : total = Accumulated(value)
  OBVIOUS
<1>2. Accumulates(value, total)
  <2>1. Accumulated(value) = CHOOSE f : Accumulates(value, f)
    BY DEF Accumulated, Accumulates
  <2>2. Accumulates(value, CHOOSE f : Accumulates(value, f))
    BY AccumulatedExists
  <2> QED BY <1>1, <2>1, <2>2
<1>3. \A q \in DOMAIN node :
        total[q] = IF node[q].count = 1 THEN value[node[q].particle]
                   ELSE SumFunctionOnSet(total, ChildrenOf(q))
  BY <1>2 DEF Accumulates
<1>4. PICK Bad : Bad = {q \in DOMAIN node : total[q] # SumFunctionOnSet(value, Below(q))}
  OBVIOUS
<1>5. ASSUME Bad # {} PROVE FALSE
  <2>1. PICK measure : measure = [q \in DOMAIN node |-> MaxDepth - Len(q)]
    OBVIOUS
  <2>2. PICK q \in Bad : \A r \in Bad : measure[q] <= measure[r]
    <3>1. measure \in [DOMAIN node -> Nat]
      BY <2>1, ChildrenAreDeeper
    <3> QED BY <1>4, <1>5, <3>1, LeastMeasure
  <2>3. CASE node[q].count = 1
    <3>1. PICK p \in TreeParticles : p = node[q].particle /\ p # NoParticle
      BY <1>4, <2>3, BuiltTree DEF TreeInv, TreeTypeOK, TreeNodes, HasLeaf
    <3>2. Below(q) = {p}
      <4>1. HasLeaf(q) /\ q \in Seq(SUBSET Axes)
        BY <1>4, <3>1 DEF HasLeaf, TreeInv, TreeTypeOK, Paths
      <4>2. IsPrefix(q, q)
        BY <4>1, PrefixReflexive
      <4>3. \A r \in DOMAIN node : IsPrefix(q, r) => r = q
        BY <1>4, <4>1, BuiltTree
      <4>4. \A x : x \in Below(q) <=> x = p
        BY <1>4, <3>1, <4>1, <4>2, <4>3, BelowMeans
      <4> QED BY <4>4
    <3>3. SumFunctionOnSet(value, {p}) = value[p]
      <4>1. IsFiniteSet({p}) /\ {p} \ {p} = {}
        BY FS_Singleton
      <4>2. SumFunctionOnSet(value, {p}) = value[p] + SumFunctionOnSet(value, {p} \ {p})
        BY <4>1, SumTake
      <4>3. SumFunctionOnSet(value, {}) = 0 /\ value[p] \in Int
        BY SumEmpty
      <4>4. SumFunctionOnSet(value, {p} \ {p}) = 0
        BY <4>1, <4>3
      <4> QED BY <4>2, <4>3, <4>4
    <3> QED BY <1>3, <1>4, <2>3, <3>1, <3>2, <3>3
  <2>4. CASE node[q].count # 1
    <3>1. PICK C : C = ChildrenOf(q)
      OBVIOUS
    <3>2. PICK part : part = [c \in C |-> Below(c)]
      OBVIOUS
    <3>3. IsFiniteSet(C) /\ \A c \in C : c \in DOMAIN node /\ measure[c] < measure[q]
      BY <1>4, <2>1, <3>1, ChildrenAreDeeper
    <3>4. \A c \in C : total[c] = SumFunctionOnSet(value, part[c])
      <4>1. \A c \in C : measure[c] \in Nat /\ measure[q] \in Nat
        BY <1>4, <2>1, <3>3, ChildrenAreDeeper
      <4>2. \A c \in C : c \notin Bad
        BY <2>2, <3>3, <4>1
      <4> QED BY <1>4, <3>2, <3>3, <4>2
    <3>5. \A c \in C : IsFiniteSet(part[c]) /\ \A x \in part[c] : value[x] \in Int
      BY <3>2, BelowFinite
    <3>6. \A c \in C, d \in C : c # d => part[c] \cap part[d] = {}
      BY <1>4, <2>4, <3>1, <3>2, BelowChildren
    <3>7. SumFunctionOnSet(total, C) = SumFunctionOnSet(value, UNION {part[c] : c \in C})
      BY <3>3, <3>4, <3>5, <3>6, SumFamily
    <3>8. UNION {part[c] : c \in C} = Below(q)
      BY <1>4, <2>4, <3>1, <3>2, BelowChildren
    <3> QED BY <1>3, <1>4, <2>4, <3>1, <3>7, <3>8
  <2> QED BY <2>3, <2>4
<1> QED BY <1>1, <1>4, <1>5

\* In a built tree the invariant says that masses are counted once.
LEMMA TreeInvCounts == TreeInv => MassCountedOnce
<1> SUFFICES ASSUME TreeInv, Built PROVE MassCountedOnce
  BY DEF MassCountedOnce
<1>1. \A p \in TreeParticles : Mass[p] \in Int
  BY TreeAssumption
<1>2. \A path \in DOMAIN node : Masses[path] = SumFunctionOnSet(Mass, Below(path))
  BY <1>1, AccumulatedAddsUp DEF Masses
<1>3. ASSUME NEW axis \in Axes, NEW path \in DOMAIN node
      PROVE  Moments(axis)[path] = SumFunctionOnSet(Moment(axis), Below(path))
  <2>1. \A m \in Int, x \in Int : m * x \in Int
    OBVIOUS
  <2>2. \A p \in TreeParticles : Mass[p] \in Int /\ positions[p][axis] \in Int
    BY <1>1, TreeAssumption DEF TreeInv, TreeTypeOK
  <2>3. \A p \in TreeParticles : Moment(axis)[p] \in Int
    BY <2>1, <2>2 DEF Moment
  <2> QED BY <2>3, AccumulatedAddsUp DEF Moments
<1> QED BY <1>2, <1>3, OthersCounted DEF MassCountedOnce

\* For any number of particles, wherever they are and whatever their masses, any
\* theta and any depth of the recursion: a tree that is built counts the mass of
\* each other particle once in the force on a particle, and the masses and moments
\* of its nodes are those of the particles below (barneshut_tree.cpp, lines 42-121).
THEOREM TreeCountsMassOnce == TreeSpec => []MassCountedOnce
BY TreeInvHolds, TreeInvCounts, PTL

-----------------------------------------------------------------------------
(* BarnesHutTree: where cells are.                                          *)

\* Every level has half the edge of the one above, rounded down.
LEMMA EdgesHalve ==
  ASSUME RootCell.edge \in Nat
  PROVE  /\ Edges \in [0 .. MaxDepth -> Nat] /\ Edges[0] = RootCell.edge
         /\ \A depth \in 1 .. MaxDepth : Edges[depth] = Edges[depth - 1] \div 2
<1>0. MaxDepth \in Nat
  BY TreeAssumption
<1>1. PICK S : S = 0 .. MaxDepth
  OBVIOUS
<1>2. PICK V : V = Nat
  OBVIOUS
<1>3. PICK root : root \in Nat /\ root = RootCell.edge
  OBVIOUS
<1> DEFINE Solves(edge) == edge = [depth \in 0 .. MaxDepth |->
                                     IF depth = 0 THEN root ELSE edge[depth - 1] \div 2]
<1>4. PICK step : step = [c \in S \X [S -> V] |-> IF c[1] = 0 THEN root ELSE c[2][c[1] - 1] \div 2]
  OBVIOUS
<1>5. \A depth \in S, g \in [S -> V] :
        step[<<depth, g>>] = IF depth = 0 THEN root ELSE g[depth - 1] \div 2
  BY <1>4
<1>6. PICK measure : measure = [depth \in S |-> depth]
  OBVIOUS
<1>7. Recursive(S, V, measure, step)
  <2>1. measure \in [S -> Nat]
    BY <1>0, <1>1, <1>6
  <2>2. \A depth \in S : depth # 0 => depth - 1 \in S /\ measure[depth - 1] < measure[depth]
    BY <1>0, <1>1, <1>6
  <2>3. ASSUME NEW depth \in S, NEW g \in [S -> V] PROVE step[<<depth, g>>] \in V
    <3>1. CASE depth = 0
      BY <1>2, <1>3, <1>5, <3>1
    <3>2. CASE depth # 0
      <4>1. g[depth - 1] \in Nat
        BY <1>2, <2>2, <3>2
      <4>2. \A n \in Nat : n \div 2 \in Nat
        OBVIOUS
      <4>3. g[depth - 1] \div 2 \in V
        BY <1>2, <4>1, <4>2
      <4> QED BY <1>5, <3>2, <4>3
    <3> QED BY <3>1, <3>2
  <2>4. step \in [S \X [S -> V] -> V]
    BY <1>4, <2>3
  <2>5. \A depth \in S, g \in [S -> V], h \in [S -> V] :
          (\A y \in S : measure[y] < measure[depth] => g[y] = h[y])
            => step[<<depth, g>>] = step[<<depth, h>>]
    BY <1>5, <2>2
  <2> QED BY <2>1, <2>4, <2>5 DEF Recursive
<1>8. PICK f \in [S -> V] : \A depth \in S : f[depth] = step[<<depth, f>>]
  <2>1. PICK base \in V : base = 0
    BY <1>2
  <2> QED BY <1>7, <2>1, RecursionHasSolution
<1>9. Solves(f)
  BY <1>1, <1>5, <1>8
<1>10. PICK edge : edge = Edges
  OBVIOUS
<1>11. Solves(edge)
  <2>1. Edges = CHOOSE g : Solves(g)
    BY <1>3 DEF Edges
  <2>2. Solves(CHOOSE g : Solves(g))
    <3> HIDE DEF Solves
    <3> QED BY <1>9
  <2> QED BY <1>10, <2>1, <2>2
<1>12. /\ edge[0] = root /\ DOMAIN edge = 0 .. MaxDepth
       /\ \A depth \in 1 .. MaxDepth : edge[depth] = edge[depth - 1] \div 2
  BY <1>0, <1>11
<1>13. PICK Bad : Bad = {depth \in 0 .. MaxDepth : edge[depth] \notin Nat}
  OBVIOUS
<1>14. ASSUME Bad # {} PROVE FALSE
  <2>1. PICK n \in Bad : \A m \in Bad : n <= m
    <3>1. Bad \subseteq Nat
      BY <1>0, <1>13
    <3> QED BY <1>14, <3>1, LeastNatural
  <2>2. n # 0 /\ n \in 1 .. MaxDepth
    BY <1>2, <1>3, <1>12, <1>13
  <2>3. n - 1 \notin Bad /\ n - 1 \in 0 .. MaxDepth
    BY <1>0, <2>1, <2>2
  <2>4. edge[n - 1] \in Nat
    BY <1>13, <2>3
  <2>5. edge[n - 1] \div 2 \in Nat
    BY <2>4
  <2> QED BY <1>12, <1>13, <2>1, <2>2, <2>5
<1>15. edge \in [0 .. MaxDepth -> Nat]
  BY <1>11, <1>13, <1>14
<1> QED BY <1>3, <1>10, <1>12, <1>15

\* The bounding box bounds, and the root's cube contains it.
LEMMA ExtentBounds ==
  ASSUME positions \in [TreeParticles -> Points], NEW a \in Axes
  PROVE  /\ Extent(a).low \in Int /\ Extent(a).high \in Int /\ Extent(a).low <= Extent(a).high
         /\ \A p \in TreeParticles : /\ positions[p][a] \in Int
                                     /\ Extent(a).low <= positions[p][a]
                                     /\ positions[p][a] <= Extent(a).high
<1>1. PICK at : at = {positions[p][a] : p \in TreeParticles}
  OBVIOUS
<1>2. \A p \in TreeParticles : positions[p][a] \in Int
  BY TreeAssumption
<1>3. 0 \in TreeParticles
  BY TreeAssumption DEF TreeParticles
<1>4. at \subseteq Int /\ at # {}
  BY <1>1, <1>2, <1>3
<1>5. IsFiniteSet(at)
  <2>1. IsFiniteSet(TreeParticles)
    BY TreeAssumption, FS_Interval DEF TreeParticles
  <2>2. PICK f : f = [p \in TreeParticles |-> positions[p][a]]
    OBVIOUS
  <2>3. f \in Surjection(TreeParticles, at)
    BY <1>1, <2>2 DEF Surjection
  <2> QED BY <2>1, <2>3, FS_Surjection
<1>6. /\ Max(at) \in at /\ \A y \in at : y <= Max(at)
      /\ Min(at) \in at /\ \A y \in at : Min(at) <= y
  BY <1>4, <1>5, ExtremaExist
<1>7. Extent(a).low = Min(at) /\ Extent(a).high = Max(at)
  BY <1>1 DEF Extent
<1>8. \A p \in TreeParticles : positions[p][a] \in at
  BY <1>1
<1> QED BY <1>2, <1>3, <1>4, <1>6, <1>7, <1>8

LEMMA RootContains ==
  ASSUME positions \in [TreeParticles -> Points]
  PROVE  /\ RootCell.edge \in Nat /\ RootCell.low \in [Axes -> Int]
         /\ \A p \in TreeParticles, a \in Axes :
              RootCell.low[a] <= positions[p][a] /\ positions[p][a] <= RootCell.low[a] + RootCell.edge
<1>1. PICK spans : spans = {Extent(a).high - Extent(a).low : a \in Axes}
  OBVIOUS
<1>2. PICK low : low = [a \in Axes |-> Extent(a).low]
  OBVIOUS
<1>3. PICK high : high = [a \in Axes |-> Extent(a).high]
  OBVIOUS
<1>4. \A a \in Axes : /\ low[a] \in Int /\ high[a] \in Int /\ low[a] <= high[a]
                      /\ Extent(a).low = low[a] /\ Extent(a).high = high[a]
  BY <1>2, <1>3, ExtentBounds
<1>5. spans = {high[a] - low[a] : a \in Axes}
  BY <1>1, <1>4
<1>6. spans \subseteq Nat /\ spans # {} /\ IsFiniteSet(spans)
  <2>1. \A a \in Axes : high[a] - low[a] \in Nat
    BY <1>4
  <2>2. 0 \in Axes
    BY TreeAssumption
  <2>3. IsFiniteSet(Axes)
    <3>1. PICK first \in Int, last \in Int : first = 0 /\ last = 2
      OBVIOUS
    <3>2. IsFiniteSet(first .. last)
      BY FS_Interval
    <3> QED BY <3>1, <3>2, TreeAssumption
  <2>4. PICK f : f = [a \in Axes |-> high[a] - low[a]]
    OBVIOUS
  <2>5. f \in Surjection(Axes, spans)
    BY <1>5, <2>4 DEF Surjection
  <2>6. IsFiniteSet(spans)
    BY <2>3, <2>5, FS_Surjection
  <2> QED BY <1>5, <2>1, <2>2, <2>6
<1>7. PICK most \in Nat : most = Max(spans) /\ \A y \in spans : y <= most
  <2>1. spans \subseteq Int
    BY <1>6
  <2>2. Max(spans) \in spans /\ \A y \in spans : y <= Max(spans)
    BY <1>6, <2>1, ExtremaExist
  <2> QED BY <1>6, <2>2
<1>8. PICK edge : edge = (most * 11) \div 10
  OBVIOUS
<1>9. edge \in Nat /\ most <= edge
  BY <1>8
<1>10. RootCell.edge = edge /\ RootCell.low = [a \in Axes |-> (low[a] + high[a] - edge) \div 2]
  BY <1>1, <1>4, <1>7, <1>8 DEF RootCell
<1>11. ASSUME NEW a \in Axes
       PROVE  /\ RootCell.low[a] \in Int /\ RootCell.low[a] <= low[a]
              /\ high[a] <= RootCell.low[a] + edge
  <2>1. high[a] - low[a] <= edge
    <3>1. high[a] - low[a] \in spans
      BY <1>5
    <3>2. high[a] - low[a] <= most
      BY <1>7, <3>1
    <3> QED BY <1>4, <1>7, <1>9, <3>2
  <2>2. PICK l \in Int, h \in Int : l = low[a] /\ h = high[a]
    BY <1>4
  <2>3. PICK half \in Int : half = (l + h - edge) \div 2
    BY <1>9
  <2>4. 2 * half <= l + h - edge /\ l + h - edge <= 2 * half + 1
    BY <1>9, <2>3
  <2>5. RootCell.low[a] = half
    BY <1>10, <2>2, <2>3
  <2> QED BY <1>9, <2>1, <2>2, <2>4, <2>5
<1>12. RootCell.low \in [Axes -> Int]
  BY <1>10, <1>11
<1>13. ASSUME NEW p \in TreeParticles, NEW a \in Axes
       PROVE  RootCell.low[a] <= positions[p][a] /\ positions[p][a] <= RootCell.low[a] + RootCell.edge
  <2>1. positions[p][a] \in Int /\ low[a] <= positions[p][a] /\ positions[p][a] <= high[a]
    BY <1>4, ExtentBounds
  <2> QED BY <1>4, <1>9, <1>10, <1>11, <2>1
<1> QED BY <1>9, <1>10, <1>12, <1>13

\* Where a cell begins, and how long its edge is.
LEMMA CellType ==
  ASSUME positions \in [TreeParticles -> Points], NEW path \in Paths, Len(path) <= MaxDepth
  PROVE  /\ Len(path) \in 0 .. MaxDepth /\ Cell(path).edge \in Nat /\ Cell(path).edge = Edges[Len(path)]
         /\ \A a \in Axes :
              /\ Cell(path).low[a] \in Int
              /\ Cell(path).low[a] =
                   RootCell.low[a] + SumFunctionOnSet(Edges, {i \in 1 .. Len(path) : a \in path[i]})
<1>1. path \in Seq(SUBSET Axes) /\ MaxDepth \in Nat
  BY TreeAssumption DEF Paths
<1>2. PICK n \in Nat : n = Len(path) /\ n \in 0 .. MaxDepth /\ DOMAIN path = 1 .. n
  BY <1>1, LenProperties
<1>3. RootCell.edge \in Nat /\ RootCell.low \in [Axes -> Int]
  BY RootContains
<1>4. Edges \in [0 .. MaxDepth -> Nat]
  BY <1>3, EdgesHalve
<1>5. Cell(path).edge = Edges[n] /\ Cell(path).low = Low(path) /\ Edges[n] \in Nat
  BY <1>1, <1>2, <1>4 DEF Cell
<1>6. ASSUME NEW a \in Axes
      PROVE  /\ SumFunctionOnSet(Edges, {i \in 1 .. n : a \in path[i]}) \in Int
             /\ Low(path)[a] = RootCell.low[a] + SumFunctionOnSet(Edges, {i \in 1 .. n : a \in path[i]})
  <2>1. PICK up : up = {i \in 1 .. n : a \in path[i]}
    OBVIOUS
  <2>2. IsFiniteSet(up)
    <3>1. IsFiniteSet(1 .. n)
      BY FS_Interval
    <3> QED BY <2>1, <3>1, FS_Subset
  <2>3. \A i \in up : Edges[i] \in Int
    BY <1>1, <1>2, <1>4, <2>1
  <2>4. SumFunctionOnSet(Edges, up) \in Int
    BY <2>2, <2>3, SumType
  <2>5. Low(path)[a] = RootCell.low[a] + SumFunctionOnSet(Edges, up)
    BY <1>2, <2>1 DEF Low
  <2> QED BY <2>1, <2>4, <2>5
<1>7. ASSUME NEW a \in Axes
      PROVE  /\ Cell(path).low[a] \in Int
             /\ Cell(path).low[a] = RootCell.low[a] + SumFunctionOnSet(Edges, {i \in 1 .. n : a \in path[i]})
  <2>1. RootCell.low[a] \in Int
    BY <1>3
  <2>2. PICK sum \in Int : sum = SumFunctionOnSet(Edges, {i \in 1 .. n : a \in path[i]})
    BY <1>6
  <2>3. Cell(path).low[a] = RootCell.low[a] + sum
    BY <1>5, <1>6, <2>2
  <2> QED BY <2>1, <2>2, <2>3
<1> QED BY <1>2, <1>5, <1>7

\* A child has the next edge, and lies above the centre along the axes of its octant.
LEMMA ChildCell ==
  ASSUME positions \in [TreeParticles -> Points], NEW path \in Paths, Len(path) < MaxDepth,
         NEW octant \in SUBSET Axes
  PROVE  /\ Append(path, octant) \in Paths /\ Len(Append(path, octant)) = Len(path) + 1
         /\ Len(path) + 1 \in 1 .. MaxDepth
         /\ Cell(Append(path, octant)).edge = Edges[Len(path) + 1] /\ Edges[Len(path) + 1] \in Nat
         /\ \A a \in Axes :
              /\ a \in octant => Cell(Append(path, octant)).low[a] = Cell(path).low[a] + Edges[Len(path) + 1]
              /\ a \notin octant => Cell(Append(path, octant)).low[a] = Cell(path).low[a]
<1>1. path \in Seq(SUBSET Axes) /\ MaxDepth \in Nat
  BY TreeAssumption DEF Paths
<1>2. PICK n \in Nat : n = Len(path) /\ n < MaxDepth /\ n + 1 \in 1 .. MaxDepth
  BY <1>1, LenProperties
<1>3. PICK child \in Paths : child = Append(path, octant) /\ Len(child) = n + 1
                             /\ child[n + 1] = octant /\ \A i \in 1 .. n : child[i] = path[i]
  <2>1. /\ Append(path, octant) \in Seq(SUBSET Axes) /\ Len(Append(path, octant)) = Len(path) + 1
        /\ \A i \in 1 .. Len(path) : Append(path, octant)[i] = path[i]
        /\ Append(path, octant)[Len(path) + 1] = octant
    BY <1>1, AppendProperties
  <2> QED BY <1>2, <2>1 DEF Paths
<1>4. n <= MaxDepth /\ n + 1 <= MaxDepth
  BY <1>1, <1>2
<1>5. /\ Cell(child).edge = Edges[n + 1] /\ Cell(child).edge \in Nat
      /\ \A a \in Axes : Cell(child).low[a] =
           RootCell.low[a] + SumFunctionOnSet(Edges, {i \in 1 .. n + 1 : a \in child[i]})
  BY <1>3, <1>4, CellType
<1>6. \A a \in Axes : Cell(path).low[a] =
           RootCell.low[a] + SumFunctionOnSet(Edges, {i \in 1 .. n : a \in path[i]})
  BY <1>2, <1>4, CellType
<1>7. RootCell.edge \in Nat /\ RootCell.low \in [Axes -> Int]
  BY RootContains
<1>8. Edges \in [0 .. MaxDepth -> Nat]
  BY <1>7, EdgesHalve
<1>9. ASSUME NEW a \in Axes
      PROVE  /\ a \in octant => Cell(child).low[a] = Cell(path).low[a] + Edges[n + 1]
             /\ a \notin octant => Cell(child).low[a] = Cell(path).low[a]
  <2>1. PICK up : up = {i \in 1 .. n : a \in path[i]}
    OBVIOUS
  <2>2. PICK more : more = {i \in 1 .. n + 1 : a \in child[i]}
    OBVIOUS
  <2>3. CASE a \notin octant
    <3>1. more = up
      BY <1>3, <2>1, <2>2, <2>3
    <3> QED BY <1>5, <1>6, <2>1, <2>2, <2>3, <3>1
  <2>4. CASE a \in octant
    <3>1. n + 1 \in more /\ more \ {n + 1} = up
      BY <1>3, <2>1, <2>2, <2>4
    <3>2. IsFiniteSet(more)
      <4>1. IsFiniteSet(1 .. n + 1)
        BY FS_Interval
      <4> QED BY <2>2, <4>1, FS_Subset
    <3>3. \A i \in more : Edges[i] \in Int
      BY <1>1, <1>2, <1>8, <2>2
    <3>4. SumFunctionOnSet(Edges, more) = Edges[n + 1] + SumFunctionOnSet(Edges, more \ {n + 1})
      BY <3>1, <3>2, <3>3, SumTake
    <3>5. IsFiniteSet(up) /\ \A i \in up : Edges[i] \in Int
      BY <3>1, <3>2, <3>3, FS_Subset
    <3>6. PICK sum \in Int : sum = SumFunctionOnSet(Edges, up)
      BY <3>5, SumType
    <3>7. PICK l \in Int, e \in Int : l = RootCell.low[a] /\ e = Edges[n + 1]
      BY <1>2, <1>7, <1>8
    <3>8. Cell(child).low[a] = l + (e + sum) /\ Cell(path).low[a] = l + sum
      BY <1>5, <1>6, <2>1, <2>2, <3>1, <3>4, <3>6, <3>7
    <3>9. l + (e + sum) = l + sum + e
      OBVIOUS
    <3> QED BY <2>4, <3>7, <3>8, <3>9
  <2> QED BY <2>3, <2>4
<1> QED BY <1>2, <1>3, <1>5, <1>9

-----------------------------------------------------------------------------
\* The edges on the way have been halved without a remainder, as those of doubles are.
HalvedTo(depth) == \A i \in 1 .. depth : Edges[i - 1] = 2 * Edges[i]

\* The point lies in the cell.
Within(point, path) ==
  \A a \in Axes : Cell(path).low[a] <= point[a] /\ point[a] <= Cell(path).low[a] + Cell(path).edge

\* The point lies in all cells on the way.
WithinAll(point, path) ==
  \A q \in Paths : IsPrefix(q, path) /\ HalvedTo(Len(q)) => Within(point, q)

\* All particles lie in the root's cell.
LEMMA RootWithin ==
  ASSUME positions \in [TreeParticles -> Points], NEW p \in TreeParticles
  PROVE  WithinAll(positions[p], <<>>)
<1>1. <<>> \in Paths /\ Len(<<>>) = 0 /\ 0 <= MaxDepth
  BY EmptySeq, TreeAssumption DEF Paths
<1>2. \A q \in Paths : IsPrefix(q, <<>>) => q = <<>>
  <2> SUFFICES ASSUME NEW q \in Paths, IsPrefix(q, <<>>) PROVE q = <<>>
    OBVIOUS
  <2>1. q \in Seq(SUBSET Axes) /\ <<>> \in Seq(SUBSET Axes)
    BY <1>1 DEF Paths
  <2>2. Len(q) \in Nat /\ Len(q) <= 0
    BY <1>1, <2>1, PrefixPointwise
  <2> QED BY <2>1, <2>2, EmptySeq
<1>3. RootCell.edge \in Nat /\ RootCell.low \in [Axes -> Int]
  BY RootContains
<1>4. Edges[0] = RootCell.edge
  BY <1>3, EdgesHalve
<1>5. ASSUME NEW a \in Axes
      PROVE  Cell(<<>>).low[a] = RootCell.low[a]
  <2>1. {i \in 1 .. 0 : a \in (<<>>)[i]} = {}
    OBVIOUS
  <2>2. Cell(<<>>).low[a] =
          RootCell.low[a] + SumFunctionOnSet(Edges, {i \in 1 .. Len(<<>>) : a \in (<<>>)[i]})
    BY <1>1, CellType
  <2>3. SumFunctionOnSet(Edges, {}) = 0
    BY SumEmpty
  <2>4. RootCell.low[a] \in Int
    BY <1>3
  <2> QED BY <1>1, <2>1, <2>2, <2>3, <2>4
<1>6. Cell(<<>>).edge = RootCell.edge
  BY <1>1, <1>4, CellType
<1>7. Within(positions[p], <<>>)
  BY <1>5, <1>6, RootContains DEF Within
<1> QED BY <1>2, <1>7 DEF WithinAll

\* A point goes from a cell that it lies in into a child that it lies in.
LEMMA OctantWithin ==
  ASSUME positions \in [TreeParticles -> Points], NEW path \in Paths, Len(path) < MaxDepth,
         NEW point, \A a \in Axes : point[a] \in Int, WithinAll(point, path)
  PROVE  WithinAll(point, Append(path, Octant(point, path)))
<1>1. PICK octant \in SUBSET Axes : octant = Octant(point, path)
  BY DEF Octant
<1>2. PICK n : n = Len(path)
  OBVIOUS
<1>3. PICK child : child = Append(path, octant)
  OBVIOUS
<1>4. /\ child \in Paths /\ Len(child) = n + 1 /\ n + 1 \in 1 .. MaxDepth
      /\ Cell(child).edge = Edges[n + 1] /\ Edges[n + 1] \in Nat
      /\ \A a \in Axes :
           /\ a \in octant => Cell(child).low[a] = Cell(path).low[a] + Edges[n + 1]
           /\ a \notin octant => Cell(child).low[a] = Cell(path).low[a]
  BY <1>2, <1>3, ChildCell
<1>5. path \in Seq(SUBSET Axes) /\ n \in Nat /\ MaxDepth \in Nat /\ n <= MaxDepth
  BY <1>2, LenProperties, TreeAssumption DEF Paths
<1>6. /\ Cell(path).edge \in Nat /\ Cell(path).edge = Edges[n]
      /\ \A a \in Axes : Cell(path).low[a] \in Int
  BY <1>2, <1>5, CellType
<1>7. ASSUME HalvedTo(n + 1) PROVE Within(point, child)
  <2>1. PICK e \in Nat : e = Edges[n + 1] /\ Cell(child).edge = e /\ Cell(path).edge = 2 * e
    <3>1. PICK m \in 1 .. n + 1 : m = n + 1 /\ m - 1 = n
      BY <1>5
    <3>2. Edges[m - 1] = 2 * Edges[m]
      BY <1>7, <3>1 DEF HalvedTo
    <3>3. Edges[n] = 2 * Edges[n + 1]
      BY ONLY <3>1, <3>2
    <3> QED BY <1>4, <1>6, <3>3
  <2>2. Within(point, path)
    <3>1. HalvedTo(Len(path))
      BY <1>2, <1>5, <1>7 DEF HalvedTo
    <3>2. IsPrefix(path, path)
      BY <1>5, PrefixReflexive
    <3> QED BY <3>1, <3>2 DEF WithinAll
  <2>3. ASSUME NEW a \in Axes
        PROVE  Cell(child).low[a] <= point[a] /\ point[a] <= Cell(child).low[a] + Cell(child).edge
    <3>1. PICK l \in Int, x \in Int : l = Cell(path).low[a] /\ x = point[a]
      BY <1>6
    <3>2. l <= x /\ x <= l + 2 * e
      BY <2>1, <2>2, <3>1 DEF Within
    <3>3. a \in octant <=> x > l + e
      <4>1. (2 * e) \div 2 = e
        OBVIOUS
      <4>2. a \in octant <=> point[a] > Cell(path).low[a] + Cell(path).edge \div 2
        BY <1>1 DEF Octant
      <4> QED BY <2>1, <3>1, <4>1, <4>2
    <3>4. CASE a \in octant
      <4>1. Cell(child).low[a] = l + e
        BY <1>4, <2>1, <3>1, <3>4
      <4>2. l + e <= x /\ x <= l + e + e
        BY <3>2, <3>3, <3>4
      <4> QED BY <2>1, <3>1, <4>1, <4>2
    <3>5. CASE a \notin octant
      <4>1. Cell(child).low[a] = l
        BY <1>4, <3>1, <3>5
      <4>2. l <= x /\ x <= l + e
        BY <3>2, <3>3, <3>5
      <4> QED BY <2>1, <3>1, <4>1, <4>2
    <3> QED BY <3>4, <3>5
  <2> QED BY <2>3 DEF Within
<1>8. ASSUME NEW q \in Paths, IsPrefix(q, child), HalvedTo(Len(q)) PROVE Within(point, q)
  <2>1. CASE q = child
    BY <1>4, <1>7, <1>8, <2>1
  <2>2. CASE q # child
    <3>1. IsStrictPrefix(q, child)
      BY <1>8, <2>2 DEF IsStrictPrefix
    <3>2. IsPrefix(q, path)
      BY <1>3, <1>5, <3>1, PrefixOfAppend DEF Paths
    <3> QED BY <1>8, <3>2 DEF WithinAll
  <2> QED BY <2>1, <2>2
<1> QED BY <1>1, <1>3, <1>8 DEF WithinAll

\* Cells depend on the positions alone.
LEMMA CellsStay ==
  ASSUME positions' = positions, NEW point, NEW path
  PROVE  WithinAll(point, path)' <=> WithinAll(point, path)
BY DEF WithinAll, Within, HalvedTo, Cell, Low, Edges, RootCell, Extent

\* If no two particles coincide, each lies in the cell of its leaf and those above
\* it, and the one being inserted in the cells it has come through.
CellsHoldTheirs ==
  IsInjective(positions) =>
    /\ ~Built => call.point = positions[next] /\ WithinAll(positions[next], call.path)
    /\ \A path \in DOMAIN node : HasLeaf(path) => WithinAll(positions[node[path].particle], path)

\* Which particle is being inserted, and the types its call has.
LEMMA CallTypes ==
  ASSUME TreeInv, ~Built
  PROVE  /\ next \in TreeParticles /\ positions \in [TreeParticles -> Points] /\ call.path \in Paths
         /\ next # NoParticle
         /\ \A p \in TreeParticles, a \in Axes : positions[p][a] \in Int
<1>1. /\ next \in 0 .. TreeSize /\ positions \in [TreeParticles -> Points] /\ call.path \in Paths
      /\ next # TreeSize
  BY DEF TreeInv, TreeTypeOK, Built
<1>2. next \in TreeParticles
  BY <1>1, TreeAssumption DEF TreeParticles
<1>3. next # NoParticle
  BY <1>1, TreeAssumption
<1> QED BY <1>1, <1>2, <1>3, TreeAssumption

\* A call into a child that the particle lies in.
LEMMA ChildHolds ==
  ASSUME TreeInv, ~Built, NEW p \in TreeParticles, Len(call.path) < MaxDepth,
         WithinAll(positions[p], call.path)
  PROVE  WithinAll(positions[p], Append(call.path, Octant(positions[p], call.path)))
<1>1. PICK point : point = positions[p]
  OBVIOUS
<1>2. PICK path \in Paths : path = call.path
  BY CallTypes
<1>3. /\ positions \in [TreeParticles -> Points] /\ Len(path) < MaxDepth
      /\ \A a \in Axes : point[a] \in Int
  BY <1>1, <1>2, CallTypes
<1>4. WithinAll(point, path)
  BY <1>1, <1>2
<1>5. WithinAll(point, Append(path, Octant(point, path)))
  BY <1>3, <1>4, OctantWithin
<1> QED BY <1>1, <1>2, <1>5

LEMMA CellsHoldInit == TreeInit => CellsHoldTheirs
<1> SUFFICES ASSUME TreeInit, IsInjective(positions)
             PROVE  /\ ~Built => call.point = positions[next] /\ WithinAll(positions[next], call.path)
                    /\ \A path \in DOMAIN node : ~HasLeaf(path)
  BY DEF CellsHoldTheirs
<1>1. /\ next = 0 /\ call.path = <<>> /\ call.point = positions[0]
      /\ positions \in [TreeParticles -> Points]
  BY DEF TreeInit, Call
<1>2. 0 \in TreeParticles
  BY TreeAssumption DEF TreeParticles
<1>3. WithinAll(positions[0], <<>>)
  BY <1>1, <1>2, RootWithin
<1>4. \A path \in DOMAIN node : ~HasLeaf(path)
  BY DEF TreeInit, HasLeaf
<1> QED BY <1>1, <1>3, <1>4

\* Two particles never coincide if their positions differ.
LEMMA NoCoincidence ==
  ASSUME TreeInv, CellsHoldTheirs, IsInjective(positions)
  PROVE  ~PerturbCoincident
<1> SUFFICES ASSUME PerturbCoincident PROVE FALSE
  OBVIOUS
<1>1. ~Built /\ call.path \in DOMAIN node /\ HasLeaf(call.path)
      /\ positions[node[call.path].particle] = call.point
  BY CalledNode DEF PerturbCoincident, IsLeaf, Coincident
<1>2. call.point = positions[next]
  BY <1>1 DEF CellsHoldTheirs
<1>3. node[call.path].particle \in TreeParticles /\ node[call.path].particle < next
  BY <1>1 DEF TreeInv, TreeTypeOK, TreeNodes, EachHasItsLeaf, HasLeaf
<1>4. next \in TreeParticles /\ DOMAIN positions = TreeParticles
  BY <1>1, CallTypes
<1>5. next \in Int
  BY <1>4 DEF TreeParticles
<1>6. node[call.path].particle = next
  BY <1>1, <1>2, <1>3, <1>4 DEF IsInjective
<1> QED BY <1>3, <1>5, <1>6

LEMMA CellsHoldDescend ==
  ASSUME TreeInv, CellsHoldTheirs, Descend
  PROVE  CellsHoldTheirs'
<1>1. UNCHANGED <<positions, node, next>> /\ ~Built /\ ~Built' /\ Len(call.path) < MaxDepth
  BY DEF Descend, Built, IntoChild
<1>2. call'.path = Append(call.path, Octant(call.point, call.path)) /\ call'.point = positions[next]
  BY DEF Descend, IntoChild, Call
<1>3. ASSUME IsInjective(positions)
      PROVE  /\ call.point = positions[next] /\ WithinAll(positions[next], call.path)
             /\ \A path \in DOMAIN node : HasLeaf(path) => WithinAll(positions[node[path].particle], path)
  BY <1>1, <1>3 DEF CellsHoldTheirs
<1>4. ASSUME IsInjective(positions) PROVE WithinAll(positions[next], call.path)'
  <2>1. WithinAll(positions[next], Append(call.path, Octant(positions[next], call.path)))
    BY <1>1, <1>3, <1>4, CallTypes, ChildHolds
  <2>2. PICK point, path : point = positions[next] /\ path = call'.path
    OBVIOUS
  <2>3. WithinAll(point, path)
    BY <1>2, <1>3, <1>4, <2>1, <2>2
  <2>4. WithinAll(point, path)'
    BY <1>1, <2>3, CellsStay
  <2>5. positions'[next'] = point /\ call'.path = path
    BY <1>1, <2>2
  <2> QED BY <2>4, <2>5
<1>5. ASSUME IsInjective(positions), NEW path \in DOMAIN node, HasLeaf(path)
      PROVE  WithinAll(positions[node[path].particle], path)'
  <2>1. PICK point : point = positions[node[path].particle]
    OBVIOUS
  <2>2. WithinAll(point, path)'
    BY <1>1, <1>3, <1>5, <2>1, CellsStay
  <2>3. positions'[node'[path].particle] = point
    BY <1>1, <2>1
  <2> QED BY <2>2, <2>3
<1>6. call'.point = positions'[next'] /\ DOMAIN node' = DOMAIN node
      /\ IsInjective(positions)' = IsInjective(positions)
      /\ \A path : HasLeaf(path)' <=> HasLeaf(path)
  BY <1>1, <1>2 DEF HasLeaf
<1> QED BY <1>4, <1>5, <1>6 DEF CellsHoldTheirs

\* The particle that was alone lies in its new leaf too.
LEMMA CellsHoldSubdivide ==
  ASSUME TreeInv, CellsHoldTheirs, Subdivide
  PROVE  CellsHoldTheirs'
<1>1. UNCHANGED <<positions, next>> /\ ~Built /\ ~Built' /\ Len(call.path) < MaxDepth
  BY DEF Subdivide, Built, IntoChild
<1>2. call'.path = Append(call.path, Octant(call.point, call.path)) /\ call'.point = positions[next]
  BY DEF Subdivide, IntoChild, Call
<1>3. ASSUME IsInjective(positions)
      PROVE  /\ call.point = positions[next] /\ WithinAll(positions[next], call.path)
             /\ \A path \in DOMAIN node : HasLeaf(path) => WithinAll(positions[node[path].particle], path)
  BY <1>1, <1>3 DEF CellsHoldTheirs
<1>4. ASSUME IsInjective(positions) PROVE WithinAll(positions[next], call.path)'
  <2>1. WithinAll(positions[next], Append(call.path, Octant(positions[next], call.path)))
    BY <1>1, <1>3, <1>4, CallTypes, ChildHolds
  <2>2. PICK point, path : point = positions[next] /\ path = call'.path
    OBVIOUS
  <2>3. WithinAll(point, path)
    BY <1>2, <1>3, <1>4, <2>1, <2>2
  <2>4. WithinAll(point, path)'
    BY <1>1, <2>3, CellsStay
  <2>5. positions'[next'] = point /\ call'.path = path
    BY <1>1, <2>2
  <2> QED BY <2>4, <2>5
<1>5. PICK path \in DOMAIN node : path = call.path /\ HasLeaf(path)
  BY CalledNode DEF Subdivide, IsLeaf
<1>6. PICK p \in TreeParticles : p = node[path].particle
  BY <1>5 DEF TreeInv, TreeTypeOK, TreeNodes, HasLeaf
<1>7. PICK new : new = Append(path, Octant(positions[p], path))
  OBVIOUS
<1>8. node' = [q \in DOMAIN node \cup {new} |->
                 IF q = new THEN Leaf(p)
                 ELSE IF q = path THEN [node[q] EXCEPT !.particle = NoParticle] ELSE node[q]]
  BY <1>5, <1>6, <1>7 DEF Subdivide, MovedDown
<1>9. /\ DOMAIN node' = DOMAIN node \cup {new} /\ node'[new].particle = p
      /\ \A q \in DOMAIN node : q # new /\ q # path => node'[q] = node[q]
  BY <1>8 DEF Leaf
<1>10. path # new => node'[path].particle = NoParticle
  <2>1. node[path] \in TreeNodes
    BY DEF TreeInv, TreeTypeOK
  <2>2. [node[path] EXCEPT !.particle = NoParticle].particle = NoParticle
    BY <2>1 DEF TreeNodes
  <2> QED BY <1>8, <2>2
<1>11. ASSUME IsInjective(positions), NEW q \in DOMAIN node', node'[q].particle # NoParticle
       PROVE  WithinAll(positions[node[q].particle], q)'
  <2>1. CASE q = new
    <3>1. PICK point : point = positions[p]
      OBVIOUS
    <3>2. WithinAll(point, new)
      BY <1>1, <1>3, <1>5, <1>6, <1>7, <1>11, <3>1, ChildHolds
    <3>3. WithinAll(point, new)'
      BY <1>1, <3>2, CellsStay
    <3>4. positions'[node'[q].particle] = point
      BY <1>1, <1>9, <2>1, <3>1
    <3> QED BY <2>1, <3>3, <3>4
  <2>2. CASE q # new
    <3>1. q \in DOMAIN node /\ node'[q] = node[q] /\ HasLeaf(q)
      BY <1>5, <1>9, <1>10, <1>11, <2>2 DEF HasLeaf
    <3>2. PICK point : point = positions[node[q].particle]
      OBVIOUS
    <3>3. WithinAll(point, q)'
      BY <1>1, <1>3, <1>11, <3>1, <3>2, CellsStay
    <3>4. positions'[node'[q].particle] = point
      BY <1>1, <3>1, <3>2
    <3> QED BY <3>3, <3>4
  <2> QED BY <2>1, <2>2
<1>12. call'.point = positions'[next'] /\ IsInjective(positions)' = IsInjective(positions)
  BY <1>1, <1>2
<1> QED BY <1>4, <1>11, <1>12 DEF CellsHoldTheirs, HasLeaf

\* The particle has its leaf at the end of the way, and the next one starts at the root.
LEMMA CellsHoldPlace ==
  ASSUME TreeInv, CellsHoldTheirs, PlaceInLeaf
  PROVE  CellsHoldTheirs'
<1>1. UNCHANGED positions /\ ~Built /\ next' = next + 1
  BY DEF PlaceInLeaf
<1>2. call'.path = <<>> /\ (~Built' => call'.point = positions[next'])
  BY DEF PlaceInLeaf, Call
<1>3. ASSUME IsInjective(positions)
      PROVE  /\ WithinAll(positions[next], call.path)
             /\ \A path \in DOMAIN node : HasLeaf(path) => WithinAll(positions[node[path].particle], path)
  BY <1>1, <1>3 DEF CellsHoldTheirs
<1>4. ASSUME ~Built' PROVE WithinAll(positions[next], call.path)'
  <2>1. next' \in TreeParticles
    BY <1>1, <1>4, TreeAssumption DEF TreeInv, TreeTypeOK, Built, TreeParticles
  <2>2. PICK p \in TreeParticles : p = next'
    BY <2>1
  <2>3. WithinAll(positions[p], <<>>)
    BY <1>1, CallTypes, RootWithin
  <2>4. PICK point, path : point = positions[p] /\ path = <<>>
    OBVIOUS
  <2>5. WithinAll(point, path)'
    BY <1>1, <2>3, <2>4, CellsStay
  <2>6. positions'[next'] = point /\ call'.path = path
    BY <1>1, <1>2, <2>2, <2>4
  <2> QED BY <2>5, <2>6
<1>5. PICK path : path = call.path
  OBVIOUS
<1>6. node' = [q \in DOMAIN node \cup {path} |->
                 IF q = path THEN Leaf(next)
                 ELSE IF IsPrefix(q, path) THEN [node[q] EXCEPT !.count = @ + 1] ELSE node[q]]
  BY <1>5 DEF PlaceInLeaf, CountedOnTheWay
<1>7. DOMAIN node' = DOMAIN node \cup {path} /\ node'[path].particle = next
  BY <1>6 DEF Leaf
<1>8. ASSUME NEW q \in DOMAIN node, q # path
      PROVE  node'[q].particle = node[q].particle
  <2>1. node[q] \in TreeNodes
    BY DEF TreeInv, TreeTypeOK
  <2>2. [node[q] EXCEPT !.count = @ + 1].particle = node[q].particle
    BY <2>1 DEF TreeNodes
  <2> QED BY <1>6, <1>8, <2>2
<1>9. ASSUME IsInjective(positions), NEW q \in DOMAIN node', node'[q].particle # NoParticle
      PROVE  WithinAll(positions[node[q].particle], q)'
  <2>1. CASE q = path
    <3>1. PICK point : point = positions[next]
      OBVIOUS
    <3>2. WithinAll(point, path)'
      BY <1>1, <1>3, <1>5, <1>9, <3>1, CellsStay
    <3>3. positions'[node'[q].particle] = point
      BY <1>1, <1>7, <2>1, <3>1
    <3> QED BY <2>1, <3>2, <3>3
  <2>2. CASE q # path
    <3>1. q \in DOMAIN node /\ node'[q].particle = node[q].particle /\ HasLeaf(q)
      BY <1>7, <1>8, <1>9, <2>2 DEF HasLeaf
    <3>2. PICK point : point = positions[node[q].particle]
      OBVIOUS
    <3>3. WithinAll(point, q)'
      BY <1>1, <1>3, <1>9, <3>1, <3>2, CellsStay
    <3>4. positions'[node'[q].particle] = point
      BY <1>1, <3>1, <3>2
    <3> QED BY <3>3, <3>4
  <2> QED BY <2>1, <2>2
<1>10. (~Built' => call'.point = positions'[next']) /\ IsInjective(positions)' = IsInjective(positions)
  BY <1>1, <1>2
<1> QED BY <1>4, <1>9, <1>10 DEF CellsHoldTheirs, HasLeaf

LEMMA CellsHoldStep == TreeInv /\ CellsHoldTheirs /\ [TreeNext]_treeVars => CellsHoldTheirs'
<1> SUFFICES ASSUME TreeInv, CellsHoldTheirs, [TreeNext]_treeVars PROVE CellsHoldTheirs'
  OBVIOUS
<1>1. CASE PlaceInLeaf
  BY <1>1, CellsHoldPlace
<1>2. CASE PerturbCoincident
  <2>1. ~IsInjective(positions) /\ positions' = positions
    BY <1>2, NoCoincidence DEF PerturbCoincident
  <2> QED BY <2>1 DEF CellsHoldTheirs
<1>3. CASE Subdivide
  BY <1>3, CellsHoldSubdivide
<1>4. CASE Descend
  BY <1>4, CellsHoldDescend
<1>5. CASE UNCHANGED treeVars
  <2>1. UNCHANGED <<positions, node, next, call, Built>>
    BY <1>5 DEF treeVars, Built
  <2>2. \A point, path : WithinAll(point, path)' <=> WithinAll(point, path)
    BY <2>1, CellsStay
  <2>3. IsInjective(positions)' = IsInjective(positions)
    BY <2>1
  <2> QED BY <2>1, <2>2, <2>3 DEF CellsHoldTheirs, HasLeaf
<1> QED BY <1>1, <1>2, <1>3, <1>4, <1>5 DEF TreeNext

\* Where each value lies within a multiple of its weight, so does the sum.
LEMMA WeightedSum ==
  ASSUME NEW S, IsFiniteSet(S), NEW weight, NEW value, NEW x \in Int, NEW e \in Nat,
         \A q \in S : weight[q] \in Nat /\ value[q] \in Int,
         \A q \in S : /\ x * weight[q] - e * weight[q] <= value[q]
                      /\ value[q] <= x * weight[q] + e * weight[q]
  PROVE  \E w \in Nat, v \in Int :
           /\ w = SumFunctionOnSet(weight, S) /\ v = SumFunctionOnSet(value, S)
           /\ x * w - e * w <= v /\ v <= x * w + e * w
<1> DEFINE Fits(w, v) == w \in Nat /\ v \in Int /\ x * w - e * w <= v /\ v <= x * w + e * w
           Bad == {s \in SUBSET S : ~Fits(SumFunctionOnSet(weight, s), SumFunctionOnSet(value, s))}
<1>1. ASSUME Bad # {} PROVE FALSE
  <2>1. PICK s \in Bad : \A q \in s : s \ {q} \notin Bad
    <3>1. Bad \subseteq SUBSET S
      OBVIOUS
    <3> HIDE DEF Bad
    <3> QED BY <1>1, <3>1, LeastSubset
  <2>2. s \subseteq S /\ ~Fits(SumFunctionOnSet(weight, s), SumFunctionOnSet(value, s))
    BY <2>1
  <2>3. s # {}
    <3>1. Fits(0, 0)
      OBVIOUS
    <3> QED BY <2>2, <3>1, SumEmpty
  <2>4. PICK q \in s : TRUE
    BY <2>3
  <2>5. PICK w, v : w = SumFunctionOnSet(weight, s \ {q}) /\ v = SumFunctionOnSet(value, s \ {q})
    OBVIOUS
  <2>6. Fits(w, v)
    BY <2>1, <2>2, <2>4, <2>5
  <2>7. PICK n, m : n = weight[q] /\ m = value[q] /\ Fits(n, m)
    BY <2>2, <2>4
  <2>8. IsFiniteSet(s) /\ (\A r \in s : weight[r] \in Int) /\ (\A r \in s : value[r] \in Int)
    BY <2>2, FS_Subset
  <2>9. SumFunctionOnSet(weight, s) = n + w
    BY <2>4, <2>5, <2>7, <2>8, SumTake
  <2>10. SumFunctionOnSet(value, s) = m + v
    BY <2>4, <2>5, <2>7, <2>8, SumTake
  <2>11. Fits(n + w, m + v)
    <3>1. x * (n + w) = x * n + x * w /\ e * (n + w) = e * n + e * w
      BY <2>6, <2>7
    <3>2. PICK xn \in Int, xw \in Int, en \in Int, ew \in Int :
            xn = x * n /\ xw = x * w /\ en = e * n /\ ew = e * w
      BY <2>6, <2>7
    <3>3. xn - en <= m /\ m <= xn + en /\ xw - ew <= v /\ v <= xw + ew
      BY <2>6, <2>7, <3>2
    <3>4. m \in Int /\ v \in Int /\ n + w \in Nat /\ m + v \in Int
      BY <2>6, <2>7
    <3>5. (xn + xw) - (en + ew) <= m + v /\ m + v <= (xn + xw) + (en + ew)
      BY <3>3, <3>4
    <3> QED BY <3>1, <3>2, <3>4, <3>5
  <2> HIDE DEF Fits
  <2> QED BY <2>2, <2>9, <2>10, <2>11
<1>2. S \in SUBSET S
  OBVIOUS
<1> QED BY <1>1, <1>2

\* What lies between -d and d has a square of at most that of d.
LEMMA SquareBound ==
  ASSUME NEW d \in Int, NEW n \in Int, -d <= n, n <= d
  PROVE  0 <= n * n /\ n * n <= d * d
<1>1. CASE n >= 0
  <2>1. n * n <= d * n
    BY <1>1
  <2>2. d * n <= d * d
    BY <1>1
  <2> QED BY <1>1, <2>1, <2>2
<1>2. CASE n < 0
  <2>1. PICK k \in Nat : k = -n
    BY <1>2
  <2>2. k * k <= d * k /\ d * k <= d * d
    BY <2>1
  <2>3. n * n = k * k
    BY <2>1
  <2> QED BY <2>1, <2>2, <2>3
<1> QED BY <1>1, <1>2

\* A sum over the three axes.
LEMMA AxesSum ==
  ASSUME NEW f, DOMAIN f = Axes, NEW bound \in Int, \A a \in Axes : f[a] \in Int /\ f[a] <= bound
  PROVE  SumFunction(f) \in Int /\ SumFunction(f) <= 3 * bound
<1>1. PICK x \in Axes, y \in Axes, z \in Axes : Axes = {x, y, z} /\ x # y /\ x # z /\ y # z
  <2>1. Axes = {0, 1, 2}
    BY TreeAssumption
  <2> QED BY <2>1
<1>2. IsFiniteSet({x}) /\ IsFiniteSet({x, y}) /\ IsFiniteSet({x, y, z})
  <2>1. PICK first \in Int, last \in Int : first = 0 /\ last = 2
    OBVIOUS
  <2>2. IsFiniteSet(first .. last)
    BY FS_Interval
  <2>3. IsFiniteSet(Axes)
    BY <2>1, <2>2, TreeAssumption
  <2>4. {x} \subseteq Axes /\ {x, y} \subseteq Axes
    OBVIOUS
  <2> QED BY <1>1, <2>3, <2>4, FS_Subset
<1>3. {x, y, z} \ {z} = {x, y} /\ {x, y} \ {y} = {x} /\ {x} \ {x} = {}
  BY <1>1
<1>4. PICK i \in Int, j \in Int, k \in Int : i = f[x] /\ j = f[y] /\ k = f[z]
  OBVIOUS
<1>5. i <= bound /\ j <= bound /\ k <= bound
  BY <1>4
<1>6. SumFunctionOnSet(f, {x, y, z}) = f[z] + SumFunctionOnSet(f, {x, y})
  <2>1. SumFunctionOnSet(f, {x, y, z}) = f[z] + SumFunctionOnSet(f, {x, y, z} \ {z})
    BY <1>2, SumTake
  <2> QED BY <1>3, <2>1
<1>7. SumFunctionOnSet(f, {x, y}) = f[y] + SumFunctionOnSet(f, {x})
  <2>1. SumFunctionOnSet(f, {x, y}) = f[y] + SumFunctionOnSet(f, {x, y} \ {y})
    BY <1>2, SumTake
  <2> QED BY <1>3, <2>1
<1>8. SumFunctionOnSet(f, {x}) = f[x] + 0
  <2>1. SumFunctionOnSet(f, {x}) = f[x] + SumFunctionOnSet(f, {x} \ {x})
    BY <1>2, SumTake
  <2> QED BY <1>3, <2>1, SumEmpty
<1>9. SumFunction(f) = k + (j + (i + 0))
  BY <1>1, <1>4, <1>6, <1>7, <1>8 DEF SumFunction
<1> QED BY <1>5, <1>9

\* Every level above a node has been halved without a remainder.
CellsHalved == \A path \in DOMAIN node : HalvedTo(Len(path))

\* Particles below a node lie in its cell.
LEMMA BelowWithin ==
  ASSUME TreeInv, CellsHoldTheirs, IsInjective(positions), CellsHalved,
         NEW path \in DOMAIN node, NEW q \in Below(path)
  PROVE  Within(positions[q], path)
<1>1. PICK r \in DOMAIN node : IsPrefix(path, r) /\ HasLeaf(r) /\ node[r].particle = q
  BY BelowMeans
<1>2. WithinAll(positions[q], r)
  BY <1>1 DEF CellsHoldTheirs
<1>3. path \in Paths
  BY DEF TreeInv, TreeTypeOK
<1> QED BY <1>1, <1>2, <1>3 DEF WithinAll, CellsHalved

\* A cell that holds the particle is no farther away from it than the diagonal.
LEMMA WithinDiagonal ==
  ASSUME TreeInv, Built, CellsHoldTheirs, IsInjective(positions), CellsHalved,
         NEW path \in DOMAIN node, NEW p \in Below(path)
  PROVE  /\ Square(Cell(path).edge * Masses[path]) \in Nat
         /\ DistanceSqr(p, path) \in Int
         /\ DistanceSqr(p, path) <= 3 * Square(Cell(path).edge * Masses[path])
<1>1. /\ path \in Paths /\ Len(path) <= MaxDepth /\ positions \in [TreeParticles -> Points]
  BY DEF TreeInv, TreeTypeOK
<1>2. PICK e \in Nat : e = Cell(path).edge
  BY <1>1, CellType
<1>3. IsFiniteSet(Below(path)) /\ Below(path) \subseteq TreeParticles
  BY BelowFinite
<1>4. \A q \in TreeParticles : Mass[q] \in Nat /\ Mass[q] \in Int /\ \A a \in Axes : positions[q][a] \in Int
  BY <1>1, TreeAssumption
<1>5. PICK B : B = Below(path)
  OBVIOUS
<1>6. \A q \in B : Mass[q] \in Nat
  BY <1>3, <1>4, <1>5
<1>7. PICK w : w = Masses[path]
  OBVIOUS
<1>8. w = SumFunctionOnSet(Mass, B)
  <2>1. \A q \in TreeParticles : Mass[q] \in Int
    BY <1>4
  <2> QED BY <1>5, <1>7, <2>1, AccumulatedAddsUp DEF Masses
<1>9. ASSUME NEW a \in Axes
      PROVE  \E n \in Int : /\ n = Moments(a)[path] - w * positions[p][a] /\ w \in Nat
                            /\ -(e * w) <= n /\ n <= e * w
  <2>1. PICK x \in Int : x = positions[p][a]
    BY <1>3, <1>4
  <2>2. PICK low \in Int : low = Cell(path).low[a]
    BY <1>1, CellType
  <2>3. PICK value : value = Moment(a)
    OBVIOUS
  <2>4. low <= x /\ x <= low + e
    BY <1>2, <2>1, <2>2, BelowWithin DEF Within
  <2>5. ASSUME NEW q \in B
        PROVE  /\ value[q] \in Int
               /\ x * Mass[q] - e * Mass[q] <= value[q] /\ value[q] <= x * Mass[q] + e * Mass[q]
    <3>1. PICK m \in Nat, y \in Int : m = Mass[q] /\ y = positions[q][a]
      BY <1>3, <1>4, <1>5
    <3>2. value[q] = m * y
      BY <1>3, <1>5, <2>3, <3>1 DEF Moment
    <3>3. low <= y /\ y <= low + e
      BY <1>2, <1>5, <2>2, <3>1, BelowWithin DEF Within
    <3>4. x - e <= y /\ y <= x + e
      BY <2>4, <3>3
    <3>5. m * (x - e) <= m * y /\ m * y <= m * (x + e)
      BY <3>4
    <3>6. m * (x - e) = x * m - e * m /\ m * (x + e) = x * m + e * m /\ m * y \in Int
      OBVIOUS
    <3> QED BY <3>1, <3>2, <3>5, <3>6
  <2>6. PICK sum \in Nat, v \in Int :
          /\ sum = SumFunctionOnSet(Mass, B) /\ v = SumFunctionOnSet(value, B)
          /\ x * sum - e * sum <= v /\ v <= x * sum + e * sum
    <3>1. IsFiniteSet(B)
      BY <1>3, <1>5
    <3> QED BY <1>6, <2>5, <3>1, WeightedSum
  <2>7. Moments(a)[path] = v
    <3>1. \A m \in Int, y \in Int : m * y \in Int
      OBVIOUS
    <3>2. \A q \in TreeParticles : Mass[q] \in Int /\ positions[q][a] \in Int
      BY <1>4
    <3>3. \A q \in TreeParticles : Moment(a)[q] \in Int
      BY <3>1, <3>2 DEF Moment
    <3>4. Moments(a)[path] = SumFunctionOnSet(Moment(a), Below(path))
      BY <3>3, AccumulatedAddsUp DEF Moments
    <3> QED BY <1>5, <2>3, <2>6, <3>4
  <2>8. PICK n \in Int : n = v - sum * x
    OBVIOUS
  <2>9. -(e * sum) <= n /\ n <= e * sum
    <3>1. PICK es \in Int, xs \in Int : es = e * sum /\ xs = x * sum /\ sum * x = xs
      OBVIOUS
    <3> QED BY <2>6, <2>8, <3>1
  <2>10. w = sum
    BY <1>8, <2>6
  <2> QED BY <2>1, <2>7, <2>8, <2>9, <2>10
<1>10. w \in Nat
  <2>1. 0 \in Axes
    BY TreeAssumption
  <2> QED BY <1>9, <2>1
<1>11. PICK d \in Nat : d = e * w
  BY <1>10
<1>12. PICK bound \in Nat : bound = d * d
  OBVIOUS
<1>13. PICK f : f = [a \in Axes |-> Square(Moments(a)[path] - w * positions[p][a])]
  OBVIOUS
<1>14. ASSUME NEW a \in Axes PROVE f[a] \in Int /\ f[a] <= bound
  <2>1. PICK n \in Int : n = Moments(a)[path] - w * positions[p][a] /\ -d <= n /\ n <= d
    BY <1>9, <1>11
  <2>2. n * n <= d * d /\ n * n \in Int
    BY <2>1, SquareBound
  <2>3. f[a] = n * n
    BY <1>13, <2>1 DEF Square
  <2> QED BY <1>12, <2>2, <2>3
<1>15. SumFunction(f) \in Int /\ SumFunction(f) <= 3 * bound
  BY <1>13, <1>14, AxesSum
<1>16. DistanceSqr(p, path) = SumFunction(f)
  BY <1>7, <1>13 DEF DistanceSqr
<1>17. Square(Cell(path).edge * Masses[path]) = bound
  BY <1>2, <1>7, <1>11, <1>12 DEF Square
<1> QED BY <1>15, <1>16, <1>17

\* So it is not accepted, as long as theta^2 is at most 1/3.
LEMMA HoldersNotAccepted ==
  ASSUME NEW s \in Nat, NEW dist \in Int, dist <= 3 * s,
         NEW num \in Nat, NEW den \in Nat, 3 * num <= den
  PROVE  ~(den * s < num * dist)
<1>1. num * dist <= num * (3 * s)
  OBVIOUS
<1>2. (3 * num) * s <= den * s
  OBVIOUS
<1>3. num * (3 * s) = (3 * num) * s
  OBVIOUS
<1>4. num * dist \in Int /\ den * s \in Int /\ num * (3 * s) \in Int
  OBVIOUS
<1> QED BY <1>1, <1>2, <1>3, <1>4

LEMMA NoSelf ==
  TreeInv /\ CellsHoldTheirs /\ IsInjective(positions) /\ CellsHalved => NoSelfAttraction
<1> SUFFICES ASSUME TreeInv, CellsHoldTheirs, IsInjective(positions), CellsHalved, Built,
                    NEW p \in TreeParticles, NEW thetaSqr \in ThetaSqrs, 3 * thetaSqr[1] <= thetaSqr[2],
                    NEW path \in UpdateForces(thetaSqr)[p], p \in Below(path)
             PROVE  FALSE
  BY DEF NoSelfAttraction
<1>1. /\ path \in DOMAIN node /\ (node[path].count = 1 \/ Accepts(p, path, thetaSqr))
      /\ node[path].count = 1 => node[path].particle # p
  BY DEF UpdateForces, Summands
<1>2. CASE node[path].count = 1
  <2>1. PICK r \in DOMAIN node : IsPrefix(path, r) /\ HasLeaf(r) /\ node[r].particle = p
    BY BelowMeans
  <2>2. r = path
    BY <1>1, <1>2, <2>1, BuiltTree
  <2> QED BY <1>1, <1>2, <2>1, <2>2
<1>3. CASE Accepts(p, path, thetaSqr)
  <2>1. PICK num \in Nat, den \in Nat : num = thetaSqr[1] /\ den = thetaSqr[2]
    BY TreeAssumption
  <2>2. PICK s \in Nat, dist \in Int : /\ s = Square(Cell(path).edge * Masses[path])
                                      /\ dist = DistanceSqr(p, path) /\ dist <= 3 * s
    BY <1>1, WithinDiagonal
  <2>3. den * s < num * dist
    BY <1>3, <2>1, <2>2 DEF Accepts
  <2> QED BY <2>1, <2>2, <2>3, HoldersNotAccepted
<1> QED BY <1>1, <1>2, <1>3

\* For any number of particles at different places, whatever their masses, any theta
\* and any depth: no particle is attracted by a cell that holds itself, as long as
\* theta^2 is at most 1/3 (barneshut_tree.cpp, lines 86-121 and 138-157).  Cells that
\* hold a particle have their centre of mass no farther from it than their diagonal.
\* Halving a double loses nothing; CellsHalved says that of the integers here.
THEOREM NoParticleAttractsItself ==
  TreeSpec => [](CellsHalved /\ IsInjective(positions) => NoSelfAttraction)
<1>1. TreeSpec => []CellsHoldTheirs
  BY TreeInvHolds, CellsHoldInit, CellsHoldStep, PTL DEF TreeSpec
<1> QED BY <1>1, TreeInvHolds, NoSelf, PTL

-----------------------------------------------------------------------------
(* DiagnosticsCharts.                                                       *)

\* The quotient is the last multiple that is not above.
LEMMA Quotient ==
  ASSUME NEW a \in Nat, NEW d \in Nat \ {0}
  PROVE  a \div d \in Nat /\ d * (a \div d) <= a /\ a < d * (a \div d) + d
OBVIOUS

-----------------------------------------------------------------------------
\* Energies are integers, and NaN is none of them nor a range; a chart has room
\* for the first point, the last and some between.
USE ChartAssumption

\* A point of a series.
DataPoints == [x : Int, y : Int]

\* Sums of points and areas of triangles are integers, so that they can be compared.
LEMMA SumOfType ==
  ASSUME NEW points \in Seq(DataPoints)
  PROVE  SumOf(points).x \in Int /\ SumOf(points).y \in Int
<1>1. PICK n \in Nat : DOMAIN points = 1 .. n /\ \A k \in 1 .. n : points[k] \in DataPoints
  OBVIOUS
<1>2. IsFiniteSet(1 .. n)
  BY FS_Interval
<1>3. PICK f : f = [k \in DOMAIN points |-> points[k].x]
  OBVIOUS
<1>4. PICK g : g = [k \in DOMAIN points |-> points[k].y]
  OBVIOUS
<1>5. DOMAIN f = 1 .. n /\ \A k \in 1 .. n : f[k] \in Int
  BY <1>1, <1>3 DEF DataPoints
<1>6. DOMAIN g = 1 .. n /\ \A k \in 1 .. n : g[k] \in Int
  BY <1>1, <1>4 DEF DataPoints
<1>7. SumFunction(f) \in Int
  BY <1>2, <1>5, SumType DEF SumFunction
<1>8. SumFunction(g) \in Int
  BY <1>2, <1>6, SumType DEF SumFunction
<1>9. SumOf(points).x = SumFunction(f) /\ SumOf(points).y = SumFunction(g)
  BY <1>3, <1>4 DEF SumOf
<1> QED BY <1>7, <1>8, <1>9

LEMMA AreaType ==
  ASSUME NEW a \in DataPoints, NEW c \in DataPoints, NEW sum, sum.x \in Int, sum.y \in Int, NEW count \in Nat
  PROVE  Area(a, c, sum, count) \in Int
<1>1. \A m \in Int : Abs(m) \in Int
  BY DEF Abs
<1>2. \A l \in Int, m \in Int : l * m \in Int
  OBVIOUS
<1>3. a.x \in Int /\ a.y \in Int /\ c.x \in Int /\ c.y \in Int
  BY DEF DataPoints
<1>4. a.x * count \in Int /\ a.y * count \in Int
  BY <1>2, <1>3
<1>5. a.x * count - sum.x \in Int /\ sum.y - a.y * count \in Int /\ c.y - a.y \in Int /\ a.x - c.x \in Int
  BY <1>3, <1>4
<1>6. /\ (a.x * count - sum.x) * (c.y - a.y) \in Int
      /\ (a.x - c.x) * (sum.y - a.y * count) \in Int
  BY <1>2, <1>5
<1>7. (a.x * count - sum.x) * (c.y - a.y) - (a.x - c.x) * (sum.y - a.y * count) \in Int
  BY <1>6
<1> QED BY <1>1, <1>7 DEF Area

\* How many buckets the points between the first and the last are put into.
Buckets == Threshold - 2

\* What the division of the inner points into buckets needs.
LEMMA Borders ==
  ASSUME NEW n \in Nat, n > Threshold, NEW i \in Nat
  PROVE  /\ BucketStart(i, n) \in Nat \ {0}
         /\ BucketStart(i, n) < BucketStart(i + 1, n)
         /\ i <= Buckets => BucketStart(i, n) <= n - 1
         /\ BucketStart(0, n) = 1 /\ BucketStart(Buckets, n) = n - 1
         /\ BucketStart(i + 2, n) - BucketStart(i, n) <= 2 * (1 + (n - 2) \div Buckets)
<1>0. PICK d \in Nat \ {0}, m \in Nat : d = Buckets /\ m = n - 2 /\ m > d
  BY DEF Buckets
<1>1. PICK b : b = [j \in Nat |-> (j * m) \div d]
  OBVIOUS
<1>2. \A j \in Nat : j * m \in Nat /\ BucketStart(j, n) = b[j] + 1 /\ b[j] = (j * m) \div d
  BY <1>0, <1>1 DEF BucketStart, Buckets
<1>3. \A j \in Nat : b[j] \in Nat /\ d * b[j] <= j * m /\ j * m < d * b[j] + d
  BY <1>2, Quotient
<1>4. (i + 1) * m = i * m + m /\ (i + 2) * m = i * m + m + m /\ i * m \in Nat
  OBVIOUS
<1>5. \A u \in Nat, v \in Nat : u <= v => d * u <= d * v
  OBVIOUS
<1>5a. \A u \in Nat : d * (u + 1) = d * u + d /\ d * u \in Nat
  OBVIOUS
<1>6. b[i] < b[i + 1]
  <2> SUFFICES ASSUME b[i + 1] <= b[i] PROVE FALSE
    BY <1>3
  <2>1. d * b[i + 1] <= d * b[i] /\ d * b[i + 1] \in Nat /\ d * b[i] \in Nat
    BY <1>3, <1>5
  <2>2. d * b[i] <= i * m /\ i * m + m < d * b[i + 1] + d
    BY <1>3, <1>4
  <2> QED BY <1>0, <1>4, <2>1, <2>2
<1>7. i <= d => b[i] <= m
  <2> SUFFICES ASSUME i <= d, m + 1 <= b[i] PROVE FALSE
    BY <1>3
  <2>1. d * (m + 1) <= d * b[i] /\ d * (m + 1) = d * m + d /\ d * m \in Nat /\ d * b[i] \in Nat
    <3>1. m + 1 \in Nat /\ b[i] \in Nat
      BY <1>3
    <3>2. d * (m + 1) <= d * b[i]
      BY <1>5, <3>1
    <3> QED BY <1>5a, <3>1, <3>2
  <2>2. i * m <= d * m
    OBVIOUS
  <2>3. d * b[i] <= i * m
    BY <1>3
  <2> QED BY <1>4, <2>1, <2>2, <2>3
<1>8. b[0] = 0 /\ b[d] = m
  <2>1. b[0] = 0
    <3>1. 0 * m = 0 /\ b[0] = (0 * m) \div d
      BY <1>2
    <3> QED BY <3>1
  <2>2. d * b[d] <= d * m /\ d * m < d * b[d] + d /\ b[d] \in Nat /\ d * b[d] \in Nat /\ d * m \in Nat
    BY <1>3
  <2>3. b[d] <= m
    <3> SUFFICES ASSUME m + 1 <= b[d] PROVE FALSE
      BY <2>2
    <3>1. d * (m + 1) <= d * b[d] /\ d * (m + 1) = d * m + d
      BY <1>5, <2>2
    <3> QED BY <2>2, <3>1
  <2>4. m <= b[d]
    <3> SUFFICES ASSUME b[d] + 1 <= m PROVE FALSE
      BY <2>2
    <3>1. d * (b[d] + 1) <= d * m /\ d * (b[d] + 1) = d * b[d] + d
      BY <1>5, <2>2
    <3> QED BY <2>2, <3>1
  <2> QED BY <2>1, <2>2, <2>3, <2>4
<1>9. b[i + 2] - b[i] <= 2 * (1 + m \div d)
  <2>1. PICK k \in Nat : k = m \div d /\ d * k <= m /\ m < d * k + d
    BY Quotient
  <2> SUFFICES ASSUME b[i] + 2 + k + k + 1 <= b[i + 2] PROVE FALSE
    BY <1>3, <2>1
  <2>2. d * (b[i] + 2 + k + k + 1) <= d * b[i + 2]
    <3>1. b[i] + 2 + k + k + 1 \in Nat /\ b[i + 2] \in Nat
      BY <1>3
    <3> QED BY <1>5, <3>1
  <2>3. d * (b[i] + 2 + k + k + 1) = d * b[i] + d + d + d * k + d * k + d
    BY <1>3
  <2>4. d * b[i + 2] <= i * m + m + m /\ i * m < d * b[i] + d
    BY <1>3, <1>4
  <2>5. d * b[i] \in Nat /\ d * k \in Nat /\ d * b[i + 2] \in Nat
    BY <1>3
  <2> QED BY <1>4, <2>1, <2>2, <2>3, <2>4, <2>5
<1>10. \A j \in Nat : BucketStart(j, n) = b[j] + 1 /\ b[j] \in Nat
  BY <1>2, <1>3
<1>11. BucketStart(i, n) \in Nat \ {0} /\ BucketStart(i, n) < BucketStart(i + 1, n)
  BY <1>6, <1>10
<1>12. i <= Buckets => BucketStart(i, n) <= n - 1
  BY <1>0, <1>7, <1>10
<1>13. BucketStart(0, n) = 1 /\ BucketStart(Buckets, n) = n - 1
  BY <1>0, <1>8, <1>10
<1>14. BucketStart(i + 2, n) - BucketStart(i, n) <= 2 * (1 + (n - 2) \div Buckets)
  BY <1>0, <1>9, <1>10
<1> QED BY <1>11, <1>12, <1>13, <1>14

\* Every bucket but the last has points and lies in the data, between its borders.
LEMMA BucketFilled ==
  ASSUME NEW n \in Nat, n > Threshold, NEW i \in 0 .. Buckets - 1
  PROVE  /\ NextBucket(i, n) \subseteq BucketStart(i + 1, n) .. BucketStart(i + 2, n) - 1
         /\ NextBucket(i, n) \subseteq 0 .. n - 1
         /\ NextBucket(i, n) # {} /\ IsFiniteSet(NextBucket(i, n))
<1>1. PICK b \in Nat : b = BucketStart(i + 1, n)
  BY Borders
<1>2. PICK e \in Nat : e = BucketStart(i + 2, n)
  BY Borders
<1>3. b < e /\ b <= n - 1
  <2>1. i + 1 \in Nat /\ i + 1 <= Buckets /\ i + 1 + 1 = i + 2
    BY DEF Buckets
  <2> QED BY <1>1, <1>2, <2>1, Borders
<1>4. Min({e, n}) \in {e, n} /\ Min({e, n}) <= e /\ Min({e, n}) <= n
  <2>1. IsFiniteSet({e, n})
    <3>1. IsFiniteSet({e})
      BY FS_Singleton
    <3>2. IsFiniteSet({e} \cup {n})
      BY <3>1, FS_AddElement
    <3>3. {e, n} = {e} \cup {n}
      OBVIOUS
    <3> QED BY <3>2, <3>3
  <2>2. {e, n} \subseteq Int /\ {e, n} # {}
    OBVIOUS
  <2>3. \A y \in {e, n} : Min({e, n}) <= y
    BY <2>1, <2>2, ExtremaExist
  <2>4. Min({e, n}) \in {e, n}
    BY <2>1, <2>2, ExtremaExist
  <2> QED BY <2>3, <2>4
<1>5. PICK m \in Nat : m = Min({e, n}) /\ m \in {e, n} /\ m <= e /\ m <= n
  BY <1>4
<1>6. NextBucket(i, n) = b .. m - 1
  BY <1>1, <1>2, <1>5 DEF NextBucket
<1>7. b <= m - 1
  BY <1>3, <1>5
<1>8. IsFiniteSet(b .. m - 1)
  BY FS_Interval
<1>9. b \in b .. m - 1 /\ b .. m - 1 \subseteq b .. e - 1 /\ b .. m - 1 \subseteq 0 .. n - 1
  BY <1>5, <1>7
<1> QED BY <1>1, <1>2, <1>6, <1>8, <1>9

\* The point selected comes from the next bucket.
LEMMA LargestInBucket ==
  ASSUME NEW data \in Seq(DataPoints), Len(data) > Threshold,
         NEW a \in 0 .. Len(data) - 1, NEW i \in 0 .. Buckets - 1
  PROVE  Largest(data, a, i) \in NextBucket(i, Len(data))
<1>1. PICK n \in Nat : n = Len(data) /\ n > Threshold
  OBVIOUS
<1>2. PICK bucket : bucket = NextBucket(i, n)
  OBVIOUS
<1>3. bucket \subseteq 0 .. n - 1 /\ bucket # {} /\ IsFiniteSet(bucket)
  BY <1>1, <1>2, BucketFilled
<1>4. PICK averaged : averaged = SubSeq(data, BucketStart(i, n) + 1, BucketStart(i + 1, n))
  OBVIOUS
<1>5. averaged \in Seq(DataPoints) /\ Len(averaged) \in Nat
  <2>1. BucketStart(i, n) \in Nat /\ BucketStart(i + 1, n) \in Nat
    BY <1>1, Borders
  <2>2. i + 1 \in Nat /\ i + 1 <= Buckets
    BY DEF Buckets
  <2>3. BucketStart(i + 1, n) <= n - 1
    BY <1>1, <2>2, Borders
  <2>4. BucketStart(i, n) + 1 \in 1 .. n + 1 /\ BucketStart(i + 1, n) \in 0 .. n
    <3>1. BucketStart(i, n) < BucketStart(i + 1, n)
      BY <1>1, Borders
    <3> QED BY <2>1, <2>3, <3>1
  <2>5. averaged \in Seq(DataPoints)
    BY <1>1, <1>4, <2>1, <2>4, SubSeqProperties
  <2> QED BY <2>5
<1>6. PICK sum : sum = SumOf(averaged)
  OBVIOUS
<1>7. sum.x \in Int /\ sum.y \in Int
  BY <1>5, <1>6, SumOfType
<1>8. PICK area : area = [j \in bucket |-> Area(data[a + 1], data[j + 1], sum, Len(averaged))]
  OBVIOUS
<1>9. \A j \in bucket : area[j] \in Int
  <2> SUFFICES ASSUME NEW j \in bucket PROVE area[j] \in Int
    OBVIOUS
  <2>1. a + 1 \in 1 .. n /\ j + 1 \in 1 .. n
    BY <1>1, <1>3
  <2>2. data[a + 1] \in DataPoints /\ data[j + 1] \in DataPoints
    BY <1>1, <2>1
  <2>3. Area(data[a + 1], data[j + 1], sum, Len(averaged)) \in Int
    BY <1>5, <1>7, <2>2, AreaType
  <2> QED BY <1>8, <2>3
<1>10. PICK areas : areas = {area[j] : j \in bucket}
  OBVIOUS
<1>11. areas \subseteq Int /\ areas # {} /\ IsFiniteSet(areas)
  <2>1. area \in Surjection(bucket, areas)
    BY <1>8, <1>10 DEF Surjection
  <2> QED BY <1>3, <1>9, <1>10, <2>1, FS_Surjection
<1>12. PICK most \in areas : most = Max(areas)
  BY <1>11, ExtremaExist
<1>13. PICK best : best = {j \in bucket : area[j] = most}
  OBVIOUS
<1>14. best \subseteq Int /\ best # {} /\ IsFiniteSet(best)
  <2>1. best \subseteq Int /\ best # {}
    <3>1. best \subseteq bucket /\ bucket \subseteq Int
      BY <1>3, <1>13
    <3>2. PICK j \in bucket : area[j] = most
      BY <1>10, <1>12
    <3>3. j \in best
      BY <1>13, <3>2
    <3> QED BY <3>1, <3>3
  <2>2. IsFiniteSet(best)
    BY <1>3, <1>13, FS_Subset
  <2> QED BY <2>1, <2>2
<1>15. Min(best) \in bucket
  BY <1>13, <1>14, ExtremaExist
<1>16. Largest(data, a, i) = Min(best)
  <2>1. areas = {Area(data[a + 1], data[j + 1], sum, Len(averaged)) : j \in bucket}
    BY <1>8, <1>10
  <2>2. best = {j \in bucket : Area(data[a + 1], data[j + 1], sum, Len(averaged)) = most}
    BY <1>8, <1>13
  <2>3. best = {j \in bucket : Area(data[a + 1], data[j + 1], sum, Len(averaged))
                  = Max({Area(data[a + 1], data[k + 1], sum, Len(averaged)) : k \in bucket})}
    BY <1>12, <2>1, <2>2
  <2>4. Largest(data, a, i) = Min({j \in bucket : Area(data[a + 1], data[j + 1], sum, Len(averaged))
                  = Max({Area(data[a + 1], data[k + 1], sum, Len(averaged)) : k \in bucket})})
    BY <1>1, <1>2, <1>4, <1>6 DEF Largest
  <2> QED BY <2>3, <2>4
<1> QED BY <1>1, <1>2, <1>15, <1>16

\* The selection of points is defined by its recursion: each comes from its bucket.
LEMMA SelectedPoints ==
  ASSUME NEW data \in Seq(DataPoints), Len(data) > Threshold
  PROVE  /\ Selected(data) \in [0 .. Buckets -> 0 .. Len(data) - 1]
         /\ Selected(data)[0] = 0
         /\ \A i \in 0 .. Buckets - 1 : Selected(data)[i + 1] \in NextBucket(i, Len(data))
<1> DEFINE Next(i, at) == IF i = 0 THEN 0 ELSE Largest(data, at[i - 1], i - 1)
<1>1. PICK n \in Nat : n = Len(data) /\ n > Threshold
  OBVIOUS
<1>2. PICK S, V : S = 0 .. Buckets /\ V = 0 .. n - 1
  OBVIOUS
<1>3. ASSUME NEW i \in S, i # 0, NEW a \in V
      PROVE  Largest(data, a, i - 1) \in NextBucket(i - 1, n) /\ Largest(data, a, i - 1) \in V
  <2>1. i - 1 \in 0 .. Buckets - 1
    BY <1>2, <1>3 DEF Buckets
  <2>2. Largest(data, a, i - 1) \in NextBucket(i - 1, n)
    BY <1>1, <1>2, <2>1, LargestInBucket
  <2> QED BY <1>1, <1>2, <2>1, <2>2, BucketFilled
<1>4. \A i \in S : i # 0 => i - 1 \in S /\ i - 1 < i
  BY <1>2 DEF Buckets
<1>5. PICK measure : measure = [i \in S |-> i]
  OBVIOUS
<1>6. PICK step : step = [c \in S \X [S -> V] |-> Next(c[1], c[2])]
  OBVIOUS
<1>7. \A i \in S, g \in [S -> V] : step[<<i, g>>] = Next(i, g)
  BY <1>6
<1>8. \A i \in S, g \in [S -> V] : Next(i, g) \in V
  <2> SUFFICES ASSUME NEW i \in S, NEW g \in [S -> V] PROVE Next(i, g) \in V
    OBVIOUS
  <2>1. CASE i = 0
    BY <1>1, <1>2, <2>1
  <2>2. CASE i # 0
    <3>1. g[i - 1] \in V
      BY <1>4, <2>2
    <3> QED BY <1>3, <2>2, <3>1
  <2> QED BY <2>1, <2>2
<1>9. Recursive(S, V, measure, step)
  <2>1. measure \in [S -> Nat]
    BY <1>2, <1>5
  <2>2. step \in [S \X [S -> V] -> V]
    <3> HIDE DEF Next
    <3> QED BY <1>6, <1>8
  <2>3. ASSUME NEW i \in S, NEW g \in [S -> V], NEW h \in [S -> V],
               \A j \in S : measure[j] < measure[i] => g[j] = h[j]
        PROVE  step[<<i, g>>] = step[<<i, h>>]
    <3>1. CASE i = 0
      BY <1>7, <3>1
    <3>2. CASE i # 0
      <4>1. g[i - 1] = h[i - 1]
        BY <1>4, <1>5, <2>3, <3>2
      <4> QED BY <1>7, <3>2, <4>1
    <3> QED BY <3>1, <3>2
  <2> QED BY <2>1, <2>2, <2>3 DEF Recursive
<1>10. PICK f \in [S -> V] : \A i \in S : f[i] = step[<<i, f>>]
  <2>1. PICK base \in V : TRUE
    BY <1>1, <1>2
  <2>2. \E f \in [S -> V] : \A i \in S : f[i] = step[<<i, f>>]
    <3> HIDE <1>1, <1>2
    <3> QED BY <1>9, <2>1, RecursionHasSolution
  <2> QED BY <2>2
<1>11. f = [i \in 0 .. Threshold - 2 |-> Next(i, f)]
  <2>1. \A i \in S : f[i] = Next(i, f)
    BY <1>7, <1>10
  <2>2. S = 0 .. Threshold - 2
    BY <1>2 DEF Buckets
  <2> HIDE DEF Next
  <2> QED BY <1>10, <2>1, <2>2
<1>12. Selected(data) = CHOOSE g : g = [i \in 0 .. Threshold - 2 |-> Next(i, g)]
  BY DEF Selected
<1>13. PICK at : at = Selected(data) /\ at = [i \in 0 .. Threshold - 2 |-> Next(i, at)]
  <2> DEFINE Sol(g) == g = [i \in 0 .. Threshold - 2 |-> Next(i, g)]
  <2>1. Sol(f)
    BY <1>11
  <2>2. Selected(data) = CHOOSE g : Sol(g)
    BY <1>12
  <2>3. Sol(CHOOSE g : Sol(g))
    <3> HIDE DEF Sol
    <3> QED BY <2>1
  <2> HIDE DEF Sol
  <2>4. Sol(Selected(data))
    BY <2>2, <2>3
  <2> QED BY <2>4 DEF Sol
<1>14. DOMAIN at = S /\ \A i \in S : at[i] = Next(i, at)
  <2>1. S = 0 .. Threshold - 2
    BY <1>2 DEF Buckets
  <2> HIDE DEF Next
  <2> QED BY <1>13, <2>1
<1>15. \A i \in S : at[i] \in V
  <2> DEFINE Bad == {i \in S : at[i] \notin V}
  <2> SUFFICES ASSUME Bad # {} PROVE FALSE
    OBVIOUS
  <2>1. PICK i \in Bad : \A j \in Bad : i <= j
    <3>1. Bad \subseteq Nat
      BY <1>2
    <3> HIDE DEF Bad
    <3> QED BY <3>1, LeastNatural
  <2>2. i # 0
    <3> SUFFICES ASSUME i = 0 PROVE FALSE
      OBVIOUS
    <3>1. at[i] = 0
      BY <1>14, <2>1
    <3> QED BY <1>1, <1>2, <2>1, <3>1
  <2>3. at[i - 1] \in V
    <3>1. i - 1 \in S /\ i - 1 < i /\ i \in Nat
      BY <1>2, <1>4, <2>1, <2>2
    <3> QED BY <2>1, <3>1
  <2>4. at[i] = Largest(data, at[i - 1], i - 1)
    BY <1>14, <2>1, <2>2
  <2> QED BY <1>3, <2>1, <2>2, <2>3, <2>4
<1>16. at[0] = 0
  <2>1. 0 \in S
    BY <1>2 DEF Buckets
  <2> QED BY <1>14, <2>1
<1>17. ASSUME NEW i \in 0 .. Buckets - 1 PROVE at[i + 1] \in NextBucket(i, n)
  <2>1. i + 1 \in S /\ i + 1 # 0 /\ i + 1 - 1 = i /\ i \in S
    BY <1>2 DEF Buckets
  <2>2. at[i + 1] = Largest(data, at[i], i)
    BY <1>14, <2>1
  <2>3. Largest(data, at[i], i + 1 - 1) \in NextBucket(i + 1 - 1, n)
    BY <1>3, <1>15, <2>1
  <2> QED BY <2>1, <2>2, <2>3
<1>18. at \in [S -> V]
  BY <1>13, <1>14, <1>15
<1> QED BY <1>1, <1>2, <1>13, <1>16, <1>17, <1>18

-----------------------------------------------------------------------------
\* The points of a series whose k-th value is values[k].
Plotted(values) == [k \in DOMAIN values |-> [x |-> k, y |-> values[k]]]

\* Points of the series from the first to its last, without long gaps.
Spans(values, points) ==
  /\ points \in Seq(DataPoints) /\ Len(points) = Min({Len(values), Threshold})
  /\ \A k \in DOMAIN points : points[k].x \in DOMAIN values /\ points[k].y = values[points[k].x]
  /\ points[1].x = 1 /\ points[Len(points)].x = Len(values)
  /\ \A k \in 1 .. Len(points) - 1 :
       points[k + 1].x - points[k].x \in
         IF Len(values) <= Threshold THEN {1}
         ELSE 0 .. 2 * (1 + (Len(values) - 2) \div (Threshold - 2))

\* The lesser of two numbers.
LEMMA MinOfTwo ==
  ASSUME NEW a \in Int, NEW b \in Int
  PROVE  Min({a, b}) = IF a <= b THEN a ELSE b
<1>1. IsFiniteSet({a, b})
  <2>1. IsFiniteSet({a})
    BY FS_Singleton
  <2>2. IsFiniteSet({a} \cup {b})
    BY <2>1, FS_AddElement
  <2>3. {a, b} = {a} \cup {b}
    OBVIOUS
  <2> QED BY <2>2, <2>3
<1>2. {a, b} \subseteq Int /\ {a, b} # {}
  OBVIOUS
<1>3. Min({a, b}) \in {a, b} /\ \A y \in {a, b} : Min({a, b}) <= y
  BY <1>1, <1>2, ExtremaExist
<1> QED BY <1>3

\* The points chosen from a series span it.
LEMMA DownsampledSpans ==
  ASSUME NEW values \in Seq(Int), values # <<>>
  PROVE  Spans(values, LargestTriangleThreeBuckets(Plotted(values)))
<1>1. PICK n \in Nat : n = Len(values) /\ n > 0 /\ DOMAIN values = 1 .. n
  OBVIOUS
<1>2. PICK data \in Seq(DataPoints) : data = Plotted(values)
  <2>1. \A k \in 1 .. n : [x |-> k, y |-> values[k]] \in DataPoints
    BY <1>1 DEF DataPoints
  <2>2. Plotted(values) = [k \in 1 .. n |-> [x |-> k, y |-> values[k]]]
    BY <1>1 DEF Plotted
  <2>3. Plotted(values) \in Seq(DataPoints)
    BY <2>1, <2>2, IsASeq
  <2> QED BY <2>3
<1>3. Len(data) = n /\ DOMAIN data = 1 .. n
  BY <1>1, <1>2 DEF Plotted
<1>4. \A k \in 1 .. n : data[k].x = k /\ data[k].y = values[k]
  BY <1>1, <1>2 DEF Plotted
<1>5. PICK points : points = LargestTriangleThreeBuckets(data)
  OBVIOUS
<1>6. CASE n <= Threshold
  <2>1. points = data
    BY <1>3, <1>5, <1>6 DEF LargestTriangleThreeBuckets
  <2>2. Min({n, Threshold}) = n
    BY <1>6, MinOfTwo
  <2>3. \A k \in 1 .. n - 1 : data[k + 1].x - data[k].x \in {1}
    BY <1>4
  <2>4. data[1].x = 1 /\ data[n].x = n
    BY <1>1, <1>4
  <2>5. Spans(values, data)
    BY <1>1, <1>3, <1>4, <1>6, <2>2, <2>3, <2>4 DEF Spans
  <2> QED BY <1>2, <1>5, <2>1, <2>5
<1>7. CASE n > Threshold
  <2>1. PICK at \in [0 .. Buckets -> 0 .. n - 1] :
          /\ at = Selected(data) /\ at[0] = 0
          /\ \A i \in 0 .. Buckets - 1 : at[i + 1] \in NextBucket(i, n)
    <3>1. Len(data) > Threshold
      BY <1>3, <1>7
    <3> QED BY <1>3, <3>1, SelectedPoints
  <2>2. PICK head : head = [k \in 1 .. Threshold - 1 |-> data[at[k - 1] + 1]]
    OBVIOUS
  <2>3. \A k \in 1 .. Threshold - 1 : k - 1 \in 0 .. Buckets /\ at[k - 1] + 1 \in 1 .. n
    <3> SUFFICES ASSUME NEW k \in 1 .. Threshold - 1
                 PROVE  k - 1 \in 0 .. Buckets /\ at[k - 1] + 1 \in 1 .. n
      OBVIOUS
    <3>1. k - 1 \in 0 .. Buckets
      BY DEF Buckets
    <3>2. at[k - 1] \in 0 .. n - 1
      BY <2>1, <3>1
    <3> QED BY <3>1, <3>2
  <2>4. head \in Seq(DataPoints) /\ Len(head) = Threshold - 1
    <3>1. \A k \in 1 .. Threshold - 1 : data[at[k - 1] + 1] \in DataPoints
      BY <1>3, <2>3
    <3>2. PICK m \in Nat : m = Threshold - 1
      OBVIOUS
    <3>3. head \in [1 .. m -> DataPoints]
      BY <2>2, <3>1, <3>2
    <3>4. head \in Seq(DataPoints)
      BY <3>3
    <3>5. Len(head) = m
      BY <3>3
    <3> QED BY <3>2, <3>4, <3>5
  <2>5. points = head \o <<data[n]>>
    <3>1. ~(Threshold >= Len(data))
      BY <1>3, <1>7
    <3> QED BY <1>3, <1>5, <2>1, <2>2, <3>1 DEF LargestTriangleThreeBuckets, Last
  <2>6. data[n] \in DataPoints
    BY <1>1, <1>3
  <2>7. /\ points \in Seq(DataPoints) /\ Len(points) = Threshold
        /\ \A k \in 1 .. Threshold - 1 : points[k] = data[at[k - 1] + 1]
        /\ points[Threshold] = data[n]
    <3>1. <<data[n]>> \in Seq(DataPoints) /\ Len(<<data[n]>>) = 1 /\ <<data[n]>>[1] = data[n]
      BY <2>6
    <3>2. PICK last \in Seq(DataPoints) : last = <<data[n]>> /\ Len(last) = 1 /\ last[1] = data[n]
      BY <3>1
    <3>3. points = head \o last
      BY <2>5, <3>2
    <3>4. points \in Seq(DataPoints) /\ Len(points) = Threshold
      BY <2>4, <3>2, <3>3, ConcatProperties
    <3>5. \A k \in 1 .. Threshold - 1 : points[k] = head[k]
      BY <2>4, <3>2, <3>3, ConcatProperties
    <3>6. points[Threshold] = last[1]
      BY <2>4, <3>2, <3>3, ConcatProperties
    <3> QED BY <2>2, <3>2, <3>4, <3>5, <3>6
  <2>8. \A k \in 1 .. Threshold - 1 : points[k].x = at[k - 1] + 1 /\ points[k].y = values[at[k - 1] + 1]
    <3> SUFFICES ASSUME NEW k \in 1 .. Threshold - 1
                 PROVE  points[k].x = at[k - 1] + 1 /\ points[k].y = values[at[k - 1] + 1]
      OBVIOUS
    <3>1. PICK j \in 1 .. n : j = at[k - 1] + 1
      BY <2>3
    <3>2. points[k] = data[j]
      BY <2>7, <3>1
    <3> QED BY <1>4, <3>1, <3>2
  <2>9. points[Threshold].x = n /\ points[Threshold].y = values[n]
    BY <1>1, <1>4, <2>7
  <2>10. \A k \in 1 .. Threshold : points[k].x \in 1 .. n /\ points[k].y = values[points[k].x]
    <3> SUFFICES ASSUME NEW k \in 1 .. Threshold
                 PROVE  points[k].x \in 1 .. n /\ points[k].y = values[points[k].x]
      OBVIOUS
    <3>1. CASE k = Threshold
      BY <1>1, <2>9, <3>1
    <3>2. CASE k # Threshold
      <4>1. k \in 1 .. Threshold - 1
        BY <3>2
      <4> QED BY <2>3, <2>8, <4>1
    <3> QED BY <3>1, <3>2
  <2>11. points[1].x = 1
    BY <2>1, <2>8
  <2>12. ASSUME NEW i \in 0 .. Buckets - 1
         PROVE  at[i + 1] \in BucketStart(i + 1, n) .. BucketStart(i + 2, n) - 1
    BY <1>7, <2>1, BucketFilled
  <2>13. \A i \in Nat : BucketStart(i, n) \in Nat
    BY <1>7, Borders
  <2>14. at[Buckets] = n - 1
    <3>1. Buckets - 1 \in 0 .. Buckets - 1 /\ Buckets - 1 + 1 = Buckets /\ Buckets \in Nat /\ Buckets - 1 + 2 \in Nat
      BY DEF Buckets
    <3>2. BucketStart(Buckets, n) = n - 1
      BY <1>7, <3>1, Borders
    <3>3. at[Buckets] >= BucketStart(Buckets, n)
      <4>1. at[Buckets - 1 + 1] \in BucketStart(Buckets - 1 + 1, n) .. BucketStart(Buckets - 1 + 2, n) - 1
        BY <2>12, <3>1
      <4>2. at[Buckets] \in BucketStart(Buckets, n) .. BucketStart(Buckets - 1 + 2, n) - 1
        BY <3>1, <4>1
      <4> QED BY <2>13, <3>1, <4>2
    <3>4. at[Buckets] \in 0 .. n - 1
      BY <2>1, <3>1
    <3> QED BY <3>2, <3>3, <3>4
  <2>15. PICK gap \in Nat : gap = 2 * (1 + (n - 2) \div (Threshold - 2))
    <3>1. n - 2 \in Nat /\ Threshold - 2 \in Nat \ {0}
      BY <1>7
    <3>2. (n - 2) \div (Threshold - 2) \in Nat
      BY <3>1, Quotient
    <3> QED BY <3>2
  <2>16. \A i \in Nat : BucketStart(i + 2, n) - BucketStart(i, n) <= gap
    BY <1>7, <2>15, Borders DEF Buckets
  <2>17. ASSUME NEW k \in 1 .. Threshold - 1
         PROVE  points[k + 1].x - points[k].x \in 0 .. gap
    <3>1. CASE k = Threshold - 1
      <4>1. points[k].x = at[k - 1] + 1 /\ points[k + 1].x = n
        BY <2>8, <2>9, <3>1
      <4>2. k - 1 = Buckets
        BY <3>1 DEF Buckets
      <4>3. points[k].x = n /\ points[k + 1].x - points[k].x = 0
        BY <2>14, <4>1, <4>2
      <4> QED BY <4>3
    <3>2. CASE k # Threshold - 1 /\ k = 1
      <4>1. points[1].x = 1 /\ points[2].x = at[1] + 1
        BY <2>8, <2>11, <3>2
      <4>2. 0 \in 0 .. Buckets - 1 /\ 1 \in 0 .. Buckets
        BY <3>2 DEF Buckets
      <4>3. at[1] \in 0 .. n - 1 /\ at[1] <= BucketStart(2, n) - 1
        <5>1. at[0 + 1] \in BucketStart(0 + 1, n) .. BucketStart(0 + 2, n) - 1
          BY <2>12, <4>2
        <5>2. 0 + 1 = 1 /\ 0 + 2 = 2
          OBVIOUS
        <5>3. at[1] \in BucketStart(1, n) .. BucketStart(2, n) - 1
          BY <5>1, <5>2
        <5>4. BucketStart(1, n) \in Nat
          BY <2>13
        <5>5. BucketStart(2, n) \in Nat
          BY <2>13
        <5> QED BY <2>1, <4>2, <5>3, <5>4, <5>5
      <4>4. BucketStart(0, n) = 1 /\ BucketStart(2, n) - BucketStart(0, n) <= gap
        BY <1>7, <2>16, Borders
      <4>5. BucketStart(2, n) \in Nat
        BY <2>13
      <4> QED BY <3>2, <4>1, <4>3, <4>4, <4>5
    <3>3. CASE k # Threshold - 1 /\ k # 1
      <4>1. PICK i \in Nat : i = k - 2
        BY <3>3
      <4>2. i \in 0 .. Buckets - 1 /\ i + 1 \in 0 .. Buckets - 1 /\ i + 1 \in 0 .. Buckets /\ i + 2 \in 0 .. Buckets
        BY <3>3, <4>1 DEF Buckets
      <4>3. points[k].x = at[i + 1] + 1 /\ points[k + 1].x = at[i + 2] + 1
        <5>1. k \in 1 .. Threshold - 1 /\ k + 1 \in 1 .. Threshold - 1 /\ k - 1 = i + 1 /\ k + 1 - 1 = i + 2
          BY <3>3, <4>1
        <5> QED BY <2>8, <5>1
      <4>41. PICK b1 \in Nat : b1 = BucketStart(i + 1, n)
        BY <2>13
      <4>42. PICK b2 \in Nat : b2 = BucketStart(i + 2, n)
        BY <2>13
      <4>43. PICK b3 \in Nat : b3 = BucketStart(i + 3, n)
        BY <2>13
      <4>4. b1 = BucketStart(i + 1, n) /\ b2 = BucketStart(i + 2, n) /\ b3 = BucketStart(i + 3, n)
        BY <4>41, <4>42, <4>43
      <4>5. at[i + 1] \in b1 .. b2 - 1
        BY <2>12, <4>2, <4>4
      <4>6. at[i + 2] \in b2 .. b3 - 1
        <5>1. i + 1 + 1 = i + 2 /\ i + 1 + 2 = i + 3
          OBVIOUS
        <5> QED BY <2>12, <4>2, <4>4, <5>1
      <4>7. b3 - b1 <= gap
        <5>1. i + 1 \in Nat /\ i + 1 + 2 = i + 3
          OBVIOUS
        <5> QED BY <2>16, <4>4, <5>1
      <4>8. PICK u \in b1 .. b2 - 1, v \in b2 .. b3 - 1 : u = at[i + 1] /\ v = at[i + 2]
        BY <4>5, <4>6
      <4>9. points[k + 1].x - points[k].x = v - u
        BY <4>3, <4>8
      <4> QED BY <4>7, <4>9
    <3> QED BY <3>1, <3>2, <3>3
  <2>18. Min({n, Threshold}) = Threshold
    BY <1>7, MinOfTwo
  <2>19. DOMAIN points = 1 .. Threshold
    BY <2>7
  <2>20. \A k \in 1 .. Threshold - 1 :
           points[k + 1].x - points[k].x \in
             IF n <= Threshold THEN {1} ELSE 0 .. 2 * (1 + (n - 2) \div (Threshold - 2))
    BY <1>7, <2>15, <2>17
  <2>21. Spans(values, points)
    <3> HIDE <1>7
    <3> QED BY <1>1, <2>7, <2>9, <2>10, <2>11, <2>18, <2>19, <2>20 DEF Spans
  <2> QED BY <1>2, <1>5, <2>21
<1> QED BY <1>1, <1>6, <1>7

-----------------------------------------------------------------------------
\* What a chart has for the k-th of a series of energies; up to the m-th.
Meant(series, chart, k) ==
  IF chart = "energy" THEN series[k]
  ELSE IF series[1] = 0 THEN 0 ELSE Percent(series[k] - series[1], series[1])

\* The first m values a chart has.
Values(series, chart, m) == [k \in 1 .. m |-> Meant(series, chart, k)]

\* The value lies on the axis.
InRange(value, range) == range.min <= value /\ value <= range.max

\* The data of a live window are the series so far, and its axes cover them.
LiveData ==
  window = "live" =>
    /\ maxTime = Len(received)
    /\ initialValue = IF received = <<>> THEN NaN ELSE received[1]
    /\ \A chart \in Charts :
         /\ fullData[chart] = Plotted(Values(received, chart, Len(received)))
         /\ received = <<>> => extremes[chart] = NaN
         /\ received # <<>> =>
              /\ extremes[chart] \in [min : Int, max : Int]
              /\ \A k \in 1 .. Len(received) : InRange(Meant(received, chart, k), extremes[chart])

\* What a live chart shows spans the series up to some snapshot.
SpansPrefix(series, chart, drawing) ==
  \E m \in 1 .. Len(series) :
    /\ Spans(Values(series, chart, m), drawing.points) /\ drawing.time \in Int /\ m <= drawing.time
    /\ drawing.range \in [min : Int, max : Int]
    /\ \A k \in 1 .. m : InRange(Meant(series, chart, k), drawing.range)

\* What a live window's charts show, once they show anything.
LiveDrawings ==
  window = "live" =>
    \A chart \in Charts : shown[chart].points = <<>> \/ SpansPrefix(received, chart, shown[chart])

\* A replay window keeps no data; once filled, its charts are not refreshed.
ShowsWhole(series, chart, drawing) ==
  /\ drawing.points = Plotted(Values(series, chart, Len(series)))
  /\ series # <<>> => drawing.range \in [min : Int, max : Int]
  /\ \A k \in 1 .. Len(series) :
       k <= drawing.time /\ InRange(Meant(series, chart, k), drawing.range)

\* What a replay window's charts show.
ReplayDrawings ==
  window = "replay" =>
    /\ received # <<>> => ~automatic
    /\ \A chart \in Charts : fullData[chart] = <<>> /\ ShowsWhole(received, chart, shown[chart])

\* The inductive invariant of DiagnosticsCharts.
ChartsInv ==
  /\ window \in {"live", "replay"} /\ received \in Seq(Energies)
  /\ LiveData /\ LiveDrawings /\ ReplayDrawings

\* A percentage is an integer, and no change is 0 percent.
LEMMA PercentType ==
  ASSUME NEW part \in Int, NEW whole \in Int, whole # 0
  PROVE  Percent(part, whole) \in Int
<1>1. CASE whole > 0
  <2>1. part * 100 \in Int
    OBVIOUS
  <2> QED BY <1>1, <2>1 DEF Percent
<1>2. CASE whole < 0
  <2>1. (-part) * 100 \in Int /\ -whole > 0 /\ -whole \in Int
    BY <1>2
  <2>2. ((-part) * 100) \div (-whole) \in Int
    BY <2>1
  <2> QED BY <1>2, <2>2 DEF Percent
<1> QED BY <1>1, <1>2

LEMMA PercentOfNothing ==
  ASSUME NEW whole \in Int, whole # 0
  PROVE  Percent(0, whole) = 0
<1>1. CASE whole > 0
  <2>1. (0 * 100) \div whole = 0
    BY <1>1
  <2> QED BY <1>1, <2>1 DEF Percent
<1>2. CASE whole < 0
  <2>1. PICK d \in Int : d = -whole /\ d > 0
    BY <1>2
  <2>2. ((-0) * 100) \div d = 0
    BY <2>1
  <2> QED BY <1>2, <2>1, <2>2 DEF Percent
<1> QED BY <1>1, <1>2

\* Values are integers, whatever the first energy is.
LEMMA MeantType ==
  ASSUME NEW series \in Seq(Int), NEW chart, NEW k \in 1 .. Len(series)
  PROVE  Meant(series, chart, k) \in Int
<1>1. series[k] \in Int /\ series[1] \in Int
  OBVIOUS
<1>2. ASSUME series[1] # 0 PROVE Percent(series[k] - series[1], series[1]) \in Int
  <2>1. PICK part \in Int, whole \in Int : part = series[k] - series[1] /\ whole = series[1]
    BY <1>1
  <2>2. Percent(part, whole) \in Int
    BY <1>2, <2>1, PercentType
  <2> QED BY <2>1, <2>2
<1> QED BY <1>1, <1>2 DEF Meant

LEMMA ValuesType ==
  ASSUME NEW series \in Seq(Int), NEW chart, NEW m \in 0 .. Len(series)
  PROVE  Values(series, chart, m) \in Seq(Int) /\ Len(Values(series, chart, m)) = m
<1>1. \A k \in 1 .. m : Meant(series, chart, k) \in Int
  BY MeantType
<1> QED BY <1>1 DEF Values

\* What comes later changes no earlier value: a value is relative to the first.
LEMMA MeantAppend ==
  ASSUME NEW series \in Seq(Int), NEW value \in Int, NEW chart \in Charts
  PROVE  /\ \A k \in 1 .. Len(series) :
              Meant(Append(series, value), chart, k) = Meant(series, chart, k)
         /\ Meant(Append(series, value), chart, Len(series) + 1)
              = Extract(chart, IF series = <<>> THEN NaN ELSE series[1], value)
<1>1. PICK longer \in Seq(Int) : longer = Append(series, value)
  BY AppendProperties
<1>2. PICK n \in Nat : n = Len(series)
  OBVIOUS
<1>3. (\A k \in 1 .. n : longer[k] = series[k]) /\ longer[n + 1] = value
  BY <1>1, <1>2, AppendProperties
<1>4. ASSUME NEW k \in 1 .. n PROVE Meant(longer, chart, k) = Meant(series, chart, k)
  <2>1. longer[k] = series[k] /\ longer[1] = series[1]
    <3>1. 1 \in 1 .. n
      OBVIOUS
    <3> QED BY <1>3, <3>1
  <2> QED BY <2>1 DEF Meant
<1>5. Meant(longer, chart, n + 1) = Extract(chart, IF series = <<>> THEN NaN ELSE series[1], value)
  <2>1. CASE chart = "energy"
    BY <1>3, <2>1 DEF Meant, Extract
  <2>2. CASE chart # "energy" /\ series = <<>>
    <3>1. longer[1] = value /\ n = 0
      BY <1>2, <1>3, <2>2
    <3>2. value # 0 => Percent(value - value, value) = 0
      <4>1. value - value = 0
        OBVIOUS
      <4> QED BY <4>1, PercentOfNothing
    <3> QED BY <1>3, <2>2, <3>1, <3>2 DEF Meant, Extract, Change
  <2>3. CASE chart # "energy" /\ series # <<>>
    <3>1. longer[1] = series[1] /\ series[1] \in Int
      BY <1>2, <1>3, <2>3
    <3>2. series[1] # NaN
      BY <3>1
    <3> QED BY <1>3, <2>3, <3>1, <3>2 DEF Meant, Extract, Change
  <2> QED BY <2>1, <2>2, <2>3
<1> QED BY <1>1, <1>2, <1>4, <1>5

LEMMA ValuesAppend ==
  ASSUME NEW series \in Seq(Int), NEW value \in Int, NEW chart \in Charts, NEW m \in 0 .. Len(series)
  PROVE  Values(Append(series, value), chart, m) = Values(series, chart, m)
<1>1. \A k \in 1 .. m : Meant(Append(series, value), chart, k) = Meant(series, chart, k)
  BY MeantAppend
<1> QED BY <1>1 DEF Values

LEMMA PlottedAppend ==
  ASSUME NEW series \in Seq(Int), NEW value \in Int, NEW chart \in Charts
  PROVE  Plotted(Values(Append(series, value), chart, Len(series) + 1))
           = Append(Plotted(Values(series, chart, Len(series))),
                    [x |-> Len(series) + 1,
                     y |-> Extract(chart, IF series = <<>> THEN NaN ELSE series[1], value)])
<1>1. PICK n \in Nat : n = Len(series)
  OBVIOUS
<1>2. PICK old : old = Plotted(Values(series, chart, n))
  OBVIOUS
<1>3. PICK point : point = [x |-> n + 1, y |-> Extract(chart, IF series = <<>> THEN NaN ELSE series[1], value)]
  OBVIOUS
<1>4. PICK new : new = Plotted(Values(Append(series, value), chart, n + 1))
  OBVIOUS
<1>5. old = [k \in 1 .. n |-> [x |-> k, y |-> Meant(series, chart, k)]]
  BY <1>2 DEF Plotted, Values
<1>6. new = [k \in 1 .. n + 1 |-> [x |-> k, y |-> Meant(Append(series, value), chart, k)]]
  BY <1>4 DEF Plotted, Values
<1>7. \A k \in 1 .. n : new[k] = old[k]
  <2> SUFFICES ASSUME NEW k \in 1 .. n PROVE new[k] = old[k]
    OBVIOUS
  <2>1. Meant(Append(series, value), chart, k) = Meant(series, chart, k)
    BY <1>1, MeantAppend
  <2>2. k \in 1 .. n + 1
    OBVIOUS
  <2> QED BY <1>5, <1>6, <2>1, <2>2
<1>8. new[n + 1] = point
  <2>1. n + 1 \in 1 .. n + 1
    OBVIOUS
  <2>2. Meant(Append(series, value), chart, n + 1) = Extract(chart, IF series = <<>> THEN NaN ELSE series[1], value)
    BY <1>1, MeantAppend
  <2> QED BY <1>3, <1>6, <2>1, <2>2
<1>9. \E T : old \in Seq(T) /\ point \in T
  <2>1. PICK T : T = {old[k] : k \in 1 .. n} \cup {point}
    OBVIOUS
  <2>2. DOMAIN old = 1 .. n /\ old = [k \in 1 .. n |-> old[k]]
    BY <1>5
  <2>3. old \in [1 .. n -> T]
    BY <2>1, <2>2
  <2>4. old \in Seq(T)
    BY <2>3
  <2> QED BY <2>1, <2>4
<1>10. Len(old) = n
  BY <1>5
<1>11. new = Append(old, point)
  <2>1. PICK T : old \in Seq(T) /\ point \in T
    BY <1>9
  <2>2. Append(old, point) \in [1 .. n + 1 -> T] /\ (\A k \in 1 .. n : Append(old, point)[k] = old[k])
        /\ Append(old, point)[n + 1] = point
    <3>1. /\ Append(old, point) \in Seq(T) /\ Len(Append(old, point)) = n + 1
          /\ (\A k \in 1 .. n : Append(old, point)[k] = old[k]) /\ Append(old, point)[n + 1] = point
      BY <1>10, <2>1, AppendProperties
    <3> QED BY <3>1, LenProperties
  <2>3. DOMAIN new = 1 .. n + 1 /\ new = [k \in 1 .. n + 1 |-> new[k]]
    BY <1>6
  <2>4. \A k \in 1 .. n + 1 : new[k] = Append(old, point)[k]
    <3> SUFFICES ASSUME NEW k \in 1 .. n + 1 PROVE new[k] = Append(old, point)[k]
      OBVIOUS
    <3>1. CASE k = n + 1
      BY <1>8, <2>2, <3>1
    <3>2. CASE k # n + 1
      <4>1. k \in 1 .. n
        BY <3>2
      <4> QED BY <1>7, <2>2, <4>1
    <3> QED BY <3>1, <3>2
  <2> QED BY <2>2, <2>3, <2>4
<1> QED BY <1>1, <1>2, <1>3, <1>4, <1>11

-----------------------------------------------------------------------------
\* Series consist of integers.
LEMMA SeriesOfIntegers ==
  ASSUME NEW series \in Seq(Energies)
  PROVE  series \in Seq(Int)
<1>1. Energies \subseteq Int
  OBVIOUS
<1> QED BY <1>1, SeqMonotonic

\* A series without values has no points.
LEMMA PlottedNothing ==
  ASSUME NEW chart
  PROVE  Plotted(Values(<<>>, chart, Len(<<>>))) = <<>>
<1>1. Len(<<>>) = 0 /\ 1 .. 0 = {}
  OBVIOUS
<1>2. DOMAIN Plotted(Values(<<>>, chart, Len(<<>>))) = {}
  BY <1>1 DEF Plotted, Values
<1>3. Plotted(Values(<<>>, chart, Len(<<>>))) \in [1 .. 0 -> Int]
  BY <1>1, <1>2 DEF Plotted
<1> QED BY <1>1, <1>2, <1>3

LEMMA NothingDownsampled == LargestTriangleThreeBuckets(<<>>) = <<>>
<1>1. Threshold >= Len(<<>>)
  OBVIOUS
<1> QED BY <1>1 DEF LargestTriangleThreeBuckets

LEMMA InitCharts == ChartsInit => ChartsInv
<1> SUFFICES ASSUME ChartsInit PROVE ChartsInv
  OBVIOUS
<1>1. window \in {"live", "replay"} /\ received = <<>> /\ received \in Seq(Energies)
  BY DEF ChartsInit
<1>2. \A chart \in Charts : Plotted(Values(received, chart, Len(received))) = <<>>
  BY <1>1, PlottedNothing
<1>3. \A chart \in Charts : fullData[chart] = <<>> /\ extremes[chart] = NaN /\ shown[chart].points = <<>>
  BY DEF ChartsInit, NoExtremes, Drawing
<1>4. LiveData
  BY <1>1, <1>2, <1>3 DEF LiveData, ChartsInit
<1>5. LiveDrawings
  BY <1>3 DEF LiveDrawings
<1>6. ReplayDrawings
  <2>1. ASSUME NEW chart \in Charts PROVE ShowsWhole(received, chart, shown[chart])
    BY <1>1, <1>2, <1>3 DEF ShowsWhole
  <2> QED BY <1>1, <1>3, <2>1 DEF ReplayDrawings
<1> QED BY <1>1, <1>4, <1>5, <1>6 DEF ChartsInv

\* The axes widened by a value cover it and what they covered.
LEMMA WidenedCovers ==
  ASSUME NEW range, NEW value \in Int, range = NaN \/ range \in [min : Int, max : Int]
  PROVE  /\ Widened(range, value) \in [min : Int, max : Int] /\ InRange(value, Widened(range, value))
         /\ range # NaN => \A v \in Int : InRange(v, range) => InRange(v, Widened(range, value))
<1>1. CASE range = NaN
  <2>1. Widened(range, value) = [min |-> value, max |-> value]
    BY <1>1 DEF Widened
  <2> QED BY <1>1, <2>1 DEF InRange
<1>2. CASE range \in [min : Int, max : Int]
  <2>1. range # NaN
    BY <1>2
  <2>2. PICK lo \in Int, hi \in Int : lo = Min({range.min, value}) /\ hi = Max({range.max, value})
            /\ lo <= range.min /\ lo <= value /\ range.max <= hi /\ value <= hi
    <3>1. range.min \in Int /\ range.max \in Int
      BY <1>2
    <3>2. IsFiniteSet({range.min, value}) /\ IsFiniteSet({range.max, value})
      <4>1. \A a, b : IsFiniteSet({a, b})
        <5> SUFFICES ASSUME NEW a, NEW b PROVE IsFiniteSet({a, b})
          OBVIOUS
        <5>1. IsFiniteSet({a})
          BY FS_Singleton
        <5>2. IsFiniteSet({a} \cup {b})
          BY <5>1, FS_AddElement
        <5>3. {a, b} = {a} \cup {b}
          OBVIOUS
        <5> QED BY <5>2, <5>3
      <4> QED BY <4>1
    <3>3. PICK a, b : a = {range.min, value} /\ b = {range.max, value}
      OBVIOUS
    <3>4. a \subseteq Int /\ a # {} /\ b \subseteq Int /\ b # {} /\ IsFiniteSet(a) /\ IsFiniteSet(b)
      BY <3>1, <3>2, <3>3
    <3>5. Min(a) \in Int /\ \A y \in a : Min(a) <= y
      BY <3>4, ExtremaExist
    <3>6. Max(b) \in Int /\ \A y \in b : y <= Max(b)
      BY <3>4, ExtremaExist
    <3> QED BY <3>3, <3>5, <3>6
  <2>3. Widened(range, value) = [min |-> lo, max |-> hi]
    BY <2>1, <2>2 DEF Widened
  <2>4. \A v \in Int : InRange(v, range) => lo <= v /\ v <= hi
    BY <1>2, <2>2 DEF InRange
  <2> QED BY <2>2, <2>3, <2>4 DEF InRange
<1> QED BY <1>1, <1>2

\* updateData adds a point and widens the extremes.
LEMMA UpdateKeeps == ChartsInv /\ UpdateData => ChartsInv'
<1> SUFFICES ASSUME ChartsInv, UpdateData PROVE ChartsInv'
  OBVIOUS
<1>1. PICK value \in Energies :
        /\ window = "live" /\ window' = window /\ shown' = shown
        /\ received' = Append(received, value)
        /\ initialValue' = Initial(value)
        /\ fullData' = [chart \in Charts |->
             Append(fullData[chart],
                    [x |-> Len(received'), y |-> Extract(chart, initialValue, value)])]
        /\ extremes' = [chart \in Charts |->
                          Widened(extremes[chart], Extract(chart, initialValue, value))]
        /\ maxTime' = Len(received')
  BY DEF UpdateData
<1>2. PICK series \in Seq(Int), n \in Nat : series = received /\ n = Len(received)
  BY SeriesOfIntegers DEF ChartsInv
<1>3. value \in Int
  OBVIOUS
<1>4. received' \in Seq(Energies) /\ Len(received') = n + 1 /\ received' # <<>>
  <2>1. received \in Seq(Energies)
    BY DEF ChartsInv
  <2> QED BY <1>1, <1>2, <2>1, AppendProperties
<1>5. LiveData
  BY DEF ChartsInv
<1>6. initialValue = IF series = <<>> THEN NaN ELSE series[1]
  BY <1>1, <1>2, <1>5 DEF LiveData
<1>7. ASSUME NEW chart \in Charts
      PROVE  /\ fullData'[chart] = Plotted(Values(received', chart, n + 1))
             /\ extremes'[chart] \in [min : Int, max : Int]
             /\ \A k \in 1 .. n + 1 : InRange(Meant(received', chart, k), extremes'[chart])
  <2>1. PICK y : y = Extract(chart, initialValue, value)
    OBVIOUS
  <2>2. y = Meant(received', chart, n + 1) /\ y \in Int
    <3>1. y = Meant(received', chart, n + 1)
      BY <1>1, <1>2, <1>3, <1>6, <2>1, MeantAppend
    <3>2. received' \in Seq(Int) /\ n + 1 \in 1 .. Len(received')
      BY <1>4, SeriesOfIntegers
    <3> QED BY <3>1, <3>2, MeantType
  <2>3. fullData'[chart] = Append(fullData[chart], [x |-> n + 1, y |-> y])
    BY <1>1, <1>4, <2>1
  <2>4. fullData[chart] = Plotted(Values(series, chart, n))
    BY <1>1, <1>2, <1>5 DEF LiveData
  <2>5. fullData'[chart] = Plotted(Values(received', chart, n + 1))
    BY <1>1, <1>2, <1>3, <1>6, <2>1, <2>3, <2>4, PlottedAppend
  <2>6. extremes'[chart] = Widened(extremes[chart], y)
    BY <1>1, <2>1
  <2>7. /\ series = <<>> => extremes[chart] = NaN
        /\ series # <<>> =>
             /\ extremes[chart] \in [min : Int, max : Int]
             /\ \A k \in 1 .. n : InRange(Meant(series, chart, k), extremes[chart])
    BY <1>1, <1>2, <1>5 DEF LiveData
  <2>8. extremes'[chart] \in [min : Int, max : Int] /\ InRange(y, extremes'[chart])
    BY <2>2, <2>6, <2>7, WidenedCovers
  <2>9. ASSUME NEW k \in 1 .. n PROVE InRange(Meant(received', chart, k), extremes'[chart])
    <3>1. series # <<>>
      BY <1>2
    <3>2. Meant(received', chart, k) = Meant(series, chart, k)
      BY <1>1, <1>2, <1>3, MeantAppend
    <3>3. Meant(series, chart, k) \in Int
      BY <1>2, MeantType
    <3>4. extremes[chart] \in [min : Int, max : Int] /\ InRange(Meant(series, chart, k), extremes[chart])
      BY <2>7, <3>1
    <3>5. extremes[chart] # NaN
      BY <3>4
    <3>6. InRange(Meant(series, chart, k), Widened(extremes[chart], y))
      BY <2>2, <3>3, <3>4, <3>5, WidenedCovers
    <3> QED BY <2>6, <3>2, <3>6
  <2>10. \A k \in 1 .. n + 1 : InRange(Meant(received', chart, k), extremes'[chart])
    BY <2>2, <2>8, <2>9
  <2> QED BY <2>5, <2>8, <2>10
<1>8. LiveData'
  <2>1. initialValue' = received'[1]
    <3>1. CASE series = <<>>
      <4>1. n = 0 /\ received'[n + 1] = value
        BY <1>1, <1>2, <1>3, <3>1, AppendProperties
      <4> QED BY <1>1, <1>6, <3>1, <4>1 DEF Initial
    <3>2. CASE series # <<>>
      <4>1. series[1] \in Int /\ 1 \in 1 .. n
        BY <1>2, <3>2
      <4>2. received'[1] = series[1]
        BY <1>1, <1>2, <1>3, <4>1, AppendProperties
      <4>3. initialValue # NaN
        BY <1>6, <3>2, <4>1
      <4> QED BY <1>1, <1>6, <3>2, <4>2, <4>3 DEF Initial
    <3> QED BY <3>1, <3>2
  <2> QED BY <1>1, <1>4, <1>7, <2>1 DEF LiveData
<1>9. LiveDrawings'
  <2> SUFFICES ASSUME NEW chart \in Charts, shown[chart].points # <<>>
               PROVE  SpansPrefix(received', chart, shown'[chart])
    BY <1>1 DEF LiveDrawings
  <2>1. SpansPrefix(series, chart, shown[chart])
    BY <1>1, <1>2 DEF ChartsInv, LiveDrawings
  <2>2. PICK m \in 1 .. n :
          /\ Spans(Values(series, chart, m), shown[chart].points)
          /\ shown[chart].time \in Int /\ m <= shown[chart].time
          /\ shown[chart].range \in [min : Int, max : Int]
          /\ \A k \in 1 .. m : InRange(Meant(series, chart, k), shown[chart].range)
    BY <1>2, <2>1 DEF SpansPrefix
  <2>3. Values(received', chart, m) = Values(series, chart, m)
    BY <1>1, <1>2, <1>3, ValuesAppend
  <2>4. \A k \in 1 .. m : Meant(received', chart, k) = Meant(series, chart, k)
    BY <1>1, <1>2, <1>3, MeantAppend
  <2>5. m \in 1 .. Len(received')
    BY <1>4
  <2> QED BY <1>1, <2>2, <2>3, <2>4, <2>5 DEF SpansPrefix
<1>10. ReplayDrawings'
  BY <1>1 DEF ReplayDrawings
<1>11. window' \in {"live", "replay"}
  BY <1>1
<1> QED BY <1>4, <1>8, <1>9, <1>10, <1>11 DEF ChartsInv

\* fillCharts draws the whole series at once.
LEMMA FillKeeps == ChartsInv /\ FillCharts => ChartsInv'
<1> SUFFICES ASSUME ChartsInv, FillCharts PROVE ChartsInv'
  OBVIOUS
<1>01. PICK any \in UNION {[1 .. n -> Energies] : n \in 0 .. MaxPoints} : Fill(any, FALSE)
  BY DEF FillCharts
<1>02. PICK m \in 0 .. MaxPoints : any \in [1 .. m -> Energies]
  BY <1>01
<1>1. PICK series \in [1 .. m -> Energies] :
        /\ window = "replay" /\ window' = window /\ fullData' = fullData
        /\ received' = series /\ automatic' = FALSE /\ maxTime' = Len(series)
        /\ extremes' = [chart \in Charts |-> Covering(PointsOf(chart, series))]
        /\ shown' = [chart \in Charts |->
             Drawing(PointsOf(chart, series), extremes'[chart], maxTime')]
  BY <1>01, <1>02 DEF Fill
<1>2. series \in Seq(Energies) /\ series \in Seq(Int) /\ Len(series) = m /\ DOMAIN series = 1 .. m
  <2>1. series \in Seq(Energies) /\ Len(series) = m /\ DOMAIN series = 1 .. m
    BY IsASeq
  <2> QED BY <2>1, SeriesOfIntegers
<1>3. ASSUME NEW chart \in Charts PROVE ShowsWhole(series, chart, shown'[chart])
  <2>1. PICK points : points = PointsOf(chart, series)
    OBVIOUS
  <2>2. \A k \in 1 .. m : Extract(chart, series[1], series[k]) = Meant(series, chart, k)
    <3> SUFFICES ASSUME NEW k \in 1 .. m PROVE Extract(chart, series[1], series[k]) = Meant(series, chart, k)
      OBVIOUS
    <3>1. series[1] \in Int
      <4>1. 1 \in 1 .. m
        OBVIOUS
      <4> QED BY <1>2, <4>1
    <3>2. series[1] # NaN
      BY <3>1
    <3> QED BY <3>2 DEF Extract, Change, Meant
  <2>3. points = [k \in 1 .. m |-> [x |-> k, y |-> Meant(series, chart, k)]]
    BY <1>2, <2>1, <2>2 DEF PointsOf
  <2>4. points = Plotted(Values(series, chart, Len(series)))
    BY <1>2, <2>3 DEF Plotted, Values
  <2>5. shown'[chart] = Drawing(points, Covering(points), m)
    BY <1>1, <1>2, <2>1
  <2>6. shown'[chart].points = points /\ shown'[chart].range = Covering(points) /\ shown'[chart].time = m
    BY <2>5 DEF Drawing
  <2>7. ASSUME series # <<>>
        PROVE  /\ Covering(points) \in [min : Int, max : Int]
               /\ \A k \in 1 .. m : InRange(Meant(series, chart, k), Covering(points))
    <3>0. m > 0
      BY <1>2, <2>7
    <3>1. PICK values : values = {points[k].y : k \in DOMAIN points}
      OBVIOUS
    <3>2. values = {Meant(series, chart, k) : k \in 1 .. m}
      BY <2>3, <3>1
    <3>3. values \subseteq Int /\ values # {}
      <4>1. \A k \in 1 .. m : Meant(series, chart, k) \in Int
        BY <1>2, MeantType
      <4>2. 1 \in 1 .. m
        BY <3>0
      <4> QED BY <3>2, <4>1, <4>2
    <3>4. IsFiniteSet(values)
      <4>1. PICK f : f = [k \in 1 .. m |-> Meant(series, chart, k)]
        OBVIOUS
      <4>2. f \in Surjection(1 .. m, values)
        BY <3>2, <4>1 DEF Surjection
      <4>3. IsFiniteSet(1 .. m)
        BY FS_Interval
      <4> QED BY <4>2, <4>3, FS_Surjection
    <3>5. /\ Min(values) \in Int /\ \A y \in values : Min(values) <= y
      BY <3>3, <3>4, ExtremaExist
    <3>6. /\ Max(values) \in Int /\ \A y \in values : y <= Max(values)
      BY <3>3, <3>4, ExtremaExist
    <3>7. points # <<>>
      <4>1. DOMAIN points = 1 .. m /\ 1 \in 1 .. m
        BY <2>3, <3>0
      <4> QED BY <4>1
    <3>8. Covering(points) = [min |-> Min(values), max |-> Max(values)]
      BY <3>1, <3>7 DEF Covering
    <3> QED BY <3>2, <3>5, <3>6, <3>8 DEF InRange
  <2>8. ASSUME NEW k \in 1 .. m PROVE k <= m /\ InRange(Meant(series, chart, k), Covering(points))
    <3>1. series # <<>>
      BY <1>2
    <3> QED BY <2>7, <3>1
  <2> QED BY <1>2, <2>4, <2>6, <2>7, <2>8 DEF ShowsWhole
<1>4. ReplayDrawings'
  <2>1. \A chart \in Charts : fullData[chart] = <<>>
    BY <1>1 DEF ChartsInv, ReplayDrawings
  <2> QED BY <1>1, <1>3, <2>1 DEF ReplayDrawings
<1>5. LiveData' /\ LiveDrawings'
  BY <1>1 DEF LiveData, LiveDrawings
<1> QED BY <1>1, <1>2, <1>4, <1>5 DEF ChartsInv

\* refreshCharts draws the points chosen from what has been received.
LEMMA RefreshKeeps == ChartsInv /\ RefreshCharts => ChartsInv'
<1> SUFFICES ASSUME ChartsInv, RefreshCharts PROVE ChartsInv'
  OBVIOUS
<1>1. /\ window' = window /\ received' = received /\ initialValue' = initialValue
      /\ fullData' = fullData /\ extremes' = extremes /\ maxTime' = maxTime /\ automatic' = automatic
  BY DEF RefreshCharts
<1>2. LiveData'
  BY <1>1 DEF ChartsInv, LiveData
<1>3. ASSUME NEW chart \in Charts PROVE shown'[chart] = shown[chart] \/ (automatic /\ shown'[chart] = Drawn(chart))
  BY DEF RefreshCharts
<1>4. LiveDrawings'
  <2> SUFFICES ASSUME window = "live", NEW chart \in Charts
               PROVE  shown'[chart].points = <<>> \/ SpansPrefix(received, chart, shown'[chart])
    BY <1>1 DEF LiveDrawings
  <2>1. CASE shown'[chart] = shown[chart]
    BY <2>1 DEF ChartsInv, LiveDrawings
  <2>2. CASE shown'[chart] = Drawn(chart)
    <3>1. /\ maxTime = Len(received)
          /\ fullData[chart] = Plotted(Values(received, chart, Len(received)))
          /\ received # <<>> =>
               /\ extremes[chart] \in [min : Int, max : Int]
               /\ \A k \in 1 .. Len(received) : InRange(Meant(received, chart, k), extremes[chart])
      BY DEF ChartsInv, LiveData
    <3>2. /\ shown'[chart].points = LargestTriangleThreeBuckets(fullData[chart])
          /\ shown'[chart].range = extremes[chart] /\ shown'[chart].time = maxTime
      BY <2>2 DEF Drawn, Drawing
    <3>3. CASE received = <<>>
      BY <3>1, <3>2, <3>3, PlottedNothing, NothingDownsampled
    <3>4. CASE received # <<>>
      <4>1. PICK n \in Nat : n = Len(received) /\ n > 0 /\ received \in Seq(Int)
        BY <3>4, SeriesOfIntegers DEF ChartsInv
      <4>2. Values(received, chart, n) \in Seq(Int) /\ Len(Values(received, chart, n)) = n
        BY <4>1, ValuesType
      <4>3. Values(received, chart, n) # <<>>
        BY <4>1, <4>2
      <4>4. Spans(Values(received, chart, n), LargestTriangleThreeBuckets(Plotted(Values(received, chart, n))))
        BY <4>2, <4>3, DownsampledSpans
      <4>5. n \in 1 .. Len(received)
        BY <4>1
      <4> QED BY <3>1, <3>2, <3>4, <4>1, <4>4, <4>5 DEF SpansPrefix
    <3> QED BY <3>3, <3>4
  <2> QED BY <1>3, <2>1, <2>2
<1>5. ReplayDrawings'
  <2> SUFFICES ASSUME window = "replay"
               PROVE  /\ received # <<>> => ~automatic
                      /\ \A chart \in Charts :
                           fullData[chart] = <<>> /\ ShowsWhole(received, chart, shown'[chart])
    BY <1>1 DEF ReplayDrawings
  <2>1. /\ received # <<>> => ~automatic
        /\ \A chart \in Charts : fullData[chart] = <<>> /\ ShowsWhole(received, chart, shown[chart])
    BY DEF ChartsInv, ReplayDrawings
  <2>2. ASSUME NEW chart \in Charts PROVE ShowsWhole(received, chart, shown'[chart])
    <3>1. CASE shown'[chart] = shown[chart]
      BY <2>1, <3>1
    <3>2. CASE automatic /\ shown'[chart] = Drawn(chart)
      <4>1. received = <<>>
        BY <2>1, <3>2
      <4>2. shown'[chart].points = LargestTriangleThreeBuckets(fullData[chart])
        BY <3>2 DEF Drawn, Drawing
      <4>3. shown'[chart].points = Plotted(Values(received, chart, Len(received)))
        BY <2>1, <4>1, <4>2, PlottedNothing, NothingDownsampled
      <4> QED BY <4>1, <4>3 DEF ShowsWhole
    <3> QED BY <1>3, <3>1, <3>2
  <2> QED BY <2>1, <2>2
<1> QED BY <1>1, <1>2, <1>4, <1>5 DEF ChartsInv

\* Every step preserves the invariant.
LEMMA ChartsStep == ChartsInv /\ [ChartsNext]_chartVars => ChartsInv'
<1> SUFFICES ASSUME ChartsInv, [ChartsNext]_chartVars PROVE ChartsInv'
  OBVIOUS
<1>1. CASE UpdateData
  BY <1>1, UpdateKeeps
<1>2. CASE FillCharts
  BY <1>2, FillKeeps
<1>3. CASE RefreshCharts
  BY <1>3, RefreshKeeps
<1>4. CASE Scroll \/ UNCHANGED chartVars
  BY <1>4 DEF Scroll, chartVars, ChartsInv, LiveData, LiveDrawings, ReplayDrawings
<1> QED BY <1>1, <1>2, <1>3, <1>4 DEF ChartsNext

\* A live chart shows some prefix, a replay chart everything.
LEMMA ChartsInvShows == ChartsInv => ChartsShowSeries
<1> SUFFICES ASSUME ChartsInv, NEW chart \in Charts, NEW points, points = shown[chart].points
             PROVE  /\ points # <<>> /\ window = "live" => ShowsStretch(chart, points)
                    /\ \A k \in DOMAIN points :
                         /\ points[k].x <= shown[chart].time
                         /\ points[k].y \in shown[chart].range.min .. shown[chart].range.max
                    /\ window = "replay" =>
                         points = [k \in DOMAIN received |-> [x |-> k, y |-> Meaning(chart, k)]]
  BY DEF ChartsShowSeries
<1>1. \A k : Meaning(chart, k) = Meant(received, chart, k)
  BY DEF Meaning, Meant, Charts
<1>2. PICK series \in Seq(Int), n \in Nat : series = received /\ n = Len(received) /\ DOMAIN received = 1 .. n
  BY SeriesOfIntegers DEF ChartsInv
<1>3. CASE window = "live" /\ points # <<>>
  <2>1. SpansPrefix(series, chart, shown[chart])
    BY <1>2, <1>3 DEF ChartsInv, LiveDrawings
  <2>2. PICK m \in 1 .. n :
          /\ Spans(Values(series, chart, m), points)
          /\ shown[chart].time \in Int /\ m <= shown[chart].time
          /\ shown[chart].range \in [min : Int, max : Int]
          /\ \A k \in 1 .. m : InRange(Meant(series, chart, k), shown[chart].range)
    BY <1>2, <2>1 DEF SpansPrefix
  <2>3. PICK values \in Seq(Int) : values = Values(series, chart, m) /\ Len(values) = m /\ DOMAIN values = 1 .. m
    BY <1>2, ValuesType
  <2>4. \A k \in 1 .. m : values[k] = Meant(series, chart, k) /\ values[k] \in Int
    BY <2>3 DEF Values
  <2>5. \A k \in DOMAIN points : points[k].x \in 1 .. m /\ points[k].y = values[points[k].x]
    BY <2>2, <2>3 DEF Spans
  <2>6. ASSUME NEW k \in DOMAIN points
        PROVE  /\ points[k].y = Meaning(chart, points[k].x)
               /\ points[k].x <= shown[chart].time
               /\ points[k].y \in shown[chart].range.min .. shown[chart].range.max
    <3>1. PICK x \in 1 .. m : x = points[k].x
      BY <2>5
    <3>2. points[k].y = values[x] /\ values[x] = Meant(series, chart, x) /\ values[x] \in Int
      BY <2>4, <2>5, <3>1
    <3>3. InRange(values[x], shown[chart].range)
      BY <2>2, <3>2
    <3>4. shown[chart].range.min \in Int /\ shown[chart].range.max \in Int
      BY <2>2
    <3>5. x <= shown[chart].time
      BY <2>2
    <3> QED BY <1>1, <1>2, <3>1, <3>2, <3>3, <3>4, <3>5 DEF InRange
  <2>7. ShowsStretch(chart, points)
    <3>1. Last(points).x = m
      BY <2>2, <2>3 DEF Spans, Last
    <3>2. points[1].x = 1 /\ Len(points) = Min({m, Threshold})
      BY <2>2, <2>3 DEF Spans
    <3>3. \A k \in 1 .. Len(points) - 1 :
           points[k + 1].x - points[k].x \in
             IF m <= Threshold THEN {1} ELSE 0 .. 2 * (1 + (m - 2) \div (Threshold - 2))
      BY <2>2, <2>3 DEF Spans
    <3> QED BY <2>6, <3>1, <3>2, <3>3 DEF ShowsStretch
  <2> QED BY <1>3, <2>6, <2>7
<1>4. CASE window = "live" /\ points = <<>>
  <2>1. DOMAIN points = {}
    BY <1>4
  <2> QED BY <1>4, <2>1
<1>5. CASE window = "replay"
  <2>1. ShowsWhole(received, chart, shown[chart])
    BY <1>5 DEF ChartsInv, ReplayDrawings
  <2>2. points = [k \in 1 .. n |-> [x |-> k, y |-> Meant(series, chart, k)]]
    BY <1>2, <2>1 DEF ShowsWhole, Plotted, Values
  <2>3. ASSUME NEW k \in DOMAIN points
        PROVE  /\ points[k].x <= shown[chart].time
               /\ points[k].y \in shown[chart].range.min .. shown[chart].range.max
    <3>1. k \in 1 .. n /\ points[k].x = k /\ points[k].y = Meant(series, chart, k)
      BY <2>2
    <3>2. Meant(series, chart, k) \in Int
      BY <1>2, <3>1, MeantType
    <3>3. shown[chart].range.min \in Int /\ shown[chart].range.max \in Int
      BY <1>2, <2>1, <3>1 DEF ShowsWhole
    <3>4. k <= shown[chart].time /\ InRange(Meant(series, chart, k), shown[chart].range)
      BY <1>2, <2>1, <3>1 DEF ShowsWhole
    <3> QED BY <3>1, <3>2, <3>3, <3>4 DEF InRange
  <2>4. points = [k \in DOMAIN received |-> [x |-> k, y |-> Meaning(chart, k)]]
    BY <1>1, <1>2, <2>2
  <2> QED BY <1>5, <2>3, <2>4
<1> QED BY <1>3, <1>4, <1>5 DEF ChartsInv

\* Whatever is received, in whatever order charts are scrolled, refreshed and
\* filled, what a chart shows is of the series (widgets/diagnostics_widget.cpp).
THEOREM ChartsShowTheirSeries == ChartsSpec => []ChartsShowSeries
<1>1. ChartsInit => ChartsInv
  BY InitCharts
<1>2. ChartsInv /\ [ChartsNext]_chartVars => ChartsInv'
  BY ChartsStep
<1>3. ChartsInv => ChartsShowSeries
  BY ChartsInvShows
<1> QED BY <1>1, <1>2, <1>3, PTL DEF ChartsSpec
=============================================================================
