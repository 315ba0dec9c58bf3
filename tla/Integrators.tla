----------------------------- MODULE Integrators -----------------------------
(***************************************************************************)
(* What the fixed-step simulators (core/src/simulation/simulators: Euler,  *)
(* Leapfrog, Hermite, Barnes-Hut Leapfrog) compute from what.  Formulas    *)
(* are left out: an array is named by where its values come from, so that  *)
(* forces can be compared with the positions and masses they belong to.    *)
(*                                                                         *)
(* Buffers come from the pool, which keeps what was in them.               *)
(***************************************************************************)
EXTENDS Integers, FiniteSets

CONSTANTS Pool,      \* buffers of the system data pool
          LastStep,  \* steps until the duration is over
          NoBuffer

Methods == {"Euler", "Leapfrog", "Hermite", "BarnesHutLeapfrog"}

\* Positions and velocities are those of a step; before the scaling to Henon
\* units those of the generator, in a new buffer zero.  Masses are likewise
\* generated, scaled or zero.
Positions == 0 .. LastStep
Zero      == [positions |-> NoBuffer, masses |-> NoBuffer]
Generated == [positions |-> NoBuffer, masses |-> "generated"]
Scaled    == [positions |-> 0, masses |-> "scaled"]

\* What Hermite's updateForces finds in the buffer of a system to be: positions
\* and velocities to be corrected.
Prediction(system) == [predicted |-> system]

ASSUME IntegratorAssumption ==
  /\ Cardinality(Pool) >= 3 /\ NoBuffer \notin Pool \cup Int \cup {"generated", "scaled"}
  /\ LastStep \in Nat

VARIABLES
  method,
  older,   \* previous_system_
  newer,   \* system_
  holds,   \* what each buffer of the pool holds
  forces,  \* what accelerations_, jerks_ and potential_energy_ were computed from
  kicks,   \* history: the systems last accelerated, with the forces used
  time     \* system_time_

integratorVars == <<method, older, newer, holds, forces, kicks, time>>

-----------------------------------------------------------------------------
IntegratorInit ==
  /\ method \in Methods
  /\ older \in Pool /\ newer \in Pool \ {older}
  /\ holds = [b \in Pool |-> IF b = older THEN Generated ELSE Zero]
  /\ forces = NoBuffer /\ kicks = {} /\ time = NoBuffer

\* initialize: the system is scaled, the other buffer is given its masses, and
\* updateForces is called on one of the two.
Initialized(m, start) ==
  /\ method = m /\ time = NoBuffer
  /\ holds' = [holds EXCEPT ![older] = Scaled, ![newer].masses = "scaled"]
  /\ forces' = holds'[start]
  /\ time' = 0
  /\ UNCHANGED <<method, older, newer, kicks>>

InitializeEuler             == Initialized("Euler", older)
InitializeLeapfrog          == Initialized("Leapfrog", newer)
InitializeHermite           == Initialized("Hermite", newer)
InitializeBarnesHutLeapfrog == Initialized("BarnesHutLeapfrog", older)

\* Faulty variant: a buffer from the pool keeps its masses.
KeepsMasses(target) == [positions |-> time + 1, masses |-> holds[target].masses]

\* What a step leaves in its buffer: a used one from the pool is given the
\* masses of previous_system_, its own other buffer has them.
Advanced(target) ==
  [positions |-> time + 1,
   masses    |-> IF target = newer THEN holds[newer].masses ELSE holds[older].masses]

Kick(system, source) == [system |-> system, forces |-> source]

Target(buffer) == IF buffer = NoBuffer THEN newer ELSE buffer

\* The system is moved into the target, which becomes previous_system_.
Moved(m, buffer) ==
  /\ method = m /\ time \in Positions /\ time < LastStep
  /\ holds' = [holds EXCEPT ![Target(buffer)] = Advanced(Target(buffer))]
  /\ older' = Target(buffer) /\ newer' = older
  /\ time' = time + 1
  /\ UNCHANGED method

\* Forces first, in previous_system_, then positions and velocities.
StepEuler(buffer) ==
  /\ Moved("Euler", buffer)
  /\ forces' = holds[older]
  /\ kicks' = {Kick(holds[older], holds[older])}

\* The forces that are there move the system; those of its new positions are
\* added to its velocities.
MovesThenUpdates(m, buffer) ==
  LET advanced == Advanced(Target(buffer))
  IN  /\ Moved(m, buffer)
      /\ forces' = advanced
      /\ kicks' = {Kick(holds[older], forces), Kick(advanced, advanced)}

StepLeapfrog(buffer)          == MovesThenUpdates("Leapfrog", buffer)
StepBarnesHutLeapfrog(buffer) == MovesThenUpdates("BarnesHutLeapfrog", buffer)

\* The forces that are there predict positions and velocities, in the buffer of
\* the new system; those of the prediction, with the old ones, make the new
\* system, which replaces the prediction.
StepHermite(buffer) ==
  LET corrected == Advanced(Target(buffer))
  IN  /\ Moved("Hermite", buffer)
      /\ forces' = Prediction(corrected)
      /\ kicks' = {Kick(holds[older], forces), Kick(corrected, Prediction(corrected))}

\* The pool hands out a buffer that nobody holds, with what was left in it.
IntegratorNext ==
  \/ InitializeEuler \/ InitializeLeapfrog \/ InitializeHermite \/ InitializeBarnesHutLeapfrog
  \/ \E buffer \in (Pool \ {older, newer}) \cup {NoBuffer} :
       \/ StepEuler(buffer) \/ StepLeapfrog(buffer)
       \/ StepHermite(buffer) \/ StepBarnesHutLeapfrog(buffer)

IntegratorSpec == IntegratorInit /\ [][IntegratorNext]_integratorVars
-----------------------------------------------------------------------------
\* What forces of a system are computed from: the system itself, or Hermite's
\* prediction of it.
SourceOf(system) == IF method = "Hermite" THEN Prediction(system) ELSE system

KicksAreOwn ==
  \A kick \in kicks : kick.forces = SourceOf(kick.system) /\ kick.system.masses = "scaled"

\* A system is accelerated by its own forces, at its own positions (for Hermite
\* those that were predicted for it) and of the scaled masses, through every
\* exchange of buffers, of the simulator's own and of used ones from the pool.
\* The one exception is the first step of Leapfrog and Hermite.
KickUsesOwnForces ==
  (method \in {"Leapfrog", "Hermite"} => time # 1) => KicksAreOwn

\* Which positions the potential energy is of that a step's diagnostics get,
\* and that updateForces sums with the forces.  Only with the two Leapfrogs is
\* it that of the system it is reported with: Hermite's is the prediction's,
\* and Euler's a step behind the kinetic energy.
EnergiesOfStep ==
  time \in Positions \ {0} =>
    /\ method \in {"Leapfrog", "BarnesHutLeapfrog"} => forces = holds[older]
    /\ method = "Hermite" => forces = Prediction(holds[older])
    /\ method = "Euler" => forces = [holds[older] EXCEPT !.positions = time - 1]

\* Forces and energies belong to the system they are used for, as far as the
\* methods allow.
ForcesBelongToSystem == KickUsesOwnForces /\ EnergiesOfStep

\* "Initialize accelerations vector" (leapfrog_simulator.cpp:37): the first
\* step too.
FirstKickUsesOwnForces == KicksAreOwn

\* Kinetic and potential energy of the same system, for every method.
EnergiesOfOneState == time \in Positions \ {0} => forces = holds[older]
=============================================================================
