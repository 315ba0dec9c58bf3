----------------------------- MODULE HitsSchedule -----------------------------
(***************************************************************************)
(* The block of individual time steps of the HITS simulator                *)
(* (core/src/simulation/simulators/hits_simulator.cpp) and the loop that   *)
(* drives it: particle_schedule_, a map from the time at which a particle  *)
(* is due to the particle, is advanced one particle per step.              *)
(*                                                                         *)
(* Time is counted in ticks.  The forces are left out: they only choose a  *)
(* particle's next time step, here any of StepSizes.                       *)
(***************************************************************************)
EXTENDS Integers

CONSTANTS ParticleCount,
          StepSizes,  \* what Aarseth's formulas may yield
          Duration    \* duration_, the end of the simulation loop

Particles == 0 .. ParticleCount - 1

ASSUME HitsAssumption ==
  /\ ParticleCount \in Nat
  /\ StepSizes \subseteq Nat \ {0}
  /\ Duration \in Nat

VARIABLES
  systemTime,    \* system_time_
  particleTime,  \* particle_times_
  timeStep,      \* particle_time_steps_
  schedule       \* particle_schedule_

hitsVars == <<systemTime, particleTime, timeStep, schedule>>

Due(p)    == particleTime[p] + timeStep[p]
Scheduled == {schedule[t] : t \in DOMAIN schedule}

\* schedule[time] = p for p = 0, 1, ...: of equal times the last one stays.
HitsInit ==
  /\ systemTime = 0
  /\ particleTime = [p \in Particles |-> 0]
  /\ timeStep \in [Particles -> StepSizes]
  /\ schedule \in [{timeStep[p] : p \in Particles} -> Particles]
  /\ \A t \in DOMAIN schedule :
       /\ timeStep[schedule[t]] = t
       /\ \A p \in Particles : p > schedule[t] => timeStep[p] # t

\* min(upper_limit, new_dt): at most 30 % longer than the last one.
NextTimeStep(old, new) == IF new < (13 * old) \div 10 THEN new ELSE (13 * old) \div 10

\* Faulty variant: the particle keeps the place it had.
KeepsPlace(rest, due, p) == rest

\* particle_schedule_.insert(node): a time that is taken keeps its particle.
Inserted(rest, due, p) ==
  [t \in DOMAIN rest \cup {due} |-> IF t \in DOMAIN rest THEN rest[t] ELSE p]

Without(t) == [u \in DOMAIN schedule \ {t} |-> schedule[u]]

\* Faulty variant: any particle that is due before the end.
AnyDue(t) == t \in DOMAIN schedule

Earliest(t) == t \in DOMAIN schedule /\ \A u \in DOMAIN schedule : t <= u

\* calculateNextSystemState, called by the simulation loop.
CalculateNextSystemState ==
  \E first \in DOMAIN schedule, new \in StepSizes :
    LET p == schedule[first]
    IN  /\ systemTime < Duration
        /\ Earliest(first)
        /\ systemTime' = first
        /\ timeStep' = [timeStep EXCEPT ![p] = NextTimeStep(timeStep[p], new)]
        /\ particleTime' = [particleTime EXCEPT ![p] = first]
        /\ schedule' = Inserted(Without(first), first + timeStep'[p], p)

\* The loop of runSimulation has ended, or goes round for ever without a
\* scheduled particle (the early return).
NothingToUpdate ==
  /\ systemTime >= Duration \/ DOMAIN schedule = {}
  /\ UNCHANGED hitsVars

HitsNext == CalculateNextSystemState \/ NothingToUpdate

HitsSafeSpec == HitsInit /\ [][HitsNext]_hitsVars
HitsSpec     == HitsSafeSpec /\ WF_hitsVars(CalculateNextSystemState)
-----------------------------------------------------------------------------
HitsTypeOK ==
  /\ systemTime \in Nat
  /\ particleTime \in [Particles -> Nat]
  /\ timeStep \in [Particles -> Nat \ {0}]
  /\ DOMAIN schedule \subseteq Nat
  /\ schedule \in [DOMAIN schedule -> Particles]

\* No scheduled particle is passed over or updated twice for one time step: it
\* is in the schedule where it is due, and that lies ahead of the system time.
ScheduledWhenDue ==
  \A t \in DOMAIN schedule : t = Due(schedule[t]) /\ t > systemTime

\* Every prediction goes forward, and for a scheduled particle by less than
\* its time step ("predictSystem"), within which its Taylor series is meant.
PredictsWithinStep ==
  \A p \in Particles :
    /\ particleTime[p] <= systemTime
    /\ p \in Scheduled => systemTime - particleTime[p] < timeStep[p]

\* "system_time_ = particle_time": every step of the simulation advances its
\* time, to the earliest due time, so the loop of runSimulation makes progress.
TimeAdvances ==
  [][CalculateNextSystemState =>
       /\ systemTime' > systemTime
       /\ \A p \in Scheduled : systemTime' <= Due(p)]_hitsVars

\* The simulation reaches its duration, although particles may be lost: the
\* schedule never runs empty.
HitsReachesDuration == <>(systemTime >= Duration)

\* "Update particle time to system time and reschedule it" (hits_simulator.cpp
\* 94): every particle goes on being updated.
EveryParticleScheduled == Scheduled = Particles
=============================================================================
