---------------------------- MODULE MCComputations ----------------------------
(***************************************************************************)
(* The computations of the simulators and of the charts, for TLC: the      *)
(* schedule of HITS, the Barnes-Hut tree, the order of force calculations  *)
(* of the other integrators, and the points of a chart.  They share no     *)
(* state; a behaviour is one of any of them, the rest at the beginning of  *)
(* theirs.                                                                 *)
(***************************************************************************)
EXTENDS HitsSchedule, MCTree, Integrators, DiagnosticsCharts

VARIABLE part
partVars == <<hitsVars, treeVars, integratorVars, chartVars, part>>

\* Energies of bound systems are negative; none at all is a case of its own.
MCEnergies == {-2, 0}

\* The state of the parts that do not take part.
HitsRests == timeStep = [p \in Particles |-> Min(StepSizes)]
TreeRests == \A p \in TreeParticles : positions[p] = At(0, 0, 0)
IntegratorsRest == method = "Euler" /\ older = Min(Pool) /\ newer = Max(Pool)
ChartsRest == window = "live" /\ visible = {}

MCInit ==
  /\ part \in {"hits", "tree", "integrators", "charts"}
  /\ HitsInit /\ (part # "hits" => HitsRests)
  /\ TreeInit /\ (part # "tree" => TreeRests)
  /\ IntegratorInit /\ (part # "integrators" => IntegratorsRest)
  /\ ChartsInit /\ (part # "charts" => ChartsRest)

Hits == part = "hits" /\ HitsNext /\ UNCHANGED <<treeVars, integratorVars, chartVars, part>>
Tree == part = "tree" /\ TreeNext /\ UNCHANGED <<hitsVars, integratorVars, chartVars, part>>
Integration ==
  part = "integrators" /\ IntegratorNext /\ UNCHANGED <<hitsVars, treeVars, chartVars, part>>
Drawings == part = "charts" /\ ChartsNext /\ UNCHANGED <<hitsVars, treeVars, integratorVars, part>>

MCNext == Hits \/ Tree \/ Integration \/ Drawings

\* The simulation thread goes on, and timers fire.
MCSpec ==
  /\ MCInit /\ [][MCNext]_partVars
  /\ WF_hitsVars(part = "hits" /\ CalculateNextSystemState)
  /\ WF_treeVars(part = "tree" /\ TreeNext)
  /\ WF_fired(part = "charts" /\ TimerFires)
-----------------------------------------------------------------------------
\* The simulation reaches its duration, although particles may be lost: the
\* schedule never runs empty.
HitsReachesEnd == part = "hits" => HitsReachesDuration

\* Particles at different places get leaves of their own: the recursion ends.
TreeBuildCompletes == part = "tree" => BuildCompletes

\* A chart that stays in sight shows the last snapshot in the end.
VisibleChartsCatchUp == part = "charts" => ChartsCatchUp
=============================================================================
