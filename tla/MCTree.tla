-------------------------------- MODULE MCTree --------------------------------
(***************************************************************************)
(* BarnesHutTree for TLC: places, masses and thetas.                       *)
(***************************************************************************)
EXTENDS BarnesHutTree

\* Close pairs and distant ones, on an axis and off it, three masses.  Places
\* are counted from a corner of the system, not from the zero of the doubles,
\* so all of them have about the same resolution.
At(x, y, z) == [a \in Axes |-> 160 * (CASE a = 0 -> x [] a = 1 -> y [] a = 2 -> z)]
MCPoints == {At(0, 0, 0), At(1, 0, 0), At(2, 1, 0), At(1, 1, 1), At(0, 0, 4), At(4, 4, 4)}
MCMass == [p \in TreeParticles |-> 1 + p]

\* Every particle by itself, the largest theta without self-attraction, and 3.
MCThetaSqrs == {<<0, 1>>, <<1, 3>>, <<9, 1>>}
=============================================================================
