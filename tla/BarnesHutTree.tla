---------------------------- MODULE BarnesHutTree ----------------------------
(***************************************************************************)
(* The octree of the Barnes-Hut simulator                                  *)
(* (core/src/simulation/simulators/barneshut_tree.cpp): particles are put  *)
(* into it one after the other, cells are divided until each leaf has one  *)
(* particle, and the force on a particle is summed over leaves nearby and  *)
(* whole cells far away.                                                   *)
(*                                                                         *)
(* A node is named by the octants on the way to it, an octant by the axes  *)
(* along which it lies above the centre.  A step is one call of            *)
(* insertRecursive.  Coordinates are integers in units fine enough for     *)
(* MaxDepth divisions of a cell.  Which masses a force consists of is      *)
(* kept; the formula applied to each of them is left out.                  *)
(***************************************************************************)
EXTENDS Integers, Sequences, SequencesExt, FiniteSetsExt

CONSTANTS
  Axes,       \* x, y, z, numbered from 0
  Points,     \* where particles may be
  TreeSize,   \* system.count()
  Mass,       \* of each particle
  ThetaSqrs,  \* squares of theta_mac, as fractions <<num, den>>
  PertScale,  \* 1 / pert_scale
  MaxDepth,   \* how deep the stack lets the recursion go
  NoParticle

TreeParticles == 0 .. TreeSize - 1

ASSUME TreeAssumption ==
  /\ Axes = 0 .. 2 /\ Points \subseteq [Axes -> Int]
  /\ TreeSize \in Nat \ {0} /\ Mass \in [TreeParticles -> Nat \ {0}]
  /\ ThetaSqrs \subseteq Nat \X (Nat \ {0})
  /\ NoParticle \notin Int /\ PertScale \in Nat \ {0} /\ MaxDepth \in Nat

VARIABLES
  positions,  \* of the system the tree is built for
  node,       \* the nodes there are: how many particles, and a leaf's particle
  next,       \* the particle being inserted
  call        \* node and position of the call of insertRecursive under way

treeVars == <<positions, node, next, call>>

Built == next = TreeSize

-----------------------------------------------------------------------------
(* Cells.                                                                  *)

Extent(axis) ==
  LET at == {positions[p][axis] : p \in TreeParticles}
  IN  [low |-> Min(at), high |-> Max(at)]

\* The bounding cube of all particles, 1.1 times as large as it has to be.
RootCell ==
  LET edge == (Max({Extent(a).high - Extent(a).low : a \in Axes}) * 11) \div 10
  IN  [low |-> [a \in Axes |-> (Extent(a).low + Extent(a).high - edge) \div 2],
       edge |-> edge]

\* Each octant on the way halves the edge.
Edges ==
  LET edge[depth \in 0 .. MaxDepth] ==
        IF depth = 0 THEN RootCell.edge ELSE edge[depth - 1] \div 2
  IN  edge

\* It moves the cell up along its axes.
Low(path) ==
  LET root == RootCell
      edge == Edges
  IN  [a \in Axes |-> root.low[a] + SumFunctionOnSet(edge, {i \in DOMAIN path : a \in path[i]})]

\* Faulty variant: a child is as large as its parent.
WideCell(path) == [low |-> Low(path), edge |-> RootCell.edge]

Cell(path) == [low |-> Low(path), edge |-> Edges[Len(path)]]

\* getOctantIndex: the axes whose bits are set.
Octant(point, path) ==
  LET cell == Cell(path)
  IN  {a \in Axes : point[a] > cell.low[a] + cell.edge \div 2}
-----------------------------------------------------------------------------
(* build.                                                                  *)

Leaf(p) == [count |-> 1, particle |-> p]

Call(path, point) == [path |-> path, point |-> point]

TreeInit ==
  /\ positions \in [TreeParticles -> Points]
  /\ node = [path \in {<<>>} |-> [count |-> 0, particle |-> NoParticle]]
  /\ next = 0
  /\ call = Call(<<>>, positions[0])

\* A child that is not there yet is an empty leaf.
IsEmptyLeaf(path) == path \in DOMAIN node => node[path].count = 0
IsLeaf(path) == path \in DOMAIN node /\ node[path].count = 1

\* num_particles++ of every call that returns.
CountedOnTheWay(path) ==
  [q \in DOMAIN node \cup {path} |->
     IF q = path THEN Leaf(next)
     ELSE IF IsPrefix(q, path) THEN [node[q] EXCEPT !.count = @ + 1] ELSE node[q]]

\* The particle has its leaf; build goes on to the next one.
PlaceInLeaf ==
  /\ ~Built /\ IsEmptyLeaf(call.path)
  /\ node' = CountedOnTheWay(call.path)
  /\ next' = next + 1
  /\ call' = Call(<<>>, IF Built' THEN NoParticle ELSE positions[next'])
  /\ UNCHANGED positions

Coincident(path) == positions[node[path].particle] = call.point

\* 1e-9 for a cell without extent, else a fraction of the edge, which is
\* nothing as soon as it is below the resolution of the position.
Perturbed(point, path) ==
  LET edge  == Cell(path).edge
      shift == IF edge > 0 THEN edge \div PertScale ELSE 1
  IN  [point EXCEPT ![next % 3] = @ + shift]

\* "Recursively call this function again for the new particle, but with the
\* perturbed position": at the same node.
PerturbCoincident ==
  /\ ~Built /\ IsLeaf(call.path) /\ Coincident(call.path)
  /\ call' = Call(call.path, Perturbed(call.point, call.path))
  /\ UNCHANGED <<positions, node, next>>

\* createAndInsertIntoChild: the child is given the particle's index, and
\* works with its original position.
IntoChild(octant) ==
  /\ Len(call.path) < MaxDepth
  /\ call' = Call(Append(call.path, octant), positions[next])

\* Faulty variant: the particle that was alone is forgotten.
Forgotten(path) == [node EXCEPT ![path].particle = NoParticle]

\* The particle that was alone moves to a leaf of its own.
MovedDown(path) ==
  LET p   == node[path].particle
      new == Append(path, Octant(positions[p], path))
  IN  [q \in DOMAIN node \cup {new} |->
         IF q = new THEN Leaf(p)
         ELSE IF q = path THEN [node[q] EXCEPT !.particle = NoParticle] ELSE node[q]]

Subdivide ==
  /\ ~Built /\ IsLeaf(call.path) /\ ~Coincident(call.path)
  /\ node' = MovedDown(call.path)
  /\ IntoChild(Octant(call.point, call.path))
  /\ UNCHANGED <<positions, next>>

Descend ==
  /\ ~Built /\ ~IsEmptyLeaf(call.path) /\ ~IsLeaf(call.path)
  /\ IntoChild(Octant(call.point, call.path))
  /\ UNCHANGED <<positions, node, next>>

TreeNext == PlaceInLeaf \/ PerturbCoincident \/ Subdivide \/ Descend

TreeSpec == TreeInit /\ [][TreeNext]_treeVars /\ WF_treeVars(TreeNext)

-----------------------------------------------------------------------------
(* updateMassRecursive and sumForcesRecursive.                             *)

ChildrenOf(path) == {q \in DOMAIN node : Len(q) = Len(path) + 1 /\ IsPrefix(path, q)}

\* The sum of a value over the particles of each node.
Accumulated(value) ==
  LET total[path \in DOMAIN node] ==
        IF node[path].count = 1 THEN value[node[path].particle]
        ELSE SumFunctionOnSet(total, ChildrenOf(path))
  IN  total

Moment(axis) == [p \in TreeParticles |-> Mass[p] * positions[p][axis]]

Masses == Accumulated(Mass)
Moments(axis) == Accumulated(Moment(axis))

\* Squared distance of a particle from a node's centre of mass, times the
\* square of the node's mass.
Square(n) == n * n
DistanceSqr(p, path) ==
  SumFunction([a \in Axes |-> Square(Moments(a)[path] - Masses[path] * positions[p][a])])

\* Faulty variant: half the edge is compared.
AcceptsNearer(p, path, thetaSqr) ==
  thetaSqr[2] * Square(Cell(path).edge * Masses[path]) < 4 * thetaSqr[1] * DistanceSqr(p, path)

\* The multipole acceptance criterion, for theta^2 = num / den.
Accepts(p, path, thetaSqr) ==
  thetaSqr[2] * Square(Cell(path).edge * Masses[path]) < thetaSqr[1] * DistanceSqr(p, path)

\* The nodes whose mass the walk for particle p adds up: other leaves, and
\* cells that are accepted, none of them below another.
Summands(p, thetaSqr) ==
  LET Ends == {path \in DOMAIN node : node[path].count = 1 \/ Accepts(p, path, thetaSqr)}
  IN  {path \in Ends : /\ \A q \in Ends : ~IsStrictPrefix(q, path)
                       /\ node[path].count = 1 => node[path].particle # p}

\* updateForces: what the acceleration of each particle is summed over.
UpdateForces(thetaSqr) == [p \in TreeParticles |-> Summands(p, thetaSqr)]

\* The particles in a node's cell.
Below(path) == {node[q].particle : q \in {r \in DOMAIN node : IsPrefix(path, r)}} \ {NoParticle}
-----------------------------------------------------------------------------
\* However the particles lie and whichever cells are accepted, the force on a
\* particle has the mass of every other one exactly once ("Node is far enough
\* away, treat as a single mass"): one node whose mass is added up has the other
\* particle below it, and a node's mass and moments, and so its centre of mass,
\* are those of the particles below it.
OtherCountedOnce(p, q, thetaSqr) ==
  Cardinality({path \in UpdateForces(thetaSqr)[p] : q \in Below(path)}) = 1
MassCountedOnce ==
  Built =>
    /\ \A p, q \in TreeParticles, thetaSqr \in ThetaSqrs :
         p # q => OtherCountedOnce(p, q, thetaSqr)
    /\ \A path \in DOMAIN node :
         /\ Masses[path] = SumFunctionOnSet(Mass, Below(path))
         /\ \A axis \in Axes :
              Moments(axis)[path] = SumFunctionOnSet(Moment(axis), Below(path))

\* No particle is attracted by a cell that holds itself, as long as theta^2 is
\* at most 1/3: above, such a cell can be accepted.
NoSelfAttraction ==
  Built =>
    \A p \in TreeParticles, thetaSqr \in ThetaSqrs :
      3 * thetaSqr[1] <= thetaSqr[2] =>
        \A path \in UpdateForces(thetaSqr)[p] : p \notin Below(path)

\* Particles at different places get leaves of their own, however close they
\* are: the recursion ends.
BuildCompletes == IsInjective(positions) ~> Built

\* "Check for coincident particles." (barneshut_tree.cpp:174): those too.
CoincidentBuildCompletes == <>Built
=============================================================================
