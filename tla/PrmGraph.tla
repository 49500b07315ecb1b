------------------------------ MODULE PrmGraph ------------------------------
(***************************************************************************)
(* The roadmap of planning_3d as the online code sees it: vertices sampled *)
(* once at start-up, their edges, the free voxel centres, and the two      *)
(* queries every plan starts with, snapping a position to a free centre    *)
(* and snapping it to a vertex.  Positions are abstract points; a length   *)
(* is a natural number in a unit fine enough for the tolerances.           *)
(***************************************************************************)
EXTENDS Integers, Sequences, FiniteSets

CONSTANTS
  Point,     \* positions in the map frame
  Vertex,    \* the PRM vertices, each identified with its position
  Free,      \* free_centers_
  Adj,       \* Adj[u]: the vertices u has an edge to
  Cost,      \* Cost[u][v]: length of the edge times its clearance penalty
  Dist,      \* Dist[p][q]: Euclidean distance
  StepSize   \* step_size_, the unit of the snapping radii

ASSUME GraphAssumption ==
  /\ Vertex \subseteq Point
  /\ Free \subseteq Point
  /\ Adj \in [Vertex -> SUBSET Vertex]
  /\ Cost \in [Vertex -> [Vertex -> Nat]]
  /\ Dist \in [Point -> [Point -> Nat]]
  /\ StepSize \in Nat

\* The elements of S closest to p; the code keeps the first it meets, and the
\* order of the samples is random, so any of them may be the one kept.
Nearest(p, S) == {q \in S : \A r \in S : Dist[p][q] <= Dist[p][r]}

\* snapToFree: the position itself when there is no free centre at all.
SnapToFree(p) == IF Free = {} THEN {p} ELSE Nearest(p, Free)

\* A slip: the radius is forgotten.
FindClosestVertexAnywhere(p, skipped, multiplier) == Nearest(p, Vertex \ skipped)

\* findClosestVertex: closest vertex outside skipped, strictly within the
\* radius; the empty set is the code's -1.
FindClosestVertex(p, skipped, multiplier) ==
  {v \in Nearest(p, Vertex \ skipped) : Dist[p][v] < multiplier * StepSize}

\* The three attempts of computePath: 2 steps, then 3 steps, then 3 steps
\* ignoring which vertices are blocked.
SnapVertex(p, blocked) ==
  LET near == FindClosestVertex(p, blocked, 2)
      far  == FindClosestVertex(p, blocked, 3)
  IN  IF near # {} THEN near
      ELSE IF far # {} THEN far ELSE FindClosestVertex(p, {}, 3)

-----------------------------------------------------------------------------
(* What the search may return: reference definitions, not an algorithm.    *)

\* A walk of at least one edge from s to g along unblocked vertices.
IsRoute(r, s, g, blocked) ==
  /\ r \in Seq(Vertex \ blocked)
  /\ Len(r) >= 2
  /\ r[1] = s /\ r[Len(r)] = g
  /\ \A i \in 1 .. Len(r) - 1 : r[i + 1] \in Adj[r[i]]

\* Simple paths only: a cheapest route never visits a vertex twice.
Routes(s, g, blocked) ==
  {r \in UNION {[1 .. n -> Vertex \ blocked] : n \in 2 .. Cardinality(Vertex)} :
     IsRoute(r, s, g, blocked) /\ \A i, j \in DOMAIN r : r[i] = r[j] => i = j}

RouteCost(r) ==
  LET upTo[n \in 1 .. Len(r)] ==
        IF n = 1 THEN 0 ELSE upTo[n - 1] + Cost[r[n - 1]][r[n]]
  IN  upTo[Len(r)]

CheapestRoutes(s, g, blocked) ==
  LET all == Routes(s, g, blocked)
  IN  {r \in all : \A q \in all : RouteCost(r) <= RouteCost(q)}

\* computePath, seen from outside: the paths it may return for a start and a
\* goal position, <<>> being the empty path that means failure.  The search
\* never records a predecessor for its start, so a start and a goal that
\* snap to the same vertex have no route.
PlanResults(start, goal, blocked) ==
  LET ss == SnapVertex(start, blocked)
      gs == SnapVertex(goal, blocked)
      found(s, g) == IF s = g THEN {} ELSE CheapestRoutes(s, g, blocked)
  IN  IF ss = {} \/ gs = {} THEN {<<>>}
      ELSE UNION {IF found(s, g) = {} THEN {<<>>} ELSE found(s, g) :
                    s \in ss, g \in gs}
=============================================================================
