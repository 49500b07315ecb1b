------------------------------ MODULE Roadmap ------------------------------
(***************************************************************************)
(* How planning_3d makes its roadmap, once, in the constructor              *)
(* (planning_3d_PRM.cpp).  The map is a set of voxels a robot can stand in; *)
(* everything else is an obstacle.  The voxels are thickened in z, the      *)
(* distance to the nearest obstacle is computed along z, y and x, the       *)
(* voxels with distance and headroom enough are kept, vertices are drawn    *)
(* from them and joined to their nearest neighbours.                       *)
(*                                                                         *)
(* Lengths are in voxels, distances squared; a vertex is at the centre of   *)
(* its voxel.  The average clearance of an edge and rounding are left out.  *)
(***************************************************************************)
EXTENDS Edt3d

CONSTANTS
  Worlds,        \* the maps considered, each a set of voxels <<x, y, z>>
  XYExpand,      \* edt_xy_expand
  ZThickness,    \* edt_z_thickness
  RobotHeight,   \* robot_height, rounded up to layers
  SafeMargin,    \* safe_margin
  MinCenters,    \* the 100 safe centres below which the margin is halved
  MaxNodes,      \* max_nodes
  Radius,        \* step_size, which is compared with squared distances
  KNeigh,        \* k_neigh
  StepsPerVoxel, \* the 0.1 m between the points of an edge that are looked at
  MaxSlope       \* the tangent of max_slope_deg

Square(n) == n * n

\* A map is bounded, and INF lies beyond the margin and every distance on its grid. No
\* step of an edge is longer than a voxel.
ASSUME RoadmapAssumption ==
  /\ \A world \in Worlds :
       world # {} /\ \E n \in 0 .. INF : /\ world \subseteq (-n .. n) \X (-n .. n) \X (-n .. n)
                                       /\ 12 * Square(n + XYExpand) < INF
  /\ {XYExpand, ZThickness, RobotHeight, SafeMargin, MinCenters, MaxNodes, Radius,
      KNeigh, StepsPerVoxel, MaxSlope} \subseteq Nat
  /\ Square(SafeMargin) < INF /\ StepsPerVoxel >= 1

VARIABLES
  hits,           \* hit_cnt_, raw_hit_cnt_
  stage,          \* what comes next: "z", "y", "x", "filter", "sample", "connect"
  distance,       \* distance_field, squared, on the grid
  lucky,          \* has every uninitialised boundary been below all others on its line?
  safe_centers,
  vertices,       \* the voxels of the vertices drawn, in order
  connected,      \* how many of them have been joined to their neighbours
  edges           \* adj: <<from, to, least clearance squared>>

roadVars == <<hits, stage, distance, lucky, safe_centers, vertices, connected, edges>>

Sq(v, w) == Square(w[1] - v[1]) + Square(w[2] - v[2]) + Square(w[3] - v[3])

-----------------------------------------------------------------------------
(* The distance field                                                      *)

Margin(d) == IF d = 3 THEN 0 ELSE XYExpand
Lowest(d)  == Min({v[d] : v \in hits}) - Margin(d)
Highest(d) == Max({v[d] : v \in hits}) + Margin(d)
Grid ==
  (Lowest(1) .. Highest(1)) \X (Lowest(2) .. Highest(2)) \X (Lowest(3) .. Highest(3))

\* occupancy_expanded: the voxels that are no obstacle.
Occupancy ==
  {v \in Grid : \E dz \in -ZThickness .. ZThickness : [v EXCEPT ![3] = @ - dz] \in hits}

RoadInit ==
  /\ hits \in Worlds /\ stage = "z" /\ lucky = TRUE
  /\ distance = [v \in Grid |-> IF v \in Occupancy THEN INF ELSE 0]
  /\ safe_centers = {} /\ vertices = <<>> /\ connected = 0 /\ edges = {}

\* What the uninitialised boundaries are found to be.  Bound: the same on all
\* lines, as of one stack slot, but for one.
Garbage(hanging) ==
  IF hanging = {} THEN {<<>>}
  ELSE {[v \in hanging |-> IF v = w THEN t ELSE s] :
          w \in hanging, s \in Uninitialised, t \in Uninitialised}

\* The line in direction d that begins at v, ...
FirstOf(v, d) == [v EXCEPT ![d] = Lowest(d)]
LineOf(v, d) ==
  [i \in 0 .. Highest(d) - Lowest(d) |-> distance[[v EXCEPT ![d] = @ + i]]]

\* ... and one pass, over all lines in direction d.
Pass(d, name, next) ==
  LET hanging == {v \in DOMAIN distance :
                    v = FirstOf(v, d) /\ HangsOnUninitialised(LineOf(v, d))}
  IN  /\ stage = name /\ stage' = next
      /\ \E s \in Garbage(hanging) :
           /\ distance' = [v \in DOMAIN distance |->
                LET first == FirstOf(v, d)
                    line  == LineOf(first, d)
                IN  Height(line, Envelope(line, IF first \in hanging THEN s[first] ELSE 0),
                           v[d] - first[d])]
           /\ lucky' = (lucky /\ \A v \in hanging : BelowOthers(LineOf(v, d), s[v]))
      /\ UNCHANGED <<hits, safe_centers, vertices, connected, edges>>

Compute ==
  \/ Pass(3, "z", "y")
  \/ Pass(2, "y", "x")
  \/ Pass(1, "x", "filter")

-----------------------------------------------------------------------------
(* Vertices                                                                *)

\* voxel_margin_map_: a distance beyond all bounds is taken for half a metre, here
\* half of the margin.  Distances elsewhere are zero (distanceToBoundary).
DistanceToBoundary(v) ==
  IF v \notin hits THEN 0
  ELSE IF distance[v] = INF THEN Square((SafeMargin + 1) \div 2) ELSE distance[v]

HasHeadroom(v) == \A dz \in 1 .. RobotHeight : [v EXCEPT ![3] = @ + dz] \notin hits

Safe      == {v \in hits : DistanceToBoundary(v) >= Square(SafeMargin)}
HalfSafe  == {v \in hits : 4 * DistanceToBoundary(v) >= Square(SafeMargin)}
Few(S)    == Cardinality(S) < MinCenters
Upright(S) == {v \in S : HasHeadroom(v)}

\* The constructor lowers the margin if there are few, buildPRM then forgets about
\* the headroom, and takes every voxel if there is none left.
SafeCenters ==
  LET chosen == IF Few(Upright(Safe)) THEN Upright(HalfSafe) ELSE Upright(Safe)
  IN  IF ~Few(chosen) THEN chosen
      ELSE IF HalfSafe # {} THEN HalfSafe ELSE hits

FilterCenters ==
  /\ stage = "filter" /\ stage' = "sample"
  /\ safe_centers' = SafeCenters
  /\ UNCHANGED <<hits, distance, lucky, vertices, connected, edges>>

\* Vertices are drawn at random, the same voxel perhaps more than once.
Sample ==
  /\ stage = "sample" /\ stage' = "connect"
  /\ vertices' \in [1 .. MaxNodes -> safe_centers]
  /\ UNCHANGED <<hits, distance, lucky, safe_centers, connected, edges>>

-----------------------------------------------------------------------------
(* Edges                                                                   *)

IsSlopeValid(v, w) ==
  Square(w[3] - v[3]) <= Square(MaxSlope) * (Square(w[1] - v[1]) + Square(w[2] - v[2]))

\* The voxel i n-ths of the way from the centre of v to that of w.
OnTheWay(v, w, i, n) ==
  [d \in 1 .. 3 |-> (2 * n * v[d] + n + 2 * i * (w[d] - v[d])) \div (2 * n)]

\* The steps of an edge, rounded up.
Steps(v, w) ==
  LET length == Square(StepsPerVoxel) * Sq(v, w)
  IN  CHOOSE n \in 0 .. length : Square(n) >= length /\ (n > 0 => Square(n - 1) < length)

\* A slip: only where an edge ends is looked at.
SamplesOfEnds(v, w) == {v, w}

Samples(v, w) ==
  IF v = w THEN {v}
  ELSE LET n == Steps(v, w) IN {OnTheWay(v, w, i, n) : i \in 0 .. n}

IsEdgeFree(v, w) ==
  v = w \/ \A p \in Samples(v, w) : p \in hits /\ DistanceToBoundary(p) >= Square(SafeMargin)

MinClearance(v, w) == Min({DistanceToBoundary(p) : p \in Samples(v, w)})

\* The KNeigh nearest vertices within the radius, in case of doubt the first.
Neighbours(i) ==
  LET near   == {j \in DOMAIN vertices \ {i} : Sq(vertices[i], vertices[j]) < Radius}
      far(j) == Sq(vertices[i], vertices[j])
      before(j) == {k \in near : far(k) < far(j) \/ (far(k) = far(j) /\ k < j)}
  IN  {j \in near : Cardinality(before(j)) < KNeigh}

Joined(i, j) ==
  LET c == MinClearance(vertices[i], vertices[j]) IN {<<i, j, c>>, <<j, i, c>>}

Connect ==
  /\ stage = "connect" /\ connected < Len(vertices)
  /\ connected' = connected + 1
  /\ edges' = edges \cup
       UNION {Joined(connected', j) : j \in {k \in Neighbours(connected') :
                /\ IsSlopeValid(vertices[connected'], vertices[k])
                /\ IsEdgeFree(vertices[connected'], vertices[k])}}
  /\ UNCHANGED <<hits, stage, distance, lucky, safe_centers, vertices>>

RoadNext == Compute \/ FilterCenters \/ Sample \/ Connect

RoadSpec == RoadInit /\ [][RoadNext]_roadVars

-----------------------------------------------------------------------------
(* Properties                                                              *)

\* Every variable keeps its type.
RoadTypeOK ==
  /\ hits \in Worlds /\ lucky \in BOOLEAN /\ connected \in 0 .. MaxNodes
  /\ stage \in {"z", "y", "x", "filter", "sample", "connect"}
  /\ DOMAIN distance = Grid /\ \A v \in DOMAIN distance : distance[v] \in 0 .. INF
  /\ safe_centers \subseteq hits /\ vertices \in Seq(safe_centers)
  /\ edges \subseteq (DOMAIN vertices) \X (DOMAIN vertices) \X (0 .. INF)

Computed == stage = "filter"

NearestObstacle(v, obstacles) ==
  IF obstacles = {} THEN INF ELSE Min({Sq(v, w) : w \in obstacles})

\* Three passes over lines are enough for the distance in space, unless a boundary
\* that was never assigned hides a parabola; and nothing ever makes an obstacle seem
\* nearer than it is.
DistancesAreExact ==
  Computed =>
    LET obstacles == DOMAIN distance \ Occupancy IN
    \A v \in DOMAIN distance :
      /\ distance[v] >= NearestObstacle(v, obstacles)
      /\ lucky => distance[v] = NearestObstacle(v, obstacles)

\* Only points of an edge are looked at: no edge passes through an obstacle between
\* them, at a corner or through a floor, whatever the distances were computed from.
\* And the search relies on edges that lead both ways and are as clear both ways,
\* although either end may be too far down the list of the other's neighbours.
\* (With an odd number of parts no point is on the face between two voxels.)
EdgesKeepOffObstacles ==
  \A e \in edges :
    LET v == vertices[e[1]]
        w == vertices[e[2]]
        n == 4 * Steps(v, w) + 1
        free == Occupancy
    IN  /\ <<e[2], e[1], e[3]>> \in edges
        /\ v # w => \A i \in 0 .. n : OnTheWay(v, w, i, n) \in free

\* The steps are so short that an edge within the radius passes through no voxel that
\* none of the points looked at is in.
FineSteps(radius) ==
  LET origin == <<0, 0, 0>>
      span   == {k \in -radius .. radius : Square(k) < radius}
  IN  \A w \in (span \X span \X span) \ {origin} :
        LET n == Steps(origin, w)
        IN  Sq(origin, w) < radius =>
              \A i \in 0 .. 4 * n + 1 : \E j \in 0 .. n :
                OnTheWay(origin, w, i, 4 * n + 1) = OnTheWay(origin, w, j, n)

-----------------------------------------------------------------------------
(* What a document says                                                    *)

\* "Computes the squared Euclidean distance from each grid cell to the nearest
\* obstacle" (edt_3d.h).
DistanceIsToNearest ==
  Computed => \A v \in DOMAIN distance :
                distance[v] = NearestObstacle(v, DOMAIN distance \ Occupancy)
=============================================================================
