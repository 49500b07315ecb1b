-------------------------- MODULE ObstacleProcessor --------------------------
(***************************************************************************)
(* The obstacle processor.  One thread serves its subscriptions; a callback *)
(* is one action.  The map is one row of cells (a place is a cell), and the *)
(* points of a cell are how many there are at each height.  A cloud of the  *)
(* LiDAR is taken to hold a point at every place in reach and every height: *)
(* each point is judged by itself.  Filters and the widening of obstacles   *)
(* are left out, and so are the limits in height of the local map.         *)
(***************************************************************************)
EXTENDS Integers, Sequences, FiniteSetsExt

CONSTANTS
  Place, Height,  \* the cells of the row, the heights of points
  Worlds,         \* the maps /map may bring, as [Place -> [Height -> Nat]]
  MaxWorlds,      \* bound: how many of them come
  LocalMapSize,   \* half of localMapSize, and as far as a LiDAR's point may be
  CacheThreshold, \* cacheThreshold
  LayerGap,       \* layer_gap_threshold
  MergeMinPoints, \* layer_merge_min_points
  Tolerance,      \* layer_height_tolerance
  GridThreshold,  \* height_threshold_1
  FallbackThreshold \* height_threshold_3

ASSUME ObstacleAssumption ==
  /\ {Min(Place), Max(Place)} \subseteq Int /\ Place = Min(Place) .. Max(Place) /\ Place # {}
  /\ Max(Height) \in Nat /\ Height = 0 .. Max(Height)
  /\ Worlds \subseteq [Place -> [Height -> Nat]]
  /\ MaxWorlds \in Nat /\ LocalMapSize \in Nat /\ CacheThreshold \in Nat \ {0}
  /\ {LayerGap, MergeMinPoints, Tolerance, GridThreshold} \subseteq Nat
  /\ Tolerance < GridThreshold

VARIABLES
  worldCloud,        \* the buffer that is read, empty before the first map
  worlds,            \* how many maps have come
  robot,             \* where the robot is
  localWorldCloud, localMapInitialized, lastRobotPosition,
  gridIndex, gridIndexInitialized,
  obs_raw            \* the last obstacles published, and where the robot was

mapCache == <<localWorldCloud, localMapInitialized, lastRobotPosition,
              gridIndex, gridIndexInitialized>>
obsVars  == <<worldCloud, worlds, robot, mapCache, obs_raw>>

EmptyCell  == [z \in Height |-> 0]
EmptyCloud == [p \in Place |-> EmptyCell]
Nowhere    == Max(Place) + 2 * CacheThreshold  \* lastRobotPosition at first
Apart(p, q) == IF p < q THEN q - p ELSE p - q

ObsInit ==
  /\ worldCloud = EmptyCloud /\ worlds = 0
  /\ robot \in Place
  /\ localWorldCloud = EmptyCloud /\ localMapInitialized = FALSE
  /\ lastRobotPosition = Nowhere
  /\ gridIndex = [p \in Place |-> <<>>] /\ gridIndexInitialized = FALSE
  /\ obs_raw = [at |-> Nowhere, points |-> {}]

-----------------------------------------------------------------------------
(* GridIndex3D                                                             *)

\* The sums of the heights stand for the centroid.
HeightLayer(z, n) == [min |-> z, max |-> z, count |-> n, sum |-> n * z]

BeyondGap(layer, z) == z - layer.max > LayerGap

\* buildGrid, for one cell: its points in the order of their heights.  A point joins
\* the current layer, or is beyond the gap and finishes it; a layer that is finished
\* is kept if it has enough points.
Joined(layer, z, n) == [layer EXCEPT !.max = z, !.count = @ + n, !.sum = @ + n * z]
Finished(c) ==
  IF c.current.count > 0 /\ c.current.count >= MergeMinPoints
    THEN Append(c.layers, c.current) ELSE c.layers
Clustered(c, z, n) ==
  IF c.current.count > 0 /\ ~BeyondGap(c.current, z)
    THEN [c EXCEPT !.current = Joined(@, z, n)]
    ELSE [layers |-> Finished(c), current |-> HeightLayer(z, n)]
NoClusters == [layers |-> <<>>, current |-> HeightLayer(0, 0)]
Layers(cell) ==
  LET upTo[z \in Height] ==
        LET below == IF z = 0 THEN NoClusters ELSE upTo[z - 1]
        IN  IF cell[z] = 0 THEN below ELSE Clustered(below, z, cell[z])
  IN  Finished(upTo[Max(Height)])

BuildGrid(cloud) == [p \in Place |-> Layers(cloud[p])]

\* The centroid of l is nearer to z than that of k.
Nearer(l, k, z) ==
  Apart(z * l.count, l.sum) * k.count < Apart(z * k.count, k.sum) * l.count

\* The first of the layers whose centroid is nearest.
ClosestLayer(layers, z) ==
  layers[Min({i \in DOMAIN layers : \A j \in DOMAIN layers : ~Nearer(layers[j], layers[i], z)})]

\* A slip: the height over a layer is measured from its centroid.
ObstacleOnGridByCentroid(layers, z) ==
  LET layer == ClosestLayer(layers, z)
  IN  Apart(z * layer.count, layer.sum) >= GridThreshold * layer.count

ObstacleOnGrid(layers, z) ==
  LET layer == ClosestLayer(layers, z)
  IN  /\ z \notin layer.min - Tolerance .. layer.max + Tolerance
      /\ z - layer.max >= GridThreshold \/ layer.min - z >= GridThreshold

\* Without an index any point of the map far enough below makes an obstacle.
ObstacleByFallback(cell, z) ==
  \E below \in Height : cell[below] > 0 /\ z - below >= FallbackThreshold

\* A point in a cell without layers is no obstacle: the search does not fall
\* back for it.
ObstacleFound(p, z) ==
  IF gridIndexInitialized' /\ \E q \in Place : gridIndex'[q] # <<>>
    THEN gridIndex'[p] # <<>> /\ ObstacleOnGrid(gridIndex'[p], z)
    ELSE ObstacleByFallback(localWorldCloud'[p], z)

-----------------------------------------------------------------------------

Window(center) == {p \in Place : Apart(p, center) <= LocalMapSize}

\* updateLocalMap: what is cached is used until the robot is far from where it
\* was cached.
UsesCache == localMapInitialized /\ Apart(robot, lastRobotPosition) < CacheThreshold
CacheLocalMap ==
  /\ localMapInitialized' = TRUE
  /\ lastRobotPosition' = robot
  /\ localWorldCloud' = [p \in Place |-> IF p \in Window(robot) THEN worldCloud[p] ELSE EmptyCell]
  /\ gridIndexInitialized' = (localWorldCloud' # EmptyCloud)
  /\ gridIndex' = IF gridIndexInitialized' THEN BuildGrid(localWorldCloud') ELSE gridIndex

\* A slip: the position is remembered each time.
UpdateLocalMapCreeping ==
  IF UsesCache THEN /\ lastRobotPosition' = robot
                    /\ UNCHANGED <<localWorldCloud, localMapInitialized, gridIndex,
                                   gridIndexInitialized>>
               ELSE CacheLocalMap

UpdateLocalMap == IF UsesCache THEN UNCHANGED mapCache ELSE CacheLocalMap

\* rcvLidarCallBack: nothing is done without a map.  The transform of the
\* LiDAR may be missing after the local map was updated.
RcvLidarCallBack ==
  /\ worldCloud # EmptyCloud
  /\ UpdateLocalMap
  /\ \/ obs_raw' = [at |-> robot,
                    points |-> {pt \in Window(robot) \X Height : ObstacleFound(pt[1], pt[2])}]
     \/ UNCHANGED obs_raw
  /\ UNCHANGED <<worldCloud, worlds, robot>>

\* rcvWorldCallBack: the cached map is not touched.
RcvWorldCallBack(cloud) ==
  /\ worlds < MaxWorlds
  /\ worldCloud' = cloud /\ worlds' = worlds + 1
  /\ UNCHANGED <<robot, mapCache, obs_raw>>

\* The robot, external: it moves to a cell next to its own.
RobotMoves(to) ==
  /\ Apart(robot, to) = 1
  /\ robot' = to
  /\ UNCHANGED <<worldCloud, worlds, mapCache, obs_raw>>

ObsNext ==
  \/ RcvLidarCallBack
  \/ \E cloud \in Worlds : RcvWorldCallBack(cloud)
  \/ \E to \in Place : RobotMoves(to)

ObsSpec == ObsInit /\ [][ObsNext]_obsVars

-----------------------------------------------------------------------------
(* Properties                                                              *)

\* Every variable keeps its type, and the index is in use while it is the one
\* of the local map.
ObsTypeOK ==
  /\ worldCloud = EmptyCloud \/ worldCloud \in Worlds
  /\ worlds \in 0 .. MaxWorlds
  /\ robot \in Place /\ lastRobotPosition \in Place \cup {Nowhere}
  /\ localMapInitialized = (lastRobotPosition # Nowhere)
  /\ gridIndexInitialized = (localWorldCloud # EmptyCloud)
  /\ localWorldCloud \in [Place -> [Height -> Nat]]
  /\ DOMAIN gridIndex = Place
  /\ obs_raw.at \in Place \cup {Nowhere} /\ obs_raw.points \subseteq Place \X Height

\* The heights of a cell at which there are points, in groups: two are in one
\* group when no gap between them is beyond the threshold.
Occupied(cell) == {z \in Height : cell[z] > 0}
Group(cell, z) ==
  {y \in Occupied(cell) :
     \A x \in Occupied(cell) : (x >= Min({y, z}) /\ x < Max({y, z}))
        => \E w \in Occupied(cell) : w > x /\ w - x <= LayerGap}
PointsIn(cell, g) == MapThenSumSet(LAMBDA z : cell[z], g)
Groups(cell) ==
  {g \in {Group(cell, z) : z \in Occupied(cell)} : PointsIn(cell, g) >= MergeMinPoints}

\* A point of the LiDAR that is far from everything the map knows in its cell
\* is published as an obstacle, and one that is near everything it knows there
\* is not.
FarFrom(g, z) == z - Max(g) >= GridThreshold \/ Min(g) - z >= GridThreshold
NewThingsAreObstacles ==
  [][obs_raw' # obs_raw =>
       \A p \in Window(robot) :
         LET known == Groups(localWorldCloud'[p])
         IN  \A z \in Height :
               /\ (known # {} /\ \A g \in known : FarFrom(g, z))
                    => <<p, z>> \in obs_raw'.points
               /\ (known # {} /\ \A g \in known : ~FarFrom(g, z))
                    => <<p, z>> \notin obs_raw'.points]_obsVars

\* However slowly the robot creeps along, what is near it is judged against the
\* map it was sent, not against a window cached somewhere else.
NearbyIsKnown ==
  [][obs_raw' # obs_raw /\ worlds = 1 =>
       \A p \in Place : Apart(p, robot) <= LocalMapSize - CacheThreshold + 1 =>
         localWorldCloud'[p] = worldCloud[p]]_obsVars
=============================================================================
