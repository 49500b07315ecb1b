------------------------------- MODULE LocalMap -------------------------------
(***************************************************************************)
(* lasermap_fov_segment: the cube of the map that follows the robot.  When  *)
(* the robot comes near a side, the cube is shifted along that axis and     *)
(* what it leaves is deleted from the k-d tree, a box for each axis.  Boxes *)
(* are half open, as Delete_by_range reads them.  One action is one scan.   *)
(***************************************************************************)
EXTENDS Integers

CONSTANTS
  Axis,      \* the axes
  CubeLen,   \* cube_len
  HalfRange, \* half of DET_RANGE; MOV_THRESHOLD is three halves
  MaxStep,   \* how far the robot moves from scan to scan, on each axis
  MaxPos     \* bound: how far it gets from where it started

Threshold == 3 * HalfRange  \* MOV_THRESHOLD * DET_RANGE

\* mov_dist; (MOV_THRESHOLD - 1) * DET_RANGE is HalfRange.
MovDist ==
  LET share == (9 * (CubeLen - 2 * Threshold)) \div 20
  IN  IF share > HalfRange THEN share ELSE HalfRange

\* The cube has room for the robot between its thresholds, and the robot moves
\* less from scan to scan than the cube is shifted.
ASSUME LocalMapAssumption ==
  /\ CubeLen \in Nat /\ HalfRange \in Nat \ {0} /\ MaxPos \in Nat
  /\ CubeLen % 2 = 0 /\ CubeLen > 2 * Threshold
  /\ MaxStep \in 0 .. HalfRange

VARIABLES
  pos_LiD,                 \* where the LiDAR is, on each axis
  Localmap_Initialized,
  vertex_min,              \* LocalMap_Points; vertex_max is CubeLen further
  cub_needrm               \* the boxes deleted by the last scan

mapVars == <<pos_LiD, Localmap_Initialized, vertex_min, cub_needrm>>

Box(min, max) == [min |-> min, max |-> max]
Cube(min)     == Box(min, [a \in Axis |-> min[a] + CubeLen])

MapInit ==
  /\ pos_LiD = [a \in Axis |-> 0]
  /\ Localmap_Initialized = FALSE
  /\ vertex_min = [a \in Axis |-> 0]
  /\ cub_needrm = {}

\* A slip: only when the side is passed.
NearMinLate(pos, a) == pos[a] < vertex_min[a]

\* need_move, for either side.  The distances are absolute: a robot that has
\* got far beyond a side is near none.
NearMin(pos, a) == pos[a] - vertex_min[a] \in -Threshold .. Threshold
NearMax(pos, a) == vertex_min[a] + CubeLen - pos[a] \in -Threshold .. Threshold

\* A slip: the sides of the other axes are those of the shifted cube.
LeftOnShifted(to, a) ==
  LET box == [Cube(to) EXCEPT !.min[a] = vertex_min[a], !.max[a] = vertex_min[a] + CubeLen]
  IN  IF to[a] < vertex_min[a] THEN [box EXCEPT !.min[a] = to[a] + CubeLen]
                               ELSE [box EXCEPT !.max[a] = to[a]]

\* tmp_boxpoints: what the cube leaves along an axis, on its side that is left.
LeftOn(to, a) ==
  LET box == Cube(vertex_min)
  IN  IF to[a] < vertex_min[a] THEN [box EXCEPT !.min[a] = to[a] + CubeLen]
                               ELSE [box EXCEPT !.max[a] = to[a]]

\* New_LocalMap_Points
Shifted(pos) ==
  [a \in Axis |-> vertex_min[a] + IF NearMin(pos, a) THEN -MovDist
                                   ELSE IF NearMax(pos, a) THEN MovDist ELSE 0]

LasermapFovSegment(pos) ==
  /\ pos_LiD' = pos
  /\ Localmap_Initialized' = TRUE
  /\ IF ~Localmap_Initialized
       THEN /\ vertex_min' = [a \in Axis |-> pos[a] - CubeLen \div 2]
            /\ cub_needrm' = {}
       ELSE LET to == Shifted(pos)
            IN  /\ vertex_min' = to
                /\ cub_needrm' = {LeftOn(to, a) : a \in {b \in Axis : to[b] # vertex_min[b]}}

\* The robot, external: it moves a little on each axis.
MapNext ==
  \E pos \in [Axis -> -MaxPos .. MaxPos] :
    /\ \A a \in Axis : pos[a] - pos_LiD[a] \in -MaxStep .. MaxStep
    /\ LasermapFovSegment(pos)

MapSpec == MapInit /\ [][MapNext]_mapVars

-----------------------------------------------------------------------------
(* Properties                                                              *)

\* Every variable keeps its type.
MapTypeOK ==
  /\ pos_LiD \in [Axis -> Int] /\ vertex_min \in [Axis -> Int]
  /\ Localmap_Initialized \in BOOLEAN
  /\ cub_needrm \subseteq [min : [Axis -> Int], max : [Axis -> Int]]

\* After a scan the robot is never nearer to a side of the cube than half the
\* detection range, however often the cube was shifted, and to whichever side:
\* it cannot get beyond a side before the next scan, where the absolute
\* distances would lose it.
RobotWellInside ==
  Localmap_Initialized =>
    \A a \in Axis : /\ pos_LiD[a] - vertex_min[a] >= HalfRange
                    /\ vertex_min[a] + CubeLen - pos_LiD[a] >= HalfRange

\* What a shift deletes is what the cube leaves: no point of the new cube is
\* deleted, and no point of the old one stays outside it, corners included.
\* The points beside the sides of the two cubes decide it for all.
BesideSides ==
  {min[a] + d : min \in {vertex_min, vertex_min'}, a \in Axis, d \in {-1, 0, CubeLen - 1, CubeLen}}
Within(box, p) == \A a \in Axis : p[a] \in box.min[a] .. box.max[a] - 1
DeletesWhatItLeaves ==
  [][Localmap_Initialized /\ vertex_min' # vertex_min =>
       \A p \in [Axis -> BesideSides] :
         (\E box \in cub_needrm' : Within(box, p))
           <=> Within(Cube(vertex_min), p) /\ ~Within(Cube(vertex_min'), p)]_mapVars
=============================================================================
