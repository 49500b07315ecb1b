----------------------------- MODULE MCRoadmap -----------------------------
(***************************************************************************)
(* Maps for the roadmap of planning_3d: every map of a few levels of a tower *)
(* and of two towers of two levels; heights of which one hides several       *)
(* others; a floor that is wide enough for the margin; one above another;    *)
(* two with a gap between them that an edge could span; and a ramp.         *)
(***************************************************************************)
EXTENDS Roadmap

MCUninitialised == {-5000, 0, 5000}

NonEmpty(box) == SUBSET box \ {{}}

Rubble   == {<<0, y, 0>> : y \in 0 .. 4} \cup {<<1, y, 1>> : y \in 0 .. 4}
            \cup {<<2, y, -1>> : y \in 0 .. 4} \cup {<<3, 2, 5>>}
Floor    == (0 .. 6) \X (0 .. 4) \X {0}
Storeys  == Floor \cup ((1 .. 6) \X (0 .. 4) \X {5})
Islands  == ((0 .. 4) \cup (6 .. 10)) \X (0 .. 4) \X {0}
Ramp     == {<<x, y, z>> \in (0 .. 6) \X (0 .. 4) \X (0 .. 3) : z = x \div 2}
MCWorlds ==
  NonEmpty({0} \X {0} \X {0, 2, 8, 16}) \cup NonEmpty((0 .. 1) \X {0} \X {0, 5})
    \cup {Rubble, Floor, Storeys, Islands, Ramp}

\* The radius is compared with squared distances: 1.0 with voxels of 0.4 m in
\* 3d_planning.launch, and 0.5 with voxels of 0.2 m in bringup_navigation.launch, so
\* squared distances of six and of twelve voxels are the largest.
MCDeployedRadius == [steps \in {4, 2} |-> IF steps = 4 THEN 7 ELSE 13]

ASSUME MCFineSteps == FineSteps(MCDeployedRadius[StepsPerVoxel])
=============================================================================
