---------------------------- MODULE MCPerception ----------------------------
(***************************************************************************)
(* What the robot knows of where it is and of what is around it, for TLC,   *)
(* one part of it at a time: the k-d tree of the LiDAR odometry, the way of *)
(* its scans and samples, the cube of its local map, the global             *)
(* localisation and the obstacle processor.  They run in nodes of their     *)
(* own, but for the first three, which the main loop of the odometry        *)
(* enters one after the other.                                             *)
(*                                                                         *)
(* The points of the tree lie on a line, and a box is a stretch of it with  *)
(* the one in the middle.  The obstacle processor's maps have any cell in   *)
(* the middle of the row with floor beside it, or the floor with a hole.    *)
(***************************************************************************)
EXTENDS IkdTree, LioFrontEnd, LocalMap, GlobalLocalization, ObstacleProcessor

Stretches == {b \in SUBSET Points : 2 \in b /\ b = Points \cap (Min(b) .. Max(b))}

Floor == [z \in Height |-> IF z = 0 THEN MergeMinPoints ELSE 0]
Cells == {cell \in [Height -> 0 .. MergeMinPoints] :
            MapThenSumSet(LAMBDA z : cell[z], Height) <= 2 * MergeMinPoints}
Around(cell, rest) == [p \in Place |-> IF p = 2 THEN cell ELSE rest]
MCWorlds == {Around(cell, Floor) : cell \in Cells} \cup {Around(Floor, EmptyCell)}

VARIABLE component

perceptionVars == <<component, ikdVars, lioVars, mapVars, locVars, obsVars>>

PerceptionInit ==
  /\ component \in {"tree", "scans", "cube", "localisation", "obstacles"}
  /\ component = "scans" \/ last_lidar_end_time = 0
  /\ component = "obstacles" \/ robot = 0
  /\ LioInit /\ IkdInit /\ MapInit /\ LocInit /\ ObsInit

PerceptionNext ==
  /\ UNCHANGED component
  /\ \/ /\ component = "tree" /\ IkdNext
        /\ UNCHANGED <<lioVars, mapVars, locVars, obsVars>>
     \/ /\ component = "scans" /\ LioNext
        /\ UNCHANGED <<ikdVars, mapVars, locVars, obsVars>>
     \/ /\ component = "cube" /\ MapNext
        /\ UNCHANGED <<ikdVars, lioVars, locVars, obsVars>>
     \/ /\ component = "localisation" /\ LocNext
        /\ UNCHANGED <<ikdVars, lioVars, mapVars, obsVars>>
     \/ /\ component = "obstacles" /\ ObsNext
        /\ UNCHANGED <<ikdVars, lioVars, mapVars, locVars>>

\* The tree's threads go on; the rebuild thread, which looks every microsecond
\* whether there is nobody in the part, finds it so between two scans.  Of the
\* localisation, odometry and scans keep coming, a callback once begun goes on, and
\* so does the thread.  What an action cannot leave as it is stands for all
\* variables in the subscripts.
PerceptionFairness ==
  /\ WF_<<step, todo>>(component = "tree" /\ (Proceed \/ EndSearch))
  /\ \A s \in Searchers : WF_searching(component = "tree" /\ Search(s))
  /\ SF_<<rebuilding, Rebuild_Logger>>(component = "tree" /\ RebuildThread)
  /\ WF_odom_step(component = "localisation" /\ CallbackBaselink2Odom)
  /\ WF_pose_step(component = "localisation" /\ pose_step # "idle" /\ CallbackInitialPose)
  /\ WF_scanVars(component = "localisation" /\ CallbackScan)
  /\ WF_thread_step(component = "localisation" /\ Localization)

PerceptionSpec == PerceptionInit /\ [][PerceptionNext]_perceptionVars /\ PerceptionFairness
=============================================================================
