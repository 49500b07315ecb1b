---------------------------- MODULE MCNavSystem ----------------------------
(***************************************************************************)
(* Two vertices five quarters of a metre apart, for TLC.                   *)
(***************************************************************************)
EXTENDS NavSystem
MCPoint == {"a", "b"}
MCAdj   == [v \in MCPoint |-> MCPoint \ {v}]
MCDist  == [p \in MCPoint |-> [q \in MCPoint |-> IF p = q THEN 0 ELSE 5]]

\* For the liveness run.  The two vertices are alike, and what the nodes do depends on
\* differences of headings only: the one the local planner starts with, which is 0,
\* is overwritten by the path that brings the robot to its goal.  So one goal, with
\* another heading than that, and a robot anywhere and turned any way stand for all.
TheGoal  == [at |-> "b", yaw |-> 1]
LiveSpec == Init /\ [][Next /\ goal_pose' \in {NoGoal, TheGoal}]_vars /\ Fairness
=============================================================================
