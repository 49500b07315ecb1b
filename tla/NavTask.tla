------------------------------- MODULE NavTask -------------------------------
(***************************************************************************)
(* What the global planner promises to whoever sends it goals: it works on *)
(* one task at a time, a task keeps the goal it was accepted with through  *)
(* planning, tracking and alignment, and a task that has ended, in         *)
(* whatever way, holds no goal until the next one is accepted.             *)
(***************************************************************************)
CONSTANTS Goal, NoGoal

VARIABLES phase,   \* the value of /navigation_state
          goal     \* the goal of the task under way, or NoGoal

taskVars == <<phase, goal>>

Active == {"GLOBAL_PLANNING", "TRACKING", "GOAL_ALIGN"}
Ended  == {"WAITING", "COMPLETED", "ABORTED"}

Init == phase = "WAITING" /\ goal = NoGoal

\* A goal is accepted at any time and preempts the task under way.
Accept(g) == phase' = "GLOBAL_PLANNING" /\ goal' = g

\* A path has been found; a task being tracked may be given a new path.
Route == phase = "GLOBAL_PLANNING" /\ phase' = "TRACKING" /\ UNCHANGED goal

\* The goal position has been reached.
Arrive == phase = "TRACKING" /\ phase' = "GOAL_ALIGN" /\ UNCHANGED goal

\* The heading is right as well: only an aligned task completes.
Complete == phase = "GOAL_ALIGN" /\ phase' = "COMPLETED" /\ goal' = NoGoal

Abort == phase \in Active /\ phase' = "ABORTED" /\ goal' = NoGoal

Cancel == phase \in Active /\ phase' = "WAITING" /\ goal' = NoGoal

Next == (\E g \in Goal : Accept(g)) \/ Route \/ Arrive \/ Complete \/ Abort \/ Cancel

Safety == Init /\ [][Next]_taskVars
==============================================================================
