---------------------------- MODULE LocalPlanner ----------------------------
(***************************************************************************)
(* The NMPC local planner node.  One thread serves its subscriptions and   *)
(* its planning timer; a callback is one action.  The controls of a plan   *)
(* are abstracted to what they do: nothing, following the path to a goal,  *)
(* or turning on the spot.  Obstacles only shape the controls the solver   *)
(* returns and are left out.                                               *)
(***************************************************************************)
EXTENDS Integers, Sequences

CONSTANTS
  Goal,     \* the goals paths are planned for: a path is tagged with its goal
  NoGoal,   \* the tag of a command that follows no path
  Headings, \* number of headings a full turn is divided into
  Controls  \* the first controls of a solution: signs of v and omega

ASSUME LocalPlannerAssumption ==
  /\ Headings \in Nat \ {0} /\ NoGoal \notin Goal
  /\ Controls \subseteq {0, 1} \X {-1, 0, 1}

VARIABLES
  local_nav_state,  \* nav_state_ of this node
  ref_path,         \* global_path_'s goal, or NoGoal while ref_path_set_ is false
  goal_yaw,         \* goal_yaw_: the heading at the end of the last path received
  current_yaw,      \* current_state_[3]
  state_received,   \* state_received_
  rotation,         \* the sign of goal_align_rotation_speed_
  direction_set,    \* goal_align_direction_set_
  local_plan,       \* local_plan_: the command all its points hold
  plan_sent,        \* the plans published by the last step
  blocked_on_itself \* the thread waits for a mutex it holds

cache == <<ref_path, goal_yaw>>
align == <<rotation, direction_set>>
state == <<current_yaw, state_received>>
vars  == <<local_nav_state, cache, align, state, local_plan, plan_sent, blocked_on_itself>>

NavState == {"WAITING", "GLOBAL_PLANNING", "TRACKING", "GOAL_ALIGN", "COMPLETED", "ABORTED"}
Heading  == 0 .. Headings - 1
Command  == [v : {0, 1}, w : {-1, 0, 1}, to : Goal \cup {NoGoal}]

Twist(v, w, to) == [v |-> v, w |-> w, to |-> to]
Zero            == Twist(0, 0, NoGoal)
Moving(c)       == c.v # 0 \/ c.w # 0

Init ==
  /\ local_nav_state = "WAITING"
  /\ ref_path = NoGoal /\ goal_yaw = 0
  /\ current_yaw = 0 /\ state_received = FALSE
  /\ rotation = 0 /\ direction_set = FALSE
  /\ local_plan = Zero
  /\ plan_sent = <<>>
  /\ blocked_on_itself = FALSE

PublishPlan(c) == local_plan' = c /\ plan_sent' = <<c>>
PublishNothing == plan_sent' = <<>> /\ UNCHANGED local_plan

\* globalPathCallback: a path is never empty here; its end is kept as the goal.
GlobalPathCallback(goal, endYaw) ==
  /\ ~blocked_on_itself
  /\ ref_path' = goal
  /\ goal_yaw' = endYaw
  /\ PublishNothing
  /\ UNCHANGED <<local_nav_state, align, state, blocked_on_itself>>

\* updateGoalAlignDirection: the shorter way round, nothing when the heading
\* is right already, to the left when there is no state yet.
AlignDirection ==
  LET yawError == (goal_yaw - current_yaw) % Headings
  IN  IF ~state_received THEN 1
      ELSE IF yawError = 0 THEN 0
      ELSE IF 2 * yawError <= Headings THEN 1 ELSE -1

\* currentStateCallback
CurrentStateCallback(yaw) ==
  /\ ~blocked_on_itself
  /\ current_yaw' = yaw
  /\ state_received' = TRUE
  /\ PublishNothing
  /\ UNCHANGED <<local_nav_state, cache, align, local_plan, blocked_on_itself>>

\* Slips: a task ends without a zero plan; no direction is chosen on entering
\* GOAL_ALIGN.
NavigationStateCallbackSilent(s) ==
  /\ ~blocked_on_itself
  /\ PublishNothing
  /\ ref_path' = IF s \in {"COMPLETED", "ABORTED"} THEN NoGoal ELSE ref_path
  /\ local_nav_state' = s
  /\ direction_set' = (s = "GOAL_ALIGN")
  /\ rotation' = IF s = "GOAL_ALIGN" THEN AlignDirection ELSE 0
  /\ UNCHANGED <<goal_yaw, state, blocked_on_itself>>
NavigationStateCallbackUndirected(s) ==
  /\ ~blocked_on_itself
  /\ IF s # local_nav_state /\ s \in {"COMPLETED", "ABORTED"}
       THEN ref_path' = NoGoal /\ PublishPlan(Zero)
       ELSE UNCHANGED ref_path /\ PublishNothing
  /\ local_nav_state' = s
  /\ UNCHANGED <<goal_yaw, align, state, blocked_on_itself>>

\* navigationStateCallback: the end of a task empties the path cache and
\* publishes a zero plan at once, before the state is taken over.
NavigationStateCallback(s) ==
  /\ ~blocked_on_itself
  /\ IF s # local_nav_state /\ s \in {"COMPLETED", "ABORTED"}
       THEN ref_path' = NoGoal /\ PublishPlan(Zero)
       ELSE UNCHANGED ref_path /\ PublishNothing
  /\ local_nav_state' = s
  /\ direction_set' = (s = "GOAL_ALIGN")
  /\ rotation' = IF s = "GOAL_ALIGN" THEN AlignDirection ELSE 0
  /\ UNCHANGED <<goal_yaw, state, blocked_on_itself>>

\* planningTimerCallback, one action per state it does something in.
\* Whatever the solver, its fallback or an exception yields: the plan follows
\* the cached path, or holds zeros.
TimerTracking ==
  /\ ~blocked_on_itself
  /\ local_nav_state = "TRACKING"
  /\ ref_path # NoGoal /\ state_received
  /\ \E c \in {Twist(u[1], u[2], ref_path) : u \in Controls} \cup {Zero} : PublishPlan(c)
  /\ UNCHANGED <<local_nav_state, cache, align, state, blocked_on_itself>>

\* performPlanning locks the state mutex; without a direction it would call
\* updateGoalAlignDirection, which locks it again.
TimerAlign ==
  /\ ~blocked_on_itself
  /\ local_nav_state = "GOAL_ALIGN" /\ state_received
  /\ IF direction_set
       THEN PublishPlan(Twist(0, rotation, NoGoal)) /\ UNCHANGED blocked_on_itself
       ELSE PublishNothing /\ blocked_on_itself' = TRUE
  /\ UNCHANGED <<local_nav_state, cache, align, state>>

TimerEnded ==
  /\ ~blocked_on_itself
  /\ local_nav_state \in {"COMPLETED", "ABORTED"}
  /\ PublishPlan(Zero)
  /\ UNCHANGED <<local_nav_state, cache, align, state, blocked_on_itself>>

PlanningTimer == TimerTracking \/ TimerAlign \/ TimerEnded

\* What the global planner announces: a late subscriber starts with any state
\* (the topic is latched), after that each state follows from the one before.
\* External to this node; NavSystem replaces it by the planner itself.
Announced(from) ==
  CASE from = "WAITING"         -> NavState
    [] from = "GLOBAL_PLANNING" -> {"TRACKING", "ABORTED"}
    [] from = "TRACKING"        -> {"GOAL_ALIGN", "ABORTED"}
    [] from = "GOAL_ALIGN"      -> {"COMPLETED", "ABORTED"}
    [] from = "COMPLETED"       -> {"GLOBAL_PLANNING"}
    [] from = "ABORTED"         -> {"WAITING", "GLOBAL_PLANNING"}

Next ==
  \/ \E g \in Goal, y \in Heading : GlobalPathCallback(g, y)
  \/ \E y \in Heading : CurrentStateCallback(y)
  \/ \E s \in Announced(local_nav_state) : NavigationStateCallback(s)
  \/ PlanningTimer

Spec == Init /\ [][Next]_vars

-----------------------------------------------------------------------------
(* Properties                                                              *)

\* Every variable keeps its type.
TypeOK ==
  /\ local_nav_state \in NavState
  /\ ref_path \in Goal \cup {NoGoal} /\ goal_yaw \in Heading
  /\ current_yaw \in Heading /\ state_received \in BOOLEAN
  /\ rotation \in {-1, 0, 1} /\ direction_set \in BOOLEAN
  /\ local_plan \in Command /\ plan_sent \in Seq(Command)
  /\ blocked_on_itself \in BOOLEAN

\* The timer never finds GOAL_ALIGN without a direction: it would lock the
\* state mutex twice and the node would stop for ever, its last plan standing.
NeverBlocksOnItself == ~blocked_on_itself

\* The plan left standing never moves the robot outside TRACKING and
\* GOAL_ALIGN.  WAITING and GLOBAL_PLANNING publish nothing, so this rests on
\* the zero plan of the task's end and on the order the states come in.
PlanMovesOnlyOnTask ==
  Moving(local_plan) => local_nav_state \in {"TRACKING", "GOAL_ALIGN"}

\* The robot turns towards the heading it was given when it started to turn,
\* and never the other way because of a path or a pose that comes later; it
\* never translates while it aligns, once the first aligning plan is out.
AlignKeepsDirection ==
  [][local_nav_state = "GOAL_ALIGN" /\ local_nav_state' = "GOAL_ALIGN"
       => /\ rotation' = rotation
          /\ plan_sent' # <<>> => plan_sent' = <<Twist(0, rotation, NoGoal)>>]_vars
=============================================================================
