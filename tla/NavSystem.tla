------------------------------ MODULE NavSystem ------------------------------
(***************************************************************************)
(* The planner, the path smoother, the local planner and the controller,   *)
(* connected by their topics, and the robot that obeys /cmd_vel.  A topic  *)
(* keeps the order of its messages, two topics do not wait for each other. *)
(* The controller runs in AUTO; obstacles and localisation jumps are left  *)
(* to the module of the planner.                                           *)
(***************************************************************************)
EXTENDS Integers, Sequences, FiniteSets

CONSTANTS
  Point, Vertex, Free, Adj, Cost, Dist, StepSize,          \* the roadmap
  Headings, NoGoal, PosTol, PosTolExit, ReplanTicks,       \* the planner
  AutoReplan,                                              \* auto_replan_
  ManualTag,                                               \* the controller
  Cancels,        \* somebody may send cancel requests
  EndHeadingKept, \* smoothing keeps the heading at the end of the path
  MaxGoals,       \* bound: goals sent to the planner
  QueueBound      \* bound: messages waiting on one topic

ASSUME NavSystemAssumption ==
  /\ {Cancels, EndHeadingKept} \subseteq BOOLEAN
  /\ MaxGoals \in Nat /\ QueueBound \in Nat \ {0}

VARIABLES
  nav_state, has_goal, goal_pose, last_path, force_replan, vertex_blocked,
  since_replan, pose, sent,                                  \* planner
  local_nav_state, ref_path, goal_yaw, current_yaw, state_received, rotation,
  direction_set, local_plan, plan_sent, blocked_on_itself,   \* local planner
  mode, manual_v, plan, cmd, pc, ros_up,                     \* controller
  planned,     \* the path waiting for the smoother, in a sequence of at most one
  smoothed,    \* /path_smooth: paths waiting for the local planner
  announced,   \* /navigation_state: states waiting for the local planner
  plans,       \* /local_plan: plans waiting for the controller
  goals,       \* number of goals sent so far
  checked      \* the planner has run since the robot last turned

mission    == <<nav_state, has_goal, goal_pose, last_path, force_replan,
                vertex_blocked, since_replan>>
planner    == <<mission, pose, sent>>
follower   == <<local_nav_state, ref_path, goal_yaw, current_yaw, state_received,
                rotation, direction_set, local_plan, blocked_on_itself>>
local      == <<follower, plan_sent>>
controller == <<mode, manual_v, plan, cmd, pc, ros_up>>
topics     == <<planned, smoothed, announced, plans>>
vars       == <<planner, local, controller, topics, goals, checked>>

Heading == 0 .. Headings - 1
Pose    == [at : Point, yaw : Heading]

\* What the nodes themselves assume of the constants they share.
ASSUME ChainAssumption ==
  /\ Vertex \subseteq Point /\ Free \subseteq Point
  /\ Adj \in [Vertex -> SUBSET Vertex]
  /\ Cost \in [Vertex -> [Vertex -> Nat]]
  /\ Dist \in [Point -> [Point -> Nat]]
  /\ {StepSize, PosTol, PosTolExit} \subseteq Nat
  /\ {Headings, ReplanTicks} \subseteq Nat \ {0}
  /\ AutoReplan \in BOOLEAN
  /\ NoGoal \notin Pose

P == INSTANCE NavPlanner WITH Yaw <- Heading
L == INSTANCE LocalPlanner WITH Goal <- Pose, Controls <- {<<1, 0>>}
C == INSTANCE Controller WITH
       Command <- L!Command, Zero <- L!Zero, Keys <- {""}, MaxSpeed <- 1, StartInAuto <- TRUE

Init ==
  /\ P!Init /\ L!Init /\ C!Init
  /\ planned = <<>> /\ smoothed = <<>> /\ plans = <<>>
  /\ announced = <<"WAITING">>
  /\ goals = 0
  /\ checked = TRUE

\* A step of another node or of the robot; sent and plan_sent tell what the
\* last step published.
PlannerRests == UNCHANGED <<mission, pose>> /\ sent' = P!Nothing
LocalRests   == UNCHANGED follower /\ plan_sent' = <<>>

\* A slip: the queue keeps the oldest message and drops the newer one.
FirstOnly(s) == IF s = <<>> THEN <<>> ELSE <<s[1]>>

LastOnly(s) == IF s = <<>> THEN <<>> ELSE <<s[Len(s)]>>

\* What a planner step has published reaches the topics; /planned_path keeps
\* one message, the newest.
PlannerPublishes ==
  /\ announced' = announced \o sent'.states
  /\ Len(announced') <= QueueBound + 2
  /\ planned' = LastOnly(planned \o sent'.paths)

PlannerUpdate ==
  /\ P!Update
  /\ PlannerPublishes
  /\ checked' = TRUE
  /\ LocalRests
  /\ UNCHANGED <<controller, smoothed, plans, goals>>

SendGoal ==
  /\ goals < MaxGoals
  /\ P!GoalCb
  /\ PlannerPublishes
  /\ goals' = goals + 1
  /\ LocalRests
  /\ UNCHANGED <<controller, smoothed, plans, checked>>

\* A cancel request that finds a task.
Cancel ==
  /\ Cancels
  /\ nav_state \in P!Active
  /\ P!CancelNavigationCb
  /\ PlannerPublishes
  /\ LocalRests
  /\ UNCHANGED <<controller, smoothed, plans, goals, checked>>

\* pathCb of the smoother; the heading at the end is the goal's, or whatever
\* the tangent of the last curve is.
Smooth ==
  /\ planned # <<>> /\ Len(smoothed) < QueueBound
  /\ \E yaw \in IF EndHeadingKept THEN {planned[1].goal.yaw} ELSE Heading :
       smoothed' = Append(smoothed, [goal |-> planned[1].goal, yaw |-> yaw])
  /\ planned' = <<>>
  /\ PlannerRests /\ LocalRests
  /\ UNCHANGED <<controller, announced, plans, goals, checked>>

\* A slip: a plan that finds the queue full is dropped.
LocalPublishesIfRoom == plans' = IF Len(plans) < QueueBound THEN plans \o plan_sent' ELSE plans

\* The plans a local planner step publishes reach their topic.  The timer
\* leaves room for the zero plan of a callback, so that the bound delays a
\* callback but cannot keep it from running.
LocalPublishes ==
  /\ plans' = plans \o plan_sent'
  /\ Len(plans') <= QueueBound + 1

LocalPath ==
  /\ smoothed # <<>>
  /\ L!GlobalPathCallback(smoothed[1].goal, smoothed[1].yaw)
  /\ smoothed' = Tail(smoothed)
  /\ LocalPublishes
  /\ PlannerRests
  /\ UNCHANGED <<controller, planned, announced, goals, checked>>

LocalNavState ==
  /\ announced # <<>>
  /\ L!NavigationStateCallback(announced[1])
  /\ announced' = Tail(announced)
  /\ LocalPublishes
  /\ PlannerRests
  /\ UNCHANGED <<controller, planned, smoothed, goals, checked>>

\* /curr_state is sampled at a hundred hertz; a sample older than that is not
\* modelled, and neither is one that changes nothing.
LocalState ==
  /\ ~state_received \/ current_yaw # pose.yaw
  /\ L!CurrentStateCallback(pose.yaw)
  /\ LocalPublishes
  /\ PlannerRests
  /\ UNCHANGED <<controller, planned, smoothed, announced, goals, checked>>

LocalTimer ==
  /\ Len(plans) < QueueBound
  /\ L!PlanningTimer
  /\ LocalPublishes
  /\ PlannerRests
  /\ UNCHANGED <<controller, planned, smoothed, announced, goals, checked>>

ControllerPlan ==
  /\ plans # <<>>
  /\ C!LocalPlanCallback(<<plans[1]>>)
  /\ plans' = Tail(plans)
  /\ PlannerRests /\ LocalRests
  /\ UNCHANGED <<planned, smoothed, announced, goals, checked>>

ControllerLoop ==
  /\ C!ControlLoop
  /\ PlannerRests /\ LocalRests
  /\ UNCHANGED <<topics, goals, checked>>

\* A command to translate may lead anywhere.  A command to turn turns by one
\* heading, and not twice between two updates of the planner: at 1 rad/s and
\* ten updates a second the robot passes no heading unseen.
RobotMoves ==
  /\ IF cmd.v # 0 \/ cmd.to # NoGoal
       THEN pose' \in Pose /\ UNCHANGED checked
       ELSE /\ cmd.w # 0 /\ checked
            /\ pose' = [pose EXCEPT !.yaw = (@ + cmd.w) % Headings]
            /\ checked' = FALSE
  /\ sent' = P!Nothing
  /\ LocalRests
  /\ UNCHANGED <<mission, controller, topics, goals>>

Next ==
  \/ PlannerUpdate \/ SendGoal \/ Cancel \/ Smooth
  \/ LocalPath \/ LocalNavState \/ LocalState \/ LocalTimer
  \/ ControllerPlan \/ ControllerLoop \/ RobotMoves

\* Every node keeps spinning, every timer fires, every topic delivers and a
\* robot told to turn turns.  Nothing is said of goals and cancel requests.
Fairness ==
  /\ WF_vars(PlannerUpdate) /\ WF_vars(Smooth)
  /\ WF_vars(LocalPath) /\ WF_vars(LocalNavState) /\ WF_vars(LocalState)
  /\ WF_vars(LocalTimer)
  /\ WF_vars(ControllerPlan) /\ WF_vars(ControllerLoop)
  /\ WF_vars(RobotMoves /\ cmd.v = 0 /\ cmd.to = NoGoal)

Spec     == Init /\ [][Next]_vars
FairSpec == Spec /\ Fairness

-----------------------------------------------------------------------------
(* Properties                                                              *)

\* Every component keeps its types, and the topics hold what they carry.
TypeOK ==
  /\ P!TypeOK /\ L!TypeOK /\ C!TypeOK
  /\ planned \in Seq(P!Path) /\ smoothed \in Seq([goal : Pose, yaw : Heading])
  /\ announced \in Seq(P!NavState) /\ plans \in Seq(L!Command)
  /\ goals \in 0 .. MaxGoals /\ checked \in BOOLEAN

\* The local planner follows the planner's states one by one: what it has seen
\* together with what is still on its way ends in the planner's state.
LocalFollowsPlanner ==
  LET seen == <<local_nav_state>> \o announced IN seen[Len(seen)] = nav_state

\* A path of an earlier task is forgotten once the topics are empty: whichever
\* way its states and paths have overtaken each other, the local planner then
\* has the path of the current goal, or none until the next one comes.
NoStalePathAtRest ==
  (nav_state \in {"TRACKING", "GOAL_ALIGN"} /\ planned = <<>> /\ smoothed = <<>> /\ announced = <<>>)
    => ref_path \in {NoGoal, goal_pose}

\* A finished, aborted or cancelled task stops the robot, unless another task
\* begins before.
StopsAfterTask ==
  nav_state \in P!Idle ~> (~L!Moving(cmd) \/ nav_state \notin P!Idle)

\* A robot that has begun to turn on the spot is found aligned in the end, in
\* whichever direction and from whatever heading it began.
TurningAligns ==
  (nav_state = "GOAL_ALIGN" /\ local_nav_state = "GOAL_ALIGN" /\ rotation # 0)
    ~> nav_state # "GOAL_ALIGN"

-----------------------------------------------------------------------------
(* What the documents say                                                  *)

\* "In GOAL_ALIGN ... turns the robot to the goal's heading" (README of the
\* local planner): an alignment comes to an end.
AlignmentEnds == nav_state = "GOAL_ALIGN" ~> nav_state # "GOAL_ALIGN"

\* "COMPLETED/ABORTED clear the path": a path of an earlier task is not
\* tracked for the next goal.
TracksCurrentGoal ==
  (nav_state = "TRACKING" /\ local_nav_state = "TRACKING" /\ announced = <<>>)
    => ref_path \in {NoGoal, goal_pose}
=============================================================================
