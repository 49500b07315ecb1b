----------------------------- MODULE NavPlanner -----------------------------
(***************************************************************************)
(* The navigation state machine of the global planner (PRMAStarPlanner).   *)
(* One thread runs update() ten times a second and, between two updates,   *)
(* the callbacks that are due: a goal, a cancel request, an obstacle       *)
(* message.  A handler is one action; what it publishes is left in sent    *)
(* for the nodes that subscribe.                                           *)
(***************************************************************************)
EXTENDS PrmGraph

CONSTANTS
  Yaw,          \* headings, equal when they differ by less than yaw_tol_
  NoGoal,       \* the goal pose before the first goal
  PosTol,       \* pos_tol_: entering GOAL_ALIGN
  PosTolExit,   \* pos_tol_exit_: leaving GOAL_ALIGN
  AutoReplan,   \* auto_replan_
  ReplanTicks   \* the replanning interval, in periods of the main loop

ASSUME PlannerAssumption ==
  /\ NoGoal \notin [at : Point, yaw : Yaw]
  /\ PosTol \in Nat /\ PosTolExit \in Nat
  /\ AutoReplan \in BOOLEAN
  /\ ReplanTicks \in Nat \ {0}

VARIABLES
  nav_state,       \* nav_state_
  has_goal,        \* has_goal_
  goal_pose,       \* goal_pose_ and goal_yaw_, after snapping
  last_path,       \* last_path_, tagged with the goal it was planned for
  force_replan,    \* force_replan_
  vertex_blocked,  \* the vertices whose vertex_blocked_ flag is set
  since_replan,    \* loop periods since last_replan_time_, up to ReplanTicks
  pose,            \* the robot's pose, as the transform map -> robot gives it
  sent             \* the messages published by the last step, in order

task   == <<nav_state, has_goal, goal_pose, last_path, force_replan>>
vars   == <<task, vertex_blocked, since_replan, pose, sent>>

NavState == {"WAITING", "GLOBAL_PLANNING", "TRACKING",
             "GOAL_ALIGN", "COMPLETED", "ABORTED"}
Idle     == {"WAITING", "COMPLETED", "ABORTED"}
Active   == NavState \ Idle

Pose   == [at : Point, yaw : Yaw]
Path   == [route : Seq(Vertex), goal : Pose \cup {NoGoal}]
NoPath == [route |-> <<>>, goal |-> NoGoal]

\* What a step publishes: on /navigation_state, and on /planned_path.
Publish(states, paths) == [states |-> states, paths |-> paths]
Nothing == Publish(<<>>, <<>>)

PosErr  == Dist[pose.at][goal_pose.at]
Aligned == pose.yaw = goal_pose.yaw

\* Time since last_replan_time_ when this period's update() runs.
Elapsed == IF since_replan < ReplanTicks THEN since_replan + 1 ELSE ReplanTicks

Init ==
  /\ nav_state = "WAITING"
  /\ has_goal = FALSE
  /\ goal_pose = NoGoal
  /\ last_path = NoPath
  /\ force_replan = FALSE
  /\ vertex_blocked = {}
  /\ since_replan = 0
  /\ pose \in Pose
  /\ sent = Publish(<<"WAITING">>, <<>>)

\* A slip: the state is set and not published.
SetNavStateQuiet(s) == <<>>

\* setNavState: says nothing when the state does not change.
SetNavState(s) == IF s = nav_state THEN <<>> ELSE <<s>>

-----------------------------------------------------------------------------
(* update(): one action per state of the machine.                          *)

\* What computePath may return here; without a goal it is not even called.
PlanOutcomes ==
  IF has_goal
    THEN UNION {PlanResults(s, goal_pose.at, vertex_blocked) : s \in SnapToFree(pose.at)}
    ELSE {<<>>}

\* performGlobalPlanning.  before is what this update has published already,
\* stamp the age of last_replan_time_ when the plan fails.
PerformGlobalPlanning(before, stamp) ==
  \E r \in PlanOutcomes :
    LET path == [route |-> r, goal |-> goal_pose] IN
    \/ /\ r # <<>>
       /\ nav_state' = "TRACKING"
       /\ last_path' = path
       /\ since_replan' = 0
       /\ sent' = Publish(SetNavState("TRACKING"), Append(before, path))
       /\ UNCHANGED has_goal
    \/ /\ r = <<>>
       /\ nav_state' = "ABORTED"
       /\ has_goal' = FALSE
       /\ last_path' = IF has_goal THEN NoPath ELSE last_path
       /\ since_replan' = stamp
       /\ sent' = Publish(SetNavState("ABORTED"), before)

\* Slips: the end of a task forgets to release its goal, or its path.
EndTaskKeepingGoal(s) == nav_state' = s /\ last_path' = NoPath /\ UNCHANGED has_goal
EndTaskKeepingPath(s) == nav_state' = s /\ has_goal' = FALSE /\ UNCHANGED last_path

\* A finished task: both checkGoalAlignment outcomes and the planning failure
\* clear the goal and the path.
EndTask(s) ==
  /\ nav_state' = s
  /\ has_goal' = FALSE
  /\ last_path' = NoPath

UpdateIdle ==
  /\ nav_state \in Idle
  /\ since_replan' = Elapsed
  /\ sent' = Nothing
  /\ UNCHANGED <<task, vertex_blocked, pose>>

UpdatePlanning ==
  /\ nav_state = "GLOBAL_PLANNING"
  /\ PerformGlobalPlanning(<<>>, Elapsed)
  /\ UNCHANGED <<goal_pose, force_replan, vertex_blocked, pose>>

\* The path published once more in every update of the tracking state.
CurrentPath == IF last_path.route = <<>> THEN <<>> ELSE <<last_path>>

\* Slips: the clock is not asked, or never says yes.
ShouldReplanAlways == has_goal
ShouldReplanNever  == FALSE

\* shouldReplan: only the clock is asked, and it is stamped at once.
ShouldReplan == has_goal /\ Elapsed = ReplanTicks

UpdateReplan ==
  /\ nav_state = "TRACKING"
  /\ AutoReplan /\ ShouldReplan
  /\ PerformGlobalPlanning(CurrentPath, 0)
  /\ UNCHANGED <<goal_pose, force_replan, vertex_blocked, pose>>

\* checkGoalProximity
UpdateTracking ==
  /\ nav_state = "TRACKING"
  /\ ~(AutoReplan /\ ShouldReplan)
  /\ LET reached == has_goal /\ PosErr < PosTol IN
       /\ nav_state' = IF reached THEN "GOAL_ALIGN" ELSE nav_state
       /\ sent' = Publish(IF reached THEN <<"GOAL_ALIGN">> ELSE <<>>, CurrentPath)
  /\ since_replan' = Elapsed
  /\ UNCHANGED <<has_goal, goal_pose, last_path, force_replan, vertex_blocked, pose>>

\* A slip: completion asks for the entry tolerance once more.
AlignmentOutcomeStrict ==
  CASE has_goal /\ Aligned /\ PosErr < PosTol -> "COMPLETED"
    [] has_goal /\ ~Aligned /\ PosErr > PosTolExit -> "ABORTED"
    [] OTHER -> "GOAL_ALIGN"

\* checkGoalAlignment: the heading is looked at first, then the position.
AlignmentOutcome ==
  CASE has_goal /\ Aligned -> "COMPLETED"
    [] has_goal /\ ~Aligned /\ PosErr > PosTolExit -> "ABORTED"
    [] OTHER -> "GOAL_ALIGN"

UpdateAlign ==
  /\ nav_state = "GOAL_ALIGN"
  /\ IF AlignmentOutcome = "GOAL_ALIGN"
       THEN UNCHANGED <<nav_state, has_goal, last_path>>
       ELSE EndTask(AlignmentOutcome)
  /\ sent' = Publish(SetNavState(AlignmentOutcome), <<>>)
  /\ since_replan' = Elapsed
  /\ UNCHANGED <<goal_pose, force_replan, vertex_blocked, pose>>

\* The transform is missing: update() returns at once.
UpdateNoTf ==
  /\ since_replan' = Elapsed
  /\ sent' = Nothing
  /\ UNCHANGED <<task, vertex_blocked, pose>>

Update == UpdateIdle \/ UpdatePlanning \/ UpdateReplan \/ UpdateTracking \/ UpdateAlign

-----------------------------------------------------------------------------
(* Callbacks                                                               *)

\* A slip: the task under way is replaced without being aborted.
GoalCbWithoutAbort ==
  \E g \in Pose : \E snapped \in SnapToFree(g.at) :
    /\ goal_pose' = [g EXCEPT !.at = snapped]
    /\ has_goal' = TRUE
    /\ last_path' = NoPath
    /\ force_replan' = FALSE
    /\ nav_state' = "GLOBAL_PLANNING"
    /\ sent' = Publish(<<"GLOBAL_PLANNING">>, <<>>)
    /\ UNCHANGED <<vertex_blocked, since_replan, pose>>

\* goalCb: an active task is aborted first; the two sleeps in between only
\* give the intermediate states time to leave.
GoalCb ==
  \E g \in Pose : \E snapped \in SnapToFree(g.at) :
    /\ goal_pose' = [g EXCEPT !.at = snapped]
    /\ has_goal' = TRUE
    /\ last_path' = NoPath
    /\ force_replan' = FALSE
    /\ nav_state' = "GLOBAL_PLANNING"
    /\ sent' = Publish(IF nav_state \in Active
                         THEN <<"ABORTED", "WAITING", "GLOBAL_PLANNING">>
                         ELSE <<"GLOBAL_PLANNING">>, <<>>)
    /\ UNCHANGED <<vertex_blocked, since_replan, pose>>

\* cancelNavigationCb
CancelNavigationCb ==
  /\ IF nav_state \in Active
       THEN /\ EndTask("WAITING")
            /\ sent' = Publish(<<"ABORTED", "WAITING">>, <<>>)
       ELSE /\ UNCHANGED <<nav_state, has_goal, last_path>>
            /\ sent' = Nothing
  /\ UNCHANGED <<goal_pose, force_replan, vertex_blocked, since_replan, pose>>

\* obstacleCallback: the flags are rebuilt from this message alone.  Any set
\* of vertices may be the one within the blocking radius of its points.
ObstacleCallback ==
  \E hit \in SUBSET Vertex :
    /\ vertex_blocked' = hit
    /\ force_replan' = (force_replan \/ (nav_state = "TRACKING" /\ hit # {}))
    /\ sent' = Nothing
    /\ UNCHANGED <<nav_state, has_goal, goal_pose, last_path, since_replan, pose>>

\* A message whose size is not a multiple of three returns before the vertex
\* flags are touched; only the voxel set, which no plan reads, is emptied.
ObstacleMalformed == sent' = Nothing /\ UNCHANGED <<task, vertex_blocked, since_replan, pose>>

Callback == GoalCb \/ CancelNavigationCb \/ ObstacleCallback \/ ObstacleMalformed

\* The robot moves, or the localisation jumps.
Move ==
  /\ pose' \in Pose
  /\ sent' = Nothing
  /\ UNCHANGED <<task, vertex_blocked, since_replan>>

Next == Update \/ UpdateNoTf \/ Callback \/ Move

\* The main loop runs for ever and the transform is not lost for ever.
Fairness == WF_vars(Update)

Spec     == Init /\ [][Next]_vars
FairSpec == Spec /\ Fairness

-----------------------------------------------------------------------------
(* Properties                                                              *)

\* Every variable keeps its type.
TypeOK ==
  /\ nav_state \in NavState
  /\ has_goal \in BOOLEAN
  /\ goal_pose \in Pose \cup {NoGoal}
  /\ last_path \in Path
  /\ force_replan \in BOOLEAN
  /\ vertex_blocked \subseteq Vertex
  /\ since_replan \in 0 .. ReplanTicks
  /\ pose \in Pose
  /\ sent \in [states : Seq(NavState), paths : Seq(Path)]

\* A goal is held exactly while a task is under way: whatever ends a task
\* (completion, abort, failed plan, cancel) also releases its goal, and no
\* state works without one.
GoalHeldWhileActive ==
  /\ has_goal <=> nav_state \in Active
  /\ has_goal => goal_pose \in Pose

\* The path kept for re-publication is the one planned for the goal of the
\* task under way, in the states that publish or rely on it; no other state
\* keeps one, so no path outlives its task inside the planner.
PathBelongsToTask ==
  /\ nav_state \in {"TRACKING", "GOAL_ALIGN"} =>
       last_path.goal = goal_pose /\ Len(last_path.route) >= 2
  /\ nav_state \notin {"TRACKING", "GOAL_ALIGN"} => last_path = NoPath

\* Every path that leaves the planner leads, over edges of the roadmap, from
\* one vertex to a vertex the goal can be snapped to, and it is meant for the
\* goal of the task that has just published it.
PublishedPathLeadsToGoal ==
  \A i \in DOMAIN sent.paths :
    LET p == sent.paths[i] IN
    /\ p.goal = goal_pose
    /\ IsRoute(p.route, p.route[1], p.route[Len(p.route)], {})
    /\ Dist[goal_pose.at][p.route[Len(p.route)]] < 3 * StepSize

RangeOf(s) == {s[i] : i \in DOMAIN s}

\* A plan never goes through a vertex blocked when it is made, not even one
\* whose start or goal could only be snapped by ignoring the blocked flags.
PlansAvoidBlocked ==
  [][last_path' # last_path
       => RangeOf(last_path'.route) \cap vertex_blocked = {}]_vars

\* What subscribers are told is never behind what the planner does: if the
\* state changed, the last state published is the new one, and every state
\* published is a step of the documented machine.
FollowsDiagram(from, to) ==
  \/ to = "ABORTED" /\ from \in Active
  \/ <<from, to>> \in {<<"WAITING", "GLOBAL_PLANNING">>, <<"GLOBAL_PLANNING", "TRACKING">>,
                       <<"TRACKING", "GOAL_ALIGN">>, <<"GOAL_ALIGN", "COMPLETED">>,
                       <<"ABORTED", "WAITING">>}
  \/ from \in {"COMPLETED", "ABORTED"} /\ to = "GLOBAL_PLANNING"

AnnouncedStatesFollowDiagram ==
  [][LET told == <<nav_state>> \o sent'.states IN
       /\ told[Len(told)] = nav_state'
       /\ \A i \in 1 .. Len(told) - 1 : FollowsDiagram(told[i], told[i + 1])]_vars

\* The planner implements the abstract task server.
Task == INSTANCE NavTask WITH
          Goal  <- Pose,
          phase <- nav_state,
          goal  <- IF has_goal THEN goal_pose ELSE NoGoal
ImplementsTask == Task!Safety

-----------------------------------------------------------------------------
(* Liveness                                                                *)

PathBlocked == RangeOf(last_path.route) \cap vertex_blocked # {}

\* An obstacle on the path being tracked does not stay there: either it goes
\* away, or the path is replaced by one around it, or tracking ends.
BlockedPathReplanned ==
  (nav_state = "TRACKING" /\ PathBlocked) ~> (nav_state # "TRACKING" \/ ~PathBlocked)

\* A robot that has come within the tolerance of its goal and stays there is
\* noticed: replanning does not starve the proximity check.  Outages of the
\* transform must end, because they may line up with the replanning clock.
ArrivalNoticed ==
  <>[][~UpdateNoTf]_vars =>
    ((nav_state = "TRACKING" /\ PosErr < PosTol)
       ~> (nav_state # "TRACKING" \/ PosErr >= PosTol))
=============================================================================
