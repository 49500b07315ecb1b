--------------------------- MODULE NavSystemProofs ---------------------------
(***************************************************************************)
(* Proofs about the navigation chain, for every roadmap, every number of   *)
(* headings and every bound on the topics.  The planner keeps inside the   *)
(* chain what is proved of it alone; what it announces is what the local   *)
(* planner expects of its environment; and whichever way states and paths  *)
(* overtake each other, the local planner ends with the path of the task.  *)
(***************************************************************************)
EXTENDS NavSystem, SequenceTheorems, TLAPS

PP == INSTANCE NavPlannerProofs WITH Yaw <- Heading
LL == INSTANCE LocalPlannerProofs WITH Goal <- Pose, Controls <- {<<1, 0>>}

\* A sequence of states that ends in last and skips none.
InOrder(seen, last) ==
  /\ seen[Len(seen)] = last
  /\ \A i \in 1 .. Len(seen) - 1 : seen[i + 1] \in L!Announced(seen[i])

\* What the local planner has seen and what is on its way to it.
Seen == <<local_nav_state>> \o announced

\* Each state in Seen follows from the one before, and the last one is the
\* planner's.
StatesInOrder == InOrder(Seen, nav_state)

\* The newest path, wherever it has got to, is the current task's while the
\* task is tracked.
NewestPathIsCurrent ==
  nav_state \in {"TRACKING", "GOAL_ALIGN"} =>
    /\ planned # <<>> => planned[1].goal = goal_pose
    /\ planned = <<>> /\ smoothed # <<>> => smoothed[Len(smoothed)].goal = goal_pose
    /\ planned = <<>> /\ smoothed = <<>> => ref_path \in {NoGoal, goal_pose}

SentPath == [route : Seq(Vertex), goal : Pose]
SmoothPath == [goal : Pose, yaw : Heading]

TopicTypes ==
  /\ planned \in Seq(SentPath) /\ Len(planned) <= 1
  /\ smoothed \in Seq(SmoothPath)
  /\ announced \in Seq(P!NavState)
  /\ plans \in Seq(L!Command)

\* In AUTO the controller only repeats what a plan holds.
ControllerObeysPlans == C!TypeOK /\ mode = "AUTO" /\ cmd \in L!Command

ChainInv ==
  /\ PP!PathInv /\ LL!IInv /\ ControllerObeysPlans
  /\ TopicTypes /\ goals \in 0 .. MaxGoals /\ checked \in BOOLEAN
  /\ StatesInOrder /\ NewestPathIsCurrent

-----------------------------------------------------------------------------
(* The planner and the local planner of the chain are the ones the other   *)
(* proof modules are about: definition by definition, from the queries of  *)
(* the roadmap to the actions.                                             *)

LEMMA SameSnap ==
  ASSUME NEW p, NEW blocked
  PROVE  /\ P!SnapToFree(p) = PP!SnapToFree(p)
         /\ P!SnapVertex(p, blocked) = PP!SnapVertex(p, blocked)
BY DEF P!SnapToFree, PP!SnapToFree, P!SnapVertex, PP!SnapVertex,
       P!FindClosestVertex, PP!FindClosestVertex, P!Nearest, PP!Nearest

LEMMA SameRouteCost == ASSUME NEW r PROVE P!RouteCost(r) = PP!RouteCost(r)
BY DEF P!RouteCost, PP!RouteCost

LEMMA SameRoutes ==
  ASSUME NEW s, NEW g, NEW blocked
  PROVE  P!Routes(s, g, blocked) = PP!Routes(s, g, blocked)
<1>1. P!Cardinality(Vertex) = PP!Cardinality(Vertex)
  BY DEF P!Cardinality, PP!Cardinality
<1>2. \A r : P!IsRoute(r, s, g, blocked) = PP!IsRoute(r, s, g, blocked)
  BY DEF P!IsRoute, PP!IsRoute
<1>3. QED
  BY <1>1, <1>2, Zenon DEF P!Routes, PP!Routes

LEMMA SamePlanResults ==
  ASSUME NEW s, NEW g, NEW blocked
  PROVE  P!PlanResults(s, g, blocked) = PP!PlanResults(s, g, blocked)
<1>1. \A u, v : P!CheapestRoutes(u, v, blocked) = PP!CheapestRoutes(u, v, blocked)
  BY SameRouteCost, SameRoutes, Zenon DEF P!CheapestRoutes, PP!CheapestRoutes
<1>2. /\ P!SnapVertex(s, blocked) = PP!SnapVertex(s, blocked)
      /\ P!SnapVertex(g, blocked) = PP!SnapVertex(g, blocked)
  BY SameSnap
<1> DEFINE ss == P!SnapVertex(s, blocked)
           gs == P!SnapVertex(g, blocked)
           found(u, v) == IF u = v THEN {} ELSE P!CheapestRoutes(u, v, blocked)
           found2(u, v) == IF u = v THEN {} ELSE PP!CheapestRoutes(u, v, blocked)
           back(u, v) == IF found(u, v) = {} THEN {<<>>} ELSE found(u, v)
           back2(u, v) == IF found2(u, v) = {} THEN {<<>>} ELSE found2(u, v)
           all == UNION {back(u, v) : u \in ss, v \in gs}
           all2 == UNION {back2(u, v) : u \in ss, v \in gs}
<1>3. P!PlanResults(s, g, blocked) = IF ss = {} \/ gs = {} THEN {<<>>} ELSE all
  BY DEF P!PlanResults
<1>4. PP!PlanResults(s, g, blocked) = IF ss = {} \/ gs = {} THEN {<<>>} ELSE all2
  BY <1>2 DEF PP!PlanResults
<1>5. all = all2
  <2>1. \A u, v : back(u, v) = back2(u, v)
    BY <1>1
  <2> HIDE DEF back, back2
  <2>2. \A x : x \in all <=> x \in all2
    BY <2>1
  <2>3. QED
    BY <2>2
<1> HIDE DEF all, all2
<1>6. QED
  BY <1>3, <1>4, <1>5

LEMMA SamePlanOutcomes == P!PlanOutcomes = PP!PlanOutcomes
<1>1. \A s : P!PlanResults(s, goal_pose.at, vertex_blocked)
             = PP!PlanResults(s, goal_pose.at, vertex_blocked)
  BY SamePlanResults
<1>2. P!SnapToFree(pose.at) = PP!SnapToFree(pose.at)
  BY SameSnap
<1>3. QED
  BY <1>1, <1>2, Zenon DEF P!PlanOutcomes, PP!PlanOutcomes

LEMMA SamePlanning ==
  ASSUME NEW before, NEW stamp, P!PerformGlobalPlanning(before, stamp)
  PROVE  PP!PerformGlobalPlanning(before, stamp)
BY SamePlanOutcomes, Zenon
DEF P!PerformGlobalPlanning, PP!PerformGlobalPlanning, P!Publish, PP!Publish,
    P!SetNavState, PP!SetNavState, P!NoPath, PP!NoPath

LEMMA SameUpdate == P!Update => PP!Update
<1> SUFFICES ASSUME P!Update PROVE PP!Update
  OBVIOUS
<1>1. P!Elapsed = PP!Elapsed /\ P!CurrentPath = PP!CurrentPath
      /\ P!ShouldReplan = PP!ShouldReplan /\ P!PosErr = PP!PosErr
  BY DEF P!Elapsed, PP!Elapsed, P!CurrentPath, PP!CurrentPath, P!ShouldReplan,
         PP!ShouldReplan, P!PosErr, PP!PosErr
<1>2. CASE P!UpdateIdle
  BY <1>1, <1>2, Zenon DEF P!UpdateIdle, PP!UpdateIdle, PP!Update, P!Idle, PP!Idle, P!Nothing, PP!Nothing,
         P!Publish, PP!Publish, P!task, PP!task
<1>3. CASE P!UpdatePlanning
  BY <1>1, <1>3, SamePlanning, Zenon DEF P!UpdatePlanning, PP!UpdatePlanning, PP!Update
<1>4. CASE P!UpdateReplan
  BY <1>1, <1>4, SamePlanning, Zenon DEF P!UpdateReplan, PP!UpdateReplan, PP!Update
<1>5. CASE P!UpdateTracking
  BY <1>1, <1>5, Zenon DEF P!UpdateTracking, PP!UpdateTracking, PP!Update, P!Publish, PP!Publish
<1>6. CASE P!UpdateAlign
  <2>1. P!AlignmentOutcome = PP!AlignmentOutcome
    BY <1>1, Zenon DEF P!AlignmentOutcome, PP!AlignmentOutcome, P!Aligned, PP!Aligned
  <2>2. QED
    BY <1>1, <1>6, <2>1, Zenon
    DEF P!UpdateAlign, PP!UpdateAlign, PP!Update, P!EndTask, PP!EndTask, P!NoPath, PP!NoPath,
        P!Publish, PP!Publish, P!SetNavState, PP!SetNavState
<1>7. QED
  BY <1>2, <1>3, <1>4, <1>5, <1>6 DEF P!Update

LEMMA SameGoalCb == P!GoalCb => PP!GoalCb
<1>1. \A p : P!SnapToFree(p) = PP!SnapToFree(p)
  BY SameSnap
<1>2. QED
  BY <1>1, Zenon DEF P!GoalCb, PP!GoalCb, P!Pose, PP!Pose, P!NoPath, PP!NoPath, P!Publish, PP!Publish,
       P!Active, PP!Active, P!Idle, PP!Idle, P!NavState, PP!NavState

LEMMA SameCancel == P!CancelNavigationCb => PP!CancelNavigationCb
BY Zenon DEF P!CancelNavigationCb, PP!CancelNavigationCb, P!EndTask, PP!EndTask, P!NoPath, PP!NoPath,
   P!Publish, PP!Publish, P!Nothing, PP!Nothing, P!Active, PP!Active, P!Idle, PP!Idle,
   P!NavState, PP!NavState

\* What the planner does in the chain: an update, a goal, a cancel request;
\* otherwise it rests, which is what a malformed obstacle message amounts to,
\* or the robot moves.
PlannerStep ==
  P!Update \/ P!GoalCb \/ P!CancelNavigationCb \/ P!ObstacleMalformed \/ P!Move

LEMMA SamePlannerStep == PlannerStep => P!Next /\ PP!Next
<1>1. PlannerStep => P!Next
  BY DEF PlannerStep, P!Next, P!Callback
<1>2. P!ObstacleMalformed => PP!ObstacleMalformed
  BY Zenon DEF P!ObstacleMalformed, PP!ObstacleMalformed, P!Nothing, PP!Nothing, P!Publish,
               PP!Publish, P!task, PP!task
<1>3. P!Move => PP!Move
  BY Zenon DEF P!Move, PP!Move, P!Nothing, PP!Nothing, P!Publish, PP!Publish, P!task, PP!task,
               P!Pose, PP!Pose
<1>4. QED
  BY <1>1, <1>2, <1>3, SameUpdate, SameGoalCb, SameCancel DEF PlannerStep, PP!Next, PP!Callback

LEMMA SameLocalPlanner ==
  /\ \A g, y : L!GlobalPathCallback(g, y) => LL!GlobalPathCallback(g, y)
  /\ \A s : L!NavigationStateCallback(s) => LL!NavigationStateCallback(s)
  /\ \A y : L!CurrentStateCallback(y) => LL!CurrentStateCallback(y)
  /\ L!PlanningTimer => LL!PlanningTimer
<1>1. \A g, y : L!GlobalPathCallback(g, y) => LL!GlobalPathCallback(g, y)
  BY Zenon DEF L!GlobalPathCallback, LL!GlobalPathCallback,
       L!PublishNothing, LL!PublishNothing, L!align, LL!align, L!state,
       LL!state
<1>2. \A s : L!NavigationStateCallback(s) => LL!NavigationStateCallback(s)
  BY Zenon DEF L!NavigationStateCallback, LL!NavigationStateCallback,
       L!PublishNothing, LL!PublishNothing, L!PublishPlan, LL!PublishPlan,
       L!Zero, LL!Zero, L!Twist, LL!Twist, L!AlignDirection,
       LL!AlignDirection, L!state, LL!state
<1>3. \A y : L!CurrentStateCallback(y) => LL!CurrentStateCallback(y)
  BY Zenon DEF L!CurrentStateCallback, LL!CurrentStateCallback,
       L!PublishNothing, LL!PublishNothing, L!align, LL!align, L!cache,
       LL!cache
<1>4. L!TimerTracking => LL!TimerTracking
  BY Zenon DEF L!TimerTracking, LL!TimerTracking, L!PublishPlan,
       LL!PublishPlan, L!Zero, LL!Zero, L!Twist, LL!Twist, L!align,
       LL!align, L!cache, LL!cache, L!state, LL!state
<1>5. L!TimerAlign => LL!TimerAlign
  BY Zenon DEF L!TimerAlign, LL!TimerAlign, L!PublishPlan, LL!PublishPlan,
       L!PublishNothing, LL!PublishNothing, L!Zero, LL!Zero, L!Twist,
       LL!Twist, L!align, LL!align, L!cache, LL!cache, L!state, LL!state
<1>6. L!TimerEnded => LL!TimerEnded
  BY Zenon DEF L!TimerEnded, LL!TimerEnded, L!PublishPlan, LL!PublishPlan,
       L!Zero, LL!Zero, L!Twist, LL!Twist, L!align, LL!align, L!cache,
       LL!cache, L!state, LL!state
<1>7. QED
  BY <1>1, <1>2, <1>3, <1>4, <1>5, <1>6 DEF L!PlanningTimer, LL!PlanningTimer

-----------------------------------------------------------------------------
(* The planner in the chain                                                *)

\* A command is one that stops, follows a path or turns; a turn keeps the
\* robot's pose a pose.
LEMMA TurningKeepsPose ==
  ASSUME pose \in Pose, cmd \in L!Command
  PROVE  [pose EXCEPT !.yaw = (@ + cmd.w) % Headings] \in Pose
<1>1. Headings \in Nat /\ Headings > 0
  BY ChainAssumption
<1>2. cmd.w \in Int /\ pose.yaw \in Int
  BY DEF L!Command, Pose, Heading
<1>3. (pose.yaw + cmd.w) % Headings \in 0 .. Headings - 1
  BY <1>1, <1>2
<1>4. QED
  BY <1>3 DEF Pose, Heading

LEMMA StepIsPlannerStep ==
  ASSUME pose \in Pose, cmd \in L!Command, Next
  PROVE  PlannerStep
<1>1. PlannerRests => P!ObstacleMalformed
  BY DEF PlannerRests, P!ObstacleMalformed, mission, P!task
<1>2. CASE PlannerUpdate \/ SendGoal \/ Cancel
  BY <1>2 DEF PlannerUpdate, SendGoal, Cancel, PlannerStep
<1>3. CASE Smooth \/ LocalPath \/ LocalNavState \/ LocalState \/ LocalTimer
           \/ ControllerPlan \/ ControllerLoop
  BY <1>1, <1>3 DEF Smooth, LocalPath, LocalNavState, LocalState, LocalTimer, ControllerPlan,
                    ControllerLoop, PlannerStep
<1>4. CASE RobotMoves
  <2>1. pose' \in Pose
    BY <1>4, TurningKeepsPose DEF RobotMoves
  <2>2. sent' = P!Nothing /\ UNCHANGED mission
    BY <1>4 DEF RobotMoves
  <2>3. P!Move
    BY <2>1, <2>2 DEF P!Move, P!Pose, Pose, mission, P!task
  <2>4. QED
    BY <2>3 DEF PlannerStep
<1>5. QED
  BY <1>2, <1>3, <1>4 DEF Next

\* What is proved of the planner alone holds of it in the chain.
LEMMA PlannerAssumptions ==
  /\ Vertex \subseteq Point
  /\ Free \subseteq Point
  /\ Adj \in [Vertex -> SUBSET Vertex]
  /\ Cost \in [Vertex -> [Vertex -> Nat]]
  /\ Dist \in [Point -> [Point -> Nat]]
  /\ StepSize \in Nat
  /\ NoGoal \notin [at : Point, yaw : Heading]
  /\ PosTol \in Nat /\ PosTolExit \in Nat
  /\ AutoReplan \in BOOLEAN
  /\ ReplanTicks \in Nat \ {0}
BY ChainAssumption DEF Pose

LEMMA PlannerKeepsInv ==
  ASSUME PP!PathInv, PP!Next
  PROVE  PP!PathInv'
BY PlannerAssumptions, PP!StepPathInv

LEMMA PlannerFacts ==
  ASSUME PP!PathInv, PP!PathInv', PP!Next
  PROVE  /\ sent'.states \in Seq(P!NavState) /\ sent'.paths \in Seq(P!Path)
         /\ nav_state \in P!NavState /\ nav_state' \in P!NavState
         /\ Len(sent'.states) = 0 => nav_state' = nav_state
         /\ Len(sent'.states) > 0 => /\ sent'.states[Len(sent'.states)] = nav_state'
                                     /\ PP!FollowsDiagram(nav_state, sent'.states[1])
         /\ \A i \in 1 .. Len(sent'.states) - 1 :
              PP!FollowsDiagram(sent'.states[i], sent'.states[i + 1])
         /\ sent'.paths # <<>> => goal_pose' = goal_pose /\ goal_pose \in Pose
         /\ nav_state' \in {"TRACKING", "GOAL_ALIGN"} =>
              \/ sent'.paths # <<>>
              \/ nav_state \in {"TRACKING", "GOAL_ALIGN"} /\ goal_pose' = goal_pose
         /\ \A i \in DOMAIN sent'.paths : sent'.paths[i].goal = goal_pose'
<1>1. PP!Inv /\ PP!Inv'
  BY DEF PP!PathInv
<1>2. PP!NavState = P!NavState /\ PP!Path = P!Path /\ PP!Pose = Pose
  BY DEF PP!NavState, P!NavState, PP!Path, P!Path, PP!Pose, P!Pose, Pose
<1>3. /\ sent'.states \in Seq(P!NavState) /\ sent'.paths \in Seq(P!Path)
      /\ nav_state \in P!NavState /\ nav_state' \in P!NavState
  BY <1>1, <1>2 DEF PP!Inv, PP!TypeOK
<1>4. /\ Len(sent'.states) = 0 => nav_state' = nav_state
      /\ Len(sent'.states) > 0 => /\ sent'.states[Len(sent'.states)] = nav_state'
                                  /\ PP!FollowsDiagram(nav_state, sent'.states[1])
      /\ \A i \in 1 .. Len(sent'.states) - 1 :
           PP!FollowsDiagram(sent'.states[i], sent'.states[i + 1])
  BY <1>1, PlannerAssumptions, PP!StepSays
<1>5. /\ sent'.paths # <<>> => /\ nav_state \in {"GLOBAL_PLANNING", "TRACKING"}
                               /\ goal_pose' = goal_pose
      /\ nav_state' \in {"TRACKING", "GOAL_ALIGN"} =>
           \/ sent'.paths # <<>>
           \/ nav_state \in {"TRACKING", "GOAL_ALIGN"} /\ goal_pose' = goal_pose
  BY <1>1, PlannerAssumptions, PP!PathsAreOfTask
<1>6. nav_state \in {"GLOBAL_PLANNING", "TRACKING"} => goal_pose \in Pose
  BY <1>1, <1>2 DEF PP!Inv, PP!GoalHeldWhileActive, PP!Active, PP!Idle, PP!NavState
<1>7. \A i \in DOMAIN sent'.paths : sent'.paths[i].goal = goal_pose'
  BY DEF PP!PathInv, PP!PublishedPathLeadsToGoal
<1>8. QED
  BY <1>3, <1>4, <1>5, <1>6, <1>7

\* The planner behaves in the chain as a planner does.
LEMMA InitPlanner == Init => PP!PathInv
<1> SUFFICES ASSUME Init PROVE PP!PathInv
  OBVIOUS
<1>1. P!Init
  BY DEF Init
<1>2. PP!Init
  BY <1>1, Zenon DEF P!Init, PP!Init, P!NoPath, PP!NoPath, P!Pose, PP!Pose, P!Publish, PP!Publish
<1>3. QED
  BY <1>2, PlannerAssumptions, PP!InitPathInv

-----------------------------------------------------------------------------
(* The order of the announcements                                          *)

\* What the planner's diagram allows, the local planner expects.
LEMMA DiagramIsExpected ==
  ASSUME NEW from \in P!NavState, NEW to, PP!FollowsDiagram(from, to)
  PROVE  to \in L!Announced(from)
<1>1. CASE to = "ABORTED" /\ from \in PP!Active
  <2>1. from \in {"GLOBAL_PLANNING", "TRACKING", "GOAL_ALIGN"}
    BY <1>1 DEF PP!Active, PP!Idle, PP!NavState
  <2>2. QED
    BY <1>1, <2>1 DEF L!Announced
<1>2. CASE <<from, to>> \in {<<"WAITING", "GLOBAL_PLANNING">>, <<"GLOBAL_PLANNING", "TRACKING">>,
                             <<"TRACKING", "GOAL_ALIGN">>, <<"GOAL_ALIGN", "COMPLETED">>,
                             <<"ABORTED", "WAITING">>}
  BY <1>2 DEF L!Announced, L!NavState
<1>3. CASE from \in {"COMPLETED", "ABORTED"} /\ to = "GLOBAL_PLANNING"
  BY <1>3 DEF L!Announced
<1>4. QED
  BY <1>1, <1>2, <1>3 DEF PP!FollowsDiagram

\* Two chains that fit make one.
LEMMA ChainsJoin ==
  ASSUME NEW S, NEW seen \in Seq(S), NEW said \in Seq(S), NEW last, NEW last2,
         Len(seen) > 0, InOrder(seen, last),
         Len(said) = 0 => last2 = last,
         Len(said) > 0 => InOrder(said, last2) /\ said[1] \in L!Announced(last)
  PROVE  InOrder(seen \o said, last2)
<1> DEFINE all == seen \o said
<1>1. /\ all \in Seq(S) /\ Len(all) = Len(seen) + Len(said)
      /\ \A i \in 1 .. Len(seen) : all[i] = seen[i]
      /\ \A i \in 1 .. Len(said) : all[i + Len(seen)] = said[i]
  BY ConcatProperties
<1> HIDE DEF all
<1>2. Len(seen) \in Nat /\ Len(said) \in Nat
  OBVIOUS
<1>3. all[Len(all)] = last2
  <2>1. CASE Len(said) = 0
    BY <1>1, <1>2, <2>1 DEF InOrder
  <2>2. CASE Len(said) > 0
    BY <1>1, <1>2, <2>2 DEF InOrder
  <2>3. QED
    BY <1>2, <2>1, <2>2
<1>4. ASSUME NEW i \in 1 .. Len(all) - 1
      PROVE  all[i + 1] \in L!Announced(all[i])
  <2>1. CASE i < Len(seen)
    <3>1. i \in 1 .. Len(seen) - 1 /\ all[i] = seen[i] /\ all[i + 1] = seen[i + 1]
      BY <1>1, <1>2, <2>1
    <3>2. QED
      BY <3>1 DEF InOrder
  <2>2. CASE i = Len(seen)
    <3>1. Len(said) > 0 /\ all[i] = last /\ all[i + 1] = said[1]
      BY <1>1, <1>2, <1>4, <2>2 DEF InOrder
    <3>2. QED
      BY <3>1
  <2>3. CASE i > Len(seen)
    <3> DEFINE j == i - Len(seen)
    <3>1. /\ j \in 1 .. Len(said) - 1 /\ i = j + Len(seen) /\ i + 1 = (j + 1) + Len(seen)
          /\ j \in 1 .. Len(said) /\ j + 1 \in 1 .. Len(said)
      BY <1>1, <1>2, <1>4, <2>3
    <3> HIDE DEF j
    <3>2. all[i] = said[j] /\ all[i + 1] = said[j + 1]
      BY <1>1, <1>2, <3>1
    <3>3. Len(said) > 0
      BY <1>2, <3>1
    <3>4. QED
      BY <3>1, <3>2, <3>3 DEF InOrder
  <2>4. QED
    BY <1>1, <1>2, <1>4, <2>1, <2>2, <2>3
<1>5. QED
  BY <1>3, <1>4 DEF InOrder, all

\* What is on its way to the local planner.
LEMMA SeenIndices ==
  ASSUME local_nav_state \in P!NavState, announced \in Seq(P!NavState)
  PROVE  /\ Seen \in Seq(P!NavState) /\ Len(Seen) = Len(announced) + 1 /\ Len(announced) \in Nat
         /\ Seen[1] = local_nav_state
         /\ \A i \in 1 .. Len(announced) : Seen[i + 1] = announced[i]
<1>1. <<local_nav_state>> \in Seq(P!NavState)
  OBVIOUS
<1>2. Seen \in Seq(P!NavState)
  BY <1>1, ConcatProperties DEF Seen
<1>3. QED
  BY <1>2, PlannerAssumptions, PP!InFront DEF Seen

LEMMA LocalStateType ==
  ASSUME LL!IInv
  PROVE  local_nav_state \in P!NavState
BY DEF LL!IInv, LL!TypeOK, LL!NavState, P!NavState

\* The planner's announcements go to the end of the queue.
LEMMA PlannerKeepsOrder ==
  ASSUME ChainInv, PP!Next, PP!PathInv', announced' = announced \o sent'.states,
         local_nav_state' = local_nav_state
  PROVE  StatesInOrder' /\ announced' \in Seq(P!NavState)
<1> DEFINE said == sent'.states
<1>1. /\ said \in Seq(P!NavState) /\ announced \in Seq(P!NavState)
      /\ local_nav_state \in P!NavState /\ nav_state \in P!NavState
      /\ Len(said) = 0 => nav_state' = nav_state
      /\ Len(said) > 0 => /\ said[Len(said)] = nav_state'
                          /\ PP!FollowsDiagram(nav_state, said[1])
      /\ \A i \in 1 .. Len(said) - 1 : PP!FollowsDiagram(said[i], said[i + 1])
  BY PlannerFacts, LocalStateType DEF ChainInv, TopicTypes
<1>2. Seen \in Seq(P!NavState) /\ Len(Seen) > 0
  BY <1>1, SeenIndices
<1>3. InOrder(Seen, nav_state)
  BY DEF ChainInv, StatesInOrder
<1>4. Len(said) > 0 => InOrder(said, nav_state') /\ said[1] \in L!Announced(nav_state)
  <2>1. \A i \in 1 .. Len(said) - 1 : said[i] \in P!NavState
    BY <1>1
  <2>2. \A i \in 1 .. Len(said) - 1 : said[i + 1] \in L!Announced(said[i])
    BY <1>1, <2>1, DiagramIsExpected
  <2>3. QED
    BY <1>1, <2>2, DiagramIsExpected DEF InOrder
<1> HIDE DEF said
<1>5. InOrder(Seen \o said, nav_state')
  BY <1>1, <1>2, <1>3, <1>4, ChainsJoin
<1>6. <<local_nav_state>> \in Seq(P!NavState)
  BY <1>1
<1>7. (<<local_nav_state>> \o announced) \o said = <<local_nav_state>> \o (announced \o said)
  BY <1>1, <1>6, ConcatAssociative
<1>8. Seen' = Seen \o said
  BY <1>7 DEF Seen, said
<1>9. announced' \in Seq(P!NavState)
  BY <1>1, ConcatProperties DEF said
<1>10. QED
  BY <1>5, <1>8, <1>9 DEF StatesInOrder, InOrder

\* The local planner takes the first one, which it expects.
LEMMA LocalKeepsOrder ==
  ASSUME ChainInv, announced # <<>>, local_nav_state' = announced[1],
         announced' = Tail(announced), nav_state' = nav_state
  PROVE  /\ StatesInOrder' /\ announced' \in Seq(P!NavState)
         /\ announced[1] \in L!Announced(local_nav_state)
<1>1. /\ local_nav_state \in P!NavState /\ announced \in Seq(P!NavState)
      /\ InOrder(Seen, nav_state)
  BY LocalStateType DEF ChainInv, TopicTypes, StatesInOrder
<1>2. /\ Len(Seen) = Len(announced) + 1 /\ Len(announced) \in Nat
      /\ Seen[1] = local_nav_state
      /\ \A i \in 1 .. Len(announced) : Seen[i + 1] = announced[i]
  BY <1>1, SeenIndices
<1>3. /\ Len(announced) > 0 /\ announced[1] \in P!NavState
      /\ announced' \in Seq(P!NavState) /\ Len(announced') = Len(announced) - 1
      /\ \A i \in 1 .. Len(announced) - 1 : announced'[i] = announced[i + 1]
  BY <1>1
<1>4. announced[1] \in L!Announced(local_nav_state)
  BY <1>1, <1>2, <1>3 DEF InOrder
<1> DEFINE seen2 == <<announced[1]>> \o announced'
<1>5. /\ Len(seen2) = Len(announced') + 1
      /\ seen2[1] = announced[1]
      /\ \A i \in 1 .. Len(announced') : seen2[i + 1] = announced'[i]
  BY <1>3, PlannerAssumptions, PP!InFront
<1> HIDE DEF seen2
<1>6. Len(seen2) = Len(announced)
  BY <1>2, <1>3, <1>5
<1>7. \A k \in 1 .. Len(announced) : seen2[k] = Seen[k + 1]
  <2> SUFFICES ASSUME NEW k \in 1 .. Len(announced) PROVE seen2[k] = announced[k]
    BY <1>2
  <2>1. CASE k = 1
    BY <1>5, <2>1
  <2>2. CASE k > 1
    <3>1. k - 1 \in 1 .. Len(announced') /\ (k - 1) + 1 = k
      BY <1>2, <1>3, <2>2
    <3>2. QED
      BY <1>3, <1>5, <3>1
  <2>3. QED
    BY <1>2, <2>1, <2>2
<1>8. seen2[Len(seen2)] = nav_state
  BY <1>1, <1>2, <1>3, <1>6, <1>7 DEF InOrder
<1>9. \A i \in 1 .. Len(seen2) - 1 : seen2[i + 1] \in L!Announced(seen2[i])
  <2> SUFFICES ASSUME NEW i \in 1 .. Len(announced) - 1
               PROVE  seen2[i + 1] \in L!Announced(seen2[i])
    BY <1>6
  <2>1. i \in 1 .. Len(announced) /\ i + 1 \in 1 .. Len(announced) /\ i + 1 \in 1 .. Len(Seen) - 1
    BY <1>2
  <2>2. Seen[(i + 1) + 1] \in L!Announced(Seen[i + 1])
    BY <1>1, <2>1 DEF InOrder
  <2>3. QED
    BY <1>7, <2>1, <2>2
<1>10. Seen' = seen2
  BY DEF Seen, seen2
<1>11. QED
  BY <1>3, <1>4, <1>8, <1>9, <1>10 DEF StatesInOrder, InOrder

-----------------------------------------------------------------------------
(* The newest path                                                         *)

\* A queue of one that holds something.
LEMMA Singleton ==
  ASSUME NEW S, NEW s \in Seq(S), Len(s) <= 1, s # <<>>
  PROVE  Len(s) = 1 /\ s = <<s[1]>>
<1>1. Len(s) = 1
  <2>1. Len(s) \in Nat \ {0}
    BY EmptySeq, Zenon
  <2>2. \A n \in Nat \ {0} : n <= 1 => n = 1
    OBVIOUS
  <2>3. QED
    BY <2>1, <2>2
<1>2. <<s[1]>> \in Seq(S) /\ Len(<<s[1]>>) = 1 /\ <<s[1]>>[1] = s[1]
  BY <1>1
<1>3. QED
  BY <1>1, <1>2, SeqEqual

\* The planner's paths go into the queue of one; the last of them is kept.
LEMMA PlannerKeepsPaths ==
  ASSUME ChainInv, PP!Next, PP!PathInv', planned' = LastOnly(planned \o sent'.paths),
         smoothed' = smoothed, ref_path' = ref_path
  PROVE  NewestPathIsCurrent' /\ planned' \in Seq(SentPath) /\ Len(planned') <= 1
<1> DEFINE paths == sent'.paths
<1>1. /\ paths \in Seq(P!Path)
      /\ paths # <<>> => goal_pose' = goal_pose /\ goal_pose \in Pose
      /\ nav_state' \in {"TRACKING", "GOAL_ALIGN"} =>
           \/ paths # <<>>
           \/ nav_state \in {"TRACKING", "GOAL_ALIGN"} /\ goal_pose' = goal_pose
      /\ \A i \in DOMAIN paths : paths[i].goal = goal_pose'
  BY PlannerFacts DEF ChainInv
<1>2. planned \in Seq(SentPath) /\ Len(planned) <= 1 /\ Len(planned) \in Nat
  BY DEF ChainInv, TopicTypes
<1>3. planned \in Seq(P!Path)
  <2>1. SentPath \subseteq P!Path
    BY DEF SentPath, P!Path, P!Pose, Pose
  <2> HIDE DEF paths
  <2>2. QED
    BY <1>2, <2>1
<1>4. CASE paths = <<>>
  <2>1. planned \o paths = planned
    BY <1>2, <1>4, ConcatSimplifications
  <2>2. planned' = planned
    <3>1. CASE planned = <<>>
      BY <2>1, <3>1 DEF LastOnly
    <3>2. CASE planned # <<>>
      <4>1. Len(planned) = 1 /\ planned = <<planned[1]>>
        BY <1>2, <3>2, Singleton
      <4>2. QED
        BY <2>1, <3>2, <4>1 DEF LastOnly
    <3>3. QED
      BY <3>1, <3>2
  <2>3. NewestPathIsCurrent'
    BY <1>1, <1>4, <2>2 DEF ChainInv, NewestPathIsCurrent
  <2>4. QED
    BY <1>2, <2>2, <2>3
<1>5. CASE paths # <<>>
  <2> DEFINE p == paths[Len(paths)]
             all == planned \o paths
  <2>1. /\ Len(paths) \in Nat /\ Len(paths) > 0 /\ p \in P!Path /\ p.goal = goal_pose
        /\ goal_pose \in Pose /\ goal_pose' = goal_pose
    BY <1>1, <1>5
  <2>2. p \in SentPath
    BY <2>1 DEF P!Path, SentPath
  <2>3. /\ all \in Seq(P!Path) /\ Len(all) = Len(planned) + Len(paths)
        /\ all[Len(planned) + Len(paths)] = p
    BY <1>1, <1>2, <1>3, <2>1, ConcatProperties
  <2>4. planned' = LastOnly(all)
    OBVIOUS
  <2> HIDE DEF p, all
  <2>5. all # <<>> /\ all[Len(all)] = p
    BY <1>2, <2>1, <2>3
  <2>6. planned' = <<p>>
    BY <2>4, <2>5 DEF LastOnly
  <2>7. <<p>> \in Seq(SentPath) /\ Len(<<p>>) = 1 /\ <<p>>[1] = p /\ <<p>> # <<>>
    BY <2>2
  <2>8. NewestPathIsCurrent'
    BY <2>1, <2>6, <2>7 DEF NewestPathIsCurrent
  <2>9. QED
    BY <2>6, <2>7, <2>8
<1>6. QED
  BY <1>4, <1>5

\* The smoother hands its path on to the end of the next queue.
LEMMA SmoothKeepsPaths ==
  ASSUME ChainInv, planned # <<>>, NEW yaw \in Heading, planned' = <<>>,
         smoothed' = Append(smoothed, [goal |-> planned[1].goal, yaw |-> yaw]),
         UNCHANGED <<nav_state, goal_pose>>
  PROVE  /\ NewestPathIsCurrent' /\ smoothed' \in Seq(SmoothPath)
         /\ planned' \in Seq(SentPath) /\ Len(planned') <= 1
<1> DEFINE e == [goal |-> planned[1].goal, yaw |-> yaw]
<1>1. planned \in Seq(SentPath) /\ smoothed \in Seq(SmoothPath)
  BY DEF ChainInv, TopicTypes
<1>2. planned[1] \in SentPath
  BY <1>1
<1>3. e \in SmoothPath /\ e.goal = planned[1].goal
  BY <1>2 DEF SentPath, SmoothPath
<1> HIDE DEF e
<1>4. /\ smoothed' \in Seq(SmoothPath) /\ Len(smoothed') = Len(smoothed) + 1
      /\ smoothed'[Len(smoothed) + 1] = e /\ Len(smoothed) \in Nat
  BY <1>1, <1>3 DEF e
<1>5. smoothed' # <<>> /\ smoothed'[Len(smoothed')] = e
  BY <1>4
<1>6. NewestPathIsCurrent'
  BY <1>3, <1>5 DEF ChainInv, NewestPathIsCurrent
<1>7. QED
  BY <1>4, <1>6

\* The local planner takes the oldest path.
LEMMA LocalKeepsPaths ==
  ASSUME ChainInv, smoothed # <<>>, ref_path' = smoothed[1].goal, smoothed' = Tail(smoothed),
         UNCHANGED <<nav_state, goal_pose, planned>>
  PROVE  NewestPathIsCurrent' /\ smoothed' \in Seq(SmoothPath)
<1>1. smoothed \in Seq(SmoothPath)
  BY DEF ChainInv, TopicTypes
<1>2. /\ smoothed' \in Seq(SmoothPath) /\ Len(smoothed') = Len(smoothed) - 1
      /\ Len(smoothed) \in Nat /\ Len(smoothed) > 0
      /\ \A i \in 1 .. Len(smoothed) - 1 : smoothed'[i] = smoothed[i + 1]
  BY <1>1
<1>3. CASE smoothed' = <<>>
  <2>1. smoothed[Len(smoothed)] = smoothed[1]
    BY <1>2, <1>3
  <2>2. NewestPathIsCurrent'
    BY <1>3, <2>1 DEF ChainInv, NewestPathIsCurrent
  <2>3. QED
    BY <1>2, <2>2
<1>4. CASE smoothed' # <<>>
  <2>1. Len(smoothed') > 0
    BY <1>2, <1>4
  <2>2. smoothed'[Len(smoothed')] = smoothed[Len(smoothed)]
    BY <1>2, <2>1
  <2>3. NewestPathIsCurrent'
    BY <1>4, <2>2 DEF ChainInv, NewestPathIsCurrent
  <2>4. QED
    BY <1>2, <2>3
<1>5. QED
  BY <1>3, <1>4

-----------------------------------------------------------------------------
(* The local planner and the controller                                    *)

LEMMA LocalAssumptions ==
  /\ Headings \in Nat \ {0} /\ NoGoal \notin Pose
  /\ {<<1, 0>>} \subseteq {0, 1} \X {-1, 0, 1}
BY ChainAssumption

\* A step of another node keeps what is proved of the local planner.
LEMMA RestKeepsLocal ==
  ASSUME LL!IInv, LocalRests
  PROVE  LL!IInv'
<1>1. plan_sent' \in Seq(LL!Command)
  BY DEF LocalRests
<1>2. QED
  BY <1>1 DEF LocalRests, follower, LL!IInv, LL!TypeOK, LL!DirectionWhileAligning,
              LL!NeverBlocksOnItself, LL!PlanMovesOnlyOnTask, LL!Moving

LEMMA LocalKeepsInv ==
  ASSUME LL!IInv
  PROVE  /\ \A g \in Pose, y \in Heading : L!GlobalPathCallback(g, y) => LL!IInv'
         /\ \A y \in Heading : L!CurrentStateCallback(y) => LL!IInv'
         /\ \A s \in L!Announced(local_nav_state) : L!NavigationStateCallback(s) => LL!IInv'
         /\ L!PlanningTimer => LL!IInv'
<1>1. Heading = LL!Heading
  BY DEF Heading, LL!Heading
<1>2. L!Announced(local_nav_state) = LL!Announced(local_nav_state)
  BY Zenon DEF L!Announced, LL!Announced, L!NavState, LL!NavState
<1>3. \A g \in Pose, y \in Heading : L!GlobalPathCallback(g, y) => LL!IInv'
  BY <1>1, SameLocalPlanner, LocalAssumptions, LL!PathKeepsIInv
<1>4. \A y \in Heading : L!CurrentStateCallback(y) => LL!IInv'
  BY <1>1, SameLocalPlanner, LocalAssumptions, LL!StateKeepsIInv
<1>5. \A s \in L!Announced(local_nav_state) : L!NavigationStateCallback(s) => LL!IInv'
  BY <1>2, SameLocalPlanner, LocalAssumptions, LL!NavStateKeepsIInv
<1>6. L!PlanningTimer => LL!IInv'
  BY SameLocalPlanner, LocalAssumptions, LL!TimerKeepsIInv
<1>7. QED
  BY <1>3, <1>4, <1>5, <1>6

\* What the local planner publishes are commands.
LEMMA LocalPublishesCommands ==
  ASSUME LL!IInv', plans \in Seq(L!Command), plans' = plans \o plan_sent'
  PROVE  plans' \in Seq(L!Command)
<1>1. LL!Command = L!Command
  BY DEF LL!Command, L!Command
<1>2. plan_sent' \in Seq(L!Command)
  BY <1>1 DEF LL!IInv, LL!TypeOK
<1>3. QED
  BY <1>2, ConcatProperties

\* The controller takes over a plan, or sends what the last one holds.
LEMMA PlanKeepsController ==
  ASSUME ControllerObeysPlans, NEW c \in L!Command, C!LocalPlanCallback(<<c>>)
  PROVE  ControllerObeysPlans'
BY DEF ControllerObeysPlans, C!LocalPlanCallback, C!TypeOK

LEMMA LoopKeepsController ==
  ASSUME ControllerObeysPlans, C!ControlLoop
  PROVE  ControllerObeysPlans'
<1>1. C!AutoMode("")
  BY DEF C!ControlLoop, C!ManualMode, ControllerObeysPlans
<1>2. /\ UNCHANGED <<mode, manual_v, plan, pc, ros_up>>
      /\ cmd' = IF ros_up THEN (IF plan = <<>> THEN L!Zero ELSE plan[1]) ELSE cmd
  BY <1>1 DEF C!AutoMode, C!PublishControlCommand
<1>3. L!Zero \in L!Command
  BY DEF L!Zero, L!Twist, L!Command
<1>4. cmd' \in L!Command
  <2>1. CASE plan = <<>>
    BY <1>2, <1>3, <2>1 DEF ControllerObeysPlans
  <2>2. CASE plan # <<>>
    <3>1. PICK c \in L!Command : plan = <<c>>
      BY <2>2 DEF ControllerObeysPlans, C!TypeOK
    <3>2. plan[1] \in L!Command
      BY <3>1
    <3>3. QED
      BY <1>2, <1>3, <3>2 DEF ControllerObeysPlans
  <2>3. QED
    BY <2>1, <2>2
<1>5. C!TypeOK'
  BY <1>2, <1>4 DEF ControllerObeysPlans, C!TypeOK
<1>6. QED
  BY <1>2, <1>4, <1>5 DEF ControllerObeysPlans

-----------------------------------------------------------------------------
(* The chain                                                               *)

LEMMA InitChain == Init => ChainInv
<1> SUFFICES ASSUME Init PROVE ChainInv
  OBVIOUS
<1>1. PP!PathInv
  BY InitPlanner
<1>2. LL!IInv
  <2>1. LL!Init
    BY Zenon DEF Init, L!Init, LL!Init, L!Zero, LL!Zero, L!Twist, LL!Twist
  <2>2. QED
    BY <2>1, LocalAssumptions, LL!InitIInv
<1>3. ControllerObeysPlans
  <2>1. L!Zero \in L!Command
    BY DEF L!Zero, L!Twist, L!Command
  <2>2. QED
    BY <2>1 DEF Init, C!Init, C!TypeOK, ControllerObeysPlans
<1>4. announced \in Seq(P!NavState) /\ local_nav_state = "WAITING" /\ nav_state = "WAITING"
  <2>1. "WAITING" \in P!NavState
    BY DEF P!NavState
  <2>2. QED
    BY <2>1 DEF Init, P!Init, L!Init
<1>5. TopicTypes
  <2>1. Len(planned) <= 1
    BY DEF Init
  <2>2. QED
    BY <1>4, <2>1 DEF Init, TopicTypes
<1>6. goals \in 0 .. MaxGoals /\ checked \in BOOLEAN
  BY NavSystemAssumption DEF Init
<1>7. StatesInOrder
  <2>1. /\ Len(Seen) = Len(announced) + 1 /\ Seen[1] = local_nav_state
        /\ \A i \in 1 .. Len(announced) : Seen[i + 1] = announced[i]
    BY <1>4, LocalStateType, SeenIndices, <1>2
  <2>2. Len(announced) = 1 /\ announced[1] = "WAITING"
    BY DEF Init
  <2>3. Len(Seen) = 2 /\ Seen[1] = "WAITING" /\ Seen[2] = "WAITING"
    BY <1>4, <2>1, <2>2
  <2>4. "WAITING" \in L!Announced("WAITING")
    BY DEF L!Announced, L!NavState
  <2>5. QED
    BY <1>4, <2>3, <2>4 DEF StatesInOrder, InOrder
<1>8. NewestPathIsCurrent
  BY <1>4 DEF NewestPathIsCurrent
<1>9. QED
  BY <1>1, <1>2, <1>3, <1>5, <1>6, <1>7, <1>8 DEF ChainInv

\* What the planner's steps and what the others leave alone.
LEMMA PlannerActionKeepsChain ==
  ASSUME ChainInv, PlannerStep, PlannerPublishes, LocalRests,
         UNCHANGED <<controller, smoothed, plans>>,
         goals' \in 0 .. MaxGoals, checked' \in BOOLEAN
  PROVE  ChainInv'
<1>1. PP!Next
  BY SamePlannerStep
<1>2. PP!PathInv'
  BY <1>1, PlannerKeepsInv DEF ChainInv
<1>3. LL!IInv' /\ local_nav_state' = local_nav_state /\ ref_path' = ref_path
  BY RestKeepsLocal DEF ChainInv, LocalRests, follower
<1>4. StatesInOrder' /\ announced' \in Seq(P!NavState)
  BY <1>1, <1>2, <1>3, PlannerKeepsOrder DEF PlannerPublishes
<1>5. NewestPathIsCurrent' /\ planned' \in Seq(SentPath) /\ Len(planned') <= 1
  BY <1>1, <1>2, <1>3, PlannerKeepsPaths DEF PlannerPublishes
<1>6. ControllerObeysPlans'
  BY DEF ChainInv, ControllerObeysPlans, C!TypeOK, controller
<1>7. TopicTypes'
  BY <1>4, <1>5 DEF ChainInv, TopicTypes
<1>8. QED
  BY <1>2, <1>3, <1>4, <1>5, <1>6, <1>7 DEF ChainInv

LEMMA StepChain == ChainInv /\ [Next]_vars => ChainInv'
<1> SUFFICES ASSUME ChainInv, [Next]_vars PROVE ChainInv'
  OBVIOUS
<1>1. CASE UNCHANGED vars
  BY <1>1
  DEF vars, planner, mission, local, follower, controller, topics, ChainInv, TopicTypes,
      StatesInOrder, InOrder, Seen, NewestPathIsCurrent, ControllerObeysPlans, C!TypeOK,
      LL!IInv, LL!TypeOK, LL!DirectionWhileAligning, LL!NeverBlocksOnItself,
      LL!PlanMovesOnlyOnTask, LL!Moving,
      PP!PathInv, PP!Inv, PP!TypeOK, PP!GoalHeldWhileActive, PP!PathBelongsToTask,
      PP!KeptPathGood, PP!GoodPath, PP!PublishedPathLeadsToGoal
<1>2. SUFFICES ASSUME Next PROVE ChainInv'
  BY <1>1
<1>3. PlannerStep /\ PP!Next /\ PP!PathInv'
  <2>1. pose \in Pose
    BY DEF ChainInv, PP!PathInv, PP!Inv, PP!TypeOK, PP!Pose, Pose
  <2>2. cmd \in L!Command
    BY DEF ChainInv, ControllerObeysPlans
  <2>3. QED
    BY <1>2, <2>1, <2>2, StepIsPlannerStep, SamePlannerStep, PlannerKeepsInv DEF ChainInv
<1>4. CASE PlannerUpdate \/ SendGoal \/ Cancel
  <2>1. goals' \in 0 .. MaxGoals /\ checked' \in BOOLEAN
    <3>1. goals \in 0 .. MaxGoals /\ checked \in BOOLEAN /\ MaxGoals \in Nat
      BY NavSystemAssumption DEF ChainInv
    <3>2. CASE SendGoal
      BY <3>1, <3>2 DEF SendGoal
    <3>3. CASE PlannerUpdate \/ Cancel
      BY <3>1, <3>3 DEF PlannerUpdate, Cancel
    <3>4. QED
      BY <1>4, <3>2, <3>3
  <2>2. PlannerPublishes /\ LocalRests /\ UNCHANGED <<controller, smoothed, plans>>
    BY <1>4 DEF PlannerUpdate, SendGoal, Cancel
  <2>3. QED
    BY <1>3, <2>1, <2>2, PlannerActionKeepsChain
\* The planner rests in what follows.
<1>5. ASSUME PlannerRests PROVE UNCHANGED <<nav_state, goal_pose>>
  BY <1>5 DEF PlannerRests, mission
<1>6. ASSUME UNCHANGED controller PROVE ControllerObeysPlans'
  BY <1>6 DEF ChainInv, ControllerObeysPlans, C!TypeOK, controller
<1>7. ASSUME LocalRests PROVE LL!IInv' /\ UNCHANGED <<local_nav_state, ref_path>>
  BY <1>7, RestKeepsLocal DEF ChainInv, LocalRests, follower
<1>8. ASSUME UNCHANGED <<nav_state, local_nav_state, announced>> PROVE StatesInOrder'
  BY <1>8 DEF ChainInv, StatesInOrder, InOrder, Seen
<1>9. ASSUME UNCHANGED <<nav_state, goal_pose, planned, smoothed>>, ref_path' \in {ref_path, NoGoal}
      PROVE  NewestPathIsCurrent'
  BY <1>9 DEF ChainInv, NewestPathIsCurrent
<1>10. /\ planned \in Seq(SentPath) /\ Len(planned) <= 1 /\ smoothed \in Seq(SmoothPath)
       /\ announced \in Seq(P!NavState) /\ plans \in Seq(L!Command)
       /\ goals \in 0 .. MaxGoals /\ checked \in BOOLEAN /\ LL!IInv
  BY DEF ChainInv, TopicTypes
<1>11. CASE Smooth
  <2>1. PICK yaw \in Heading :
          smoothed' = Append(smoothed, [goal |-> planned[1].goal, yaw |-> yaw])
    <3>1. planned # <<>>
      BY <1>11 DEF Smooth
    <3>2. planned[1] \in SentPath
      BY <1>10, <3>1
    <3>3. planned[1].goal.yaw \in Heading
      BY <3>2 DEF SentPath, Pose
    <3>4. QED
      BY <1>11, <3>3 DEF Smooth
  <2>2. planned # <<>> /\ planned' = <<>> /\ UNCHANGED <<nav_state, goal_pose>>
    BY <1>5, <1>11 DEF Smooth
  <2>3. /\ NewestPathIsCurrent' /\ smoothed' \in Seq(SmoothPath)
        /\ planned' \in Seq(SentPath) /\ Len(planned') <= 1
    BY <2>1, <2>2, SmoothKeepsPaths
  <2>4. StatesInOrder' /\ LL!IInv' /\ ControllerObeysPlans'
    BY <1>6, <1>7, <1>8, <1>11, <2>2 DEF Smooth
  <2>5. TopicTypes' /\ goals' \in 0 .. MaxGoals /\ checked' \in BOOLEAN
    BY <1>10, <1>11, <2>3 DEF Smooth, TopicTypes
  <2>6. QED
    BY <1>3, <2>3, <2>4, <2>5 DEF ChainInv
<1>12. CASE LocalPath
  <2>1. /\ smoothed # <<>> /\ L!GlobalPathCallback(smoothed[1].goal, smoothed[1].yaw)
        /\ smoothed' = Tail(smoothed) /\ plans' = plans \o plan_sent' /\ PlannerRests
        /\ UNCHANGED <<controller, planned, announced, goals, checked>>
    BY <1>12 DEF LocalPath, LocalPublishes
  <2>2. smoothed[1] \in SmoothPath
    BY <1>10, <2>1
  <2>3. LL!IInv'
    BY <1>10, <2>1, <2>2, LocalKeepsInv DEF SmoothPath
  <2>4. ref_path' = smoothed[1].goal /\ local_nav_state' = local_nav_state
    BY <2>1 DEF L!GlobalPathCallback
  <2>5. NewestPathIsCurrent' /\ smoothed' \in Seq(SmoothPath)
    BY <1>5, <2>1, <2>4, LocalKeepsPaths
  <2>6. StatesInOrder' /\ ControllerObeysPlans'
    BY <1>5, <1>6, <1>8, <2>1, <2>4
  <2>7. TopicTypes'
    BY <1>10, <2>1, <2>3, <2>5, LocalPublishesCommands DEF TopicTypes
  <2>8. QED
    BY <1>3, <1>10, <2>1, <2>3, <2>5, <2>6, <2>7 DEF ChainInv
<1>13. CASE LocalNavState
  <2>1. /\ announced # <<>> /\ L!NavigationStateCallback(announced[1])
        /\ announced' = Tail(announced) /\ plans' = plans \o plan_sent' /\ PlannerRests
        /\ UNCHANGED <<controller, planned, smoothed, goals, checked>>
    BY <1>13 DEF LocalNavState, LocalPublishes
  <2>2. local_nav_state' = announced[1] /\ ref_path' \in {ref_path, NoGoal}
    BY <2>1 DEF L!NavigationStateCallback
  <2>3. /\ StatesInOrder' /\ announced' \in Seq(P!NavState)
        /\ announced[1] \in L!Announced(local_nav_state)
    BY <1>5, <2>1, <2>2, LocalKeepsOrder
  <2>4. LL!IInv'
    BY <1>10, <2>1, <2>3, LocalKeepsInv
  <2>5. NewestPathIsCurrent' /\ ControllerObeysPlans'
    BY <1>5, <1>6, <1>9, <2>1, <2>2
  <2>6. TopicTypes'
    BY <1>10, <2>1, <2>3, <2>4, LocalPublishesCommands DEF TopicTypes
  <2>7. QED
    BY <1>3, <1>10, <2>1, <2>3, <2>4, <2>5, <2>6 DEF ChainInv
<1>14. CASE LocalState \/ LocalTimer
  <2>1. /\ L!CurrentStateCallback(pose.yaw) \/ L!PlanningTimer
        /\ plans' = plans \o plan_sent' /\ PlannerRests
        /\ UNCHANGED <<controller, planned, smoothed, announced, goals, checked>>
    BY <1>14 DEF LocalState, LocalTimer, LocalPublishes
  <2>2. pose.yaw \in Heading
    BY DEF ChainInv, PP!PathInv, PP!Inv, PP!TypeOK, PP!Pose
  <2>3. LL!IInv'
    BY <1>10, <2>1, <2>2, LocalKeepsInv
  <2>4. UNCHANGED <<local_nav_state, ref_path>>
    BY <2>1 DEF L!CurrentStateCallback, L!PlanningTimer, L!TimerTracking, L!TimerAlign,
                L!TimerEnded, L!cache
  <2>5. StatesInOrder' /\ NewestPathIsCurrent' /\ ControllerObeysPlans'
    BY <1>5, <1>6, <1>8, <1>9, <2>1, <2>4
  <2>6. TopicTypes'
    BY <1>10, <2>1, <2>3, LocalPublishesCommands DEF TopicTypes
  <2>7. QED
    BY <1>3, <1>10, <2>1, <2>3, <2>5, <2>6 DEF ChainInv
<1>15. CASE ControllerPlan
  <2>1. /\ plans # <<>> /\ C!LocalPlanCallback(<<plans[1]>>) /\ plans' = Tail(plans)
        /\ PlannerRests /\ LocalRests
        /\ UNCHANGED <<planned, smoothed, announced, goals, checked>>
    BY <1>15 DEF ControllerPlan
  <2>2. plans[1] \in L!Command /\ plans' \in Seq(L!Command)
    BY <1>10, <2>1
  <2>3. ControllerObeysPlans'
    BY <2>1, <2>2, PlanKeepsController DEF ChainInv
  <2>4. LL!IInv' /\ StatesInOrder' /\ NewestPathIsCurrent'
    BY <1>5, <1>7, <1>8, <1>9, <2>1
  <2>5. TopicTypes'
    BY <1>10, <2>1, <2>2 DEF TopicTypes
  <2>6. QED
    BY <1>3, <1>10, <2>1, <2>3, <2>4, <2>5 DEF ChainInv
<1>16. CASE ControllerLoop
  <2>1. C!ControlLoop /\ PlannerRests /\ LocalRests
        /\ UNCHANGED <<planned, smoothed, announced, plans, goals, checked>>
    BY <1>16 DEF ControllerLoop, topics
  <2>2. ControllerObeysPlans'
    BY <2>1, LoopKeepsController DEF ChainInv
  <2>3. LL!IInv' /\ StatesInOrder' /\ NewestPathIsCurrent'
    BY <1>5, <1>7, <1>8, <1>9, <2>1
  <2>4. TopicTypes'
    BY <1>10, <2>1 DEF TopicTypes
  <2>5. QED
    BY <1>3, <1>10, <2>1, <2>2, <2>3, <2>4 DEF ChainInv
<1>17. CASE RobotMoves
  <2>1. /\ UNCHANGED <<nav_state, goal_pose>> /\ LocalRests /\ checked' \in BOOLEAN
        /\ UNCHANGED <<controller, planned, smoothed, announced, plans, goals>>
    BY <1>10, <1>17 DEF RobotMoves, mission, topics
  <2>2. LL!IInv' /\ StatesInOrder' /\ NewestPathIsCurrent' /\ ControllerObeysPlans'
    BY <1>6, <1>7, <1>8, <1>9, <2>1
  <2>3. TopicTypes'
    BY <1>10, <2>1 DEF TopicTypes
  <2>4. QED
    BY <1>3, <1>10, <2>1, <2>2, <2>3 DEF ChainInv
<1>18. QED
  BY <1>2, <1>4, <1>11, <1>12, <1>13, <1>14, <1>15, <1>16, <1>17 DEF Next

\* The planner in the chain is a planner: what the other nodes do is for it
\* the robot moving, or nothing at all.
THEOREM PlannerInChain == Spec => P!Spec
<1>1. Init => P!Init
  BY DEF Init
<1>2. ChainInv /\ [Next]_vars => [P!Next]_(P!vars)
  <2>1. CASE Next /\ ChainInv
    <3>1. pose \in Pose /\ cmd \in L!Command
      BY <2>1 DEF ChainInv, ControllerObeysPlans, PP!PathInv, PP!Inv, PP!TypeOK, PP!Pose, Pose
    <3>2. QED
      BY <2>1, <3>1, StepIsPlannerStep, SamePlannerStep
  <2>2. CASE UNCHANGED vars
    BY <2>2 DEF vars, planner, mission, P!vars, P!task
  <2>3. QED
    BY <2>1, <2>2
<1>3. QED
  BY <1>1, <1>2, InitChain, StepChain, PTL DEF Spec, P!Spec

\* Every node keeps its types behind the others, and the topics carry nothing
\* but what they are for.
THEOREM ChainTypes == Spec => []TypeOK
<1>1. ASSUME ChainInv PROVE TypeOK
  <2>1. P!TypeOK
    <3>1. PP!TypeOK
      BY <1>1 DEF ChainInv, PP!PathInv, PP!Inv
    <3>2. QED
      BY <3>1, Zenon DEF P!TypeOK, PP!TypeOK, P!NavState, PP!NavState, P!Pose, PP!Pose,
                         P!Path, PP!Path
  <2>2. L!TypeOK
    <3>1. LL!TypeOK
      BY <1>1 DEF ChainInv, LL!IInv
    <3>2. QED
      BY <3>1, Zenon DEF L!TypeOK, LL!TypeOK, L!NavState, LL!NavState, L!Command, LL!Command,
                         L!Heading, LL!Heading
  <2>3. planned \in Seq(P!Path)
    <3>1. planned \in Seq(SentPath) /\ SentPath \subseteq P!Path
      BY <1>1 DEF ChainInv, TopicTypes, SentPath, P!Path, P!Pose, Pose
    <3>2. QED
      BY <3>1, SeqMonotonic
  <2>4. QED
    BY <1>1, <2>1, <2>2, <2>3 DEF ChainInv, ControllerObeysPlans, TopicTypes, SmoothPath, TypeOK
<1>2. QED
  BY <1>1, InitChain, StepChain, PTL DEF Spec

\* What the local planner has seen, with what is on its way to it, ends in the
\* planner's state.
THEOREM LocalPlannerFollows == Spec => []LocalFollowsPlanner
<1>1. ChainInv => LocalFollowsPlanner
  BY DEF ChainInv, StatesInOrder, InOrder, Seen, LocalFollowsPlanner
<1>2. QED
  BY <1>1, InitChain, StepChain, PTL DEF Spec

\* Once the topics are empty the local planner has the path of the goal being
\* tracked, or none.
THEOREM StalePathsAreForgotten == Spec => []NoStalePathAtRest
<1>1. ChainInv => NoStalePathAtRest
  BY DEF ChainInv, NewestPathIsCurrent, NoStalePathAtRest
<1>2. QED
  BY <1>1, InitChain, StepChain, PTL DEF Spec

\* What the local planner promises in an environment that announces states in
\* the diagram's order, it keeps behind this planner: it never waits for its
\* own mutex and leaves no moving plan behind.
THEOREM ChainMovesOnlyOnTask == Spec => [](L!NeverBlocksOnItself /\ L!PlanMovesOnlyOnTask)
<1>1. ChainInv => L!NeverBlocksOnItself /\ L!PlanMovesOnlyOnTask
  BY DEF ChainInv, LL!IInv, LL!NeverBlocksOnItself, LL!PlanMovesOnlyOnTask, LL!Moving,
         L!NeverBlocksOnItself, L!PlanMovesOnlyOnTask, L!Moving
<1>2. QED
  BY <1>1, InitChain, StepChain, PTL DEF Spec
=============================================================================
