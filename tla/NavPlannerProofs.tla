--------------------------- MODULE NavPlannerProofs ---------------------------
(***************************************************************************)
(* Theorems about the planner's state machine, for every roadmap, every    *)
(* set of headings and every tolerance.                                    *)
(***************************************************************************)
EXTENDS NavPlanner, SequenceTheorems, TLAPS

-----------------------------------------------------------------------------
(* The roadmap queries                                                     *)

\* A snapped position is a position.
LEMMA SnapToFreeIsPoint ==
  ASSUME NEW p \in Point
  PROVE  SnapToFree(p) \subseteq Point
BY GraphAssumption DEF SnapToFree, Nearest

\* Whatever attempt succeeds, the vertex found is closer than three steps.
LEMMA SnapVertexWithinRadius ==
  ASSUME NEW p \in Point, NEW blocked \in SUBSET Vertex,
         NEW v \in SnapVertex(p, blocked)
  PROVE  v \in Vertex /\ Dist[p][v] < 3 * StepSize
<1>1. ASSUME NEW skipped \in SUBSET Vertex, NEW m \in {2, 3},
             v \in FindClosestVertex(p, skipped, m)
      PROVE  v \in Vertex /\ Dist[p][v] < 3 * StepSize
  <2>1. v \in Vertex /\ Dist[p][v] < m * StepSize
    BY <1>1 DEF FindClosestVertex, Nearest
  <2>2. Dist[p][v] \in Nat /\ StepSize \in Nat
    BY <2>1, GraphAssumption
  <2>3. CASE m = 2
    BY <2>1, <2>2, <2>3
  <2>4. CASE m = 3
    BY <2>1, <2>2, <2>4
  <2>5. QED
    BY <2>3, <2>4
<1>2. \/ v \in FindClosestVertex(p, blocked, 2)
      \/ v \in FindClosestVertex(p, blocked, 3)
      \/ v \in FindClosestVertex(p, {}, 3)
  BY DEF SnapVertex
<1>3. QED
  BY <1>1, <1>2

\* A path that computePath returns is a route along unblocked vertices that
\* ends within three steps of the goal.
LEMMA PlanResultsAreRoutes ==
  ASSUME NEW start \in Point, NEW goal \in Point, NEW blocked \in SUBSET Vertex,
         NEW r \in PlanResults(start, goal, blocked), r # <<>>
  PROVE  /\ r \in Seq(Vertex) /\ Len(r) >= 2
         /\ IsRoute(r, r[1], r[Len(r)], blocked)
         /\ Dist[goal][r[Len(r)]] < 3 * StepSize
<1>1. PICK s \in SnapVertex(start, blocked), g \in SnapVertex(goal, blocked) :
        r \in CheapestRoutes(s, g, blocked)
  BY DEF PlanResults
<1>2. IsRoute(r, s, g, blocked)
  BY <1>1 DEF CheapestRoutes, Routes
<1>3. Dist[goal][g] < 3 * StepSize
  BY SnapVertexWithinRadius
<1>4. r \in Seq(Vertex)
  BY <1>2 DEF IsRoute
<1>5. QED
  BY <1>2, <1>3, <1>4 DEF IsRoute

-----------------------------------------------------------------------------
(* The invariant                                                           *)

Inv == TypeOK /\ GoalHeldWhileActive /\ PathBelongsToTask

LEMMA PublishType ==
  ASSUME NEW states \in Seq(NavState), NEW paths \in Seq(Path)
  PROVE  Publish(states, paths) \in [states : Seq(NavState), paths : Seq(Path)]
BY DEF Publish

\* Sequences of at most three states.
LEMMA StateSequences ==
  /\ <<>> \in Seq(NavState)
  /\ \A s, t, u \in NavState :
       <<s>> \in Seq(NavState) /\ <<s, t>> \in Seq(NavState) /\ <<s, t, u>> \in Seq(NavState)
OBVIOUS

LEMMA PathSequences ==
  /\ <<>> \in Seq(Path) /\ NoPath \in Path
  /\ \A p \in Path : <<p>> \in Seq(Path)
<1>1. <<>> \in Seq(Vertex)
  OBVIOUS
<1>2. NoPath \in Path
  BY <1>1 DEF NoPath, Path
<1>3. QED
  BY <1>2

LEMMA SetNavStateType ==
  ASSUME NEW s \in NavState
  PROVE  SetNavState(s) \in Seq(NavState)
BY StateSequences DEF SetNavState

\* The planner starts idle, without goal and path.
LEMMA InitInv == Init => Inv
<1> SUFFICES ASSUME Init PROVE Inv
  OBVIOUS
<1>2. sent \in [states : Seq(NavState), paths : Seq(Path)]
  BY PublishType, StateSequences, PathSequences DEF Init, NavState
<1>3. TypeOK
  <2>1. nav_state \in NavState /\ has_goal \in BOOLEAN /\ force_replan \in BOOLEAN
    BY DEF Init, NavState
  <2>2. goal_pose \in Pose \cup {NoGoal} /\ last_path \in Path
    BY PathSequences DEF Init
  <2>3. vertex_blocked \subseteq Vertex /\ since_replan \in 0 .. ReplanTicks /\ pose \in Pose
    BY PlannerAssumption DEF Init
  <2>4. QED
    BY <1>2, <2>1, <2>2, <2>3 DEF TypeOK
<1>4. GoalHeldWhileActive
  BY DEF Init, GoalHeldWhileActive, Active, Idle, NavState
<1>5. PathBelongsToTask
  BY DEF Init, PathBelongsToTask
<1>6. QED
  BY <1>3, <1>4, <1>5 DEF Inv

LEMMA ElapsedType ==
  ASSUME since_replan \in 0 .. ReplanTicks
  PROVE  Elapsed \in 0 .. ReplanTicks
BY PlannerAssumption DEF Elapsed

\* A planning attempt, in GLOBAL_PLANNING or for a replan: the goal is there,
\* so the search is run; what it returns is kept with that goal, or the task
\* ends.
LEMMA PlanningPreservesInv ==
  ASSUME Inv, nav_state \in {"GLOBAL_PLANNING", "TRACKING"},
         NEW before \in Seq(Path), NEW stamp \in 0 .. ReplanTicks,
         PerformGlobalPlanning(before, stamp),
         UNCHANGED <<goal_pose, force_replan, vertex_blocked, pose>>
  PROVE  Inv'
<1>1. has_goal /\ goal_pose \in Pose
  BY DEF Inv, GoalHeldWhileActive, Active, Idle, NavState
<1>2. PICK r \in PlanOutcomes :
        LET path == [route |-> r, goal |-> goal_pose] IN
        \/ /\ r # <<>>
           /\ nav_state' = "TRACKING"
           /\ last_path' = path
           /\ since_replan' = 0
           /\ sent' = Publish(SetNavState("TRACKING"), Append(before, path))
           /\ UNCHANGED has_goal
        \/ /\ r = <<>>
           /\ nav_state' = "ABORTED"
           /\ has_goal' = FALSE
           /\ last_path' = NoPath
           /\ since_replan' = stamp
           /\ sent' = Publish(SetNavState("ABORTED"), before)
  BY <1>1 DEF PerformGlobalPlanning
<1>3. PICK s \in SnapToFree(pose.at) : r \in PlanResults(s, goal_pose.at, vertex_blocked)
  BY <1>1 DEF PlanOutcomes
<1>4. s \in Point /\ goal_pose.at \in Point /\ vertex_blocked \in SUBSET Vertex
  BY <1>1, SnapToFreeIsPoint DEF Inv, TypeOK, Pose
<1>5. UNCHANGED <<goal_pose, force_replan, vertex_blocked, pose>>
  OBVIOUS
<1>6. CASE r # <<>>
  <2> DEFINE path == [route |-> r, goal |-> goal_pose]
  <2>1. r \in Seq(Vertex) /\ Len(r) >= 2
    BY <1>3, <1>4, <1>6, PlanResultsAreRoutes
  <2>2. path \in Path
    BY <2>1, <1>1 DEF Path
  <2>3. Append(before, path) \in Seq(Path)
    BY <2>2
  <2>4. sent' \in [states : Seq(NavState), paths : Seq(Path)]
    BY <1>2, <1>6, <2>3, SetNavStateType, PublishType DEF NavState
  <2>5. nav_state' = "TRACKING" /\ has_goal' = has_goal /\ last_path' = path /\ since_replan' = 0
    BY <1>2, <1>6
  <2>6. TypeOK'
    BY <1>5, <2>2, <2>4, <2>5, PlannerAssumption DEF Inv, TypeOK, NavState
  <2>7. GoalHeldWhileActive'
    BY <1>1, <1>5, <2>5 DEF GoalHeldWhileActive, Active, Idle, NavState
  <2>8. PathBelongsToTask'
    BY <1>5, <2>1, <2>5 DEF PathBelongsToTask
  <2>9. QED
    BY <2>6, <2>7, <2>8 DEF Inv
<1>7. CASE r = <<>>
  <2>1. /\ nav_state' = "ABORTED" /\ has_goal' = FALSE
        /\ last_path' = NoPath /\ since_replan' = stamp
        /\ sent' = Publish(SetNavState("ABORTED"), before)
    BY <1>2, <1>7
  <2>2. sent' \in [states : Seq(NavState), paths : Seq(Path)]
    BY <2>1, SetNavStateType, PublishType DEF NavState
  <2>3. TypeOK'
    BY <1>5, <2>1, <2>2, PathSequences DEF Inv, TypeOK, NavState
  <2>4. GoalHeldWhileActive'
    BY <2>1 DEF GoalHeldWhileActive, Active, Idle, NavState
  <2>5. PathBelongsToTask'
    BY <2>1 DEF PathBelongsToTask
  <2>6. QED
    BY <2>3, <2>4, <2>5 DEF Inv
<1>8. QED
  BY <1>6, <1>7

\* What the idle and the unsuccessful branches leave alone.
LEMMA QuietStepPreservesInv ==
  ASSUME Inv, UNCHANGED <<nav_state, has_goal, goal_pose, last_path>>,
         force_replan' \in BOOLEAN, vertex_blocked' \subseteq Vertex,
         since_replan' \in 0 .. ReplanTicks, pose' \in Pose,
         sent' \in [states : Seq(NavState), paths : Seq(Path)]
  PROVE  Inv'
<1>1. TypeOK'
  BY DEF Inv, TypeOK
<1>2. GoalHeldWhileActive'
  BY DEF Inv, GoalHeldWhileActive
<1>3. PathBelongsToTask'
  BY DEF Inv, PathBelongsToTask
<1>4. QED
  BY <1>1, <1>2, <1>3 DEF Inv

\* Every way a task ends by itself or is cancelled.
LEMMA EndTaskPreservesInv ==
  ASSUME Inv, NEW s \in Idle, EndTask(s),
         UNCHANGED <<goal_pose, force_replan, vertex_blocked, pose>>,
         since_replan' \in 0 .. ReplanTicks,
         sent' \in [states : Seq(NavState), paths : Seq(Path)]
  PROVE  Inv'
<1>1. TypeOK'
  BY PathSequences DEF Inv, TypeOK, EndTask, Idle, NavState
<1>2. GoalHeldWhileActive'
  BY DEF GoalHeldWhileActive, EndTask, Active, Idle, NavState
<1>3. PathBelongsToTask'
  BY DEF PathBelongsToTask, EndTask, Idle
<1>4. QED
  BY <1>1, <1>2, <1>3 DEF Inv

\* The invariant is inductive: one step per action of Next.
LEMMA StepInv == Inv /\ [Next]_vars => Inv'
<1> SUFFICES ASSUME Inv, [Next]_vars PROVE Inv'
  OBVIOUS
<1>1. Elapsed \in 0 .. ReplanTicks /\ 0 \in 0 .. ReplanTicks
  BY ElapsedType, PlannerAssumption DEF Inv, TypeOK
<1>2. Nothing \in [states : Seq(NavState), paths : Seq(Path)]
  BY PublishType, StateSequences, PathSequences DEF Nothing
<1>3. CurrentPath \in Seq(Path)
  BY PathSequences DEF CurrentPath, Inv, TypeOK
<1>4. /\ force_replan \in BOOLEAN /\ vertex_blocked \subseteq Vertex /\ pose \in Pose
      /\ since_replan \in 0 .. ReplanTicks
  BY DEF Inv, TypeOK
<1>5. CASE UpdateIdle \/ UpdateNoTf \/ ObstacleMalformed \/ Move
  BY <1>1, <1>2, <1>4, <1>5, QuietStepPreservesInv
  DEF UpdateIdle, UpdateNoTf, ObstacleMalformed, Move, task
<1>6. CASE UpdatePlanning
  BY <1>1, <1>6, PathSequences, PlanningPreservesInv DEF UpdatePlanning
<1>7. CASE UpdateReplan
  BY <1>1, <1>3, <1>7, PlanningPreservesInv DEF UpdateReplan
<1>8. CASE UpdateTracking
  <2> DEFINE reached == has_goal /\ PosErr < PosTol
  <2>1. sent' \in [states : Seq(NavState), paths : Seq(Path)]
    BY <1>3, <1>8, PublishType, StateSequences DEF UpdateTracking, NavState
  <2>2. since_replan' = Elapsed
        /\ UNCHANGED <<has_goal, goal_pose, last_path, force_replan, vertex_blocked, pose>>
    BY <1>8 DEF UpdateTracking
  <2>3. CASE reached
    <3>1. nav_state = "TRACKING" /\ nav_state' = "GOAL_ALIGN"
      BY <1>8, <2>3 DEF UpdateTracking
    <3>2. TypeOK'
      BY <1>1, <2>1, <2>2, <3>1 DEF Inv, TypeOK, NavState
    <3>3. GoalHeldWhileActive'
      BY <2>2, <3>1 DEF Inv, GoalHeldWhileActive, Active, Idle, NavState
    <3>4. PathBelongsToTask'
      BY <2>2, <3>1 DEF Inv, PathBelongsToTask
    <3>5. QED
      BY <3>2, <3>3, <3>4 DEF Inv
  <2>4. CASE ~reached
    BY <1>1, <1>4, <1>8, <2>1, <2>2, <2>4, QuietStepPreservesInv DEF UpdateTracking
  <2>5. QED
    BY <2>3, <2>4
<1>9. CASE UpdateAlign
  <2>1. AlignmentOutcome \in {"COMPLETED", "ABORTED", "GOAL_ALIGN"}
    BY DEF AlignmentOutcome
  <2>2. sent' \in [states : Seq(NavState), paths : Seq(Path)]
    BY <1>9, <2>1, PublishType, SetNavStateType, PathSequences DEF UpdateAlign, NavState
  <2>3. CASE AlignmentOutcome = "GOAL_ALIGN"
    BY <1>1, <1>4, <1>9, <2>2, <2>3, QuietStepPreservesInv DEF UpdateAlign
  <2>4. CASE AlignmentOutcome # "GOAL_ALIGN"
    BY <1>1, <1>9, <2>1, <2>2, <2>4, EndTaskPreservesInv DEF UpdateAlign, Idle
  <2>5. QED
    BY <2>3, <2>4
<1>10. CASE GoalCb
  <2>1. PICK g \in Pose, snapped \in Point :
          goal_pose' = [g EXCEPT !.at = snapped]
    BY <1>10, SnapToFreeIsPoint DEF GoalCb, Pose
  <2>2. goal_pose' \in Pose
    BY <2>1 DEF Pose
  <2>3. /\ has_goal' = TRUE /\ last_path' = NoPath /\ force_replan' = FALSE
        /\ nav_state' = "GLOBAL_PLANNING" /\ UNCHANGED <<vertex_blocked, since_replan, pose>>
    BY <1>10 DEF GoalCb
  <2>4. sent' \in [states : Seq(NavState), paths : Seq(Path)]
    <3>1. \/ sent' = Publish(<<"ABORTED", "WAITING", "GLOBAL_PLANNING">>, <<>>)
          \/ sent' = Publish(<<"GLOBAL_PLANNING">>, <<>>)
      BY <1>10 DEF GoalCb
    <3>2. /\ <<"ABORTED", "WAITING", "GLOBAL_PLANNING">> \in Seq(NavState)
          /\ <<"GLOBAL_PLANNING">> \in Seq(NavState)
      BY StateSequences DEF NavState
    <3>3. QED
      BY <3>1, <3>2, PublishType, PathSequences
  <2>5. TypeOK'
    BY <2>2, <2>3, <2>4, PathSequences DEF Inv, TypeOK, NavState
  <2>6. GoalHeldWhileActive'
    BY <2>2, <2>3 DEF GoalHeldWhileActive, Active, Idle, NavState
  <2>7. PathBelongsToTask'
    BY <2>3 DEF PathBelongsToTask
  <2>8. QED
    BY <2>5, <2>6, <2>7 DEF Inv
<1>11. CASE CancelNavigationCb
  <2>1. sent' \in [states : Seq(NavState), paths : Seq(Path)]
    <3>1. sent' = Publish(<<"ABORTED", "WAITING">>, <<>>) \/ sent' = Nothing
      BY <1>11 DEF CancelNavigationCb
    <3>2. <<"ABORTED", "WAITING">> \in Seq(NavState)
      BY StateSequences DEF NavState
    <3>3. QED
      BY <1>2, <3>1, <3>2, PublishType, PathSequences
  <2>2. CASE nav_state \in Active
    BY <1>4, <1>11, <2>1, <2>2, EndTaskPreservesInv DEF CancelNavigationCb, Idle
  <2>3. CASE nav_state \notin Active
    BY <1>4, <1>11, <2>1, <2>3, QuietStepPreservesInv DEF CancelNavigationCb
  <2>4. QED
    BY <2>2, <2>3
<1>12. CASE ObstacleCallback
  BY <1>2, <1>4, <1>12, QuietStepPreservesInv DEF ObstacleCallback
<1>13. CASE UNCHANGED vars
  BY <1>13 DEF vars, task, Inv, TypeOK, GoalHeldWhileActive, PathBelongsToTask
<1>14. QED
  BY <1>5, <1>6, <1>7, <1>8, <1>9, <1>10, <1>11, <1>12, <1>13
  DEF Next, Update, Callback

\* The type invariant and the two invariants that tie the goal and the kept
\* path to the state of the task hold in every reachable state.
THEOREM PlannerInvariant == Spec => [](TypeOK /\ GoalHeldWhileActive /\ PathBelongsToTask)
<1>1. Inv <=> TypeOK /\ GoalHeldWhileActive /\ PathBelongsToTask
  BY DEF Inv
<1>2. QED
  BY <1>1, InitInv, StepInv, PTL DEF Spec

\* Every variable keeps its type: the planner's state machine never leaves its
\* six states, and no message it publishes is malformed.
THEOREM PlannerTypes == Spec => []TypeOK
BY PlannerInvariant, PTL

-----------------------------------------------------------------------------
(* What is announced                                                       *)

\* What a step tells its subscribers: nothing, and the state stays; the new
\* state, which follows from the old one; or, when a task under way is dropped,
\* its end and what comes after it.
Announces ==
  \/ sent'.states = <<>> /\ nav_state' = nav_state
  \/ sent'.states = <<nav_state'>> /\ FollowsDiagram(nav_state, nav_state')
  \/ /\ nav_state \in Active /\ nav_state' = "WAITING"
     /\ sent'.states = <<"ABORTED", "WAITING">>
  \/ /\ nav_state \in Active /\ nav_state' = "GLOBAL_PLANNING"
     /\ sent'.states = <<"ABORTED", "WAITING", "GLOBAL_PLANNING">>

\* The state a task is dropped from is one that may be aborted.
LEMMA PlanningAnnounces ==
  ASSUME nav_state \in {"GLOBAL_PLANNING", "TRACKING"},
         NEW before, NEW stamp, PerformGlobalPlanning(before, stamp)
  PROVE  Announces
<1>1. \/ nav_state' = "TRACKING" /\ sent'.states = SetNavState("TRACKING")
      \/ nav_state' = "ABORTED" /\ sent'.states = SetNavState("ABORTED")
  BY DEF PerformGlobalPlanning, Publish
<1>2. nav_state \in Active
  BY DEF Active, Idle, NavState
<1>3. QED
  BY <1>1, <1>2 DEF SetNavState, Announces, FollowsDiagram

LEMMA StepAnnounces ==
  ASSUME nav_state \in NavState, Next
  PROVE  Announces
<1>1. CASE UpdateIdle \/ UpdateNoTf \/ ObstacleMalformed \/ Move \/ ObstacleCallback
  BY <1>1 DEF UpdateIdle, UpdateNoTf, ObstacleMalformed, Move, ObstacleCallback, task,
              Nothing, Publish, Announces
<1>2. CASE UpdatePlanning \/ UpdateReplan
  BY <1>2, PlanningAnnounces DEF UpdatePlanning, UpdateReplan
<1>3. CASE UpdateTracking
  <2>1. /\ nav_state = "TRACKING"
        /\ \/ nav_state' = "GOAL_ALIGN" /\ sent'.states = <<"GOAL_ALIGN">>
           \/ nav_state' = nav_state /\ sent'.states = <<>>
    BY <1>3 DEF UpdateTracking, Publish
  <2>2. QED
    BY <2>1 DEF Announces, FollowsDiagram
<1>4. CASE UpdateAlign
  <2>1. AlignmentOutcome \in {"COMPLETED", "ABORTED", "GOAL_ALIGN"}
    BY DEF AlignmentOutcome
  <2>2. /\ nav_state = "GOAL_ALIGN" /\ nav_state' = AlignmentOutcome
        /\ sent'.states = SetNavState(AlignmentOutcome)
    BY <1>4 DEF UpdateAlign, EndTask, Publish
  <2>3. nav_state \in Active
    BY <2>2 DEF Active, Idle, NavState
  <2>4. QED
    BY <2>1, <2>2, <2>3 DEF SetNavState, Announces, FollowsDiagram
<1>5. CASE GoalCb
  <2>1. /\ nav_state' = "GLOBAL_PLANNING"
        /\ \/ /\ nav_state \in Active
              /\ sent'.states = <<"ABORTED", "WAITING", "GLOBAL_PLANNING">>
           \/ nav_state \notin Active /\ sent'.states = <<"GLOBAL_PLANNING">>
    BY <1>5 DEF GoalCb, Publish
  <2>2. QED
    BY <2>1 DEF Announces, FollowsDiagram, Active, Idle
<1>6. CASE CancelNavigationCb
  BY <1>6 DEF CancelNavigationCb, EndTask, Publish, Nothing, Announces
<1>7. QED
  BY <1>1, <1>2, <1>3, <1>4, <1>5, <1>6 DEF Next, Update, Callback

\* A state in front of a sequence of states.
LEMMA InFront ==
  ASSUME NEW S, NEW a \in S, NEW s \in Seq(S)
  PROVE  /\ Len(<<a>> \o s) = Len(s) + 1
         /\ (<<a>> \o s)[1] = a
         /\ \A i \in 1 .. Len(s) : (<<a>> \o s)[i + 1] = s[i]
<1>1. <<a>> \in Seq(S) /\ Len(<<a>>) = 1 /\ <<a>>[1] = a
  OBVIOUS
<1>2. QED
  BY <1>1, ConcatProperties

\* What one step says: it ends in the state the planner is in, it begins with
\* one that follows from the state before, and it skips none in between.
LEMMA StepSays ==
  ASSUME Inv, Inv', Next
  PROVE  /\ sent'.states \in Seq(NavState)
         /\ Len(sent'.states) = 0 => nav_state' = nav_state
         /\ Len(sent'.states) > 0 => /\ sent'.states[Len(sent'.states)] = nav_state'
                                     /\ FollowsDiagram(nav_state, sent'.states[1])
         /\ \A i \in 1 .. Len(sent'.states) - 1 :
              FollowsDiagram(sent'.states[i], sent'.states[i + 1])
<1> DEFINE said == sent'.states
<1>1. Announces /\ said \in Seq(NavState)
  BY StepAnnounces DEF Inv, TypeOK
<1>2. CASE said = <<>> /\ nav_state' = nav_state
  BY <1>2
<1>3. CASE said = <<nav_state'>> /\ FollowsDiagram(nav_state, nav_state')
  BY <1>1, <1>3
<1>4. CASE nav_state \in Active /\ nav_state' = "WAITING" /\ said = <<"ABORTED", "WAITING">>
  BY <1>1, <1>4 DEF FollowsDiagram
<1>5. CASE /\ nav_state \in Active /\ nav_state' = "GLOBAL_PLANNING"
           /\ said = <<"ABORTED", "WAITING", "GLOBAL_PLANNING">>
  BY <1>1, <1>5 DEF FollowsDiagram
<1>6. QED
  BY <1>1, <1>2, <1>3, <1>4, <1>5 DEF Announces

\* Along every behaviour the announcements are the diagram's steps one by one,
\* and end in the state the planner is in.
THEOREM AnnouncementsFollowDiagram == Spec => AnnouncedStatesFollowDiagram
<1> DEFINE told == <<nav_state>> \o sent'.states
           Follows == /\ told[Len(told)] = nav_state'
                      /\ \A i \in 1 .. Len(told) - 1 : FollowsDiagram(told[i], told[i + 1])
<1>1. ASSUME Inv, Inv', Next PROVE Follows
  <2> DEFINE said == sent'.states
  <2>1. /\ said \in Seq(NavState) /\ nav_state \in NavState
        /\ Len(said) = 0 => nav_state' = nav_state
        /\ Len(said) > 0 => said[Len(said)] = nav_state' /\ FollowsDiagram(nav_state, said[1])
        /\ \A i \in 1 .. Len(said) - 1 : FollowsDiagram(said[i], said[i + 1])
    BY <1>1, StepSays DEF Inv, TypeOK
  <2>2. /\ Len(told) = Len(said) + 1 /\ told[1] = nav_state
        /\ \A i \in 1 .. Len(said) : told[i + 1] = said[i]
    BY <2>1, InFront
  <2> HIDE DEF told, said
  <2>3. Len(said) \in Nat /\ Len(told) = Len(said) + 1
    BY <2>1, <2>2
  <2>4. told[Len(told)] = nav_state'
    BY <2>1, <2>2, <2>3
  <2>5. ASSUME NEW i \in 1 .. Len(told) - 1
        PROVE  FollowsDiagram(told[i], told[i + 1])
    <3>1. CASE i = 1
      BY <2>1, <2>2, <2>3, <2>5, <3>1
    <3>2. CASE i > 1
      <4>1. i - 1 \in 1 .. Len(said) - 1 /\ (i - 1) + 1 = i
        BY <2>3, <2>5, <3>2
      <4>2. told[i] = said[i - 1] /\ told[i + 1] = said[i]
        BY <2>2, <2>3, <2>5, <4>1
      <4>3. QED
        BY <2>1, <4>1, <4>2
    <3>3. QED
      BY <2>3, <2>5, <3>1, <3>2
  <2>6. QED
    BY <2>4, <2>5 DEF told
<1>2. Inv /\ Inv' /\ [Next]_vars => [Follows]_vars
  BY <1>1
<1>3. QED
  BY <1>2, InitInv, StepInv, PTL DEF Spec, AnnouncedStatesFollowDiagram

-----------------------------------------------------------------------------
(* Refinement                                                              *)

\* The goal the abstract task server would hold.
TaskGoal == IF has_goal THEN goal_pose ELSE NoGoal

\* A planning attempt routes the task, or gives it up, or, for a replan that
\* succeeds, leaves the abstract state alone.
LEMMA PlanningImplementsTask ==
  ASSUME Inv, nav_state \in {"GLOBAL_PLANNING", "TRACKING"},
         NEW before, NEW stamp, PerformGlobalPlanning(before, stamp),
         UNCHANGED goal_pose
  PROVE  [Task!Next]_(Task!taskVars)
<1>1. has_goal /\ has_goal \in BOOLEAN
  BY DEF Inv, GoalHeldWhileActive, Active, Idle, NavState
<1>2. \/ nav_state' = "TRACKING" /\ has_goal' = has_goal
      \/ nav_state' = "ABORTED" /\ has_goal' = FALSE
  BY DEF PerformGlobalPlanning
<1>3. CASE nav_state' = "TRACKING" /\ has_goal' = has_goal
  BY <1>3 DEF Task!Next, Task!Route, Task!taskVars
<1>4. CASE nav_state' = "ABORTED" /\ has_goal' = FALSE
  BY <1>4 DEF Task!Next, Task!Abort, Task!Active, Task!taskVars
<1>5. QED
  BY <1>2, <1>3, <1>4

\* Every step of the planner is a step of the task server or stutters.
LEMMA StepImplementsTask ==
  ASSUME Inv, [Next]_vars
  PROVE  [Task!Next]_(Task!taskVars)
<1>1. CASE UpdateIdle \/ UpdateNoTf \/ ObstacleMalformed \/ Move \/ ObstacleCallback
           \/ UNCHANGED vars
  BY <1>1 DEF UpdateIdle, UpdateNoTf, ObstacleMalformed, Move, ObstacleCallback,
              vars, task, Task!taskVars
<1>2. CASE UpdatePlanning \/ UpdateReplan
  BY <1>2, PlanningImplementsTask DEF UpdatePlanning, UpdateReplan
<1>3. CASE UpdateTracking
  <2>1. nav_state = "TRACKING" /\ nav_state' \in {"TRACKING", "GOAL_ALIGN"}
        /\ UNCHANGED <<has_goal, goal_pose>>
    BY <1>3 DEF UpdateTracking
  <2>2. QED
    BY <2>1 DEF Task!Next, Task!Arrive, Task!taskVars
<1>4. CASE UpdateAlign
  <2>1. AlignmentOutcome \in {"COMPLETED", "ABORTED", "GOAL_ALIGN"}
    BY DEF AlignmentOutcome
  <2>2. CASE AlignmentOutcome = "GOAL_ALIGN"
    BY <1>4, <2>2 DEF UpdateAlign, Task!taskVars
  <2>3. CASE AlignmentOutcome # "GOAL_ALIGN"
    <3>1. nav_state = "GOAL_ALIGN" /\ nav_state' = AlignmentOutcome /\ has_goal' = FALSE
      BY <1>4, <2>3 DEF UpdateAlign, EndTask
    <3>2. QED
      BY <2>1, <2>3, <3>1
      DEF Task!Next, Task!Complete, Task!Abort, Task!Active, Task!taskVars
  <2>4. QED
    BY <2>2, <2>3
<1>5. CASE GoalCb
  <2>1. nav_state' = "GLOBAL_PLANNING" /\ has_goal' = TRUE
    BY <1>5 DEF GoalCb
  <2>2. goal_pose' \in Pose
    <3>1. PICK g \in Pose, snapped \in Point : goal_pose' = [g EXCEPT !.at = snapped]
      BY <1>5, SnapToFreeIsPoint DEF GoalCb, Pose
    <3>2. QED
      BY <3>1 DEF Pose
  <2>3. \E g \in Pose : Task!Accept(g)
    BY <2>1, <2>2 DEF Task!Accept
  <2>4. QED
    BY <2>3 DEF Task!Next
<1>6. CASE CancelNavigationCb
  <2>1. CASE nav_state \in Active
    <3>1. nav_state' = "WAITING" /\ has_goal' = FALSE
      BY <1>6, <2>1 DEF CancelNavigationCb, EndTask
    <3>2. nav_state \in {"GLOBAL_PLANNING", "TRACKING", "GOAL_ALIGN"}
      BY <2>1 DEF Active, Idle, NavState
    <3>3. QED
      BY <3>1, <3>2 DEF Task!Next, Task!Cancel, Task!Active
  <2>2. CASE nav_state \notin Active
    BY <1>6, <2>2 DEF CancelNavigationCb, Task!taskVars
  <2>3. QED
    BY <2>1, <2>2
<1>7. QED
  BY <1>1, <1>2, <1>3, <1>4, <1>5, <1>6 DEF Next, Update, Callback

\* The planner implements the abstract task server: one goal at a time, kept
\* from its acceptance to the end of its task.
THEOREM PlannerImplementsTask == Spec => ImplementsTask
<1>1. Init => Task!Init
  BY DEF Init, Task!Init
<1>2. Inv /\ [Next]_vars => [Task!Next]_(Task!taskVars)
  BY StepImplementsTask
<1>3. QED
  BY <1>1, <1>2, InitInv, StepInv, PTL DEF Spec, ImplementsTask, Task!Safety

-----------------------------------------------------------------------------
(* What is published                                                       *)

\* A path as the planner publishes it: a route over the roadmap that ends
\* where the goal can be snapped to, tagged with the goal of the task.
GoodPath(p) ==
  /\ p.goal = goal_pose
  /\ p.route \in Seq(Vertex)
  /\ IsRoute(p.route, p.route[1], p.route[Len(p.route)], {})
  /\ Dist[goal_pose.at][p.route[Len(p.route)]] < 3 * StepSize

\* The path kept for re-publication is as good as when it was planned.
KeptPathGood == last_path.route # <<>> => GoodPath(last_path)
PathInv == Inv /\ KeptPathGood /\ PublishedPathLeadsToGoal

\* What is an unblocked route now is a route of the roadmap.
LEMMA PlannedPathIsGood ==
  ASSUME NEW r \in PlanOutcomes, r # <<>>, has_goal,
         Inv
  PROVE  /\ GoodPath([route |-> r, goal |-> goal_pose])
         /\ RangeOf(r) \cap vertex_blocked = {}
<1> DEFINE path == [route |-> r, goal |-> goal_pose]
<1>1. goal_pose \in Pose
  BY DEF Inv, GoalHeldWhileActive
<1>2. PICK s \in SnapToFree(pose.at) : r \in PlanResults(s, goal_pose.at, vertex_blocked)
  BY DEF PlanOutcomes
<1>3. s \in Point /\ goal_pose.at \in Point /\ vertex_blocked \in SUBSET Vertex
  BY <1>1, SnapToFreeIsPoint DEF Inv, TypeOK, Pose
<1>4. /\ r \in Seq(Vertex) /\ Len(r) >= 2
      /\ IsRoute(r, r[1], r[Len(r)], vertex_blocked)
      /\ Dist[goal_pose.at][r[Len(r)]] < 3 * StepSize
  BY <1>2, <1>3, PlanResultsAreRoutes
<1>5. r \in Seq(Vertex \ vertex_blocked)
  BY <1>4 DEF IsRoute
<1>6. IsRoute(r, r[1], r[Len(r)], {})
  BY <1>4 DEF IsRoute
<1>7. GoodPath(path)
  BY <1>4, <1>6 DEF GoodPath
<1>8. RangeOf(r) \cap vertex_blocked = {}
  BY <1>5 DEF RangeOf
<1>9. QED
  BY <1>7, <1>8

\* A planning attempt changes the kept path to one that avoids what is
\* blocked, or to none, and publishes at most the path it was already
\* publishing and the new one.
LEMMA PlanningPreservesPaths ==
  ASSUME PathInv, nav_state \in {"GLOBAL_PLANNING", "TRACKING"},
         NEW before \in {<<>>, CurrentPath}, NEW stamp, PerformGlobalPlanning(before, stamp),
         UNCHANGED <<goal_pose, vertex_blocked>>
  PROVE  /\ KeptPathGood' /\ PublishedPathLeadsToGoal'
         /\ RangeOf(last_path'.route) \cap vertex_blocked = {}
<1>1. has_goal
  BY DEF PathInv, Inv, GoalHeldWhileActive, Active, Idle, NavState
<1>2. before = <<>> \/ (before = <<last_path>> /\ GoodPath(last_path))
  BY DEF CurrentPath, PathInv, KeptPathGood
<1>3. \A i \in DOMAIN before : GoodPath(before[i])
  BY <1>2
<1>4. PICK r \in PlanOutcomes :
        \/ /\ r # <<>> /\ last_path' = [route |-> r, goal |-> goal_pose]
           /\ sent' = Publish(SetNavState("TRACKING"), Append(before, last_path'))
        \/ last_path' = NoPath /\ sent' = Publish(SetNavState("ABORTED"), before)
  BY <1>1 DEF PerformGlobalPlanning
<1>5. \A p : GoodPath(p) => GoodPath(p)'
  BY DEF GoodPath
<1>6. CASE last_path' = NoPath /\ sent' = Publish(SetNavState("ABORTED"), before)
  <2>1. KeptPathGood' /\ RangeOf(last_path'.route) = {}
    BY <1>6 DEF KeptPathGood, NoPath, RangeOf
  <2>2. sent'.paths = before
    BY <1>6 DEF Publish
  <2>3. PublishedPathLeadsToGoal'
    BY <1>3, <2>2 DEF PublishedPathLeadsToGoal, GoodPath
  <2>4. QED
    BY <2>1, <2>3
<1>7. CASE /\ r # <<>> /\ last_path' = [route |-> r, goal |-> goal_pose]
           /\ sent' = Publish(SetNavState("TRACKING"), Append(before, last_path'))
  <2>1. GoodPath(last_path') /\ RangeOf(last_path'.route) \cap vertex_blocked = {}
    BY <1>1, <1>7, PlannedPathIsGood DEF PathInv
  <2>2. KeptPathGood'
    BY <2>1 DEF KeptPathGood, GoodPath
  <2>3. sent'.paths = Append(before, last_path')
    BY <1>7 DEF Publish
  <2>4. \A i \in DOMAIN sent'.paths : GoodPath(sent'.paths[i])
    BY <1>2, <2>1, <2>3
  <2>5. PublishedPathLeadsToGoal'
    BY <2>4 DEF PublishedPathLeadsToGoal, GoodPath
  <2>6. QED
    BY <2>1, <2>2, <2>5
<1>8. QED
  BY <1>4, <1>6, <1>7

\* Every step keeps the paths good, and only a planning attempt that avoids
\* the blocked vertices gives the planner another path.
LEMMA StepPathInv ==
  ASSUME PathInv, [Next]_vars
  PROVE  /\ PathInv'
         /\ last_path' # last_path => RangeOf(last_path'.route) \cap vertex_blocked = {}
<1>1. Inv'
  BY StepInv DEF PathInv
<1>2. RangeOf(NoPath.route) = {}
  BY DEF RangeOf, NoPath
<1>3. ASSUME sent'.paths = <<>> PROVE PublishedPathLeadsToGoal'
  BY <1>3 DEF PublishedPathLeadsToGoal
<1>4. ASSUME last_path' = NoPath PROVE KeptPathGood'
  BY <1>4 DEF KeptPathGood, NoPath
<1>5. ASSUME UNCHANGED <<last_path, goal_pose>> PROVE KeptPathGood'
  BY <1>5 DEF PathInv, KeptPathGood, GoodPath
<1>6. CASE UpdateIdle \/ UpdateNoTf \/ ObstacleMalformed \/ Move \/ ObstacleCallback
  <2>1. sent'.paths = <<>> /\ UNCHANGED <<last_path, goal_pose>>
    BY <1>6 DEF UpdateIdle, UpdateNoTf, ObstacleMalformed, Move, ObstacleCallback,
                task, Nothing, Publish
  <2>2. QED
    BY <1>1, <1>3, <1>5, <2>1 DEF PathInv
<1>7. CASE UpdatePlanning
  BY <1>1, <1>7, PlanningPreservesPaths DEF UpdatePlanning, PathInv
<1>8. CASE UpdateReplan
  BY <1>1, <1>8, PlanningPreservesPaths DEF UpdateReplan, PathInv
<1>9. CASE UpdateTracking
  <2>1. UNCHANGED <<last_path, goal_pose>> /\ sent'.paths = CurrentPath
    BY <1>9 DEF UpdateTracking, Publish
  <2>2. CurrentPath = <<>> \/ (CurrentPath = <<last_path>> /\ GoodPath(last_path))
    BY DEF CurrentPath, PathInv, KeptPathGood
  <2>3. PublishedPathLeadsToGoal'
    BY <2>1, <2>2 DEF PublishedPathLeadsToGoal, GoodPath
  <2>4. QED
    BY <1>1, <1>5, <2>1, <2>3 DEF PathInv
<1>10. CASE UpdateAlign
  <2>1. UNCHANGED goal_pose /\ sent'.paths = <<>>
        /\ (last_path' = NoPath \/ last_path' = last_path)
    BY <1>10 DEF UpdateAlign, EndTask, Publish
  <2>2. QED
    BY <1>1, <1>2, <1>3, <1>4, <1>5, <2>1 DEF PathInv
<1>11. CASE GoalCb
  <2>1. last_path' = NoPath /\ sent'.paths = <<>>
    BY <1>11 DEF GoalCb, Publish
  <2>2. QED
    BY <1>1, <1>2, <1>3, <1>4, <2>1 DEF PathInv
<1>12. CASE CancelNavigationCb
  <2>1. UNCHANGED goal_pose /\ sent'.paths = <<>>
        /\ (last_path' = NoPath \/ last_path' = last_path)
    BY <1>12 DEF CancelNavigationCb, EndTask, Publish, Nothing
  <2>2. QED
    BY <1>1, <1>2, <1>3, <1>4, <1>5, <2>1 DEF PathInv
<1>13. CASE UNCHANGED vars
  BY <1>1, <1>13 DEF vars, task, PathInv, KeptPathGood, PublishedPathLeadsToGoal, GoodPath
<1>14. QED
  BY <1>6, <1>7, <1>8, <1>9, <1>10, <1>11, <1>12, <1>13 DEF Next, Update, Callback

\* A path leaves the planner while its task is planned or tracked, and the goal
\* stays; the planner begins to track, and goes on to, only with a path sent.
LEMMA PathsAreOfTask ==
  ASSUME Inv, Next
  PROVE  /\ sent'.paths # <<>> => /\ nav_state \in {"GLOBAL_PLANNING", "TRACKING"}
                                  /\ goal_pose' = goal_pose
         /\ nav_state' \in {"TRACKING", "GOAL_ALIGN"} =>
              \/ sent'.paths # <<>>
              \/ nav_state \in {"TRACKING", "GOAL_ALIGN"} /\ goal_pose' = goal_pose
<1>1. CASE UpdateIdle \/ UpdateNoTf \/ ObstacleMalformed \/ Move \/ ObstacleCallback
  BY <1>1 DEF UpdateIdle, UpdateNoTf, ObstacleMalformed, Move, ObstacleCallback,
              task, Nothing, Publish
<1>2. CASE UpdatePlanning
  <2>1. PICK r \in PlanOutcomes :
          \/ sent' = Publish(SetNavState("TRACKING"), Append(<<>>, [route |-> r, goal |-> goal_pose]))
          \/ nav_state' = "ABORTED"
    BY <1>2 DEF UpdatePlanning, PerformGlobalPlanning
  <2>2. Append(<<>>, [route |-> r, goal |-> goal_pose]) # <<>>
    OBVIOUS
  <2>3. sent'.paths # <<>> \/ nav_state' = "ABORTED"
    BY <2>1, <2>2 DEF Publish
  <2>4. QED
    BY <1>2, <2>3 DEF UpdatePlanning
<1>3. CASE UpdateReplan
  BY <1>3 DEF UpdateReplan
<1>4. CASE UpdateTracking
  BY <1>4 DEF UpdateTracking
<1>5. CASE UpdateAlign
  BY <1>5 DEF UpdateAlign, Publish
<1>6. CASE GoalCb
  BY <1>6 DEF GoalCb, Publish
<1>7. CASE CancelNavigationCb
  BY <1>7 DEF CancelNavigationCb, EndTask, Publish, Nothing
<1>8. QED
  BY <1>1, <1>2, <1>3, <1>4, <1>5, <1>6, <1>7 DEF Next, Update, Callback

LEMMA InitPathInv == Init => PathInv
<1> SUFFICES ASSUME Init PROVE PathInv
  OBVIOUS
<1>1. KeptPathGood /\ PublishedPathLeadsToGoal
  BY DEF Init, KeptPathGood, PublishedPathLeadsToGoal, NoPath, Publish
<1>2. QED
  BY <1>1, InitInv DEF PathInv

\* Whatever leaves the planner on /planned_path leads over the roadmap to the
\* goal of the task that publishes it.
THEOREM PathsLeadToGoal == Spec => []PublishedPathLeadsToGoal
<1>1. PathInv /\ [Next]_vars => PathInv'
  BY StepPathInv
<1>2. PathInv => PublishedPathLeadsToGoal
  BY DEF PathInv
<1>3. QED
  BY <1>1, <1>2, InitPathInv, PTL DEF Spec

\* No plan goes through a vertex that is blocked when it is made.
THEOREM PlansAreUnblocked == Spec => PlansAvoidBlocked
<1>1. PathInv /\ [Next]_vars => PathInv'
  BY StepPathInv
<1>2. PathInv /\ [Next]_vars
        => [last_path' # last_path
              => RangeOf(last_path'.route) \cap vertex_blocked = {}]_vars
  BY StepPathInv
<1>3. QED
  BY <1>1, <1>2, InitPathInv, PTL DEF Spec, PlansAvoidBlocked
=============================================================================
