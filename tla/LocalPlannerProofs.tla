------------------------- MODULE LocalPlannerProofs -------------------------
(***************************************************************************)
(* Proofs about the local planner: it never waits for its own mutex and    *)
(* never leaves a moving plan behind when a task has ended, whatever the   *)
(* goals, the number of headings and the controls of a solution are.       *)
(***************************************************************************)
EXTENDS LocalPlanner, TLAPS

\* The direction is known exactly in GOAL_ALIGN.
DirectionWhileAligning == direction_set <=> local_nav_state = "GOAL_ALIGN"

IInv == TypeOK /\ DirectionWhileAligning /\ NeverBlocksOnItself /\ PlanMovesOnlyOnTask

\* The commands a step may publish are commands, and Zero does not move.
LEMMA TwistTypes ==
  /\ \A v \in {0, 1}, w \in {-1, 0, 1}, to \in Goal \cup {NoGoal} : Twist(v, w, to) \in Command
  /\ Zero \in Command /\ ~Moving(Zero)
BY DEF Twist, Zero, Command, Moving

\* The direction to turn in is a sign.
LEMMA AlignDirectionType == AlignDirection \in {-1, 0, 1}
BY DEF AlignDirection

\* A heading is what a full turn leaves of a number.
LEMMA ZeroIsHeading == 0 \in Heading
BY LocalPlannerAssumption DEF Heading

\* A step that publishes a command c, or nothing, keeps the types of what
\* was published.
LEMMA PublishTypes ==
  ASSUME TypeOK
  PROVE  /\ \A c \in Command : PublishPlan(c) => local_plan' \in Command /\ plan_sent' \in Seq(Command)
         /\ PublishNothing => local_plan' \in Command /\ plan_sent' \in Seq(Command)
<1>1. \A c \in Command : <<c>> \in Seq(Command)
  OBVIOUS
<1>2. <<>> \in Seq(Command)
  OBVIOUS
<1>3. QED
  BY <1>1, <1>2 DEF PublishPlan, PublishNothing, TypeOK

\* The initial state satisfies the inductive invariant.
LEMMA InitIInv == Init => IInv
<1> SUFFICES ASSUME Init PROVE IInv
  OBVIOUS
<1>1. TypeOK
  <2>1. plan_sent \in Seq(Command)
    BY DEF Init
  <2>2. local_plan \in Command
    BY TwistTypes DEF Init
  <2>3. QED
    BY <2>1, <2>2, ZeroIsHeading DEF Init, TypeOK, NavState
<1>2. DirectionWhileAligning /\ NeverBlocksOnItself
  BY DEF Init, DirectionWhileAligning, NeverBlocksOnItself
<1>3. PlanMovesOnlyOnTask
  BY TwistTypes DEF Init, PlanMovesOnlyOnTask
<1>4. QED
  BY <1>1, <1>2, <1>3 DEF IInv

\* A path callback.
LEMMA PathKeepsIInv ==
  ASSUME IInv, NEW g \in Goal, NEW y \in Heading, GlobalPathCallback(g, y)
  PROVE  IInv'
<1>1. TypeOK'
  BY PublishTypes DEF IInv, TypeOK, GlobalPathCallback, align, state
<1>2. QED
  BY <1>1 DEF IInv, DirectionWhileAligning, NeverBlocksOnItself, PlanMovesOnlyOnTask,
              GlobalPathCallback, PublishNothing, align, Moving

\* A state callback.
LEMMA StateKeepsIInv ==
  ASSUME IInv, NEW y \in Heading, CurrentStateCallback(y)
  PROVE  IInv'
<1>1. TypeOK'
  BY PublishTypes DEF IInv, TypeOK, CurrentStateCallback, align, cache
<1>2. QED
  BY <1>1 DEF IInv, DirectionWhileAligning, NeverBlocksOnItself, PlanMovesOnlyOnTask,
              CurrentStateCallback, PublishNothing, align, Moving

\* An announced state: the moving states are left towards a state that
\* publishes zeros, or for GOAL_ALIGN.
LEMMA NavStateKeepsIInv ==
  ASSUME IInv, NEW s \in Announced(local_nav_state), NavigationStateCallback(s)
  PROVE  IInv'
<1>1. s \in NavState
  BY DEF Announced, IInv, TypeOK, NavState
<1>2. TypeOK'
  <2>1. local_plan' \in Command /\ plan_sent' \in Seq(Command)
    BY PublishTypes, TwistTypes DEF IInv, NavigationStateCallback
  <2>2. ref_path' \in Goal \cup {NoGoal}
    BY DEF IInv, TypeOK, NavigationStateCallback
  <2>3. rotation' \in {-1, 0, 1}
    BY AlignDirectionType DEF NavigationStateCallback
  <2>4. direction_set' \in BOOLEAN
    BY DEF NavigationStateCallback
  <2>5. QED
    BY <1>1, <2>1, <2>2, <2>3, <2>4 DEF IInv, TypeOK, NavigationStateCallback, state
<1>3. DirectionWhileAligning' /\ NeverBlocksOnItself'
  BY DEF IInv, DirectionWhileAligning, NeverBlocksOnItself, NavigationStateCallback
<1>4. PlanMovesOnlyOnTask'
  <2>1. CASE s # local_nav_state /\ s \in {"COMPLETED", "ABORTED"}
    BY <2>1, TwistTypes DEF NavigationStateCallback, PublishPlan, PlanMovesOnlyOnTask, Moving
  <2>2. CASE ~(s # local_nav_state /\ s \in {"COMPLETED", "ABORTED"})
    <3>1. local_plan' = local_plan /\ local_nav_state' = s
      BY <2>2 DEF NavigationStateCallback, PublishNothing
    <3>2. local_nav_state \in {"TRACKING", "GOAL_ALIGN"} => s \in {"TRACKING", "GOAL_ALIGN"}
      BY <2>2 DEF Announced
    <3>3. QED
      BY <3>1, <3>2 DEF IInv, PlanMovesOnlyOnTask, Moving
  <2>3. QED
    BY <2>1, <2>2
<1>5. QED
  BY <1>2, <1>3, <1>4 DEF IInv

\* The timer publishes moving plans in TRACKING and GOAL_ALIGN only.
LEMMA TimerKeepsIInv ==
  ASSUME IInv, PlanningTimer
  PROVE  IInv'
<1>1. CASE TimerTracking
  <2>1. PICK c \in {Twist(u[1], u[2], ref_path) : u \in Controls} \cup {Zero} : PublishPlan(c)
    BY <1>1 DEF TimerTracking
  <2>2. c \in Command
    BY <2>1, TwistTypes, LocalPlannerAssumption DEF IInv, TypeOK
  <2>3. TypeOK'
    BY <1>1, <2>1, <2>2, PublishTypes DEF TimerTracking, IInv, TypeOK, cache, align, state
  <2>4. QED
    BY <1>1, <2>3 DEF TimerTracking, IInv, DirectionWhileAligning, NeverBlocksOnItself,
                      PlanMovesOnlyOnTask, align
<1>2. CASE TimerAlign
  <2>1. direction_set
    BY <1>2 DEF TimerAlign, IInv, DirectionWhileAligning
  <2>2. PublishPlan(Twist(0, rotation, NoGoal)) /\ UNCHANGED blocked_on_itself
    BY <1>2, <2>1 DEF TimerAlign
  <2>3. Twist(0, rotation, NoGoal) \in Command
    BY TwistTypes DEF IInv, TypeOK
  <2>4. TypeOK'
    BY <1>2, <2>2, <2>3, PublishTypes DEF TimerAlign, IInv, TypeOK, cache, align, state
  <2>5. QED
    BY <1>2, <2>2, <2>4 DEF TimerAlign, IInv, DirectionWhileAligning, NeverBlocksOnItself,
                            PlanMovesOnlyOnTask, align
<1>3. CASE TimerEnded
  <2>1. TypeOK'
    BY <1>3, PublishTypes, TwistTypes DEF TimerEnded, IInv, TypeOK, cache, align, state
  <2>2. PlanMovesOnlyOnTask'
    BY <1>3, TwistTypes DEF TimerEnded, PublishPlan, PlanMovesOnlyOnTask, Moving
  <2>3. QED
    BY <1>3, <2>1, <2>2 DEF TimerEnded, IInv, DirectionWhileAligning, NeverBlocksOnItself, align
<1>4. QED
  BY <1>1, <1>2, <1>3 DEF PlanningTimer

\* Every step keeps the inductive invariant.
LEMMA StepKeepsIInv == IInv /\ [Next]_vars => IInv'
<1> SUFFICES ASSUME IInv, [Next]_vars PROVE IInv'
  OBVIOUS
<1>1. CASE Next
  BY <1>1, PathKeepsIInv, StateKeepsIInv, NavStateKeepsIInv, TimerKeepsIInv DEF Next
<1>2. CASE UNCHANGED vars
  BY <1>2 DEF vars, cache, align, state, IInv, TypeOK, DirectionWhileAligning,
              NeverBlocksOnItself, PlanMovesOnlyOnTask, Moving
<1>3. QED
  BY <1>1, <1>2

\* The node never waits for a mutex it holds, and the plan it leaves standing
\* never moves the robot outside TRACKING and GOAL_ALIGN.
THEOREM NoMotionOutsideTask == Spec => [](TypeOK /\ NeverBlocksOnItself /\ PlanMovesOnlyOnTask)
<1>1. IInv => TypeOK /\ NeverBlocksOnItself /\ PlanMovesOnlyOnTask
  BY DEF IInv
<1>2. QED
  BY InitIInv, StepKeepsIInv, <1>1, PTL DEF Spec

\* In particular, in GOAL_ALIGN the timer always finds a direction.
THEOREM TimerNeverBlocks == Spec => []NeverBlocksOnItself
BY NoMotionOutsideTask, PTL

\* While it aligns, the node keeps the direction it chose when it began, and
\* publishes nothing but turns in that direction.
THEOREM AlignmentIsSteady == Spec => AlignKeepsDirection
<1> DEFINE Keeps == local_nav_state = "GOAL_ALIGN" /\ local_nav_state' = "GOAL_ALIGN"
                      => /\ rotation' = rotation
                         /\ plan_sent' # <<>> => plan_sent' = <<Twist(0, rotation, NoGoal)>>
<1>1. IInv /\ [Next]_vars => [Keeps]_vars
  <2> SUFFICES ASSUME IInv, Next, local_nav_state = "GOAL_ALIGN", local_nav_state' = "GOAL_ALIGN"
               PROVE  /\ rotation' = rotation
                      /\ plan_sent' # <<>> => plan_sent' = <<Twist(0, rotation, NoGoal)>>
    OBVIOUS
  <2>1. CASE \E g \in Goal, y \in Heading : GlobalPathCallback(g, y)
    BY <2>1 DEF GlobalPathCallback, PublishNothing, align
  <2>2. CASE \E y \in Heading : CurrentStateCallback(y)
    BY <2>2 DEF CurrentStateCallback, PublishNothing, align
  <2>3. CASE \E s \in Announced(local_nav_state) : NavigationStateCallback(s)
    BY <2>3 DEF Announced, NavigationStateCallback
  <2>4. CASE PlanningTimer
    BY <2>4 DEF PlanningTimer, TimerTracking, TimerAlign, TimerEnded, PublishPlan,
                PublishNothing, align
  <2>5. QED
    BY <2>1, <2>2, <2>3, <2>4 DEF Next
<1>2. QED
  BY InitIInv, StepKeepsIInv, <1>1, PTL DEF Spec, AlignKeepsDirection
=============================================================================
