---------------------------- MODULE DriveProofs ----------------------------
(***************************************************************************)
(* Proofs about the way from plans and keys to the legs, for any set of    *)
(* commands, any timeout, any number of stop calls and whichever of them   *)
(* fail: the emergency stop, the mutex it shares with the control loop,    *)
(* and the types behind both ways to run the base.                         *)
(***************************************************************************)
EXTENDS Drive, TLAPS

-----------------------------------------------------------------------------
(* What a step of the whole is for the base                                *)

BaseStep == Next \/ UNCHANGED vars

LEMMA StepIsBaseStep ==
  ASSUME DriveNext, \A v \in Command : v \in Speed,
         cmd_vel = <<>> \/ cmd_vel[1] \in Speed
  PROVE  BaseStep
<1>1. CASE InChain(ChainNext)
  <2>1. CASE \/ \E key \in Keys : ControllerTurn(key)
             \/ \E p \in {<<>>} \cup {<<c>> : c \in Command} : LocalPlan(p)
             \/ ControllerEnds
    BY <2>1 DEF ControllerTurn, LocalPlan, ControllerEnds, BaseStep
  <2>2. CASE CmdVel
    BY <2>2 DEF CmdVel, BaseStep, Next
  <2>3. QED
    BY <1>1, <2>1, <2>2 DEF InChain, ChainNext
<1>2. CASE NoChain(AloneNext)
  BY <1>2 DEF NoChain, AloneNext, AnyCommand, EmergencyStop, Monitor, Base, BaseStep, Next
<1>3. CASE Always(BaseNext)
  BY <1>3 DEF Always, Base, BaseNext, BaseStep, Next
<1>4. CASE StartBase
  BY <1>4 DEF StartBase, BaseStep, Next
<1>5. QED
  BY <1>1, <1>2, <1>3, <1>4 DEF DriveNext

-----------------------------------------------------------------------------
(* The base                                                                *)

\* emergency_stop_mutex is held by the thread that is between taking it and
\* releasing it, so never by two; a process that is gone holds nothing; and a
\* callback that waits for the shutdown is the one that runs its hooks.
MutexHeld ==
  /\ holder = "loop" <=> loop = "stopping"
  /\ holder = "callback" <=> callback # "idle"
  /\ ~up => loop = "idle" /\ callback = "idle" /\ hooks = "none"
  /\ callback = "waiting" <=> hooks = "callback" /\ ~is_shutdown
  /\ up /\ is_shutdown => hooks # "none"

\* What a base step does to the threads and the mutex.
LEMMA BaseKeepsMutex ==
  ASSUME MutexHeld, BaseStep
  PROVE  MutexHeld'
<1>1. CASE \E v \in Speed : CmdVelCallback(v)
  BY <1>1 DEF CmdVelCallback, MutexHeld
<1>2. CASE Tick
  BY <1>2 DEF Tick, MutexHeld
<1>3. CASE ControlLoop
  BY <1>3 DEF ControlLoop, LoopCheck, LoopStop, LoopRead, LoopMove, MutexHeld
<1>4. CASE EmergencyStopCallback
  BY <1>4 DEF EmergencyStopCallback, MutexHeld
<1>5. CASE WayOut
  BY <1>5 DEF WayOut, EmergencyStopMove, EmergencySignal, StopAllMovements, RaiseShutdown, MutexHeld
<1>6. CASE ShutdownSignal
  BY <1>6 DEF ShutdownSignal, MutexHeld
<1>7. CASE Exit \/ Crash
  BY <1>7 DEF Exit, Crash, Gone, MutexHeld
<1>8. CASE Restart
  BY <1>8 DEF Restart, Start, MutexHeld
<1>9. CASE UNCHANGED vars
  BY <1>9 DEF vars, MutexHeld
<1>10. QED
  BY <1>1, <1>2, <1>3, <1>4, <1>5, <1>6, <1>7, <1>8, <1>9 DEF BaseStep, Next

\* Once the emergency is on and nothing is in flight, no step of the running
\* process lets the loop pass its check or makes the robot move.
LEMMA BaseHoldsEmergency ==
  ASSUME BaseStep, active, up, up', ~InFlight
  PROVE  ~InFlight' /\ robot' \in {robot, Still}
<1>1. CASE \E v \in Speed : CmdVelCallback(v)
  BY <1>1 DEF CmdVelCallback, InFlight
<1>2. CASE Tick
  BY <1>2 DEF Tick, InFlight
<1>3. CASE ControlLoop
  BY <1>3 DEF ControlLoop, LoopCheck, LoopStop, LoopRead, LoopMove, InFlight, Reaches, Fails
<1>4. CASE EmergencyStopCallback
  BY <1>4 DEF EmergencyStopCallback, InFlight
<1>5. CASE WayOut
  BY <1>5 DEF WayOut, EmergencyStopMove, EmergencySignal, StopAllMovements, RaiseShutdown,
              InFlight, Reaches, Fails
<1>6. CASE ShutdownSignal
  BY <1>6 DEF ShutdownSignal, InFlight
<1>7. CASE Exit \/ Crash
  BY <1>7 DEF Exit, Crash, Gone
<1>8. CASE Restart
  BY <1>8 DEF Restart
<1>9. CASE UNCHANGED vars
  BY <1>9 DEF vars, InFlight
<1>10. QED
  BY <1>1, <1>2, <1>3, <1>4, <1>5, <1>6, <1>7, <1>8, <1>9 DEF BaseStep, Next

-----------------------------------------------------------------------------
(* Types                                                                   *)

\* Every variable of the base keeps its type when commands are speeds.
LEMMA BaseKeepsTypes ==
  ASSUME TypeOK, Next
  PROVE  TypeOK'
<1>1. CASE \E v \in Speed : CmdVelCallback(v)
  BY <1>1, Go2Assumption DEF CmdVelCallback, TypeOK
<1>2. CASE Tick
  <2>1. age' \in 0 .. Timeout + 1
    BY <1>2, Go2Assumption DEF Tick, TypeOK
  <2>2. QED
    BY <1>2, <2>1 DEF Tick, TypeOK
<1>3. CASE ControlLoop
  <2>1. CurrentCommand \in Speed
    BY Go2Assumption DEF CurrentCommand, TypeOK
  <2>2. CASE LoopCheck
    BY <2>2 DEF LoopCheck, TypeOK
  <2>3. CASE LoopStop
    BY <2>3, Go2Assumption DEF LoopStop, TypeOK, Reaches, Fails
  <2>4. CASE LoopRead
    BY <2>1, <2>4 DEF LoopRead, TypeOK
  <2>5. CASE LoopMove
    BY <2>5 DEF LoopMove, TypeOK, Reaches, Fails
  <2>6. QED
    BY <1>3, <2>2, <2>3, <2>4, <2>5 DEF ControlLoop
<1>4. CASE EmergencyStopCallback
  BY <1>4 DEF EmergencyStopCallback, TypeOK
<1>5. CASE WayOut
  <2>1. CASE EmergencyStopMove
    BY <2>1, Go2Assumption DEF EmergencyStopMove, TypeOK, Reaches, Fails
  <2>2. CASE EmergencySignal
    BY <2>2 DEF EmergencySignal, TypeOK
  <2>3. CASE StopAllMovements
    <3>1. calls' \in 0 .. Zeros + 1
      BY <2>3, Go2Assumption DEF StopAllMovements, TypeOK
    <3>2. robot' \in Speed
      BY <2>3, Go2Assumption DEF StopAllMovements, Reaches, Fails, TypeOK
    <3>3. QED
      BY <2>3, <3>1, <3>2 DEF StopAllMovements, TypeOK
  <2>4. CASE RaiseShutdown
    BY <2>4 DEF RaiseShutdown, TypeOK
  <2>5. QED
    BY <1>5, <2>1, <2>2, <2>3, <2>4 DEF WayOut
<1>6. CASE ShutdownSignal
  BY <1>6 DEF ShutdownSignal, TypeOK
<1> DEFINE AgeAndCalls == age' \in 0 .. Timeout + 1 /\ calls' \in 0 .. Zeros + 1
<1>0. 0 \in 0 .. Timeout + 1 /\ 0 \in 0 .. Zeros + 1
  BY Go2Assumption
<1>7. CASE Exit \/ Crash
  <2>1. Gone
    BY <1>7 DEF Exit, Crash
  <2>2. AgeAndCalls
    BY <1>0, <2>1 DEF Gone, TypeOK
  <2>3. QED
    BY <2>1, <2>2, Go2Assumption DEF Gone, TypeOK
<1>8. CASE Restart
  <2>1. AgeAndCalls
    BY <1>0, <1>8 DEF Restart, Start
  <2>2. QED
    BY <1>8, <2>1, Go2Assumption DEF Restart, Start, TypeOK
<1>9. QED
  BY <1>1, <1>2, <1>3, <1>4, <1>5, <1>6, <1>7, <1>8 DEF Next

\* The controller sends a plan's command, or what its keys make of the speed.
LEMMA ControllerKeepsTypes ==
  ASSUME C!TypeOK, C!Next
  PROVE  C!TypeOK'
<1>1. MaxSpeed \in Nat /\ MaxSpeed > 0
  <2>1. MaxSpeed \in Nat \ {0}
    BY DriveAssumption
  <2>2. QED
    BY <2>1
<1>2. Still \in Command
  BY DriveAssumption
<1>3. CASE \E p \in {<<>>} \cup {<<c>> : c \in Command} : C!LocalPlanCallback(p)
  BY <1>3 DEF C!LocalPlanCallback, C!TypeOK
<1>4. ASSUME NEW key \in Keys, C!ManualMode(key) PROVE C!TypeOK'
  <2>1. C!ManualSpeed(key) \in -MaxSpeed .. MaxSpeed
    <3>1. \A n \in Int : C!Clamp(n) \in -MaxSpeed .. MaxSpeed
      BY <1>1 DEF C!Clamp
    <3>2. manual_v \in -MaxSpeed .. MaxSpeed /\ 0 \in -MaxSpeed .. MaxSpeed
      BY <1>1 DEF C!TypeOK
    <3>3. /\ C!Clamp(manual_v + 2) \in -MaxSpeed .. MaxSpeed
          /\ C!Clamp(manual_v + 3) \in -MaxSpeed .. MaxSpeed
          /\ C!Clamp(manual_v - 2) \in -MaxSpeed .. MaxSpeed
      BY <1>1, <3>1, <3>2
    <3>4. QED
      BY <3>2, <3>3, Zenon DEF C!ManualSpeed
  <2>2. CASE key = "i"
    BY <1>4, <2>2 DEF C!ManualMode, C!TypeOK
  <2>3. CASE key # "i"
    <3>1. /\ manual_v' \in -MaxSpeed .. MaxSpeed /\ cmd' \in {cmd, C!Manual(manual_v')}
          /\ UNCHANGED <<mode, plan, pc, ros_up>>
      BY <1>4, <2>1, <2>3 DEF C!ManualMode, C!PublishControlCommand
    <3>2. QED
      BY <3>1 DEF C!TypeOK
  <2>4. QED
    BY <2>2, <2>3
<1>5. ASSUME NEW key \in Keys, C!AutoMode(key) PROVE C!TypeOK'
  <2>1. plan = <<>> \/ plan[1] \in Command
    BY DEF C!TypeOK
  <2>2. cmd' \in Command \cup {cmd}
    BY <1>2, <1>5, <2>1 DEF C!AutoMode, C!PublishControlCommand
  <2>3. mode' \in {"MANUAL", "AUTO"} /\ UNCHANGED <<manual_v, plan, pc, ros_up>>
    BY <1>5 DEF C!AutoMode, C!TypeOK
  <2>4. QED
    BY <2>2, <2>3 DEF C!TypeOK
<1>6. CASE C!SignalHandler \/ C!LeaveLoop
  BY <1>6 DEF C!SignalHandler, C!LeaveLoop, C!TypeOK
<1>7. CASE C!SendStop
  <2>1. cmd' \in Command \cup {cmd}
    BY <1>2, <1>7 DEF C!SendStop, C!PublishControlCommand
  <2>2. QED
    BY <1>7, <2>1 DEF C!SendStop, C!TypeOK
<1>8. QED
  BY <1>3, <1>4, <1>5, <1>6, <1>7 DEF C!Next, C!ControlLoop

-----------------------------------------------------------------------------
(* The whole                                                               *)

DriveInv == DriveTypeOK /\ MutexHeld

\* What the controller does in a step of the whole, and what becomes of /cmd_vel.
ControllerStep == C!Next \/ UNCHANGED controllerVars

CmdVelStep == cmd_vel' = <<>> \/ cmd_vel' = cmd_vel \/ cmd_vel' = <<cmd'>>

LEMMA ChainParts ==
  ASSUME ChainNext
  PROVE  ControllerStep /\ CmdVelStep
<1>1. ASSUME NEW key \in Keys, ControllerTurn(key) PROVE ControllerStep /\ CmdVelStep
  <2>1. C!Next
    BY <1>1 DEF ControllerTurn, C!Next, C!ControlLoop
  <2>2. CmdVelStep
    BY <1>1, Zenon DEF ControllerTurn, Published, CmdVelStep
  <2>3. QED
    BY <2>1, <2>2 DEF ControllerStep
<1>2. ASSUME NEW p \in {<<>>} \cup {<<c>> : c \in Command}, LocalPlan(p)
      PROVE  ControllerStep /\ CmdVelStep
  <2>1. C!LocalPlanCallback(p) /\ cmd_vel' = cmd_vel
    BY <1>2 DEF LocalPlan
  <2>2. C!Next
    BY <2>1, Zenon DEF C!Next
  <2>3. QED
    BY <2>1, <2>2, Zenon DEF ControllerStep, CmdVelStep
<1>3. CASE ControllerEnds
  <2>1. C!SignalHandler \/ C!LeaveLoop \/ C!SendStop
    BY <1>3 DEF ControllerEnds
  <2>2. CmdVelStep
    BY <1>3, Zenon DEF ControllerEnds, Published, CmdVelStep
  <2>3. C!Next
    BY <2>1, Zenon DEF C!Next
  <2>4. QED
    BY <2>2, <2>3, Zenon DEF ControllerStep
<1>4. CASE CmdVel
  BY <1>4, Zenon DEF CmdVel, ControllerStep, CmdVelStep
<1>5. QED
  BY <1>1, <1>2, <1>3, <1>4, Zenon DEF ChainNext

\* The step seen from the base, from the controller, and on /cmd_vel.
LEMMA StepParts ==
  ASSUME DriveTypeOK, DriveNext
  PROVE  BaseStep /\ ControllerStep /\ CmdVelStep
<1>1. BaseStep
  <2>1. cmd_vel = <<>> \/ \E v \in Speed : cmd_vel = <<v>>
    BY DEF DriveTypeOK
  <2>2. cmd_vel = <<>> \/ cmd_vel[1] \in Speed
    BY <2>1
  <2>3. QED
    BY <2>2, StepIsBaseStep, DriveAssumption
<1>2. ControllerStep /\ CmdVelStep
  <2>1. CASE InChain(ChainNext)
    BY <2>1, ChainParts, Zenon DEF InChain
  <2>2. CASE NoChain(AloneNext)
    <3>1. AloneNext
      BY <2>2 DEF NoChain
    <3>2. CASE AnyCommand
      BY <3>2, Zenon DEF AnyCommand, Base, ControllerStep, CmdVelStep
    <3>3. CASE EmergencyStop
      BY <3>3, Zenon DEF EmergencyStop, ControllerStep, CmdVelStep
    <3>4. CASE Monitor(M!Press \/ M!LowStateHandler \/ M!CheckEmergencyStop)
      BY <3>4, Zenon DEF Monitor, ControllerStep, CmdVelStep
    <3>5. QED
      BY <3>1, <3>2, <3>3, <3>4, Zenon DEF AloneNext
  <2>3. CASE Always(BaseNext)
    BY <2>3, Zenon DEF Always, Base, ControllerStep, CmdVelStep
  <2>4. CASE StartBase
    BY <2>4, Zenon DEF StartBase, ControllerStep, CmdVelStep
  <2>5. QED
    BY <2>1, <2>2, <2>3, <2>4, Zenon DEF DriveNext
<1>3. QED
  BY <1>1, <1>2

\* A step that leaves everything alone is a step of each part.
LEMMA StutterParts ==
  ASSUME UNCHANGED driveVars
  PROVE  BaseStep /\ ControllerStep /\ CmdVelStep
<1>1. UNCHANGED vars /\ UNCHANGED controllerVars /\ cmd_vel' = cmd_vel
  BY DEF driveVars
<1>2. QED
  BY <1>1, Zenon DEF BaseStep, ControllerStep, CmdVelStep

LEMMA StepDriveInv == DriveInv /\ [DriveNext]_driveVars => DriveInv'
<1> SUFFICES ASSUME DriveInv, [DriveNext]_driveVars PROVE DriveInv'
  OBVIOUS
<1>0. DriveTypeOK /\ TypeOK /\ C!TypeOK /\ MutexHeld /\ cmd_vel \in {<<>>} \cup {<<v>> : v \in Speed}
  BY DEF DriveInv, DriveTypeOK
<1>1. BaseStep /\ ControllerStep /\ CmdVelStep
  BY <1>0, StepParts, StutterParts
<1>2. MutexHeld'
  BY <1>0, <1>1, BaseKeepsMutex
<1>3. TypeOK'
  <2>1. CASE Next
    BY <1>0, <2>1, BaseKeepsTypes
  <2>2. CASE UNCHANGED vars
    BY <1>0, <2>2 DEF vars, TypeOK
  <2>3. QED
    BY <1>1, <2>1, <2>2 DEF BaseStep
<1>4. C!TypeOK'
  <2>1. CASE C!Next
    BY <1>0, <2>1, ControllerKeepsTypes
  <2>2. CASE UNCHANGED controllerVars
    BY <1>0, <2>2 DEF controllerVars, C!TypeOK
  <2>3. QED
    BY <1>1, <2>1, <2>2, Zenon DEF ControllerStep
<1>5. cmd' \in Speed
  BY <1>4, DriveAssumption, ManualAssumption DEF C!TypeOK
<1>6. cmd_vel' \in {<<>>} \cup {<<v>> : v \in Speed}
  BY <1>0, <1>1, <1>5 DEF CmdVelStep
<1>7. QED
  BY <1>2, <1>3, <1>4, <1>6 DEF DriveInv, DriveTypeOK

LEMMA InitDriveInv == DriveInit => DriveInv
<1> SUFFICES ASSUME DriveInit PROVE DriveInv
  OBVIOUS
<1>1. TypeOK
  <2>1. 0 \in 0 .. Timeout + 1 /\ 0 \in 0 .. Zeros + 1 /\ Still \in Speed
    BY Go2Assumption
  <2>2. QED
    BY <2>1 DEF DriveInit, Init, TypeOK
<1>2. C!TypeOK
  <2>1. MaxSpeed \in Nat \ {0} /\ StartInAuto \in BOOLEAN /\ Still \in Command
    BY DriveAssumption
  <2>2. 0 \in -MaxSpeed .. MaxSpeed
    BY <2>1
  <2>3. QED
    BY <2>1, <2>2 DEF DriveInit, C!Init, C!TypeOK
<1>3. MutexHeld
  BY DEF DriveInit, Init, MutexHeld
<1>4. QED
  BY <1>1, <1>2, <1>3 DEF DriveInit, DriveInv, DriveTypeOK

\* Whichever way the base is run, every variable of base and controller keeps
\* its type, and what travels on /cmd_vel is a command.
THEOREM DriveTypes == DriveSpec => []DriveTypeOK
<1>1. DriveInv => DriveTypeOK
  BY DEF DriveInv
<1>2. QED
  BY <1>1, InitDriveInv, StepDriveInv, PTL DEF DriveSpec

\* The emergency mutex has one holder at a time, through callbacks, shutdown
\* hooks in either thread, crashes and restarts.
THEOREM MutexHasOneHolder == DriveSpec => []MutexHeld
<1>1. DriveInv => MutexHeld
  BY DEF DriveInv
<1>2. QED
  BY <1>1, InitDriveInv, StepDriveInv, PTL DEF DriveSpec

\* An emergency stop lets nothing through but what was in flight when it came:
\* no later command, from the keyboard, a plan or anybody else, moves the robot
\* while that process runs.
THEOREM EmergencyStopHolds == DriveSpec => EmergencyHolds
<1>1. DriveInv /\ [DriveNext]_driveVars
        => [active /\ up /\ up' /\ ~InFlight => ~InFlight' /\ robot' \in {robot, Still}]_vars
  <2> SUFFICES ASSUME DriveInv, [DriveNext]_driveVars, active, up, up', ~InFlight
               PROVE  (~InFlight' /\ robot' \in {robot, Still}) \/ UNCHANGED vars
    OBVIOUS
  <2>1. CASE DriveNext
    <3>1. BaseStep
      BY <2>1, StepParts DEF DriveInv
    <3>2. QED
      BY <3>1, BaseHoldsEmergency
  <2>2. CASE UNCHANGED driveVars
    BY <2>2 DEF driveVars
  <2>3. QED
    BY <2>1, <2>2
<1>2. QED
  BY <1>1, InitDriveInv, StepDriveInv, PTL DEF DriveSpec, EmergencyHolds
=============================================================================
