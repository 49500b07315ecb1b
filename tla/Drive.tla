------------------------------- MODULE Drive -------------------------------
(***************************************************************************)
(* From plans and keys to the legs.  Two ways to run the Go2: the navigation *)
(* chain, that is the controller node in front of the base controller; and   *)
(* the base controller with its emergency monitor and commands from anybody  *)
(* (test_cmd_vel_forward.py, rostopic pub).  In both, processes may fail, be *)
(* stopped and be started again.                                            *)
(***************************************************************************)
EXTENDS Go2Base, Sequences

CONSTANTS Command, ManualTag, Keys, MaxSpeed, StartInAuto

ASSUME DriveAssumption ==
  /\ Still \in Command /\ Command \subseteq Speed
  /\ Keys \subseteq {"", "w", "x", "s", "i", "q"}
  /\ MaxSpeed \in Nat \ {0} /\ StartInAuto \in BOOLEAN

VARIABLES
  mode, manual_v, plan, cmd, pc, ros_up,                             \* the controller
  pressed, button, last_button_state, monitor_up, message,           \* the monitor
  cmd_vel,      \* /cmd_vel: <<>>, or the newest command on its way
  chain         \* the first way to run it

controllerVars == <<mode, manual_v, plan, cmd, pc, ros_up>>
monitorVars    == <<pressed, button, last_button_state, monitor_up, message>>
driveVars      == <<vars, controllerVars, monitorVars, cmd_vel, chain>>

C == INSTANCE Controller WITH Zero <- Still
M == INSTANCE EmergencyStopMonitor

\* A Twist may hold what the keys make of it.
ASSUME ManualAssumption == \A v \in -MaxSpeed .. MaxSpeed : C!Manual(v) \in Speed

DriveInit == Init /\ C!Init /\ M!Init /\ cmd_vel = <<>> /\ chain \in BOOLEAN

\* The subscriber keeps the last command only, so one that has not been
\* delivered when the next is published makes no difference.
Published == cmd_vel' = IF ros_up THEN <<cmd'>> ELSE cmd_vel

\* One turn of the controller's loop; a change of mode publishes nothing.
ControllerTurn(key) ==
  /\ C!ManualMode(key) \/ C!AutoMode(key)
  /\ IF mode' = mode THEN Published ELSE UNCHANGED cmd_vel
  /\ UNCHANGED <<vars, monitorVars>>

LocalPlan(p) == C!LocalPlanCallback(p) /\ UNCHANGED <<vars, monitorVars, cmd_vel>>

\* The controller's way out, begun by a signal.
ControllerEnds ==
  /\ \/ (C!SignalHandler \/ C!LeaveLoop) /\ UNCHANGED cmd_vel
     \/ C!SendStop /\ Published
  /\ UNCHANGED <<vars, monitorVars>>

CmdVel ==
  /\ cmd_vel # <<>> /\ CmdVelCallback(cmd_vel[1])
  /\ cmd_vel' = <<>>
  /\ UNCHANGED <<controllerVars, monitorVars>>

Base(A) == A /\ UNCHANGED <<controllerVars, monitorVars, cmd_vel>>

\* Commands from anybody.
AnyCommand == Base(\E v \in Command : CmdVelCallback(v))

\* /emergency_stop; a controller that is gone, or going, hears nothing.
EmergencyStop ==
  /\ M!Deliver
  /\ EmergencyStopCallback \/ ((~up \/ is_shutdown) /\ UNCHANGED vars)
  /\ UNCHANGED <<controllerVars, cmd_vel>>

Monitor(A) == A /\ UNCHANGED <<vars, controllerVars, cmd_vel>>

\* go2_base_control.sh start
StartBase == Restart /\ M!Restart /\ UNCHANGED <<controllerVars, cmd_vel>>

ChainNext ==
  \/ \E key \in Keys : ControllerTurn(key)
  \/ \E p \in {<<>>} \cup {<<c>> : c \in Command} : LocalPlan(p)
  \/ ControllerEnds \/ CmdVel

AloneNext ==
  \/ AnyCommand \/ EmergencyStop
  \/ Monitor(M!Press \/ M!LowStateHandler \/ M!CheckEmergencyStop)

BaseNext == Tick \/ ControlLoop \/ WayOut \/ ShutdownSignal \/ Exit \/ Crash

InChain(A) == chain /\ A /\ UNCHANGED chain
NoChain(A) == ~chain /\ A /\ UNCHANGED chain
Always(A)  == Base(A) /\ UNCHANGED chain

DriveNext ==
  \/ InChain(ChainNext) \/ NoChain(AloneNext)
  \/ Always(BaseNext) \/ (StartBase /\ UNCHANGED chain)

\* Loops turn, topics deliver, time goes by, and a network is not cut for ever:
\* of the calls of the control loop, some reach the robot.
DriveSpec == DriveInit /\ [][DriveNext]_driveVars

DriveFairness ==
  /\ WF_driveVars(InChain(ControllerTurn(""))) /\ WF_driveVars(InChain(CmdVel))
  /\ WF_driveVars(Always(Tick)) /\ WF_driveVars(Always(ControlLoop))
  /\ SF_driveVars(Always(LoopMove /\ Reaches(moving)))
  /\ WF_driveVars(NoChain(Monitor(M!LowStateHandler)))
  /\ WF_driveVars(NoChain(Monitor(M!CheckEmergencyStop)))

FairDriveSpec == DriveSpec /\ DriveFairness

-----------------------------------------------------------------------------
(* Properties                                                              *)

\* Every variable keeps its type.
DriveTypeOK == TypeOK /\ C!TypeOK /\ cmd_vel \in {<<>>} \cup {<<v>> : v \in Speed}

\* The base serves commands: up, and not on its way out.
Serving == up /\ ~active /\ hooks = "none"

ByHand(v) == v = Still \/ v.to = ManualTag

\* Taking over by hand ends automatic motion for good even if no further key is
\* pressed: q itself sends nothing, plans go on arriving, and commands of the
\* automatic mode are still on their way.
TakeoverReachesRobot ==
  <>[](chain /\ mode = "MANUAL" /\ ros_up /\ Serving) => <>[]ByHand(robot)

\* A plan that stops the robot, or is too short to be followed, is carried out
\* by the legs, whatever they were told before.
StopPlanReachesRobot ==
  <>[](chain /\ mode = "AUTO" /\ ros_up /\ Serving /\ plan \in {<<>>, <<Still>>}) => <>[](robot = Still)

\* Whoever has the say, a person or the local planner, what he decides in the end
\* becomes what the legs do.
WhoHasTheSayIsObeyed == TakeoverReachesRobot /\ StopPlanReachesRobot

\* A controller that is gone, its stop command dropped with it, does not leave
\* the robot walking: the watchdog of the base ends what it said last.
WatchdogStops == <>[](chain /\ pc = "exited" /\ Serving) => <>[](robot = Still)

\* A button cannot be held down for ever with monitor and base running, unless
\* they are killed and started over and over: the press is noticed, although
\* two threads share the button's state and only an edge counts.
HeldButtonTriggers == []<>(~pressed \/ ~monitor_up \/ ~up)

-----------------------------------------------------------------------------
(* What a document says                                                    *)

\* "Any emergency stop immediately stops all movement and shuts the node down":
\* a node that is shut down for an emergency leaves a robot at rest.
EmergencyStopStops == active /\ is_shutdown /\ callback = "idle" => robot = Still
=============================================================================
