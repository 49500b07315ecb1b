------------------------------ MODULE Go2Base ------------------------------
(***************************************************************************)
(* The base of the Go2: go2_base_controller.py turns /cmd_vel into calls of *)
(* the vendor's sport client, emergency_stop_monitor.py turns the B button  *)
(* into /emergency_stop.  The controller has a thread for each topic, a     *)
(* timer thread and the main thread, two mutexes, and shutdown hooks that   *)
(* run in the thread that asks for the shutdown.  A call reaches the robot   *)
(* or fails; a failure is logged and no more.                               *)
(***************************************************************************)
EXTENDS Integers

CONSTANTS
  Speed,        \* what a Twist may hold
  Still,        \* the Twist of zeros
  Timeout,      \* dt > 1.0, in ticks of the clock
  Zeros,        \* Move(0, 0, 0) calls of stop_all_movements: ten
  CallsFail     \* may a call of the sport client fail?

ASSUME Go2Assumption ==
  /\ Still \in Speed /\ Timeout \in Nat /\ Zeros \in Nat /\ CallsFail \in BOOLEAN

VARIABLES
  up,           \* the controller's process runs
  last_cmd, age,      \* last_cmd and the ticks since last_cmd_time
  active,       \* emergency_stop_active
  holder,       \* the thread that holds emergency_stop_mutex, or "none"
  loop,         \* control_loop: "idle", "stopping", "checked", "moving"
  moving,       \* the speeds control_loop has read
  callback,     \* emergency_stop_callback: "idle", "stopping", "signalling", "waiting"
  hooks,        \* the thread that runs the shutdown hooks: "none", "callback", "main"
  calls,        \* calls stop_all_movements has made
  is_shutdown,  \* rospy.is_shutdown()
  robot         \* what the robot was told last

vars == <<up, last_cmd, age, active, holder, loop, moving, callback, hooks,
              calls, is_shutdown, robot>>

\* A process starts with a Twist of zeros that is as good as a command.
Start ==
  /\ up' = TRUE /\ last_cmd' = Still /\ age' = 0 /\ active' = FALSE
  /\ holder' = "none" /\ loop' = "idle" /\ moving' = Still /\ callback' = "idle"
  /\ hooks' = "none" /\ calls' = 0 /\ is_shutdown' = FALSE

Init ==
  /\ up = TRUE /\ last_cmd = Still /\ age = 0 /\ active = FALSE
  /\ holder = "none" /\ loop = "idle" /\ moving = Still /\ callback = "idle"
  /\ hooks = "none" /\ calls = 0 /\ is_shutdown = FALSE
  /\ robot = Still

\* A call of the sport client that ends well, and one that raises.
Reaches(v) == robot' = v
Fails      == CallsFail /\ UNCHANGED robot

-----------------------------------------------------------------------------
(* Commands and their age                                                   *)

\* cmd_vel_callback
CmdVelCallback(v) ==
  /\ up /\ ~is_shutdown
  /\ last_cmd' = v /\ age' = 0
  /\ UNCHANGED <<up, active, holder, loop, moving, callback, hooks, calls, is_shutdown, robot>>

\* Time goes by; once the timeout is over, it does not matter how long.
Tick ==
  /\ up /\ age <= Timeout
  /\ age' = age + 1
  /\ UNCHANGED <<up, last_cmd, active, holder, loop, moving, callback, hooks, calls,
                 is_shutdown, robot>>

-----------------------------------------------------------------------------
(* control_loop, fifty times a second in a thread of its own                *)

\* A slip: the loop does not ask for the emergency flag.
LoopCheckBlind ==
  /\ up /\ loop = "idle" /\ ~is_shutdown /\ holder = "none"
  /\ loop' = "checked"
  /\ UNCHANGED <<up, last_cmd, age, active, holder, moving, callback, hooks, calls,
                 is_shutdown, robot>>

\* The first half: is the node shut down, is an emergency stop active?
LoopCheck ==
  /\ up /\ loop = "idle" /\ ~is_shutdown /\ holder = "none"
  /\ \/ active /\ loop' = "stopping" /\ holder' = "loop"
     \/ ~active /\ loop' = "checked" /\ UNCHANGED holder
  /\ UNCHANGED <<up, last_cmd, age, active, moving, callback, hooks, calls, is_shutdown, robot>>

\* StopMove with the mutex held.
LoopStop ==
  /\ loop = "stopping"
  /\ loop' = "idle" /\ holder' = "none"
  /\ Reaches(Still) \/ Fails
  /\ UNCHANGED <<up, last_cmd, age, active, moving, callback, hooks, calls, is_shutdown>>

\* A slip: an old command is as good as a new one.
CurrentCommandAnyAge == last_cmd

CurrentCommand == IF age > Timeout THEN Still ELSE last_cmd

\* The command is read with cmd_mutex held, ...
LoopRead ==
  /\ loop = "checked"
  /\ moving' = CurrentCommand
  /\ loop' = "moving"
  /\ UNCHANGED <<up, last_cmd, age, active, holder, callback, hooks, calls, is_shutdown, robot>>

\* ... and sent with no mutex held.
LoopMove ==
  /\ loop = "moving"
  /\ loop' = "idle"
  /\ Reaches(moving) \/ Fails
  /\ UNCHANGED <<up, last_cmd, age, active, holder, moving, callback, hooks, calls, is_shutdown>>

ControlLoop == LoopCheck \/ LoopStop \/ LoopRead \/ LoopMove

-----------------------------------------------------------------------------
(* The emergency stop and the way out                                       *)

\* emergency_stop_callback takes the mutex and sets the flag, ...
EmergencyStopCallback ==
  /\ up /\ ~is_shutdown /\ callback = "idle" /\ holder = "none"
  /\ holder' = "callback" /\ active' = TRUE
  /\ callback' = "stopping"
  /\ UNCHANGED <<up, last_cmd, age, loop, moving, hooks, calls, is_shutdown, robot>>

\* ... stops the robot, ...
EmergencyStopMove ==
  /\ callback = "stopping"
  /\ callback' = "signalling"
  /\ Reaches(Still) \/ Fails
  /\ UNCHANGED <<up, last_cmd, age, active, holder, loop, moving, hooks, calls, is_shutdown>>

\* ... and asks for the shutdown, still with the mutex held: a second request
\* returns at once, the first runs the hooks.
EmergencySignal ==
  /\ callback = "signalling"
  /\ IF hooks = "none"
       THEN hooks' = "callback" /\ callback' = "waiting" /\ UNCHANGED holder
       ELSE callback' = "idle" /\ holder' = "none" /\ UNCHANGED hooks
  /\ UNCHANGED <<up, last_cmd, age, active, loop, moving, calls, is_shutdown, robot>>

\* SIGINT, or the SIGTERM of go2_base_control.sh stop: the main thread runs the
\* hooks.
ShutdownSignal ==
  /\ up /\ hooks = "none"
  /\ hooks' = "main"
  /\ UNCHANGED <<up, last_cmd, age, active, holder, loop, moving, callback, calls,
                 is_shutdown, robot>>

\* stop_all_movements: zeros, then StopMove; the first failure ends it.
StopAllMovements ==
  /\ hooks # "none" /\ calls <= Zeros
  /\ \/ Reaches(Still) /\ calls' = calls + 1
     \/ Fails /\ calls' = Zeros + 1
  /\ UNCHANGED <<up, last_cmd, age, active, holder, loop, moving, callback, hooks, is_shutdown>>

\* signal_shutdown raises the flag when the hooks have run; a callback that
\* asked for it returns.
RaiseShutdown ==
  /\ hooks # "none" /\ calls = Zeros + 1 /\ ~is_shutdown
  /\ is_shutdown' = TRUE
  /\ IF hooks = "callback" THEN callback' = "idle" /\ holder' = "none"
                           ELSE UNCHANGED <<callback, holder>>
  /\ UNCHANGED <<up, last_cmd, age, active, loop, moving, hooks, calls, robot>>

\* rospy.spin() returns and the process ends, daemon threads and all; or it
\* is killed.
Gone ==
  /\ up' = FALSE /\ loop' = "idle" /\ callback' = "idle" /\ holder' = "none"
  /\ hooks' = "none" /\ calls' = 0 /\ moving' = Still
  /\ UNCHANGED <<last_cmd, age, active, is_shutdown, robot>>

Exit  == up /\ is_shutdown /\ Gone
Crash == up /\ ~is_shutdown /\ Gone

\* go2_base_control.sh start, with the old process gone.
Restart == ~up /\ Start /\ UNCHANGED robot

WayOut == EmergencyStopMove \/ EmergencySignal \/ StopAllMovements \/ RaiseShutdown

Next ==
  \/ \E v \in Speed : CmdVelCallback(v)
  \/ Tick \/ ControlLoop \/ EmergencyStopCallback \/ WayOut \/ ShutdownSignal
  \/ Exit \/ Crash \/ Restart

Spec == Init /\ [][Next]_vars

-----------------------------------------------------------------------------
(* Properties                                                              *)

\* Every variable keeps its type.
TypeOK ==
  /\ {up, active, is_shutdown} \subseteq BOOLEAN
  /\ {last_cmd, moving, robot} \subseteq Speed
  /\ age \in 0 .. Timeout + 1
  /\ holder \in {"none", "callback", "loop"}
  /\ loop \in {"idle", "stopping", "checked", "moving"}
  /\ callback \in {"idle", "stopping", "signalling", "waiting"}
  /\ hooks \in {"none", "callback", "main"}
  /\ calls \in 0 .. Zeros + 1

\* control_loop has passed the emergency check and has not sent yet.
InFlight == loop \in {"checked", "moving"}

\* An emergency stop lets through what is in flight at that moment and nothing
\* after it: the loop never passes the check again, and the robot, once
\* stopped, is not told to move by this process.
EmergencyHolds ==
  [][active /\ up /\ up' /\ ~InFlight => ~InFlight' /\ robot' \in {robot, Still}]_vars
=============================================================================
