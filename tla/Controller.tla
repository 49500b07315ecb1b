----------------------------- MODULE Controller -----------------------------
(***************************************************************************)
(* The controller node: it turns the local plan, or the keys of a          *)
(* terminal, into /cmd_vel.  Callbacks run inside the loop's spinOnce; the  *)
(* interrupt signal may come between any two steps of the loop.            *)
(***************************************************************************)
EXTENDS Integers, Sequences

CONSTANTS
  Command,      \* commands a plan may hold, records with fields v, w and to
  Zero,         \* the one that stops the robot
  ManualTag,    \* the tag of a command made of keys
  Keys,         \* the keys pressed: "w", "x", "s", "i", "q"; "" is none
  MaxSpeed,     \* MAX_LINEAR_VEL; the unit of speeds is 0.04 m/s
  StartInAuto   \* start_in_auto

VARIABLES
  mode,         \* current_mode_
  manual_v,     \* manual_cmd_[0]
  plan,         \* local_plan_: <<>> for a plan of at most five points, or <<command>>
  cmd,          \* the last command that left the node
  pc,           \* "loop", "stopping" after the loop, "exited"
  ros_up        \* ros::shutdown() has not been called

vars == <<mode, manual_v, plan, cmd, pc, ros_up>>

Manual(v) == IF v = 0 THEN Zero ELSE [v |-> v, w |-> 0, to |-> ManualTag]

Init ==
  /\ mode = IF StartInAuto THEN "AUTO" ELSE "MANUAL"
  /\ manual_v = 0
  /\ plan = <<>>
  /\ cmd = Zero
  /\ pc = "loop"
  /\ ros_up = TRUE

\* publishControlCommand: a publisher of a node that is shut down drops it.
PublishControlCommand(c) == cmd' = IF ros_up THEN c ELSE cmd

\* run() tests ros::ok() before every turn of the loop.
Looping == pc = "loop" /\ ros_up

\* localPlanCallback
LocalPlanCallback(p) ==
  /\ Looping
  /\ plan' = p
  /\ UNCHANGED <<mode, manual_v, cmd, pc, ros_up>>

Clamp(v) == IF v > MaxSpeed THEN MaxSpeed ELSE IF v < -MaxSpeed THEN -MaxSpeed ELSE v

\* processManualControl, linear speeds only; q is a move in this mode, and a
\* key that means nothing keeps the command.
ManualSpeed(key) ==
  CASE key = "w" -> Clamp(manual_v + 2)
    [] key = "q" -> Clamp(manual_v + 3)
    [] key = "x" -> Clamp(manual_v - 2)
    [] key = "s" -> 0
    [] OTHER     -> manual_v

\* A slip: without a key, the command sent last is sent again.
ManualModeRepeats(key) ==
  /\ Looping /\ mode = "MANUAL"
  /\ IF key = "i"
       THEN mode' = "AUTO" /\ UNCHANGED <<manual_v, cmd>>
       ELSE /\ manual_v' = ManualSpeed(key)
            /\ PublishControlCommand(IF key = "" THEN cmd ELSE Manual(manual_v'))
            /\ UNCHANGED mode
  /\ UNCHANGED <<plan, pc, ros_up>>

\* manualMode
ManualMode(key) ==
  /\ Looping /\ mode = "MANUAL"
  /\ IF key = "i"
       THEN mode' = "AUTO" /\ UNCHANGED <<manual_v, cmd>>
       ELSE /\ manual_v' = ManualSpeed(key)
            /\ PublishControlCommand(Manual(manual_v'))
            /\ UNCHANGED mode
  /\ UNCHANGED <<plan, pc, ros_up>>

\* autoMode
AutoMode(key) ==
  /\ Looping /\ mode = "AUTO"
  /\ IF key = "q"
       THEN mode' = "MANUAL" /\ UNCHANGED cmd
       ELSE PublishControlCommand(IF plan = <<>> THEN Zero ELSE plan[1]) /\ UNCHANGED mode
  /\ UNCHANGED <<manual_v, plan, pc, ros_up>>

ControlLoop == \E key \in Keys : ManualMode(key) \/ AutoMode(key)

\* signalHandler: Ctrl+C is a signal, for the terminal keeps ISIG; the
\* publishers are gone before the loop has a chance to end.
SignalHandler ==
  /\ pc # "exited"
  /\ ros_up' = FALSE
  /\ UNCHANGED <<mode, manual_v, plan, cmd, pc>>

\* The loop ends, and "sends the stop command"; the destructor sends another.
LeaveLoop ==
  /\ pc = "loop" /\ ~ros_up
  /\ pc' = "stopping"
  /\ UNCHANGED <<mode, manual_v, plan, cmd, ros_up>>

SendStop ==
  /\ pc = "stopping"
  /\ PublishControlCommand(Zero)
  /\ pc' = "exited"
  /\ UNCHANGED <<mode, manual_v, plan, ros_up>>

Next ==
  \/ \E p \in {<<>>} \cup {<<c>> : c \in Command} : LocalPlanCallback(p)
  \/ ControlLoop \/ SignalHandler \/ LeaveLoop \/ SendStop

Spec == Init /\ [][Next]_vars

-----------------------------------------------------------------------------
(* Properties                                                              *)

\* Every variable keeps its type.
TypeOK ==
  /\ mode \in {"MANUAL", "AUTO"}
  /\ manual_v \in -MaxSpeed .. MaxSpeed
  /\ plan = <<>> \/ \E c \in Command : plan = <<c>>
  /\ cmd \in Command \cup {Manual(v) : v \in -MaxSpeed .. MaxSpeed}
  /\ pc \in {"loop", "stopping", "exited"}
  /\ ros_up \in BOOLEAN
=============================================================================
