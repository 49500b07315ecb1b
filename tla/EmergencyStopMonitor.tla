------------------------ MODULE EmergencyStopMonitor ------------------------
(***************************************************************************)
(* emergency_stop_monitor.py: a DDS thread keeps the buttons of the remote   *)
(* control, a timer thread looks at B ten times a second, announces a press  *)
(* on /emergency_stop and shuts the node down.                              *)
(***************************************************************************)
VARIABLES
  pressed,            \* the B button itself
  button,             \* remote_controller.button[KeyMap.B]
  last_button_state,
  monitor_up,         \* rospy.is_shutdown() is false
  message             \* a message on /emergency_stop is on its way

vars == <<pressed, button, last_button_state, monitor_up, message>>

Init ==
  /\ pressed = FALSE /\ button = FALSE /\ last_button_state = FALSE
  /\ monitor_up = TRUE /\ message = FALSE

\* The user presses and lets go.
Press ==
  /\ pressed' = ~pressed
  /\ UNCHANGED <<button, last_button_state, monitor_up, message>>

\* A slip: the handler remembers what it overwrites, so the timer sees no edge.
LowStateHandlerRemembers ==
  /\ monitor_up
  /\ button' = pressed /\ last_button_state' = pressed
  /\ UNCHANGED <<pressed, monitor_up, message>>

\* LowStateHandler
LowStateHandler ==
  /\ monitor_up
  /\ button' = pressed
  /\ UNCHANGED <<pressed, last_button_state, monitor_up, message>>

\* check_emergency_stop, on the edge: the publisher hands the message to a
\* thread of its own, and the shutdown may come first.
CheckEmergencyStop ==
  /\ monitor_up
  /\ IF button /\ ~last_button_state
       THEN message' \in {TRUE, message} /\ monitor_up' = FALSE
       ELSE UNCHANGED <<message, monitor_up>>
  /\ last_button_state' = button
  /\ UNCHANGED <<pressed, button>>

\* The message arrives, or the subscriber is not there.
Deliver ==
  /\ message /\ message' = FALSE
  /\ UNCHANGED <<pressed, button, last_button_state, monitor_up>>

\* go2_base_control.sh start: the old monitor is killed, a new one knows nothing.
Restart ==
  /\ monitor_up' = TRUE
  /\ button' = FALSE /\ last_button_state' = FALSE
  /\ UNCHANGED <<pressed, message>>

Next == Press \/ LowStateHandler \/ CheckEmergencyStop \/ Deliver \/ Restart

Spec == Init /\ [][Next]_vars
=============================================================================
