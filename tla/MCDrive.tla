------------------------------ MODULE MCDrive ------------------------------
(* One command that stops the robot, one that follows a path, one by hand. *)
EXTENDS Drive
MCStill   == [v |-> 0, w |-> 0, to |-> "none"]
MCCommand == {MCStill, [v |-> 1, w |-> 0, to |-> "goal"]}
MCSpeed   == MCCommand \cup {C!Manual(v) : v \in -MaxSpeed .. MaxSpeed}
=============================================================================
