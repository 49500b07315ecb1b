----------------------------- MODULE FrameQueue -----------------------------
(***************************************************************************)
(* What the Livox driver promises of the frames of a LiDAR: they are        *)
(* published once each and in the order in which they were complete.  At    *)
(* most Capacity of them wait, and a frame that finds no room is the one    *)
(* that is given up.                                                       *)
(***************************************************************************)
EXTENDS Naturals, Sequences

CONSTANTS Lidars, Frames, NoFrame, Capacity

VARIABLES queue,   \* the frames that wait, of each LiDAR
          out      \* the frame published last, and of which LiDAR

frameVars == <<queue, out>>

Init == queue = [l \in Lidars |-> <<>>] /\ out = <<0, NoFrame>>

Complete(l, f) ==
  /\ Len(queue[l]) < Capacity
  /\ queue' = [queue EXCEPT ![l] = Append(@, f)]
  /\ UNCHANGED out

Publish(l) ==
  /\ queue[l] # <<>>
  /\ out' = <<l, Head(queue[l])>>
  /\ queue' = [queue EXCEPT ![l] = Tail(@)]

Next == \E l \in Lidars : Publish(l) \/ \E f \in Frames : Complete(l, f)

Safety == Init /\ [][Next]_frameVars
=============================================================================
