------------------------------ MODULE RsDriver ------------------------------
(***************************************************************************)
(* The way of a point cloud through rslidar_sdk: a receive thread queues    *)
(* packets, a handle thread decodes them into the cloud it is filling and   *)
(* splits that cloud off at the split angle (lidar_driver_impl.hpp,         *)
(* decoder.hpp, split_strategy.hpp), and a third thread sends the clouds    *)
(* that are complete and gives them back for the next frame                *)
(* (source_driver.hpp).  Too many packets in the queue are all thrown away. *)
(*                                                                         *)
(* A packet has one block, at an angle; a cloud is where its first point is *)
(* and how many there are.                                                 *)
(***************************************************************************)
EXTENDS Integers, SequencesExt

CONSTANTS
  Turn,            \* blocks of a revolution; the split angle is 0
  PacketPoolMax,   \* PACKET_POOL_MAX
  CloudPointMax,   \* CLOUD_POINT_MAX
  WaitForDifop,    \* wait_for_difop
  MaxClouds        \* bound on the clouds there are

ASSUME RsAssumption ==
  /\ Turn \in Nat \ {0, 1} /\ PacketPoolMax \in Nat /\ WaitForDifop \in BOOLEAN
  /\ CloudPointMax \in Nat /\ CloudPointMax >= Turn /\ MaxClouds \in Nat \ {0}

VARIABLES
  stage,          \* of SourceDriver: "running", "input", "handle", "process", "stopped"
  angle,          \* of the block the LiDAR sends next
  lost,           \* has a packet been lost since the last one received?
  packets,        \* pkt_queue_
  receiving,      \* the receive thread: "loop", "overflow", "ended"
  handling,       \* the handle thread: Loop, Ended, or a packet
  angles_ready,
  prev_angle,
  filling,        \* the decoder's point_cloud_
  points,         \* what the clouds hold
  whole,          \* clouds begun with a split and without a gap since
  clouds,         \* point_cloud_queue_
  sending,        \* the cloud the process thread sends, None, or Gone
  unused          \* free_point_cloud_queue_

inputVars  == <<angle, lost, receiving>>
decodeVars == <<angles_ready, prev_angle, filling, points, whole>>
rsVars == <<stage, packets, handling, clouds, sending, unused, inputVars, decodeVars>>

Angles == 0 .. Turn - 1
Clouds == 1 .. MaxClouds
NoPoints == <<0, 0>>
None == 0
Gone == -1

\* An MSOP packet knows its angle (and here whether it follows the one before).
Msop(a, follows) == [kind |-> "msop", angle |-> a, follows |-> follows]
Other(kind) == [kind |-> kind, angle |-> 0, follows |-> TRUE]
Difop == Other("difop")
Loop  == Other("loop")
Ended == Other("ended")
Packet == {Difop} \cup {Msop(a, f) : a \in Angles, f \in BOOLEAN}

RsInit ==
  /\ stage = "running" /\ angle \in Angles /\ lost = TRUE
  /\ packets = <<>> /\ receiving = "loop" /\ handling = Loop
  /\ angles_ready = FALSE /\ prev_angle = 0
  /\ filling = 1 /\ points = [c \in Clouds |-> NoPoints]
  /\ whole = {} /\ clouds = <<>> /\ sending = None /\ unused = {}

-----------------------------------------------------------------------------
(* The receive thread                                                       *)

\* packetPut queues a packet; a queue that has become too long is cleared, which
\* is a step of its own.
Receive(p) ==
  /\ receiving = "loop"
  /\ packets' = Append(packets, p)
  /\ receiving' = IF Len(packets') > PacketPoolMax THEN "overflow" ELSE "loop"
  /\ UNCHANGED <<stage, handling, clouds, sending, unused, decodeVars>>

\* recvPacket: the LiDAR turns, and sends its angles now and then (those after the
\* first change nothing and are left out); a packet may be lost on the way.
RecvPacket ==
  /\ stage = "running"
  /\ \/ Receive(Msop(angle, ~lost)) /\ angle' = (angle + 1) % Turn /\ lost' = FALSE
     \/ ~angles_ready /\ Receive(Difop) /\ UNCHANGED <<angle, lost>>
     \/ /\ angle' = (angle + 1) % Turn /\ lost' = TRUE
        /\ UNCHANGED <<stage, packets, receiving, handling, clouds, sending, unused,
                       decodeVars>>

\* pkt_queue_.clear()
Overflow ==
  /\ receiving = "overflow"
  /\ packets' = <<>> /\ lost' = TRUE /\ receiving' = "loop"
  /\ UNCHANGED <<stage, angle, handling, clouds, sending, unused, decodeVars>>

ReceiveEnds ==
  /\ receiving = "loop" /\ stage = "input"
  /\ receiving' = "ended"
  /\ UNCHANGED <<stage, angle, lost, packets, handling, clouds, sending, unused,
                 decodeVars>>

-----------------------------------------------------------------------------
(* The handle thread                                                        *)

\* processPacket; its wait for a packet times out, so that it sees the end.
TakePacket ==
  /\ handling = Loop /\ stage \in {"running", "input"} /\ packets # <<>>
  /\ handling' = Head(packets) /\ packets' = Tail(packets)
  /\ UNCHANGED <<stage, clouds, sending, unused, inputVars, decodeVars>>

\* A slip: the wait for a packet has no end of its own.
HandleEndsAwake ==
  /\ handling = Loop /\ stage = "handle" /\ packets # <<>>
  /\ handling' = Ended
  /\ UNCHANGED <<stage, packets, clouds, sending, unused, inputVars, decodeVars>>

HandleEnds ==
  /\ handling = Loop /\ stage = "handle"
  /\ handling' = Ended
  /\ UNCHANGED <<stage, packets, clouds, sending, unused, inputVars, decodeVars>>

ProcessDifop ==
  /\ handling = Difop
  /\ handling' = Loop /\ angles_ready' = TRUE
  /\ UNCHANGED <<stage, packets, clouds, sending, unused, inputVars, prev_angle,
                 filling, points, whole>>

\* A slip: the block at the split angle still belongs to the turn before.
NewBlockLate(a) ==
  LET prev == IF a < prev_angle THEN prev_angle - Turn ELSE prev_angle
  IN  prev <= 0 /\ 0 < a

\* SplitStrategyByAngle, in blocks instead of hundredths of a degree
NewBlock(a) ==
  LET prev == IF a < prev_angle THEN prev_angle - Turn ELSE prev_angle
  IN  prev < 0 /\ 0 <= a

Overfull == points[filling][2] > CloudPointMax
Splits(a) == NewBlock(a) /\ points[filling] # NoPoints

\* A cloud with a gap, before its end or at it, is not whole any more.
WholeStill == IF handling.follows THEN whole ELSE whole \ {filling}

\* Points are added.
Fill ==
  /\ points' = [points EXCEPT ![filling] =
                  IF @ = NoPoints THEN <<handling.angle, 1>> ELSE <<@[1], @[2] + 1>>]
  /\ whole' = WholeStill

\* processMsopPkt: without the angles a packet is ignored; ...
IgnoreMsop ==
  /\ handling.kind = "msop" /\ WaitForDifop /\ ~angles_ready
  /\ handling' = Loop
  /\ UNCHANGED <<stage, packets, clouds, sending, unused, inputVars, decodeVars>>

Decoding == handling.kind = "msop" /\ (WaitForDifop => angles_ready)

\* ... a cloud that has grown too large is emptied; ...
ClearCloud ==
  /\ Decoding /\ filling # None /\ Overfull
  /\ points' = [points EXCEPT ![filling] = NoPoints] /\ whole' = whole \ {filling}
  /\ UNCHANGED <<stage, packets, handling, clouds, sending, unused, inputVars,
                 angles_ready, prev_angle, filling>>

\* ... the first block beyond the split angle hands the cloud over, if there is
\* anything in it (splitFrame; what a cloud with a gap holds is of no interest any
\* more), ...
SplitFrame ==
  /\ Decoding /\ filling # None /\ ~Overfull /\ Splits(handling.angle)
  /\ clouds' = Append(clouds, filling) /\ prev_angle' = handling.angle
  /\ filling' = None /\ whole' = WholeStill
  /\ points' = [points EXCEPT ![filling] = IF filling \in whole' THEN @ ELSE NoPoints]
  /\ UNCHANGED <<stage, packets, handling, sending, unused, inputVars, angles_ready>>

InUse == {filling, sending} \cup ToSet(clouds)

\* ... and gets one that was given back, or a new one (which of them does not
\* matter); ...
GetPointCloud ==
  /\ filling = None
  /\ unused # {} \/ Clouds \ InUse # {}
  /\ filling' = CHOOSE c \in IF unused # {} THEN unused ELSE Clouds \ InUse : TRUE
  /\ unused' = unused \ {filling'}
  /\ points' = [points EXCEPT ![filling'] = NoPoints] /\ whole' = whole \cup {filling'}
  /\ UNCHANGED <<stage, packets, handling, clouds, sending, inputVars, angles_ready,
                 prev_angle>>

\* ... then the points of the block are added.
AddPoints ==
  /\ Decoding /\ filling # None /\ ~Overfull /\ ~Splits(handling.angle)
  /\ Fill
  /\ prev_angle' = handling.angle
  /\ handling' = Loop
  /\ UNCHANGED <<stage, packets, clouds, sending, unused, inputVars, angles_ready,
                 filling>>

HandleThread ==
  \/ TakePacket \/ HandleEnds \/ ProcessDifop \/ IgnoreMsop \/ ClearCloud
  \/ SplitFrame \/ GetPointCloud \/ AddPoints

-----------------------------------------------------------------------------
(* The process thread and the end                                           *)

TakeCloud ==
  /\ sending = None /\ stage # "process" /\ clouds # <<>>
  /\ sending' = Head(clouds) /\ clouds' = Tail(clouds)
  /\ UNCHANGED <<stage, packets, handling, unused, inputVars, decodeVars>>

\* sendPointCloud, then the cloud is given back (and what it holds is forgotten
\* here already).
SendPointCloud ==
  /\ sending \in Clouds
  /\ unused' = unused \cup {sending} /\ sending' = None
  /\ points' = [points EXCEPT ![sending] = NoPoints] /\ whole' = whole \ {sending}
  /\ UNCHANGED <<stage, packets, handling, clouds, inputVars, angles_ready, prev_angle,
                 filling>>

ProcessEnds ==
  /\ sending = None /\ stage = "process"
  /\ sending' = Gone
  /\ UNCHANGED <<stage, packets, handling, clouds, unused, inputVars, decodeVars>>

SendThread == TakeCloud \/ SendPointCloud \/ ProcessEnds

\* SourceDriver::stop: each thread is told to end and joined, one after the
\* other.  The destructor calls stop a second time and joins a thread that has
\* been joined, which ends the program.
Stop ==
  /\ \/ stage = "running" /\ stage' = "input" /\ UNCHANGED points
     \/ stage = "input" /\ receiving = "ended" /\ stage' = "handle" /\ UNCHANGED points
     \/ /\ stage = "handle" /\ handling = Ended /\ stage' = "process"
        /\ points' = [points EXCEPT ![filling] = NoPoints]
     \/ stage = "process" /\ sending = Gone /\ stage' = "stopped" /\ UNCHANGED points
     \/ stage = "stopped" /\ stage' = "terminated" /\ UNCHANGED points
  /\ UNCHANGED <<packets, handling, clouds, sending, unused, inputVars,
                 angles_ready, prev_angle, filling, whole>>

RsNext ==
  \/ RecvPacket \/ Overflow \/ ReceiveEnds \/ HandleThread \/ SendThread \/ Stop

RsSpec == RsInit /\ [][RsNext]_rsVars

-----------------------------------------------------------------------------
(* Properties                                                               *)

RsTypeOK ==
  /\ stage \in {"running", "input", "handle", "process", "stopped", "terminated"}
  /\ angle \in Angles /\ lost \in BOOLEAN /\ receiving \in {"loop", "overflow", "ended"}
  /\ packets \in Seq(Packet) /\ Len(packets) <= PacketPoolMax + 1
  /\ handling \in Packet \cup {Loop, Ended}
  /\ angles_ready \in BOOLEAN /\ prev_angle \in Angles
  /\ filling \in Clouds \cup {None}
  /\ points \in [Clouds -> Angles \X (0 .. CloudPointMax + 1)]
  /\ whole \subseteq Clouds /\ unused \subseteq Clouds /\ clouds \in Seq(Clouds)
  /\ sending \in Clouds \cup {None, Gone}

HandedOver == ToSet(clouds) \cup ({sending} \ {None, Gone})

\* A cloud filled without a gap is one turn, from the split angle on, neither
\* short nor mixed with the next one; and until it has been sent it is nobody
\* else's: not filled, not free, and not queued twice (getPointCloud, splitFrame,
\* processPointCloud).
WholeCloudsAreTurns ==
  /\ \A c \in HandedOver \cap whole : points[c] = <<0, Turn>>
  /\ filling \notin HandedOver \cup unused
  /\ HandedOver \cap unused = {}
  /\ Cardinality(HandedOver) = Len(clouds) + (IF sending \in Clouds THEN 1 ELSE 0)

\* stop() ends: no thread waits for ever, whatever is in the queues.
StopEnds == stage = "input" ~> stage = "terminated"
=============================================================================
