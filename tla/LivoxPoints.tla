----------------------------- MODULE LivoxPoints -----------------------------
(***************************************************************************)
(* The way of a point cloud through livox_ros_driver2: the thread of the    *)
(* SDK queues raw packets, the process thread (pub_handler.cpp) makes a     *)
(* frame of them and pushes it into the ring of its LiDAR (lds.cpp,         *)
(* ldq.cpp), and the poll thread (lddc.cpp) empties the rings.  A ring has  *)
(* no lock: the process thread moves wr_idx, the poll thread rd_idx, both   *)
(* unsigned and never reset.  The poll thread sleeps on a semaphore that    *)
(* the process thread raises only when it finds it at zero.                 *)
(*                                                                         *)
(* Reads and writes are taken in program order (the indices are volatile,   *)
(* not atomic; the order of the stores is the one x86 keeps).               *)
(***************************************************************************)
EXTENDS Integers, Sequences, FiniteSetsExt

CONSTANTS
  LidarCount,
  Configured,        \* the LiDARs of the configuration file
  Frames, NoFrame,   \* what a frame may hold
  QueueSize,         \* CalculatePacketQueueSize
  IdxBits            \* the width of rd_idx and wr_idx

ASSUME PointsAssumption ==
  /\ LidarCount \in Nat \ {0} /\ Configured \subseteq 0 .. LidarCount - 1
  /\ QueueSize \in Nat \ {0} /\ IdxBits \in Nat \ {0} /\ NoFrame \notin Frames

VARIABLES
  connected,   \* the LiDARs with connect_state Sampling
  handlers,    \* the LiDARs with points for the next frame
  batch,       \* the frames of frame_ still to be pushed
  process,     \* the process thread: "idle", "push", "write", "move", "look",
               \* "signal"
  slot, rd, wr,   \* storage_packet, rd_idx, wr_idx
  count,       \* pcd_semaphore_
  poll,        \* the poll thread: "top", "wait", "scan", "read", "update", "future", "done"
  at,          \* the LiDAR it has come to
  pkg,         \* the frame it has copied
  published,   \* the frame published last, and of which LiDAR
  leaving,     \* DriverNode's destructor: "no", "requested", "promised"
  early        \* the LiDARs all of whose waiting frames are older than their sampling

sdkVars     == <<connected, leaving>>
processVars == <<handlers, batch, process>>
pollVars    == <<poll, at, pkg, published, rd>>
pointsVars  == <<slot, wr, count, sdkVars, processVars, pollVars,
                 early>>

Lidars == 0 .. LidarCount - 1

RoundupPowerOf2(size) == 2 ^ Min({k \in 0 .. IdxBits - 1 : size <= 2 ^ k} \cup {IdxBits - 1})

Capacity == RoundupPowerOf2(QueueSize)

\* Powers of two: the indices wrap where the slots do, and there are more
\* indices than slots.
ASSUME RingAssumption ==
  /\ Capacity \in Nat \ {0}
  /\ \E m \in 2 .. 2 ^ IdxBits : 2 ^ IdxBits = m * Capacity

NextIndex(i) == (i + 1) % 2 ^ IdxBits
UsedSize(l) == (wr[l] - rd[l]) % 2 ^ IdxBits
IsEmpty(l)  == rd[l] = wr[l]

\* A slip: one slot more than there is.
IsFullLate(l) == UsedSize(l) > Capacity

IsFull(l) == UsedSize(l) > Capacity - 1

PointsInit ==
  /\ connected = {} /\ leaving = "no"
  /\ handlers = {} /\ batch = {} /\ process = "idle"
  /\ slot = [l \in Lidars |-> [i \in 0 .. Capacity - 1 |-> NoFrame]]
  /\ rd = [l \in Lidars |-> 0] /\ wr = [l \in Lidars |-> 0]
  /\ count = 0 /\ poll = "top" /\ at = 0 /\ pkg = NoFrame
  /\ published = <<0, NoFrame>> /\ early = {}

-----------------------------------------------------------------------------
(* The SDK and the end                                                      *)

\* The last request of the configuration has been confirmed.
BecomesSampling(l) ==
  /\ l \notin connected
  /\ connected' = connected \cup {l}
  /\ early' = IF IsEmpty(l) THEN early ELSE early \cup {l}
  /\ UNCHANGED <<leaving, slot, wr, count, processVars, pollVars>>

\* ~DriverNode: request_exit_, then the promise; it joins the poll thread next.
Leave ==
  /\ \/ leaving = "no" /\ leaving' = "requested"
     \/ leaving = "requested" /\ leaving' = "promised"
  /\ UNCHANGED <<early, connected, slot, wr, count, processVars, pollVars>>

-----------------------------------------------------------------------------
(* The process thread                                                       *)

\* The process thread takes a packet of l (RawDataProcess): its points are kept,
\* or are of no known type, and CheckTimer has a frame published when its time
\* has come: with synchronised clocks of this LiDAR, without of all.
RawDataProcess(l) ==
  /\ process = "idle"
  /\ \E kept \in {handlers, handlers \cup {l}} :
       \/ handlers' = kept /\ UNCHANGED <<batch, process>>
       \/ l \in kept /\ batch' = {l} /\ handlers' = kept \ {l} /\ process' = "push"
       \/ kept # {} /\ batch' = kept /\ handlers' = {} /\ process' = "push"
  /\ UNCHANGED <<early, slot, wr, count, sdkVars, pollVars>>

pushing == Min(batch)

\* StoragePointData goes on with the next frame, or is done.
NextFrame ==
  /\ batch' = batch \ {pushing}
  /\ process' = IF batch' = {} THEN "idle" ELSE "push"

\* A slip: a frame that finds no room wakes nobody.
PushLidarDataSilent ==
  /\ process = "push"
  /\ IF IsFull(pushing)
       THEN NextFrame
       ELSE process' = "write" /\ UNCHANGED batch
  /\ UNCHANGED <<early, slot, wr, count, handlers, sdkVars, pollVars>>

\* PushLidarData: is there room?
PushLidarData ==
  /\ process = "push"
  /\ process' = IF IsFull(pushing) THEN "look" ELSE "write"
  /\ UNCHANGED <<early, slot, wr, count, handlers, batch, sdkVars, pollVars>>

\* QueuePushAny writes the slot, ...
WriteSlot(f) ==
  /\ process = "write"
  /\ slot' = [slot EXCEPT ![pushing][wr[pushing] % Capacity] = f]
  /\ process' = "move"
  /\ UNCHANGED <<early, wr, count, handlers, batch, sdkVars, pollVars>>

\* ... then moves the index.
MoveWrIdx ==
  /\ process = "move"
  /\ wr' = [wr EXCEPT ![pushing] = NextIndex(@)]
  /\ early' = early \ {pushing} /\ process' = "look"
  /\ UNCHANGED <<slot, count, handlers, batch, sdkVars, pollVars>>

\* GetCount, without the lock of the semaphore
LookAtCount ==
  /\ process = "look"
  /\ IF count <= 0
       THEN process' = "signal" /\ UNCHANGED batch
       ELSE NextFrame
  /\ UNCHANGED <<early, slot, wr, count, handlers, sdkVars, pollVars>>

Signal ==
  /\ process = "signal"
  /\ count' = count + 1 /\ NextFrame
  /\ UNCHANGED <<early, slot, wr, handlers, sdkVars, pollVars>>

ProcessThread ==
  \/ PushLidarData \/ MoveWrIdx \/ LookAtCount \/ Signal
  \/ \E f \in Frames : WriteSlot(f)

-----------------------------------------------------------------------------
(* The poll thread                                                          *)

\* DistributePointCloudData asks whether the node leaves, ...
Top ==
  /\ poll = "top"
  /\ poll' = IF leaving = "no" THEN "wait" ELSE "future"
  /\ UNCHANGED <<early, slot, wr, count, at, pkg, published, rd, sdkVars, processVars>>

\* ... sleeps until the semaphore is raised, ...
Wait ==
  /\ poll = "wait" /\ count > 0
  /\ count' = count - 1 /\ poll' = "scan" /\ at' = 0
  /\ UNCHANGED <<early, slot, wr, pkg, published, rd, sdkVars, processVars>>

\* ... and goes through the LiDARs that are sampling, each until its ring is
\* empty or the node leaves.
Scan ==
  /\ poll = "scan"
  /\ \/ /\ at = LidarCount
        /\ poll' = "future" /\ UNCHANGED at
     \/ /\ at < LidarCount
        /\ at \notin connected \/ IsEmpty(at) \/ leaving # "no"
        /\ at' = at + 1 /\ UNCHANGED poll
     \/ /\ at < LidarCount
        /\ at \in connected /\ ~IsEmpty(at) /\ leaving = "no"
        /\ poll' = "read" /\ UNCHANGED at
  /\ UNCHANGED <<early, slot, wr, count, pkg, published, rd, sdkVars, processVars>>

\* QueuePrePop copies the frame, ...
QueuePrePop ==
  /\ poll = "read"
  /\ pkg' = slot[at][rd[at] % Capacity]
  /\ poll' = "update"
  /\ UNCHANGED <<early, slot, wr, count, at, published, rd, sdkVars, processVars>>

\* A slip: one frame of each LiDAR at a time.
QueuePopUpdateOne ==
  /\ poll = "update"
  /\ rd' = [rd EXCEPT ![at] = NextIndex(@)]
  /\ published' = <<at, pkg>> /\ pkg' = NoFrame
  /\ slot' = [slot EXCEPT ![at][rd[at] % Capacity] = NoFrame]
  /\ poll' = "scan" /\ at' = at + 1
  /\ UNCHANGED <<early, wr, count, sdkVars, processVars>>

\* ... QueuePopUpdate frees the slot, and the copy is published.  The loop of
\* PublishPointcloud2 goes on with the ring that is not empty yet and does not
\* ask whether the node leaves.  (What a freed slot holds is of no interest.)
QueuePopUpdate ==
  /\ poll = "update"
  /\ rd' = [rd EXCEPT ![at] = NextIndex(@)]
  /\ published' = <<at, pkg>> /\ pkg' = NoFrame
  /\ slot' = [slot EXCEPT ![at][rd[at] % Capacity] = NoFrame]
  /\ poll' = IF rd'[at] # wr[at] THEN "read" ELSE "scan"
  /\ UNCHANGED <<early, wr, count, at, sdkVars, processVars>>

\* PointCloudDataPollThread looks for the promise.
LookAtFuture ==
  /\ poll = "future"
  /\ poll' = IF leaving = "promised" THEN "done" ELSE "top"
  /\ UNCHANGED <<early, slot, wr, count, at, pkg, published, rd, sdkVars, processVars>>

PollThread == Top \/ Wait \/ Scan \/ QueuePrePop \/ QueuePopUpdate \/ LookAtFuture

PointsNext ==
  \/ \E l \in Configured : BecomesSampling(l)
  \/ \E l \in Lidars : RawDataProcess(l)
  \/ Leave \/ ProcessThread \/ PollThread

PointsSpec == PointsInit /\ [][PointsNext]_pointsVars

-----------------------------------------------------------------------------
(* Properties                                                               *)

\* The threads are where their code lets them be, and a semaphore that is only
\* raised at zero never goes beyond one.
PointsTypeOK ==
  /\ connected \subseteq Configured
  /\ handlers \subseteq Lidars /\ batch \subseteq Lidars
  /\ process \in {"idle", "push", "write", "move", "look", "signal"}
  /\ slot \in [Lidars -> [0 .. Capacity - 1 -> Frames \cup {NoFrame}]]
  /\ rd \in [Lidars -> 0 .. 2 ^ IdxBits - 1] /\ wr \in [Lidars -> 0 .. 2 ^ IdxBits - 1]
  /\ count \in 0 .. 1
  /\ poll \in {"top", "wait", "scan", "read", "update", "future", "done"}
  /\ at \in 0 .. LidarCount
  /\ pkg \in Frames \cup {NoFrame}
  /\ published \in Lidars \X (Frames \cup {NoFrame})
  /\ leaving \in {"no", "requested", "promised"} /\ early \subseteq Lidars

\* A LiDAR whose frames wait in the ring while the poll thread sleeps and
\* nobody is about to wake it.
Stranded ==
  {l \in connected : /\ ~IsEmpty(l) /\ poll = "wait" /\ count = 0
                     /\ process \notin {"move", "look", "signal"}}

\* No wake-up is lost: although the count is read without its lock and raised
\* only at zero, the only frames left behind are those a LiDAR had in its ring
\* before it was sampling, and only until it sends another one (lds.cpp
\* PushLidarData, lddc.cpp DistributePointCloudData).
NoWakeUpLost == Stranded \subseteq early

\* The lock-free ring with its wrapping indices is the bounded queue of
\* FrameQueue: no frame is lost but for want of room, none is published twice
\* or half overwritten (ldq.cpp).
Ring(l) == [i \in 1 .. UsedSize(l) |-> slot[l][((rd[l] + i - 1) % 2 ^ IdxBits) % Capacity]]

Q == INSTANCE FrameQueue WITH
       queue <- [l \in Lidars |-> Ring(l)], out <- published

ImplementsFrameQueue == Q!Safety

\* While frames keep coming, the poll thread the destructor joins does not sleep
\* for ever: it ends, or publishes frames that come faster than it can, which is
\* a loop that does not ask whether the node leaves (driver_node.cpp ~DriverNode,
\* lddc.cpp PublishPointcloud2).
LeavingEnds == []<>(leaving = "promised" => poll \in {"done", "update"})
=============================================================================
