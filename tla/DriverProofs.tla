---------------------------- MODULE DriverProofs ----------------------------
(***************************************************************************)
(* Proofs about the sensor drivers.                                         *)
(*                                                                         *)
(* livox_ros_driver2, for any number of LiDARs, any size of the rings and   *)
(* any width of their indices: no wake-up of the poll thread is lost, and   *)
(* the lock-free ring is the bounded queue of FrameQueue.                   *)
(*                                                                         *)
(* rs_driver, for any number of blocks a turn, any limit of the packet      *)
(* queue and any number of clouds: a cloud that lost nothing is one turn,   *)
(* and every cloud has one owner.                                          *)
(*                                                                         *)
(* m20_lidar_fusion, for any length of the queues, any tolerance and any    *)
(* period of the LiDARs: two scans that belong together are fused.          *)
(***************************************************************************)
EXTENDS LivoxPoints, RsDriver, M20LidarFusion, FiniteSetTheorems, SequenceTheorems, Induction

-----------------------------------------------------------------------------
(* Who wakes the poll thread                                                *)

\* Who will see to the frames of l: the poll thread, which a raised semaphore
\* will wake, or which has still to come to l; the process thread, which will
\* look at the semaphore; or nobody, as the node leaves and the poll thread will
\* not sleep again.
WillBeWoken   == count > 0
WillLook      == process \in {"move", "look", "signal"}
WillCome(l)   == poll \in {"scan", "read", "update"} /\ at <= l
GoesOnLeaving == leaving # "no" /\ poll # "wait"

Attended(l) == WillBeWoken \/ WillLook \/ WillCome(l) \/ GoesOnLeaving

WakeTypes ==
  /\ connected \subseteq Lidars /\ DOMAIN rd = Lidars /\ DOMAIN wr = Lidars
  /\ count \in Nat /\ at \in Nat

AllAttended == \A l \in connected : IsEmpty(l) \/ l \in early \/ Attended(l)

WakeInv == WakeTypes /\ AllAttended

LEMMA WakeInvInit == PointsInit => WakeInv
BY DEF PointsInit, WakeInv, WakeTypes, AllAttended

\* Sampling, packets and the end touch no ring and no semaphore.
LEMMA OthersKeepWakeUps ==
  ASSUME WakeInv, (\E l \in Configured : BecomesSampling(l))
                 \/ (\E l \in Lidars : RawDataProcess(l)) \/ Leave
  PROVE  WakeInv'
<1>1. WakeTypes'
  BY PointsAssumption
     DEF WakeInv, WakeTypes, Lidars, BecomesSampling, RawDataProcess, Leave, processVars, pollVars, sdkVars
<1>2. ASSUME NEW k \in Configured, BecomesSampling(k)
      PROVE  AllAttended'
  <2>1. connected' = connected \cup {k} /\ early \subseteq early'
        /\ (IsEmpty(k) \/ k \in early')
    BY <1>2 DEF BecomesSampling
  <2>2. UNCHANGED <<leaving, wr, count, process, poll, at, rd>>
    BY <1>2 DEF BecomesSampling, processVars, pollVars
  <2> QED
    BY <2>1, <2>2 DEF WakeInv, AllAttended, IsEmpty, Attended, WillBeWoken, WillLook, WillCome,
                      GoesOnLeaving
<1>3. ASSUME NEW k \in Lidars, RawDataProcess(k)
      PROVE  AllAttended'
  <2>1. process = "idle" /\ UNCHANGED <<connected, leaving, early, wr, count, poll, at, rd>>
    BY <1>3 DEF RawDataProcess, sdkVars, pollVars
  <2> QED
    BY <2>1 DEF WakeInv, AllAttended, IsEmpty, Attended, WillBeWoken, WillLook, WillCome,
                GoesOnLeaving
<1>4. CASE Leave
  <2>1. leaving' # "no" /\ UNCHANGED <<connected, early, wr, count, process, poll, at, rd>>
    BY <1>4 DEF Leave, processVars, pollVars
  <2> QED
    BY <1>1, <2>1 DEF WakeInv, AllAttended, IsEmpty, Attended, WillBeWoken, WillLook, WillCome,
                GoesOnLeaving
<1> QED
  BY <1>1, <1>2, <1>3, <1>4 DEF WakeInv

\* The process thread looks at the semaphore whenever it has moved an index, and
\* when it finds it raised, somebody will be woken.
LEMMA ProcessKeepsWakeUps ==
  ASSUME WakeInv, ProcessThread
  PROVE  WakeInv'
<1>1. UNCHANGED <<connected, leaving, poll, at, rd>>
  BY DEF ProcessThread, PushLidarData, MoveWrIdx, LookAtCount, Signal, WriteSlot, sdkVars, pollVars
<1>2. WakeTypes'
  <2>1. DOMAIN wr' = Lidars
    BY DEF WakeInv, WakeTypes, ProcessThread, PushLidarData, MoveWrIdx, LookAtCount, Signal, WriteSlot
  <2>2. count' \in Nat
    BY DEF WakeInv, WakeTypes, ProcessThread, PushLidarData, MoveWrIdx, LookAtCount, Signal, WriteSlot
  <2> QED
    BY <1>1, <2>1, <2>2 DEF WakeInv, WakeTypes
<1>3. ASSUME process' \in {"move", "look", "signal"}
      PROVE  AllAttended'
  BY <1>3 DEF AllAttended, Attended, WillLook
<1>4. ASSUME count' > 0
      PROVE  AllAttended'
  BY <1>4 DEF AllAttended, Attended, WillBeWoken
<1>5. CASE PushLidarData
  <2>1. process = "push" /\ UNCHANGED <<early, wr, count>>
    BY <1>5 DEF PushLidarData
  <2> QED
    BY <1>1, <1>2, <2>1 DEF WakeInv, AllAttended, IsEmpty, Attended, WillBeWoken, WillLook, WillCome,
                      GoesOnLeaving
<1>6. CASE MoveWrIdx
  BY <1>2, <1>3, <1>6 DEF MoveWrIdx, WakeInv
<1>7. CASE LookAtCount
  <2>1. CASE count <= 0
    BY <1>2, <1>3, <1>7, <2>1 DEF LookAtCount, WakeInv
  <2>2. CASE ~(count <= 0)
    BY <1>2, <1>4, <1>7, <2>2 DEF LookAtCount, WakeInv, WakeTypes
  <2> QED
    BY <2>1, <2>2
<1>8. CASE Signal
  BY <1>2, <1>4, <1>8 DEF Signal, WakeInv, WakeTypes
<1>9. CASE \E f \in Frames : WriteSlot(f)
  BY <1>2, <1>3, <1>9 DEF WriteSlot, WakeInv
<1> QED
  BY <1>2, <1>5, <1>6, <1>7, <1>8, <1>9 DEF ProcessThread, WakeInv

\* The poll thread goes to sleep only after it has come to every ring.
LEMMA PollKeepsWakeUps ==
  ASSUME WakeInv, PollThread
  PROVE  WakeInv'
<1>1. UNCHANGED <<connected, leaving, early, wr, process>>
  BY DEF PollThread, Top, Wait, Scan, QueuePrePop, QueuePopUpdate, LookAtFuture, sdkVars, processVars
<1>2. WakeTypes'
  <2>1. DOMAIN rd' = Lidars
    BY DEF WakeInv, WakeTypes, PollThread, Top, Wait, Scan, QueuePrePop, QueuePopUpdate, LookAtFuture
  <2>2. count' \in Nat /\ at' \in Nat
    BY DEF WakeInv, WakeTypes, PollThread, Top, Wait, Scan, QueuePrePop, QueuePopUpdate, LookAtFuture
  <2> QED
    BY <1>1, <2>1, <2>2 DEF WakeInv, WakeTypes
<1>3. ASSUME NEW l \in connected, ~(IsEmpty(l))', l \notin early
      PROVE  Attended(l)'
  <2>1. l \in Nat /\ l < LidarCount /\ l \in Lidars /\ at \in Nat /\ count \in Nat
    BY PointsAssumption DEF WakeInv, WakeTypes, Lidars
  <2>2. ASSUME ~IsEmpty(l)
        PROVE  Attended(l)
    BY <1>3, <2>2 DEF WakeInv, AllAttended
  <2>3. CASE Top
    BY <1>1, <1>3, <2>2, <2>3
       DEF Top, IsEmpty, Attended, WillBeWoken, WillLook, WillCome, GoesOnLeaving
  <2>4. CASE Wait
    BY <2>1, <2>4 DEF Wait, Attended, WillCome
  <2>5. CASE Scan
    <3>1. ~IsEmpty(l) /\ Attended(l) /\ UNCHANGED count
      BY <1>1, <1>3, <2>2, <2>5 DEF Scan, IsEmpty
    <3>2. CASE WillBeWoken \/ WillLook
      BY <1>1, <3>1, <3>2 DEF Attended, WillBeWoken, WillLook
    <3>3. CASE GoesOnLeaving
      BY <1>1, <2>5, <3>3 DEF Scan, Attended, GoesOnLeaving
    <3>4. CASE WillCome(l)
      <4>1. CASE at = l /\ leaving = "no"
        BY <1>3, <2>1, <2>5, <3>1, <4>1 DEF Scan, Attended, WillCome
      <4>2. CASE at # l \/ leaving # "no"
        BY <1>1, <2>1, <2>5, <3>4, <4>2 DEF Scan, Attended, WillCome, GoesOnLeaving
      <4> QED
        BY <4>1, <4>2
    <3> QED
      BY <3>1, <3>2, <3>3, <3>4 DEF Attended
  <2>6. CASE QueuePrePop
    BY <1>1, <1>3, <2>2, <2>6
       DEF QueuePrePop, IsEmpty, Attended, WillBeWoken, WillLook, WillCome, GoesOnLeaving
  <2>7. CASE QueuePopUpdate
    <3>1. UNCHANGED <<count, at>> /\ poll = "update" /\ poll' \in {"read", "scan"}
      BY <2>7 DEF QueuePopUpdate
    <3>2. CASE l = at
      BY <2>1, <3>1, <3>2 DEF Attended, WillCome
    <3>3. CASE l # at
      <4>1. rd'[l] = rd[l]
        BY <2>1, <2>7, <3>3 DEF QueuePopUpdate, WakeInv, WakeTypes
      <4> QED
        BY <1>1, <1>3, <2>2, <3>1, <4>1
           DEF IsEmpty, Attended, WillBeWoken, WillLook, WillCome, GoesOnLeaving
    <3> QED
      BY <3>2, <3>3
  <2>8. CASE LookAtFuture
    BY <1>1, <1>3, <2>2, <2>8
       DEF LookAtFuture, IsEmpty, Attended, WillBeWoken, WillLook, WillCome, GoesOnLeaving
  <2> QED
    BY <2>3, <2>4, <2>5, <2>6, <2>7, <2>8 DEF PollThread
<1>4. AllAttended'
  BY <1>1, <1>3 DEF AllAttended
<1> QED
  BY <1>2, <1>4 DEF WakeInv

\* NoWakeUpLost: the process thread reads the count of the semaphore without its
\* lock and raises it only at zero (lds.cpp PushLidarData), and still no frame is
\* left in a ring while the poll thread sleeps, but for those that were in it
\* before its LiDAR was sampling.
THEOREM WakeUpsAreKept == PointsSpec => []NoWakeUpLost
<1>1. WakeInv /\ [PointsNext]_pointsVars => WakeInv'
  <2> SUFFICES ASSUME WakeInv, [PointsNext]_pointsVars
               PROVE  WakeInv'
    OBVIOUS
  <2>1. CASE UNCHANGED pointsVars
    BY <2>1 DEF pointsVars, sdkVars, processVars, pollVars, WakeInv, WakeTypes, AllAttended, IsEmpty,
                Attended, WillBeWoken, WillLook, WillCome, GoesOnLeaving
  <2> QED
    BY <2>1, OthersKeepWakeUps, ProcessKeepsWakeUps, PollKeepsWakeUps DEF PointsNext
<1>2. WakeInv => NoWakeUpLost
  <2> SUFFICES ASSUME WakeInv, NEW l \in Stranded
               PROVE  l \in early
    BY DEF NoWakeUpLost
  <2> QED
    BY DEF Stranded, WakeInv, WakeTypes, AllAttended, Attended, WillBeWoken, WillLook, WillCome,
           GoesOnLeaving
<1> QED
  BY WakeInvInit, <1>1, <1>2, PTL DEF PointsSpec

-----------------------------------------------------------------------------
(* Indices that wrap                                                        *)

LEMMA DivMod ==
  ASSUME NEW n \in Int, n > 0, NEW x \in Int
  PROVE  /\ x \div n \in Int /\ x = n * (x \div n) + (x % n)
         /\ x % n \in Int /\ x % n >= 0 /\ x % n < n
<1>1. x \div n \in Int
  OBVIOUS
<1>2. x = n * (x \div n) + (x % n)
  OBVIOUS
<1>3. x % n \in Int /\ x % n >= 0 /\ x % n < n
  OBVIOUS
<1> QED
  BY <1>1, <1>2, <1>3

LEMMA ModIs ==
  ASSUME NEW n \in Int, n > 0, NEW x \in Int, NEW q \in Int, NEW r \in Int,
         0 <= r, r < n, x = q * n + r
  PROVE  x % n = r
OBVIOUS

LEMMA ModPeriod ==
  ASSUME NEW n \in Int, n > 0, NEW x \in Int, NEW m \in Int
  PROVE  (x + m * n) % n = x % n
<1> DEFINE q == x \div n
           r == x % n
<1>1. q \in Int /\ r \in Int /\ 0 <= r /\ r < n /\ x = n * q + r
  BY DivMod
<1> HIDE DEF q, r
<1>2. x + m * n = (q + m) * n + r /\ x + m * n \in Int /\ q + m \in Int
  BY <1>1
<1>3. (x + m * n) % n = r
  BY <1>1, <1>2, ModIs
<1> QED
  BY <1>3 DEF r

LEMMA ModApart ==
  ASSUME NEW n \in Int, n > 0, NEW a \in Int, NEW b \in Int, a < b, b - a < n
  PROVE  a % n # b % n
<1> SUFFICES ASSUME a % n = b % n
             PROVE  FALSE
  OBVIOUS
<1> DEFINE p == a \div n
           q == b \div n
           d == q - p
<1>1. p \in Int /\ q \in Int /\ a % n \in Int /\ a = n * p + (a % n) /\ b = n * q + (b % n)
  BY DivMod
<1> HIDE DEF p, q
<1>2. d \in Int /\ b - a = n * d
  BY <1>1
<1> HIDE DEF d
<1>3. d >= 1 \/ d <= 0
  BY <1>2
<1>4. (d >= 1 => n * d >= n) /\ (d <= 0 => n * d <= 0)
  BY <1>2
<1> QED
  BY <1>2, <1>3, <1>4

\* The number of indices.
Width == 2 ^ IdxBits

LEMMA RingSizes ==
  /\ Width \in Int /\ Capacity \in Int
  /\ Capacity > 0 /\ Width > Capacity
  /\ \E m \in Int : Width = m * Capacity
<1> DEFINE w == Width
           c == Capacity
<1>1. c \in Nat /\ c > 0
  BY RingAssumption
<1>2. PICK m \in 2 .. w : w = m * c
  BY RingAssumption DEF Width
<1>3. m \in Int /\ m >= 2
  BY <1>2
<1> HIDE DEF w, c
<1>4. w \in Int /\ m * c >= 2 * c
  BY <1>1, <1>2, <1>3
<1>5. w > c
  BY <1>1, <1>2, <1>4
<1> QED
  BY <1>1, <1>2, <1>3, <1>4, <1>5 DEF w, c

\* Where an index points does not depend on how often it has wrapped.
LEMMA Wrapped ==
  ASSUME NEW x \in Int
  PROVE  (x % Width) % Capacity = x % Capacity
<1> DEFINE w == Width
           c == Capacity
<1>1. w \in Int /\ c \in Int /\ c > 0 /\ w > c
  BY RingSizes
<1>2. PICK m \in Int : w = m * c
  BY RingSizes
<1> HIDE DEF w, c
<1> DEFINE q == x \div w
           r == x % w
<1>3. q \in Int /\ r \in Int /\ x = w * q + r
  BY <1>1, DivMod
<1> HIDE DEF q, r
<1>4. x = r + (m * q) * c /\ m * q \in Int
  BY <1>1, <1>2, <1>3
<1>5. (r + (m * q) * c) % c = r % c
  BY <1>1, <1>3, <1>4, ModPeriod
<1> QED
  BY <1>4, <1>5 DEF r, w, c

\* How many slots are used, between two indices, ...
Between(r, w) == (w - r) % Width

LEMMA UsedSlots ==
  ASSUME NEW r \in 0 .. Width - 1, NEW w \in 0 .. Width - 1
  PROVE  /\ Between(r, w) = IF w >= r THEN w - r ELSE w - r + Width
         /\ Between(r, w) \in Nat
         /\ w % Capacity = (r + Between(r, w)) % Capacity
<1>1. Width \in Int /\ Width > 0 /\ r \in Int /\ w \in Int /\ r >= 0 /\ w >= 0
      /\ r < Width /\ w < Width
  BY RingSizes
<1> DEFINE n == Width
           u == Between(r, w)
<1>2. u = IF w >= r THEN w - r ELSE w - r + n
  <2>0. u = (w - r) % n
    BY DEF Between
  <2> HIDE DEF u
  <2>1. CASE w >= r
    <3>1. w - r = 0 * n + (w - r) /\ w - r >= 0 /\ w - r < n /\ w - r \in Int
      BY <1>1, <2>1
    <3> HIDE DEF n
    <3> QED
      BY <1>1, <2>0, <2>1, <3>1, ModIs DEF n
  <2>2. CASE w < r
    <3>1. w - r = (-1) * n + (w - r + n) /\ w - r + n >= 0 /\ w - r + n < n
          /\ w - r + n \in Int /\ w - r \in Int
      BY <1>1, <2>2
    <3> HIDE DEF n
    <3>2. n \in Int /\ n > 0
      BY <1>1 DEF n
    <3>3. (w - r) % n = w - r + n
      BY <3>1, <3>2, ModIs
    <3> QED
      BY <1>1, <2>0, <2>2, <3>3
  <2> QED
    BY <1>1, <2>1, <2>2
<1>3. u \in Nat
  BY <1>1, <1>2
<1>4. w % Capacity = (r + u) % Capacity
  <2>1. CASE w >= r
    BY <1>1, <1>2, <2>1
  <2>2. CASE w < r
    <3>1. r + u = w + n
      BY <1>1, <1>2, <2>2
    <3>2. (w + n) % n = w % n /\ w % n = w
      <4>1. w + n = 1 * n + w /\ w = 0 * n + w /\ w + n \in Int
        BY <1>1
      <4> HIDE DEF n
      <4>2. n \in Int /\ n > 0
        BY <1>1 DEF n
      <4> QED
        BY <1>1, <4>1, <4>2, ModIs DEF n
    <3>3. ((w + n) % n) % Capacity = (w + n) % Capacity /\ w + n \in Int
      BY <1>1, Wrapped
    <3> QED
      BY <3>1, <3>2, <3>3
  <2> QED
    BY <1>1, <2>1, <2>2
<1> QED
  BY <1>2, <1>3, <1>4

\* ... and when one of them has been moved.
LEMMA NextSlot ==
  ASSUME NEW i \in 0 .. Width - 1
  PROVE  /\ NextIndex(i) \in 0 .. Width - 1
         /\ NextIndex(i) = IF i + 1 = Width THEN 0 ELSE i + 1
<1> DEFINE n == Width
<1>1. n \in Int /\ n > 0 /\ i \in Int /\ i >= 0 /\ i < n
  BY RingSizes
<1>2. NextIndex(i) = (i + 1) % n
  BY DEF NextIndex, Width
<1> HIDE DEF n
<1>3. CASE i + 1 = n
  <2>1. i + 1 = 1 * n + 0 /\ i + 1 \in Int
    BY <1>1, <1>3
  <2>2. (i + 1) % n = 0
    BY <1>1, <2>1, ModIs
  <2> QED
    BY <1>1, <1>2, <1>3, <2>2 DEF n
<1>4. CASE i + 1 # n
  <2>1. i + 1 = 0 * n + (i + 1) /\ i + 1 \in Int /\ i + 1 < n /\ i + 1 >= 0
    BY <1>1, <1>4
  <2>2. (i + 1) % n = i + 1
    BY <1>1, <2>1, ModIs
  <2> QED
    BY <1>1, <1>2, <1>4, <2>1, <2>2 DEF n
<1> QED
  BY <1>3, <1>4

LEMMA MovedIndices ==
  ASSUME NEW r \in 0 .. Width - 1, NEW w \in 0 .. Width - 1
  PROVE  /\ Between(r, w) + 1 < Width
              => Between(r, NextIndex(w)) = Between(r, w) + 1
         /\ Between(r, w) > 0
              => Between(NextIndex(r), w) = Between(r, w) - 1
<1>1. /\ Width \in Int /\ Width > 0
      /\ r \in Int /\ r >= 0 /\ r < Width /\ w \in Int /\ w >= 0 /\ w < Width
      /\ NextIndex(w) \in 0 .. Width - 1 /\ NextIndex(r) \in 0 .. Width - 1
  BY RingSizes, NextSlot
<1>2. Between(r, w) = IF w >= r THEN w - r ELSE w - r + Width
  BY UsedSlots
<1>3. Between(r, NextIndex(w)) = IF NextIndex(w) >= r THEN NextIndex(w) - r
                                   ELSE NextIndex(w) - r + Width
  BY <1>1, UsedSlots
<1>4. Between(NextIndex(r), w) = IF w >= NextIndex(r) THEN w - NextIndex(r)
                                   ELSE w - NextIndex(r) + Width
  BY <1>1, UsedSlots
<1>5. /\ NextIndex(w) = IF w + 1 = Width THEN 0 ELSE w + 1
      /\ NextIndex(r) = IF r + 1 = Width THEN 0 ELSE r + 1
  BY NextSlot
<1> QED
  BY <1>1, <1>2, <1>3, <1>4, <1>5

-----------------------------------------------------------------------------
(* The ring as a queue                                                      *)

\* The frames between two indices of a ring with these slots.
RingFrom(r, w, slots) ==
  [i \in 1 .. Between(r, w) |-> slots[((r + i - 1) % Width) % Capacity]]

LEMMA RingIsSeq ==
  ASSUME NEW r \in 0 .. Width - 1, NEW w \in 0 .. Width - 1,
         NEW S, NEW slots \in [0 .. Capacity - 1 -> S]
  PROVE  /\ RingFrom(r, w, slots) \in Seq(S)
         /\ Len(RingFrom(r, w, slots)) = Between(r, w)
         /\ Between(r, w) \in Nat
         /\ \A i \in 1 .. Between(r, w) :
              RingFrom(r, w, slots)[i] = slots[(r + i - 1) % Capacity]
<1> DEFINE u == Between(r, w)
<1>1. u \in Nat /\ r \in Int /\ Capacity \in Int /\ Capacity > 0
  BY UsedSlots, RingSizes
<1> HIDE DEF u
<1>2. ASSUME NEW i \in 1 .. u
      PROVE  /\ ((r + i - 1) % Width) % Capacity = (r + i - 1) % Capacity
             /\ (r + i - 1) % Capacity \in 0 .. Capacity - 1
  <2>1. r + i - 1 \in Int
    BY <1>1
  <2> DEFINE x == r + i - 1
  <2> HIDE DEF x
  <2>2. x \in Int
    BY <2>1 DEF x
  <2>3. (x % Width) % Capacity = x % Capacity
    BY <2>2, Wrapped
  <2>4. x % Capacity \in Int /\ x % Capacity >= 0 /\ x % Capacity < Capacity
    BY <1>1, <2>2, DivMod
  <2>5. x % Capacity \in 0 .. Capacity - 1
    BY <1>1, <2>4
  <2> QED
    BY <2>3, <2>5 DEF x
<1>3. RingFrom(r, w, slots) = [i \in 1 .. u |-> slots[(r + i - 1) % Capacity]]
  BY <1>2 DEF RingFrom, u
<1>4. \A i \in 1 .. u : slots[(r + i - 1) % Capacity] \in S
  BY <1>2
<1>5. RingFrom(r, w, slots) \in [1 .. u -> S]
  BY <1>3, <1>4
<1>6. RingFrom(r, w, slots) \in Seq(S)
  BY <1>1, <1>5
<1>7. Len(RingFrom(r, w, slots)) = u
  BY <1>1, <1>5
<1>8. \A i \in 1 .. u : RingFrom(r, w, slots)[i] = slots[(r + i - 1) % Capacity]
  BY <1>3
<1> QED
  BY <1>1, <1>6, <1>7, <1>8 DEF u

\* A slot beyond the frames that wait may be written ...
LEMMA RingWritten ==
  ASSUME NEW r \in 0 .. Width - 1, NEW w \in 0 .. Width - 1,
         NEW S, NEW slots \in [0 .. Capacity - 1 -> S], NEW new \in [0 .. Capacity - 1 -> S],
         \A i \in 0 .. Capacity - 1 : i # w % Capacity => new[i] = slots[i],
         Between(r, w) < Capacity
  PROVE  RingFrom(r, w, new) = RingFrom(r, w, slots)
<1> DEFINE u == Between(r, w)
<1>1. u \in Nat /\ u < Capacity /\ r \in Int /\ w \in Int /\ Capacity \in Int /\ Capacity > 0
  BY UsedSlots, RingSizes
<1>2. w % Capacity = (r + u) % Capacity
  BY UsedSlots
<1>3. ASSUME NEW i \in 1 .. u
      PROVE  new[(r + i - 1) % Capacity] = slots[(r + i - 1) % Capacity]
  <2> DEFINE x == r + i - 1
             y == r + u
  <2>1. x \in Int /\ y \in Int /\ x < y /\ y - x < Capacity
    BY <1>1
  <2> HIDE DEF x, y
  <2>2. x % Capacity # y % Capacity
    BY <1>1, <2>1, ModApart
  <2>3. x % Capacity \in 0 .. Capacity - 1
    BY <1>1, <2>1, DivMod
  <2> QED
    BY <1>2, <2>2, <2>3 DEF x, y
<1> HIDE DEF u
<1>4. /\ RingFrom(r, w, new) \in Seq(S) /\ Len(RingFrom(r, w, new)) = u
      /\ \A i \in 1 .. u : RingFrom(r, w, new)[i] = new[(r + i - 1) % Capacity]
  BY RingIsSeq DEF u
<1>5. /\ RingFrom(r, w, slots) \in Seq(S) /\ Len(RingFrom(r, w, slots)) = u
      /\ \A i \in 1 .. u : RingFrom(r, w, slots)[i] = slots[(r + i - 1) % Capacity]
  BY RingIsSeq DEF u
<1> QED
  BY <1>3, <1>4, <1>5, SeqEqual

\* ... and becomes the last frame when the index is moved.
LEMMA RingPushed ==
  ASSUME NEW r \in 0 .. Width - 1, NEW w \in 0 .. Width - 1,
         NEW S, NEW slots \in [0 .. Capacity - 1 -> S],
         Between(r, w) < Capacity
  PROVE  /\ RingFrom(r, NextIndex(w), slots)
              = Append(RingFrom(r, w, slots), slots[w % Capacity])
         /\ Between(r, NextIndex(w)) = Between(r, w) + 1
<1> DEFINE u == Between(r, w)
           old == RingFrom(r, w, slots)
           new == RingFrom(r, NextIndex(w), slots)
           last == slots[w % Capacity]
<1>1. u \in Nat /\ r \in Int /\ w \in Int /\ Capacity \in Int /\ Capacity > 0
      /\ u + 1 < Width /\ NextIndex(w) \in 0 .. Width - 1
  <2>1. u \in Nat /\ u < Capacity
    BY UsedSlots
  <2>2. Capacity \in Int /\ Capacity > 0 /\ Width \in Int /\ Capacity < Width
    BY RingSizes
  <2>3. NextIndex(w) \in 0 .. Width - 1
    BY NextSlot
  <2> HIDE DEF u
  <2> QED
    BY <2>1, <2>2, <2>3
<1>2. Between(r, NextIndex(w)) = u + 1
  BY <1>1, MovedIndices
<1>3. /\ new \in Seq(S) /\ old \in Seq(S) /\ Len(new) = u + 1 /\ Len(old) = u
      /\ \A i \in 1 .. u + 1 : new[i] = slots[(r + i - 1) % Capacity]
      /\ \A i \in 1 .. u : old[i] = slots[(r + i - 1) % Capacity]
  BY <1>1, <1>2, RingIsSeq
<1>4. w % Capacity = (r + u) % Capacity /\ w % Capacity \in 0 .. Capacity - 1
  BY <1>1, UsedSlots, DivMod
<1>5. last \in S
  BY <1>4
<1>6. last = slots[(r + (u + 1) - 1) % Capacity]
  <2>1. r + (u + 1) - 1 = r + u
    BY <1>1
  <2> QED
    BY <1>4, <2>1
<1> HIDE DEF u, old, new, last
<1>7. /\ Append(old, last) \in Seq(S) /\ Len(Append(old, last)) = u + 1
      /\ \A i \in 1 .. u : Append(old, last)[i] = old[i]
      /\ Append(old, last)[u + 1] = last
  BY <1>3, <1>5, AppendProperties
<1>8. ASSUME NEW i \in 1 .. u + 1
      PROVE  new[i] = Append(old, last)[i]
  <2>1. CASE i = u + 1
    BY <1>3, <1>6, <1>7, <2>1
  <2>2. CASE i \in 1 .. u
    BY <1>3, <1>7, <2>2
  <2>3. i = u + 1 \/ i \in 1 .. u
    <3>1. u \in Nat
      BY <1>1
    <3> QED
      BY <3>1
  <2> QED
    BY <2>1, <2>2, <2>3, Zenon
<1>9. new = Append(old, last)
  BY <1>3, <1>7, <1>8, SeqEqual
<1> QED
  BY <1>2, <1>9 DEF u, old, new, last

\* The first frame is the one where the other index points; when that is moved,
\* its slot is free.
LEMMA RingPopped ==
  ASSUME NEW r \in 0 .. Width - 1, NEW w \in 0 .. Width - 1,
         NEW S, NEW slots \in [0 .. Capacity - 1 -> S], NEW free \in S,
         Between(r, w) > 0, Between(r, w) <= Capacity
  PROVE  /\ RingFrom(r, w, slots) # <<>>
         /\ Head(RingFrom(r, w, slots)) = slots[r % Capacity]
         /\ RingFrom(NextIndex(r), w, [slots EXCEPT ![r % Capacity] = free])
              = Tail(RingFrom(r, w, slots))
         /\ Between(NextIndex(r), w) = Between(r, w) - 1
<1> DEFINE u == Between(r, w)
           old == RingFrom(r, w, slots)
           left == [slots EXCEPT ![r % Capacity] = free]
           new == RingFrom(NextIndex(r), w, left)
<1>1. u \in Nat /\ u > 0 /\ u <= Capacity /\ r \in Int /\ w \in Int /\ Capacity \in Int
      /\ Capacity > 0 /\ NextIndex(r) \in 0 .. Width - 1 /\ NextIndex(r) \in Int
      /\ Width \in Int
  BY UsedSlots, RingSizes, NextSlot
<1>2. Between(NextIndex(r), w) = u - 1
  BY <1>1, MovedIndices
<1>3. left \in [0 .. Capacity - 1 -> S]
  OBVIOUS
<1>4. /\ old \in Seq(S) /\ Len(old) = u
      /\ \A i \in 1 .. u : old[i] = slots[(r + i - 1) % Capacity]
  BY RingIsSeq
<1> HIDE DEF left
<1>5. /\ new \in Seq(S) /\ Len(new) = u - 1
      /\ \A i \in 1 .. u - 1 : new[i] = left[(NextIndex(r) + i - 1) % Capacity]
  <2>1. /\ new \in Seq(S) /\ Len(new) = Between(NextIndex(r), w)
        /\ \A i \in 1 .. Between(NextIndex(r), w) :
             new[i] = left[(NextIndex(r) + i - 1) % Capacity]
    BY <1>1, <1>3, RingIsSeq
  <2> HIDE DEF u, new
  <2> QED
    BY <1>2, <2>1
<1> HIDE DEF u, old, new
<1>6. ASSUME NEW j \in Int
      PROVE  (NextIndex(r) + j) % Capacity = (r + 1 + j) % Capacity
  <2>1. CASE r + 1 # Width
    BY <2>1, NextSlot
  <2>2. CASE r + 1 = Width
    <3>1. NextIndex(r) + j = j /\ r + 1 + j = j + Width
      BY <1>1, <2>2, NextSlot
    <3>2. PICK m \in Int : Width = m * Capacity
      BY RingSizes
    <3>3. (j + m * Capacity) % Capacity = j % Capacity
      BY <1>1, ModPeriod
    <3> QED
      BY <3>1, <3>2, <3>3
  <2> QED
    BY <2>1, <2>2
<1>7. ASSUME NEW i \in 1 .. u - 1
      PROVE  new[i] = old[i + 1]
  <2>1. /\ i \in Int /\ i + 1 \in 1 .. u /\ r + (i + 1) - 1 = r + i
        /\ NextIndex(r) + i - 1 = NextIndex(r) + (i - 1) /\ r + 1 + (i - 1) = r + i
        /\ i - 1 \in Int
    BY <1>1
  <2>2. new[i] = left[(r + i) % Capacity]
    BY <1>5, <1>6, <2>1
  <2>3. old[i + 1] = slots[(r + i) % Capacity]
    BY <1>4, <2>1
  <2>4. r % Capacity # (r + i) % Capacity /\ (r + i) % Capacity \in 0 .. Capacity - 1
    <3> DEFINE x == r + i
    <3>1. x \in Int /\ r < x /\ x - r < Capacity
      BY <1>1
    <3> HIDE DEF x
    <3>2. x % Capacity \in 0 .. Capacity - 1 /\ r % Capacity # x % Capacity
      BY <1>1, <3>1, DivMod, ModApart
    <3> QED
      BY <3>2 DEF x
  <2> QED
    BY <2>2, <2>3, <2>4 DEF left
<1>8. old # <<>>
  BY <1>1, <1>4
<1>9. /\ Tail(old) \in Seq(S) /\ Len(Tail(old)) = u - 1
      /\ \A i \in 1 .. u - 1 : Tail(old)[i] = old[i + 1]
  BY <1>4, <1>8, HeadTailProperties
<1>10. new = Tail(old)
  BY <1>5, <1>7, <1>9, SeqEqual
<1>11. Head(old) = slots[r % Capacity]
  <2>1. Head(old) = old[1] /\ 1 \in 1 .. u /\ r + 1 - 1 = r
    BY <1>1, <1>4, <1>8
  <2> QED
    BY <1>4, <2>1
<1> QED
  BY <1>2, <1>8, <1>10, <1>11 DEF u, old, new, left

-----------------------------------------------------------------------------
(* The ring of a LiDAR is its queue                                         *)

\* Any LiDARs among these have a first one: what Min relies on.
WellOrdered(S) == \A T \in SUBSET S : T # {} => \E m \in T : \A x \in T : m <= x

FirstExists == WellOrdered(handlers) /\ WellOrdered(batch)

\* The process thread has found room, and nobody else takes it; ...
RoomIsKept ==
  /\ process # "idle" => batch # {}
  /\ process \in {"write", "move"} => UsedSize(pushing) < Capacity
  /\ process = "move" => slot[pushing][wr[pushing] % Capacity] \in Frames

\* ... the poll thread has found a frame, and nobody else takes or changes it.
FrameIsKept ==
  /\ poll \in {"read", "update"} => at \in Lidars /\ UsedSize(at) > 0
  /\ poll = "update" => pkg = slot[at][rd[at] % Capacity]

NeverTooMany == \A l \in Lidars : UsedSize(l) <= Capacity

OnlySignalsAtZero == process = "signal" => count = 0

RingInv ==
  /\ PointsTypeOK /\ FirstExists /\ RoomIsKept /\ FrameIsKept /\ NeverTooMany
  /\ OnlySignalsAtZero

LEMMA FirstIsThere ==
  ASSUME NEW S, WellOrdered(S), S # {}
  PROVE  Min(S) \in S
BY DEF Min, WellOrdered

LEMMA MoreAreOrdered ==
  ASSUME NEW S \in SUBSET Int, WellOrdered(S), NEW l \in Int
  PROVE  /\ WellOrdered(S \cup {l}) /\ WellOrdered({l})
         /\ \A T \in SUBSET S : WellOrdered(T)
<1>1. ASSUME NEW T \in SUBSET (S \cup {l}), T # {}
      PROVE  \E m \in T : \A x \in T : m <= x
  <2> DEFINE R == T \ {l}
  <2>1. CASE R = {}
    <3>1. T = {l}
      BY <1>1, <2>1
    <3> QED
      BY <3>1
  <2>2. CASE R # {}
    <3>1. PICK m \in R : \A x \in R : m <= x
      BY <2>2 DEF WellOrdered
    <3>2. m \in T /\ m \in Int /\ T \subseteq Int
      OBVIOUS
    <3>3. CASE l \in T /\ l <= m
      <4>1. \A x \in T : l <= x
        BY <3>1, <3>2, <3>3
      <4> QED
        BY <3>3, <4>1
    <3>4. CASE l \notin T \/ m <= l
      <4>1. \A x \in T : m <= x
        BY <3>1, <3>2, <3>4
      <4> QED
        BY <3>2, <4>1
    <3>5. m <= l \/ l <= m
      BY <3>2
    <3> QED
      BY <3>3, <3>4, <3>5
  <2> QED
    BY <2>1, <2>2
<1>2. WellOrdered({l})
  BY DEF WellOrdered
<1> QED
  BY <1>1, <1>2 DEF WellOrdered

\* The state of a ring in the words of the lemmas about indices.
LEMMA Used ==
  ASSUME PointsTypeOK, NEW l \in Lidars
  PROVE  /\ rd[l] \in 0 .. Width - 1 /\ wr[l] \in 0 .. Width - 1
         /\ slot[l] \in [0 .. Capacity - 1 -> Frames \cup {NoFrame}]
         /\ UsedSize(l) = Between(rd[l], wr[l]) /\ UsedSize(l) \in Nat
         /\ rd[l] # wr[l] => UsedSize(l) > 0
         /\ Ring(l) = RingFrom(rd[l], wr[l], slot[l])
<1>1. /\ rd[l] \in 0 .. Width - 1 /\ wr[l] \in 0 .. Width - 1
      /\ slot[l] \in [0 .. Capacity - 1 -> Frames \cup {NoFrame}]
  BY DEF PointsTypeOK, Width
<1>2. UsedSize(l) = Between(rd[l], wr[l])
  BY DEF UsedSize, Between, Width
<1>3. /\ UsedSize(l) = IF wr[l] >= rd[l] THEN wr[l] - rd[l] ELSE wr[l] - rd[l] + Width
      /\ UsedSize(l) \in Nat
  BY <1>1, <1>2, UsedSlots
<1>4. rd[l] # wr[l] => UsedSize(l) > 0
  BY <1>1, <1>3, RingSizes
<1>5. Ring(l) = RingFrom(rd[l], wr[l], slot[l])
  BY DEF Ring, RingFrom, UsedSize, Between, Width
<1> QED
  BY <1>1, <1>2, <1>3, <1>4, <1>5

LEMMA RingLength ==
  ASSUME PointsTypeOK, NEW l \in Lidars
  PROVE  Ring(l) \in Seq(Frames \cup {NoFrame}) /\ Len(Ring(l)) = UsedSize(l)
<1> DEFINE F == Frames \cup {NoFrame}
           r == rd[l]
           w == wr[l]
           s == slot[l]
<1>1. /\ r \in 0 .. Width - 1 /\ w \in 0 .. Width - 1 /\ s \in [0 .. Capacity - 1 -> F]
      /\ UsedSize(l) = Between(r, w) /\ Ring(l) = RingFrom(r, w, s)
  BY Used
<1> HIDE DEF F, r, w, s
<1>2. RingFrom(r, w, s) \in Seq(F) /\ Len(RingFrom(r, w, s)) = Between(r, w)
  BY <1>1, RingIsSeq
<1> QED
  BY <1>1, <1>2 DEF F

LEMMA RingInvInit == PointsInit => RingInv
<1> SUFFICES ASSUME PointsInit
             PROVE  RingInv
  OBVIOUS
<1>1. 0 \in Lidars /\ 0 \in 0 .. LidarCount /\ 0 \in 0 .. Width - 1
  <2>1. Width \in Int /\ Width > 0
    BY RingSizes
  <2> QED
    BY <2>1, PointsAssumption DEF Lidars
<1>2. PointsTypeOK
  BY <1>1, PointsAssumption DEF PointsInit, PointsTypeOK, Width
<1>3. FirstExists
  BY DEF PointsInit, FirstExists, WellOrdered
<1>4. RoomIsKept /\ FrameIsKept /\ OnlySignalsAtZero
  BY DEF PointsInit, RoomIsKept, FrameIsKept, OnlySignalsAtZero
<1>5. NeverTooMany
  <2> SUFFICES ASSUME NEW l \in Lidars
               PROVE  UsedSize(l) <= Capacity
    BY DEF NeverTooMany
  <2>1. rd[l] = 0 /\ wr[l] = 0
    BY DEF PointsInit
  <2>2. Between(0, 0) = 0
    BY <1>1, UsedSlots
  <2>3. UsedSize(l) = Between(rd[l], wr[l])
    BY <1>2, Used
  <2> QED
    BY <2>1, <2>2, <2>3, RingSizes
<1> QED
  BY <1>2, <1>3, <1>4, <1>5 DEF RingInv

LEMMA RingTypesKept ==
  ASSUME RingInv, PointsNext
  PROVE  PointsTypeOK'
<1> USE DEF RingInv
<1>1. process \in {"push", "write", "move", "look", "signal"} => pushing \in Lidars
  BY FirstIsThere DEF RoomIsKept, FirstExists, pushing, PointsTypeOK
<1>2. /\ Capacity \in Int /\ Capacity > 0
      /\ \A i \in 0 .. Width - 1 : NextIndex(i) \in 0 .. Width - 1 /\ i % Capacity \in 0 .. Capacity - 1
  <2>1. Capacity \in Int /\ Capacity > 0
    BY RingSizes
  <2>2. ASSUME NEW i \in 0 .. Width - 1
        PROVE  NextIndex(i) \in 0 .. Width - 1 /\ i % Capacity \in 0 .. Capacity - 1
    BY <2>1, NextSlot
  <2> QED
    BY <2>1, <2>2
<1>3. connected' \subseteq Configured /\ leaving' \in {"no", "requested", "promised"}
      /\ early' \subseteq Lidars
  BY PointsAssumption
     DEF PointsTypeOK, PointsNext, BecomesSampling, RawDataProcess, Leave, ProcessThread,
         PushLidarData, MoveWrIdx, LookAtCount, Signal, WriteSlot, PollThread, Top, Wait, Scan,
         QueuePrePop, QueuePopUpdate, LookAtFuture, sdkVars, Lidars
<1>4. handlers' \subseteq Lidars /\ batch' \subseteq Lidars
      /\ process' \in {"idle", "push", "write", "move", "look", "signal"}
  BY DEF PointsTypeOK, PointsNext, BecomesSampling, RawDataProcess, Leave, ProcessThread,
         PushLidarData, MoveWrIdx, LookAtCount, Signal, WriteSlot, NextFrame, PollThread, Top, Wait,
         Scan, QueuePrePop, QueuePopUpdate, LookAtFuture, processVars
<1>5. wr' \in [Lidars -> 0 .. Width - 1]
  <2>1. CASE MoveWrIdx
    BY <1>1, <1>2, <2>1 DEF PointsTypeOK, MoveWrIdx, Width
  <2>2. UNCHANGED wr => wr' \in [Lidars -> 0 .. Width - 1]
    BY DEF PointsTypeOK, Width
  <2> QED
    BY <2>1, <2>2
       DEF PointsNext, BecomesSampling, RawDataProcess, Leave, ProcessThread, PushLidarData,
           LookAtCount, Signal, WriteSlot, PollThread, Top, Wait, Scan, QueuePrePop,
           QueuePopUpdate, LookAtFuture
<1>6. rd' \in [Lidars -> 0 .. Width - 1]
  <2>1. CASE QueuePopUpdate
    BY <1>2, <2>1 DEF PointsTypeOK, FrameIsKept, QueuePopUpdate, Width
  <2>2. UNCHANGED rd => rd' \in [Lidars -> 0 .. Width - 1]
    BY DEF PointsTypeOK, Width
  <2> QED
    BY <2>1, <2>2
       DEF PointsNext, BecomesSampling, RawDataProcess, Leave, ProcessThread, PushLidarData,
           MoveWrIdx, LookAtCount, Signal, WriteSlot, PollThread, Top, Wait, Scan, QueuePrePop,
           LookAtFuture, pollVars
<1>7. slot' \in [Lidars -> [0 .. Capacity - 1 -> Frames \cup {NoFrame}]]
  <2>1. ASSUME NEW f \in Frames, WriteSlot(f)
        PROVE  slot' \in [Lidars -> [0 .. Capacity - 1 -> Frames \cup {NoFrame}]]
    BY <2>1, <1>1, <1>2 DEF PointsTypeOK, WriteSlot, Width
  <2>2. CASE QueuePopUpdate
    BY <1>2, <2>2 DEF PointsTypeOK, FrameIsKept, QueuePopUpdate, Width
  <2>3. UNCHANGED slot => slot' \in [Lidars -> [0 .. Capacity - 1 -> Frames \cup {NoFrame}]]
    BY DEF PointsTypeOK
  <2> QED
    BY <2>1, <2>2, <2>3
       DEF PointsNext, BecomesSampling, RawDataProcess, Leave, ProcessThread, PushLidarData,
           MoveWrIdx, LookAtCount, Signal, PollThread, Top, Wait, Scan, QueuePrePop, LookAtFuture
<1>8. count' \in 0 .. 1
  BY DEF PointsTypeOK, OnlySignalsAtZero, PointsNext, BecomesSampling, RawDataProcess, Leave,
         ProcessThread, PushLidarData, MoveWrIdx, LookAtCount, Signal, WriteSlot, PollThread, Top,
         Wait, Scan, QueuePrePop, QueuePopUpdate, LookAtFuture
<1>9. poll' \in {"top", "wait", "scan", "read", "update", "future", "done"}
  BY DEF PointsTypeOK, PointsNext, BecomesSampling, RawDataProcess, Leave, ProcessThread,
         PushLidarData, MoveWrIdx, LookAtCount, Signal, WriteSlot, PollThread, Top, Wait, Scan,
         QueuePrePop, QueuePopUpdate, LookAtFuture, pollVars
<1>10. at' \in 0 .. LidarCount
  BY PointsAssumption
     DEF PointsTypeOK, PointsNext, BecomesSampling, RawDataProcess, Leave, ProcessThread,
         PushLidarData, MoveWrIdx, LookAtCount, Signal, WriteSlot, PollThread, Top, Wait, Scan,
         QueuePrePop, QueuePopUpdate, LookAtFuture, pollVars
<1>11. pkg' \in Frames \cup {NoFrame} /\ published' \in Lidars \X (Frames \cup {NoFrame})
  <2>1. CASE QueuePrePop
    BY <1>2, <2>1 DEF PointsTypeOK, FrameIsKept, QueuePrePop, Width
  <2>2. CASE QueuePopUpdate
    BY <2>2 DEF PointsTypeOK, FrameIsKept, QueuePopUpdate
  <2>3. UNCHANGED <<pkg, published>>
          => pkg' \in Frames \cup {NoFrame} /\ published' \in Lidars \X (Frames \cup {NoFrame})
    BY DEF PointsTypeOK
  <2> QED
    BY <2>1, <2>2, <2>3
       DEF PointsNext, BecomesSampling, RawDataProcess, Leave, ProcessThread, PushLidarData,
           MoveWrIdx, LookAtCount, Signal, WriteSlot, PollThread, Top, Wait, Scan, LookAtFuture,
           pollVars
<1> QED
  BY <1>3, <1>4, <1>5, <1>6, <1>7, <1>8, <1>9, <1>10, <1>11 DEF PointsTypeOK, Width

LEMMA FirstStillExists ==
  ASSUME RingInv, PointsNext
  PROVE  FirstExists'
<1>1. handlers \in SUBSET Int /\ batch \in SUBSET Int
      /\ WellOrdered(handlers) /\ WellOrdered(batch)
  BY PointsAssumption DEF RingInv, PointsTypeOK, FirstExists, Lidars
<1>2. ASSUME NEW l \in Lidars, RawDataProcess(l)
      PROVE  FirstExists'
  <2>1. l \in Int
    BY PointsAssumption DEF Lidars
  <2>2. PICK kept \in {handlers, handlers \cup {l}} :
          \/ handlers' = kept /\ UNCHANGED batch
          \/ batch' = {l} /\ handlers' = kept \ {l}
          \/ batch' = kept /\ handlers' = {}
    BY <1>2 DEF RawDataProcess
  <2>3. kept \in SUBSET Int /\ WellOrdered(kept)
    BY <1>1, <2>1, MoreAreOrdered
  <2>4. WellOrdered(kept \ {l}) /\ WellOrdered({l}) /\ WellOrdered({})
    BY <2>1, <2>3, MoreAreOrdered
  <2> QED
    BY <1>1, <2>2, <2>3, <2>4 DEF FirstExists
<1>3. ASSUME handlers' = handlers, batch' \subseteq batch
      PROVE  FirstExists'
  BY <1>1, <1>3 DEF FirstExists, WellOrdered
<1> QED
  BY <1>2, <1>3
     DEF PointsNext, BecomesSampling, Leave, ProcessThread, PushLidarData, MoveWrIdx, LookAtCount,
         Signal, WriteSlot, NextFrame, PollThread, Top, Wait, Scan, QueuePrePop, QueuePopUpdate,
         LookAtFuture, processVars

\* While frames wait and there is room, the threads are at different slots.
LEMMA SlotsApart ==
  ASSUME NEW r \in 0 .. Width - 1, NEW w \in 0 .. Width - 1,
         Between(r, w) > 0, Between(r, w) < Capacity
  PROVE  r % Capacity # w % Capacity
<1> DEFINE u == Between(r, w)
           y == r + u
<1>1. u \in Int /\ u > 0 /\ u < Capacity /\ r \in Int /\ Capacity \in Int /\ Capacity > 0
      /\ w % Capacity = y % Capacity
  BY UsedSlots, RingSizes
<1> HIDE DEF u
<1>2. y \in Int /\ r < y /\ y - r < Capacity
  BY <1>1
<1> HIDE DEF y
<1> QED
  BY <1>1, <1>2, ModApart

LEMMA PushingIsKnown ==
  ASSUME RingInv, process # "idle"
  PROVE  pushing \in batch /\ pushing \in Lidars
BY FirstIsThere DEF RingInv, RoomIsKept, FirstExists, pushing, PointsTypeOK

\* What the three steps that touch a ring make of it.
LEMMA WrittenRing ==
  ASSUME RingInv, NEW f \in Frames, WriteSlot(f)
  PROVE  /\ \A l \in Lidars : Ring(l)' = Ring(l) /\ UsedSize(l)' = UsedSize(l)
         /\ \A p \in Lidars : p = pushing => slot'[p][wr[p] % Capacity] = f
         /\ poll \in {"read", "update"}
              => slot'[at][rd[at] % Capacity] = slot[at][rd[at] % Capacity]
<1> DEFINE F == Frames \cup {NoFrame}
<1>0. PICK p \in Lidars : p = pushing
  BY PushingIsKnown DEF WriteSlot
<1>1. UsedSize(p) < Capacity
  BY <1>0 DEF RingInv, RoomIsKept, WriteSlot
<1>2. slot' = [slot EXCEPT ![p][wr[p] % Capacity] = f] /\ UNCHANGED <<rd, wr>>
  BY <1>0 DEF WriteSlot, pollVars
<1>3. slot \in [Lidars -> [0 .. Capacity - 1 -> F]] /\ f \in F
  BY DEF RingInv, PointsTypeOK
<1>4. slot'[p] = [slot[p] EXCEPT ![wr[p] % Capacity] = f]
      /\ \A l \in Lidars \ {p} : slot'[l] = slot[l]
  BY <1>1, <1>2, <1>3
<1>5. \A l \in Lidars : UsedSize(l)' = UsedSize(l)
  BY <1>2 DEF UsedSize
<1>6. ASSUME NEW l \in Lidars
      PROVE  Ring(l)' = Ring(l)
  <2>1. CASE l # p
    <3>1. slot'[l] = slot[l]
      BY <1>4, <2>1
    <3> QED
      BY <1>2, <3>1 DEF Ring, UsedSize
  <2>2. CASE l = p
    <3>1. /\ rd[p] \in 0 .. Width - 1 /\ wr[p] \in 0 .. Width - 1
          /\ slot[p] \in [0 .. Capacity - 1 -> F]
          /\ Between(rd[p], wr[p]) < Capacity
          /\ Ring(p) = RingFrom(rd[p], wr[p], slot[p])
      BY <1>1, Used DEF RingInv
    <3>2. Ring(p)' = RingFrom(rd[p], wr[p], slot'[p])
      BY <1>2 DEF Ring, RingFrom, UsedSize, Between, Width
    <3>3. RingFrom(rd[p], wr[p], slot'[p]) = RingFrom(rd[p], wr[p], slot[p])
      <4> DEFINE r == rd[p]
                 w == wr[p]
                 old == slot[p]
                 new == slot'[p]
      <4>1. /\ r \in 0 .. Width - 1 /\ w \in 0 .. Width - 1 /\ Between(r, w) < Capacity
            /\ old \in [0 .. Capacity - 1 -> F] /\ new \in [0 .. Capacity - 1 -> F]
            /\ \A i \in 0 .. Capacity - 1 : i # w % Capacity => new[i] = old[i]
        BY <1>3, <1>4, <3>1
      <4> HIDE DEF r, w, old, new, F
      <4>2. RingFrom(r, w, new) = RingFrom(r, w, old)
        BY <4>1, RingWritten
      <4> QED
        BY <4>2 DEF r, w, old, new
    <3> QED
      BY <2>2, <3>1, <3>2, <3>3
  <2> QED
    BY <2>1, <2>2
<1>7. /\ rd[p] \in 0 .. Width - 1 /\ wr[p] \in 0 .. Width - 1
      /\ wr[p] % Capacity \in 0 .. Capacity - 1 /\ rd[p] % Capacity \in 0 .. Capacity - 1
      /\ UsedSize(p) = Between(rd[p], wr[p])
  BY <1>1, Used, RingSizes DEF RingInv
<1>8. slot'[p][wr[p] % Capacity] = f
  BY <1>1, <1>3, <1>4, <1>7
<1>9. ASSUME poll \in {"read", "update"}
      PROVE  slot'[at][rd[at] % Capacity] = slot[at][rd[at] % Capacity]
  <2>1. at \in Lidars /\ UsedSize(at) > 0
    BY <1>9 DEF RingInv, FrameIsKept
  <2>2. CASE at = p
    <3>1. rd[p] % Capacity # wr[p] % Capacity
      BY <1>1, <1>7, <2>1, <2>2, SlotsApart
    <3> QED
      BY <1>3, <1>4, <1>7, <2>2, <3>1
  <2>3. CASE at # p
    BY <1>4, <2>1, <2>3
  <2> QED
    BY <2>2, <2>3
<1> QED
  BY <1>0, <1>5, <1>6, <1>8, <1>9

LEMMA MovedRing ==
  ASSUME RingInv, MoveWrIdx, NEW p \in Lidars, p = pushing
  PROVE  /\ \A l \in Lidars \ {p} : Ring(l)' = Ring(l) /\ UsedSize(l)' = UsedSize(l)
         /\ Ring(p)' = Append(Ring(p), slot[p][wr[p] % Capacity])
         /\ UsedSize(p)' = UsedSize(p) + 1
<1> DEFINE F == Frames \cup {NoFrame}
<1>1. UsedSize(p) < Capacity
  BY DEF RingInv, RoomIsKept, MoveWrIdx
<1>2. wr' = [wr EXCEPT ![p] = NextIndex(@)] /\ UNCHANGED <<rd, slot>>
  BY DEF MoveWrIdx, pollVars
<1>3. wr'[p] = NextIndex(wr[p]) /\ \A l \in Lidars \ {p} : wr'[l] = wr[l]
  BY <1>1, <1>2 DEF RingInv, PointsTypeOK
<1>4. \A l \in Lidars \ {p} : Ring(l)' = Ring(l) /\ UsedSize(l)' = UsedSize(l)
  BY <1>2, <1>3 DEF Ring, UsedSize
<1>5. /\ rd[p] \in 0 .. Width - 1 /\ wr[p] \in 0 .. Width - 1
      /\ slot[p] \in [0 .. Capacity - 1 -> F]
      /\ UsedSize(p) = Between(rd[p], wr[p])
      /\ Ring(p) = RingFrom(rd[p], wr[p], slot[p])
  BY <1>1, Used DEF RingInv
<1>6. Ring(p)' = RingFrom(rd[p], NextIndex(wr[p]), slot[p])
  BY <1>2, <1>3 DEF Ring, RingFrom, UsedSize, Between, Width
<1>7. UsedSize(p)' = Between(rd[p], NextIndex(wr[p]))
  BY <1>2, <1>3 DEF UsedSize, Between, Width
<1>8. RingFrom(rd[p], NextIndex(wr[p]), slot[p])
        = Append(RingFrom(rd[p], wr[p], slot[p]), slot[p][wr[p] % Capacity])
      /\ Between(rd[p], NextIndex(wr[p])) = Between(rd[p], wr[p]) + 1
  BY <1>1, <1>5, RingPushed
<1> QED
  BY <1>4, <1>5, <1>6, <1>7, <1>8

LEMMA PoppedRing ==
  ASSUME RingInv, QueuePopUpdate, NEW a \in Lidars, a = at
  PROVE  /\ \A l \in Lidars \ {a} : Ring(l)' = Ring(l) /\ UsedSize(l)' = UsedSize(l)
         /\ Ring(a) # <<>> /\ Head(Ring(a)) = pkg /\ Ring(a)' = Tail(Ring(a))
         /\ UsedSize(a)' = UsedSize(a) - 1
         /\ rd'[a] # wr[a] => UsedSize(a)' > 0
         /\ \A p \in Lidars : process = "move" /\ p = pushing
              => slot'[p][wr[p] % Capacity] = slot[p][wr[p] % Capacity]
<1> DEFINE F == Frames \cup {NoFrame}
           s == [slot[a] EXCEPT ![rd[a] % Capacity] = NoFrame]
<1>1. /\ a \in Lidars /\ UsedSize(a) > 0 /\ UsedSize(a) <= Capacity
      /\ pkg = slot[a][rd[a] % Capacity]
  BY DEF RingInv, FrameIsKept, NeverTooMany, QueuePopUpdate
<1>2. /\ rd' = [rd EXCEPT ![a] = NextIndex(@)]
      /\ slot' = [slot EXCEPT ![a][rd[a] % Capacity] = NoFrame]
      /\ UNCHANGED <<wr, batch>>
  BY DEF QueuePopUpdate, processVars
<1>3. slot \in [Lidars -> [0 .. Capacity - 1 -> F]] /\ NoFrame \in F
  BY DEF RingInv, PointsTypeOK
<1>4. /\ rd'[a] = NextIndex(rd[a]) /\ slot'[a] = s
      /\ \A l \in Lidars \ {a} : rd'[l] = rd[l] /\ slot'[l] = slot[l]
  BY <1>1, <1>2, <1>3 DEF RingInv, PointsTypeOK
<1> HIDE DEF s
<1>5. \A l \in Lidars \ {a} : Ring(l)' = Ring(l) /\ UsedSize(l)' = UsedSize(l)
  BY <1>2, <1>4 DEF Ring, UsedSize
<1>6. /\ rd[a] \in 0 .. Width - 1 /\ wr[a] \in 0 .. Width - 1
      /\ slot[a] \in [0 .. Capacity - 1 -> F]
      /\ UsedSize(a) = Between(rd[a], wr[a])
      /\ Ring(a) = RingFrom(rd[a], wr[a], slot[a])
  BY <1>1, Used DEF RingInv
<1>7. /\ RingFrom(rd[a], wr[a], slot[a]) # <<>>
      /\ Head(RingFrom(rd[a], wr[a], slot[a])) = slot[a][rd[a] % Capacity]
      /\ RingFrom(NextIndex(rd[a]), wr[a], s) = Tail(RingFrom(rd[a], wr[a], slot[a]))
      /\ Between(NextIndex(rd[a]), wr[a]) = Between(rd[a], wr[a]) - 1
  <2> DEFINE r == rd[a]
             w == wr[a]
             old == slot[a]
  <2>1. /\ r \in 0 .. Width - 1 /\ w \in 0 .. Width - 1 /\ NoFrame \in F
        /\ old \in [0 .. Capacity - 1 -> F] /\ Between(r, w) > 0 /\ Between(r, w) <= Capacity
    BY <1>1, <1>3, <1>6
  <2>2. s = [old EXCEPT ![r % Capacity] = NoFrame]
    BY DEF s
  <2> HIDE DEF r, w, old, F
  <2>3. /\ RingFrom(r, w, old) # <<>>
        /\ Head(RingFrom(r, w, old)) = old[r % Capacity]
        /\ RingFrom(NextIndex(r), w, [old EXCEPT ![r % Capacity] = NoFrame])
             = Tail(RingFrom(r, w, old))
        /\ Between(NextIndex(r), w) = Between(r, w) - 1
    BY <2>1, RingPopped
  <2> QED
    BY <2>2, <2>3 DEF r, w, old
<1>8. Ring(a)' = RingFrom(rd'[a], wr[a], slot'[a]) /\ UsedSize(a)' = Between(rd'[a], wr[a])
  BY <1>2 DEF Ring, RingFrom, UsedSize, Between, Width
<1>9. rd'[a] # wr[a] => Between(rd'[a], wr[a]) > 0
  <2>1. rd'[a] \in 0 .. Width - 1 /\ Width \in Int
    BY <1>4, <1>6, NextSlot, RingSizes
  <2>2. Between(rd'[a], wr[a]) = IF wr[a] >= rd'[a] THEN wr[a] - rd'[a]
                                     ELSE wr[a] - rd'[a] + Width
    BY <1>6, <2>1, UsedSlots
  <2> QED
    BY <1>6, <2>1, <2>2
<1>10. ASSUME NEW p \in Lidars, process = "move", p = pushing
       PROVE  slot'[p][wr[p] % Capacity] = slot[p][wr[p] % Capacity]
  <2>1. UsedSize(p) < Capacity
    BY <1>10 DEF RingInv, RoomIsKept
  <2>2. CASE p = a
    <3>1. rd[a] % Capacity # wr[a] % Capacity
      BY <1>1, <1>6, <2>1, <2>2, SlotsApart
    <3>2. s[wr[a] % Capacity] = slot[a][wr[a] % Capacity]
      BY <1>6, <3>1 DEF s
    <3> QED
      BY <1>4, <2>2, <3>2
  <2>3. CASE p # a
    BY <1>4, <2>1, <2>3
  <2> QED
    BY <2>2, <2>3
<1> QED
  BY <1>1, <1>4, <1>5, <1>6, <1>7, <1>8, <1>9, <1>10

\* A step that touches no ring leaves the queues as they are.
LEMMA RingsStand ==
  ASSUME UNCHANGED <<rd, wr, slot>>, NEW l \in Lidars
  PROVE  Ring(l)' = Ring(l) /\ UsedSize(l)' = UsedSize(l)
BY DEF Ring, UsedSize

LEMMA OthersKeepRing ==
  ASSUME RingInv, (\E l \in Configured : BecomesSampling(l))
                  \/ (\E l \in Lidars : RawDataProcess(l)) \/ Leave
  PROVE  /\ UNCHANGED <<rd, wr, slot, published>>
         /\ RoomIsKept' /\ FrameIsKept' /\ NeverTooMany' /\ OnlySignalsAtZero'
<1>1. UNCHANGED <<rd, wr, slot, published, poll, at, pkg, count>>
  BY DEF BecomesSampling, RawDataProcess, Leave, pollVars
<1>2. /\ process' # "idle" => batch' # {}
      /\ process' \in {"write", "move"} => UNCHANGED <<process, batch>>
      /\ process' = "signal" => process = "signal"
  BY DEF BecomesSampling, RawDataProcess, Leave, processVars, RingInv, RoomIsKept
<1>3. FrameIsKept' /\ NeverTooMany' /\ OnlySignalsAtZero'
  BY <1>1, <1>2 DEF RingInv, FrameIsKept, NeverTooMany, OnlySignalsAtZero, UsedSize
<1>4. RoomIsKept'
  BY <1>1, <1>2 DEF RingInv, RoomIsKept, UsedSize, pushing
<1> QED
  BY <1>1, <1>3, <1>4

\* The steps of the process thread but the two that touch a ring.
LEMMA LookingKeepsRing ==
  ASSUME RingInv, PushLidarData \/ LookAtCount \/ Signal
  PROVE  /\ UNCHANGED <<rd, wr, slot, published>>
         /\ RoomIsKept' /\ FrameIsKept' /\ NeverTooMany' /\ OnlySignalsAtZero'
<1>1. UNCHANGED <<rd, wr, slot, published, poll, at, pkg>>
  BY DEF PushLidarData, LookAtCount, Signal, pollVars
<1>2. FrameIsKept' /\ NeverTooMany'
  BY <1>1 DEF RingInv, FrameIsKept, NeverTooMany, UsedSize
<1>3. OnlySignalsAtZero'
  BY DEF PushLidarData, LookAtCount, Signal, NextFrame, OnlySignalsAtZero, RingInv, PointsTypeOK
<1>4. RoomIsKept'
  <2>1. CASE PushLidarData
    <3>1. batch' = batch /\ batch # {} /\ process' # "move"
          /\ (process' = "write" => ~IsFull(pushing))
      BY <2>1 DEF PushLidarData, RingInv, RoomIsKept
    <3>2. ~IsFull(pushing) => UsedSize(pushing) < Capacity
      <4>1. pushing \in Lidars
        BY <2>1, PushingIsKnown DEF PushLidarData
      <4>2. UsedSize(pushing) \in Nat /\ Capacity \in Int
        BY <4>1, Used, RingSizes DEF RingInv
      <4> QED
        BY <4>2 DEF IsFull
    <3>3. process' = "write" => UsedSize(pushing)' < Capacity
      BY <1>1, <3>1, <3>2 DEF UsedSize, pushing
    <3> QED
      BY <3>1, <3>3 DEF RoomIsKept
  <2>2. CASE LookAtCount \/ Signal
    BY <2>2 DEF LookAtCount, Signal, NextFrame, RoomIsKept, RingInv
  <2> QED
    BY <2>1, <2>2
<1> QED
  BY <1>1, <1>2, <1>3, <1>4

LEMMA WritingKeepsRing ==
  ASSUME RingInv, NEW f \in Frames, WriteSlot(f)
  PROVE  RoomIsKept' /\ FrameIsKept' /\ NeverTooMany' /\ OnlySignalsAtZero'
<1>1. /\ UNCHANGED <<rd, wr, batch, poll, at, pkg, count>>
      /\ process = "write" /\ process' = "move"
  BY DEF WriteSlot, pollVars
<1>2. PICK p \in Lidars : p = pushing /\ batch # {}
  BY <1>1, PushingIsKnown
<1>3. pushing' = p
  BY <1>1, <1>2 DEF pushing
<1>4. RoomIsKept'
  <2>1. UsedSize(p)' < Capacity
    BY <1>1, <1>2, WrittenRing DEF RingInv, RoomIsKept
  <2>2. slot'[p][wr'[p] % Capacity] \in Frames
    BY <1>1, <1>2, WrittenRing
  <2> QED
    BY <1>1, <1>2, <1>3, <2>1, <2>2 DEF RoomIsKept, UsedSize
<1>5. FrameIsKept'
  <2>1. ASSUME poll \in {"read", "update"}
        PROVE  at \in Lidars /\ UsedSize(at)' > 0
               /\ slot'[at][rd[at] % Capacity] = slot[at][rd[at] % Capacity]
    BY <1>1, <2>1, WrittenRing DEF RingInv, FrameIsKept, UsedSize
  <2> QED
    BY <1>1, <2>1 DEF RingInv, FrameIsKept, UsedSize
<1>6. NeverTooMany'
  BY WrittenRing DEF RingInv, NeverTooMany
<1>7. OnlySignalsAtZero'
  BY <1>1 DEF OnlySignalsAtZero
<1> QED
  BY <1>4, <1>5, <1>6, <1>7

LEMMA MovingKeepsRing ==
  ASSUME RingInv, MoveWrIdx
  PROVE  RoomIsKept' /\ FrameIsKept' /\ NeverTooMany' /\ OnlySignalsAtZero'
<1>1. /\ UNCHANGED <<rd, slot, batch, poll, at, pkg, count>>
      /\ process = "move" /\ process' = "look"
  BY DEF MoveWrIdx, pollVars
<1>2. PICK p \in Lidars : p = pushing /\ batch # {}
  BY <1>1, PushingIsKnown
<1>3. UsedSize(p) < Capacity /\ UsedSize(p) \in Nat /\ Capacity \in Int
  BY <1>1, <1>2, Used, RingSizes DEF RingInv, RoomIsKept
<1>4. /\ UsedSize(p)' = UsedSize(p) + 1
      /\ \A l \in Lidars \ {p} : UsedSize(l)' = UsedSize(l)
  BY <1>2, MovedRing
<1>5. NeverTooMany'
  BY <1>3, <1>4 DEF RingInv, NeverTooMany
<1>6. FrameIsKept'
  <2>1. ASSUME NEW a \in Lidars, UsedSize(a) > 0
        PROVE  UsedSize(a)' > 0
    BY <1>3, <1>4, <2>1
  <2>2. poll \in {"read", "update"} => at \in Lidars /\ UsedSize(at)' > 0
    <3> SUFFICES ASSUME poll \in {"read", "update"}
                 PROVE  at \in Lidars /\ UsedSize(at)' > 0
      OBVIOUS
    <3>1. PICK a \in Lidars : a = at /\ UsedSize(a) > 0
      BY DEF RingInv, FrameIsKept
    <3>2. UsedSize(a)' > 0 /\ at' = a
      BY <1>1, <2>1, <3>1
    <3> QED
      BY <3>1, <3>2 DEF UsedSize
  <2> QED
    BY <1>1, <2>2 DEF RingInv, FrameIsKept, UsedSize
<1>7. RoomIsKept' /\ OnlySignalsAtZero'
  BY <1>1, <1>2 DEF RoomIsKept, OnlySignalsAtZero
<1> QED
  BY <1>5, <1>6, <1>7

\* The steps of the poll thread but the one that frees a slot.
LEMMA PollingKeepsRing ==
  ASSUME RingInv, Top \/ Wait \/ Scan \/ QueuePrePop \/ LookAtFuture
  PROVE  /\ UNCHANGED <<rd, wr, slot, published>>
         /\ RoomIsKept' /\ FrameIsKept' /\ NeverTooMany' /\ OnlySignalsAtZero'
<1>1. UNCHANGED <<rd, wr, slot, published, batch, process>>
  BY DEF Top, Wait, Scan, QueuePrePop, LookAtFuture, processVars
<1>2. RoomIsKept' /\ NeverTooMany'
  BY <1>1 DEF RingInv, RoomIsKept, NeverTooMany, UsedSize, pushing
<1>3. OnlySignalsAtZero'
  BY <1>1 DEF Top, Wait, Scan, QueuePrePop, LookAtFuture, RingInv, OnlySignalsAtZero
<1>4. FrameIsKept'
  <2>1. CASE Top \/ Wait \/ LookAtFuture
    BY <2>1 DEF Top, Wait, LookAtFuture, FrameIsKept
  <2>2. CASE Scan
    <3>1. poll' = "read" => at \in Lidars /\ rd[at] # wr[at] /\ UNCHANGED at
      BY <2>2, PointsAssumption DEF Scan, IsEmpty, RingInv, PointsTypeOK, Lidars
    <3>2. poll' = "read" => UsedSize(at) > 0
      BY <3>1, Used DEF RingInv
    <3>3. poll' \in {"scan", "future", "read"}
      BY <2>2 DEF Scan
    <3> QED
      BY <1>1, <3>1, <3>2, <3>3 DEF FrameIsKept, UsedSize
  <2>3. CASE QueuePrePop
    BY <1>1, <2>3 DEF QueuePrePop, RingInv, FrameIsKept, UsedSize
  <2> QED
    BY <2>1, <2>2, <2>3
<1> QED
  BY <1>1, <1>2, <1>3, <1>4

LEMMA PoppingKeepsRing ==
  ASSUME RingInv, QueuePopUpdate
  PROVE  RoomIsKept' /\ FrameIsKept' /\ NeverTooMany' /\ OnlySignalsAtZero'
<1>1. /\ UNCHANGED <<wr, batch, process, count, at>>
      /\ poll' \in {"read", "scan"} /\ (poll' = "read" => rd'[at] # wr[at])
  BY DEF QueuePopUpdate, processVars
<1>2. PICK a \in Lidars : a = at
  BY DEF QueuePopUpdate, RingInv, FrameIsKept
<1>3. UsedSize(a) \in Nat /\ Capacity \in Int
  BY <1>2, Used, RingSizes DEF RingInv
<1>4. /\ UsedSize(a)' = UsedSize(a) - 1
      /\ \A l \in Lidars \ {a} : UsedSize(l)' = UsedSize(l)
      /\ rd'[a] # wr[a] => UsedSize(a)' > 0
      /\ \A p \in Lidars : process = "move" /\ p = pushing
           => slot'[p][wr[p] % Capacity] = slot[p][wr[p] % Capacity]
  BY <1>2, PoppedRing
<1>5. NeverTooMany'
  BY <1>3, <1>4 DEF RingInv, NeverTooMany
<1>6. FrameIsKept'
  BY <1>1, <1>2, <1>4 DEF FrameIsKept, UsedSize
<1>7. RoomIsKept'
  <2>1. ASSUME process # "idle"
        PROVE  RoomIsKept'
    <3>1. PICK p \in Lidars : p = pushing
      BY <2>1, PushingIsKnown
    <3>2. pushing' = p
      BY <1>1, <3>1 DEF pushing
    <3>3. UsedSize(p) < Capacity => UsedSize(p)' < Capacity
      BY <1>3, <1>4
    <3> QED
      BY <1>1, <1>4, <3>1, <3>2, <3>3 DEF RingInv, RoomIsKept, UsedSize
  <2> QED
    BY <1>1, <2>1 DEF RoomIsKept
<1>8. OnlySignalsAtZero'
  BY <1>1 DEF RingInv, OnlySignalsAtZero
<1> QED
  BY <1>5, <1>6, <1>7, <1>8

LEMMA RingInvKept == RingInv /\ [PointsNext]_pointsVars => RingInv'
<1> SUFFICES ASSUME RingInv, [PointsNext]_pointsVars
             PROVE  RingInv'
  OBVIOUS
<1>1. CASE PointsNext
  <2>1. PointsTypeOK' /\ FirstExists'
    BY <1>1, RingTypesKept, FirstStillExists
  <2>2. RoomIsKept' /\ FrameIsKept' /\ NeverTooMany' /\ OnlySignalsAtZero'
    BY <1>1, OthersKeepRing, LookingKeepsRing, WritingKeepsRing, MovingKeepsRing, PollingKeepsRing,
       PoppingKeepsRing
       DEF PointsNext, ProcessThread, PollThread
  <2> QED
    BY <2>1, <2>2 DEF RingInv
<1>2. CASE UNCHANGED pointsVars
  BY <1>2 DEF pointsVars, sdkVars, processVars, pollVars, RingInv, PointsTypeOK, FirstExists,
              RoomIsKept, FrameIsKept, NeverTooMany, OnlySignalsAtZero, UsedSize, pushing
<1> QED
  BY <1>1, <1>2

\* The types of LivoxPoints, among them the bounds of the indices and of the
\* semaphore (lds.cpp PushLidarData raises it only when it finds it at zero).
THEOREM PointsTypes == PointsSpec => []PointsTypeOK
<1>1. RingInv => PointsTypeOK
  BY DEF RingInv
<1> QED
  BY RingInvInit, RingInvKept, <1>1, PTL DEF PointsSpec

\* What waits in the rings, as the state of FrameQueue.
queues == [l \in Lidars |-> Ring(l)]

\* A frame is complete when its index is moved, and published when its slot is
\* freed; no other step shows.
LEMMA RingStep ==
  ASSUME RingInv, PointsNext
  PROVE  Q!Next \/ UNCHANGED Q!frameVars
<1>1. ASSUME UNCHANGED published, \A l \in Lidars : Ring(l)' = Ring(l)
      PROVE  UNCHANGED Q!frameVars
  BY <1>1 DEF Q!frameVars
<1>2. CASE MoveWrIdx
  <2>1. PICK p \in Lidars : p = pushing
    BY <1>2, PushingIsKnown DEF MoveWrIdx
  <2> DEFINE f == slot[p][wr[p] % Capacity]
  <2>2. f \in Frames /\ UsedSize(p) < Capacity /\ UNCHANGED published
    BY <1>2, <2>1 DEF MoveWrIdx, RingInv, RoomIsKept, pollVars
  <2>3. Ring(p)' = Append(Ring(p), f) /\ \A l \in Lidars \ {p} : Ring(l)' = Ring(l)
    BY <1>2, <2>1, MovedRing
  <2>4. Len(Ring(p)) = UsedSize(p)
    BY RingLength DEF RingInv
  <2> HIDE DEF f
  <2>5. queues[p] = Ring(p) /\ queues' = [queues EXCEPT ![p] = Append(@, f)]
    BY <2>3 DEF queues
  <2>6. Q!Complete(p, f)
    BY <2>2, <2>4, <2>5 DEF Q!Complete, queues
  <2> QED
    BY <2>2, <2>6 DEF Q!Next
<1>3. CASE QueuePopUpdate
  <2>1. PICK a \in Lidars : a = at
    BY <1>3 DEF QueuePopUpdate, RingInv, FrameIsKept
  <2>2. /\ Ring(a) # <<>> /\ Head(Ring(a)) = pkg /\ Ring(a)' = Tail(Ring(a))
        /\ \A l \in Lidars \ {a} : Ring(l)' = Ring(l)
    BY <1>3, <2>1, PoppedRing
  <2>3. published' = <<a, Head(Ring(a))>>
    BY <1>3, <2>1, <2>2 DEF QueuePopUpdate
  <2>4. queues[a] = Ring(a) /\ queues' = [queues EXCEPT ![a] = Tail(@)]
    BY <2>2 DEF queues
  <2>5. Q!Publish(a)
    BY <2>2, <2>3, <2>4 DEF Q!Publish, queues
  <2> QED
    BY <2>5 DEF Q!Next
<1>4. ASSUME NEW f \in Frames, WriteSlot(f)
      PROVE  UNCHANGED Q!frameVars
  <2>1. UNCHANGED published
    BY <1>4 DEF WriteSlot, pollVars
  <2> QED
    BY <1>1, <1>4, <2>1, WrittenRing
<1> QED
  BY <1>1, <1>2, <1>3, <1>4, OthersKeepRing, LookingKeepsRing, PollingKeepsRing, RingsStand
     DEF PointsNext, ProcessThread, PollThread

\* ImplementsFrameQueue: the ring without a lock, its indices wrapping, is the
\* bounded queue of FrameQueue (ldq.cpp QueuePushAny, QueuePrePop,
\* QueuePopUpdate): no frame is lost but for want of room, none is published
\* twice, out of order or half overwritten.
THEOREM RingIsFrameQueue == PointsSpec => ImplementsFrameQueue
<1>1. PointsInit => Q!Init
  <2> SUFFICES ASSUME PointsInit
               PROVE  Q!Init
    OBVIOUS
  <2>1. PointsTypeOK
    BY RingInvInit DEF RingInv
  <2>2. ASSUME NEW l \in Lidars
        PROVE  Ring(l) = <<>>
    <3>1. rd[l] = 0 /\ wr[l] = 0 /\ 0 \in 0 .. Width - 1
      BY <2>1, Used DEF PointsInit
    <3>2. Between(0, 0) = 0
      BY <3>1, UsedSlots
    <3>3. UsedSize(l) = 0
      BY <2>1, <3>1, <3>2, Used
    <3>4. Ring(l) \in Seq(Frames \cup {NoFrame}) /\ Len(Ring(l)) = 0
      BY <2>1, <3>3, RingLength
    <3> QED
      BY <3>4
  <2> QED
    BY <2>2 DEF Q!Init, PointsInit
<1>2. RingInv /\ [PointsNext]_pointsVars => [Q!Next]_Q!frameVars
  <2>1. UNCHANGED pointsVars => UNCHANGED Q!frameVars
    BY DEF pointsVars, pollVars, Q!frameVars, Ring, UsedSize
  <2> QED
    BY <2>1, RingStep
<1> QED
  BY RingInvInit, RingInvKept, <1>1, <1>2, PTL DEF PointsSpec, ImplementsFrameQueue, Q!Safety

-----------------------------------------------------------------------------
(* Turns of the RoboSense driver                                            *)

NextAngle(a) == (a + 1) % Turn

\* After a block at angle a, what follows it in the queue is its successor, and
\* so is what the LiDAR sends next, if nothing has been lost.
GoesOn(a, i, queue, gap, next) ==
  /\ \A j \in i + 1 .. Len(queue) :
       /\ queue[j].kind = "msop" /\ queue[j].follows
       /\ \A k \in i + 1 .. j - 1 : queue[k].kind # "msop"
       => queue[j].angle = NextAngle(a)
  /\ ~gap /\ (\A k \in i + 1 .. Len(queue) : queue[k].kind # "msop") => next = NextAngle(a)

Linked(queue, gap, next) ==
  \A i \in 1 .. Len(queue) : queue[i].kind = "msop" => GoesOn(queue[i].angle, i, queue, gap, next)

InHand == handling.kind = "msop"
Begun  == filling # None /\ points[filling] # NoPoints

PacketsAreLinked ==
  /\ Linked(packets, lost, angle)
  /\ InHand => GoesOn(handling.angle, 0, packets, lost, angle)
  /\ ~InHand /\ Begun => GoesOn(prev_angle, 0, packets, lost, angle)
  /\ InHand /\ Begun /\ handling.follows => handling.angle = NextAngle(prev_angle)

\* The block in hand has just split a cloud off.
AtSplit ==
  /\ Decoding /\ prev_angle = handling.angle
  /\ handling.follows => handling.angle = 0

\* A whole cloud has begun at the split angle and reaches to the last block.
FilledInTurn ==
  /\ filling = None => AtSplit
  /\ filling \in whole /\ points[filling] = NoPoints => handling = Ended \/ AtSplit
  /\ filling \in whole /\ points[filling] # NoPoints => points[filling] = <<0, prev_angle + 1>>
  /\ WaitForDifop /\ ~angles_ready => ~Begun /\ filling # None /\ whole = {}

HandedOverAreTurns == \A c \in HandedOver \cap whole : points[c] = <<0, Turn>>

\* Every cloud has one owner.
OneOwner ==
  /\ filling \notin HandedOver \cup unused
  /\ HandedOver \cap unused = {}
  /\ \A i, j \in 1 .. Len(clouds) : clouds[i] = clouds[j] => i = j
  /\ sending \notin ToSet(clouds)

HandedOverCounted ==
  /\ IsFiniteSet(HandedOver)
  /\ Cardinality(HandedOver) = Len(clouds) + (IF sending \in Clouds THEN 1 ELSE 0)

RoomInQueue == receiving # "overflow" => Len(packets) <= PacketPoolMax

RsInv ==
  /\ RsTypeOK /\ RoomInQueue /\ PacketsAreLinked /\ FilledInTurn /\ HandedOverAreTurns
  /\ OneOwner /\ HandedOverCounted

LEMMA AngleAfter ==
  ASSUME NEW a \in Angles
  PROVE  /\ NextAngle(a) \in Angles
         /\ NextAngle(a) = IF a + 1 = Turn THEN 0 ELSE a + 1
<1>1. Turn \in Int /\ Turn > 1 /\ a \in Int /\ 0 <= a /\ a < Turn
  BY RsAssumption DEF Angles
<1>2. CASE a + 1 = Turn
  <2>1. a + 1 = 1 * Turn + 0 /\ a + 1 \in Int
    BY <1>1, <1>2
  <2>2. (a + 1) % Turn = 0
    BY <1>1, <2>1, ModIs
  <2> QED
    BY <1>1, <1>2, <2>2 DEF NextAngle, Angles
<1>3. CASE a + 1 # Turn
  <2>1. a + 1 = 0 * Turn + (a + 1) /\ a + 1 \in Int /\ a + 1 < Turn /\ a + 1 >= 0
    BY <1>1, <1>3
  <2>2. (a + 1) % Turn = a + 1
    BY <1>1, <2>1, ModIs
  <2> QED
    BY <1>1, <1>3, <2>1, <2>2 DEF NextAngle, Angles
<1> QED
  BY <1>2, <1>3

\* A packet of the LiDAR goes on where the last one ended, ...
LEMMA MsopLinks ==
  ASSUME NEW q \in Seq(Packet), NEW gap \in BOOLEAN, NEW next \in Angles, Linked(q, gap, next)
  PROVE  /\ Linked(Append(q, Msop(next, ~gap)), FALSE, NextAngle(next))
         /\ \A a : GoesOn(a, 0, q, gap, next)
                     => GoesOn(a, 0, Append(q, Msop(next, ~gap)), FALSE, NextAngle(next))
<1> DEFINE m == Msop(next, ~gap)
           r == Append(q, m)
           n == Len(q)
           no == FALSE
<1>1. /\ m.kind = "msop" /\ (m.follows <=> ~gap) /\ m.angle = next
      /\ m \in Packet
  <2>1. PICK g \in BOOLEAN : g = ~gap
    OBVIOUS
  <2>2. m \in Packet
    <3>1. Msop(next, g) \in Packet
      BY DEF Packet
    <3>2. m = Msop(next, g)
      BY <2>1, Zenon
    <3> QED
      BY <3>1, <3>2
  <2>3. m.kind = "msop" /\ (m.follows <=> ~gap) /\ m.angle = next
    BY DEF Msop
  <2> QED
    BY <2>2, <2>3
<1>0. ~no
  OBVIOUS
<1> HIDE DEF m, no
<1>2. /\ n \in Nat /\ Len(r) = n + 1 /\ r[n + 1] = m
      /\ \A i \in 1 .. n : r[i] = q[i]
  BY <1>1, AppendProperties
<1> HIDE DEF r, n
<1>3. ASSUME NEW a, NEW i \in 0 .. n, GoesOn(a, i, q, gap, next)
      PROVE  GoesOn(a, i, r, no, NextAngle(next))
  <2>1. ASSUME NEW j \in i + 1 .. n + 1, r[j].kind = "msop", r[j].follows,
               \A k \in i + 1 .. j - 1 : r[k].kind # "msop"
        PROVE  r[j].angle = NextAngle(a)
    <3>1. CASE j \in i + 1 .. n
      <4>1. /\ q[j] = r[j] /\ \A k \in i + 1 .. j - 1 : q[k] = r[k]
        BY <1>2, <3>1
      <4> QED
        BY <1>3, <2>1, <3>1, <4>1 DEF GoesOn, n
    <3>2. CASE j = n + 1
      <4>1. ~gap /\ \A k \in i + 1 .. n : q[k].kind # "msop"
        BY <1>1, <1>2, <2>1, <3>2
      <4> QED
        BY <1>1, <1>2, <1>3, <3>2, <4>1 DEF GoesOn, n
    <3> QED
      BY <1>2, <2>1, <3>1, <3>2
  <2>2. n + 1 \in i + 1 .. n + 1 /\ r[n + 1].kind = "msop"
    BY <1>1, <1>2
  <2> QED
    BY <1>2, <2>1, <2>2 DEF GoesOn
<1>4. GoesOn(m.angle, n + 1, r, no, NextAngle(next))
  BY <1>1, <1>2 DEF GoesOn
<1>5. ASSUME NEW i \in 1 .. n + 1, r[i].kind = "msop"
      PROVE  GoesOn(r[i].angle, i, r, no, NextAngle(next))
  <2>1. CASE i \in 1 .. n
    <3>1. GoesOn(q[i].angle, i, q, gap, next) /\ r[i] = q[i] /\ i \in 0 .. n
      BY <1>2, <1>5, <2>1 DEF Linked, n
    <3> QED
      BY <1>3, <3>1
  <2>2. CASE i = n + 1
    BY <1>2, <1>4, <2>2
  <2> QED
    BY <1>2, <1>5, <2>1, <2>2
<1>6. Linked(r, no, NextAngle(next))
  BY <1>2, <1>5 DEF Linked
<1>7. \A a : GoesOn(a, 0, q, gap, next) => GoesOn(a, 0, r, no, NextAngle(next))
  BY <1>2, <1>3
<1> QED
  BY <1>6, <1>7, Zenon DEF r, m, no

\* ... its angles change nothing, ...
LEMMA DifopLinks ==
  ASSUME NEW q \in Seq(Packet), NEW gap \in BOOLEAN, NEW next \in Angles, Linked(q, gap, next)
  PROVE  /\ Linked(Append(q, Difop), gap, next)
         /\ \A a : GoesOn(a, 0, q, gap, next) => GoesOn(a, 0, Append(q, Difop), gap, next)
<1> DEFINE m == Difop
           r == Append(q, m)
           n == Len(q)
<1>1. m.kind # "msop" /\ m \in Packet
  BY DEF Difop, Other, Packet
<1> HIDE DEF m
<1>2. /\ n \in Nat /\ Len(r) = n + 1 /\ r[n + 1] = m
      /\ \A i \in 1 .. n : r[i] = q[i]
  BY <1>1, AppendProperties
<1> HIDE DEF r, n
<1>3. ASSUME NEW a, NEW i \in 0 .. n, GoesOn(a, i, q, gap, next)
      PROVE  GoesOn(a, i, r, gap, next)
  <2>1. ASSUME NEW j \in i + 1 .. n + 1, r[j].kind = "msop", r[j].follows,
               \A k \in i + 1 .. j - 1 : r[k].kind # "msop"
        PROVE  r[j].angle = NextAngle(a)
    <3>1. j \in i + 1 .. n
      BY <1>1, <1>2, <2>1
    <3>2. /\ q[j] = r[j] /\ \A k \in i + 1 .. j - 1 : q[k] = r[k]
      BY <1>2, <3>1
    <3> QED
      BY <1>3, <2>1, <3>1, <3>2 DEF GoesOn, n
  <2>2. ASSUME ~gap, \A k \in i + 1 .. n + 1 : r[k].kind # "msop"
        PROVE  next = NextAngle(a)
    <3>1. \A k \in i + 1 .. n : q[k].kind # "msop"
      BY <1>2, <2>2
    <3> QED
      BY <1>3, <2>2, <3>1 DEF GoesOn, n
  <2> QED
    BY <1>2, <2>1, <2>2 DEF GoesOn
<1>4. ASSUME NEW i \in 1 .. n + 1, r[i].kind = "msop"
      PROVE  GoesOn(r[i].angle, i, r, gap, next)
  <2>1. i \in 1 .. n
    BY <1>1, <1>2, <1>4
  <2>2. GoesOn(q[i].angle, i, q, gap, next) /\ r[i] = q[i] /\ i \in 0 .. n
    BY <1>2, <1>4, <2>1 DEF Linked, n
  <2> QED
    BY <1>3, <2>2
<1>5. Linked(r, gap, next)
  BY <1>2, <1>4 DEF Linked
<1>6. \A a : GoesOn(a, 0, q, gap, next) => GoesOn(a, 0, r, gap, next)
  BY <1>2, <1>3
<1> QED
  BY <1>5, <1>6 DEF r, m

\* ... and after a loss anything goes.
LEMMA LossUnlinks ==
  ASSUME NEW q, NEW gap, NEW next, NEW other, NEW some, some = TRUE, Linked(q, gap, next)
  PROVE  /\ Linked(q, some, other) /\ Linked(<<>>, some, other)
         /\ \A a : GoesOn(a, 0, q, gap, next) => GoesOn(a, 0, q, some, other)
         /\ \A a : GoesOn(a, 0, <<>>, some, other)
BY DEF Linked, GoesOn

\* The first packet of the queue is taken.
LEMMA HeadLinks ==
  ASSUME NEW q \in Seq(Packet), q # <<>>, NEW gap, NEW next, Linked(q, gap, next)
  PROVE  /\ Linked(Tail(q), gap, next)
         /\ Head(q).kind = "msop" => GoesOn(Head(q).angle, 0, Tail(q), gap, next)
         /\ \A a : GoesOn(a, 0, q, gap, next)
              => IF Head(q).kind = "msop"
                 THEN Head(q).follows => Head(q).angle = NextAngle(a)
                 ELSE GoesOn(a, 0, Tail(q), gap, next)
<1> DEFINE r == Tail(q)
           n == Len(q)
<1>1. /\ n \in Nat /\ n > 0 /\ Len(r) = n - 1 /\ Head(q) = q[1]
      /\ \A i \in 1 .. n - 1 : r[i] = q[i + 1]
  BY HeadTailProperties
<1> HIDE DEF r, n
<1>2. ASSUME NEW a, NEW i \in 0 .. n - 1, GoesOn(a, i + 1, q, gap, next)
      PROVE  GoesOn(a, i, r, gap, next)
  <2>1. ASSUME NEW j \in i + 1 .. n - 1, r[j].kind = "msop", r[j].follows,
               \A k \in i + 1 .. j - 1 : r[k].kind # "msop"
        PROVE  r[j].angle = NextAngle(a)
    <3>1. j + 1 \in (i + 1) + 1 .. n /\ r[j] = q[j + 1] /\ (j + 1) - 1 = j
      BY <1>1
    <3>2. ASSUME NEW k \in (i + 1) + 1 .. (j + 1) - 1
          PROVE  q[k].kind # "msop"
      <4>1. k - 1 \in i + 1 .. j - 1 /\ k - 1 \in 1 .. n - 1 /\ (k - 1) + 1 = k
        BY <1>1, <3>1
      <4> QED
        BY <1>1, <2>1, <4>1
    <3> QED
      BY <1>2, <2>1, <3>1, <3>2 DEF GoesOn, n
  <2>2. ASSUME ~gap, \A k \in i + 1 .. n - 1 : r[k].kind # "msop"
        PROVE  next = NextAngle(a)
    <3>1. ASSUME NEW k \in (i + 1) + 1 .. n
          PROVE  q[k].kind # "msop"
      <4>1. k - 1 \in i + 1 .. n - 1 /\ k - 1 \in 1 .. n - 1 /\ (k - 1) + 1 = k
        BY <1>1
      <4> QED
        BY <1>1, <2>2, <4>1
    <3> QED
      BY <1>2, <2>2, <3>1 DEF GoesOn, n
  <2> QED
    BY <1>1, <2>1, <2>2 DEF GoesOn
<1>3. Linked(r, gap, next)
  <2> SUFFICES ASSUME NEW i \in 1 .. n - 1, r[i].kind = "msop"
               PROVE  GoesOn(r[i].angle, i, r, gap, next)
    BY <1>1 DEF Linked
  <2>1. i + 1 \in 1 .. n /\ r[i] = q[i + 1] /\ i \in 0 .. n - 1
    BY <1>1
  <2>2. GoesOn(q[i + 1].angle, i + 1, q, gap, next)
    BY <2>1 DEF Linked, n
  <2> QED
    BY <1>2, <2>1, <2>2
<1>4. ASSUME q[1].kind = "msop"
      PROVE  GoesOn(q[1].angle, 0, r, gap, next)
  <2>1. GoesOn(q[1].angle, 1, q, gap, next)
    BY <1>1, <1>4 DEF Linked, n
  <2>2. GoesOn(q[1].angle, 0 + 1, q, gap, next) /\ 0 \in 0 .. n - 1
    BY <1>1, <2>1
  <2> QED
    BY <1>2, <2>2
<1>5. ASSUME NEW a, GoesOn(a, 0, q, gap, next), q[1].kind = "msop", q[1].follows
      PROVE  q[1].angle = NextAngle(a)
  BY <1>1, <1>5 DEF GoesOn, n
<1>6. ASSUME NEW a, GoesOn(a, 0, q, gap, next), q[1].kind # "msop"
      PROVE  GoesOn(a, 0, r, gap, next)
  <2>1. GoesOn(a, 0 + 1, q, gap, next)
    <3>1. ASSUME NEW j \in 2 .. n, q[j].kind = "msop", q[j].follows,
                 \A k \in 2 .. j - 1 : q[k].kind # "msop"
          PROVE  q[j].angle = NextAngle(a)
      <4>1. \A k \in 1 .. j - 1 : q[k].kind # "msop"
        BY <1>6, <3>1
      <4> QED
        BY <1>1, <1>6, <3>1, <4>1 DEF GoesOn, n
    <3>2. ASSUME ~gap, \A k \in 2 .. n : q[k].kind # "msop"
          PROVE  next = NextAngle(a)
      <4>1. \A k \in 1 .. n : q[k].kind # "msop"
        BY <1>1, <1>6, <3>2
      <4> QED
        BY <1>6, <3>2, <4>1 DEF GoesOn, n
    <3>3. (0 + 1) + 1 = 2
      OBVIOUS
    <3> QED
      BY <3>1, <3>2, <3>3 DEF GoesOn, n
  <2>2. 0 \in 0 .. n - 1
    BY <1>1
  <2> QED
    BY <1>2, <2>1, <2>2
<1> QED
  BY <1>1, <1>3, <1>4, <1>5, <1>6 DEF r

LEMMA Kinds ==
  /\ \A h \in Packet : h.kind = "msop" => h.angle \in Angles /\ h.follows \in BOOLEAN
  /\ \A h \in Packet : h.kind # "msop" => h = Difop
  /\ Difop.kind # "msop" /\ Loop.kind # "msop" /\ Ended.kind # "msop"
  /\ Loop # Ended /\ Loop # Difop /\ Difop # Ended
BY DEF Packet, Msop, Difop, Loop, Ended, Other

\* What a queue holds when one more comes in, and when the first one leaves.
LEMMA QueueSets ==
  ASSUME NEW S, NEW q \in Seq(S), NEW x \in S
  PROVE  /\ ToSet(Append(q, x)) = ToSet(q) \cup {x}
         /\ q # <<>> => ToSet(q) = ToSet(Tail(q)) \cup {Head(q)} /\ Head(q) \in S
         /\ ToSet(q) \subseteq S
<1>1. ToSet(q) \subseteq S
  BY DEF ToSet
<1>2. ToSet(Append(q, x)) = ToSet(q) \cup {x}
  <2> DEFINE r == Append(q, x)
  <2>1. /\ DOMAIN q = 1 .. Len(q) /\ DOMAIN r = 1 .. Len(q) + 1 /\ r[Len(q) + 1] = x
        /\ \A i \in 1 .. Len(q) : r[i] = q[i]
        /\ Len(q) \in Nat
    BY AppendProperties
  <2> HIDE DEF r
  <2>2. ASSUME NEW y \in ToSet(r)
        PROVE  y \in ToSet(q) \cup {x}
    <3>1. PICK i \in 1 .. Len(q) + 1 : y = r[i]
      BY <2>1 DEF ToSet
    <3>2. i \in 1 .. Len(q) \/ i = Len(q) + 1
      BY <2>1
    <3> QED
      BY <2>1, <3>1, <3>2 DEF ToSet
  <2>3. ASSUME NEW y \in ToSet(q) \cup {x}
        PROVE  y \in ToSet(r)
    <3>1. CASE y = x
      <4>1. Len(q) + 1 \in DOMAIN r
        BY <2>1
      <4> QED
        BY <2>1, <3>1, <4>1 DEF ToSet
    <3>2. CASE y \in ToSet(q)
      <4>1. PICK i \in 1 .. Len(q) : y = q[i]
        BY <2>1, <3>2 DEF ToSet
      <4>2. i \in DOMAIN r /\ r[i] = y
        BY <2>1, <4>1
      <4> QED
        BY <4>2 DEF ToSet
    <3> QED
      BY <3>1, <3>2
  <2> QED
    BY <2>2, <2>3 DEF r
<1>3. ASSUME q # <<>>
      PROVE  ToSet(q) = ToSet(Tail(q)) \cup {Head(q)} /\ Head(q) \in S
  <2> DEFINE r == Tail(q)
             n == Len(q)
  <2>1. /\ n \in Nat /\ n > 0 /\ DOMAIN q = 1 .. n /\ DOMAIN r = 1 .. n - 1 /\ Head(q) = q[1]
        /\ \A i \in 1 .. n - 1 : r[i] = q[i + 1]
        /\ Head(q) \in S
    BY <1>3, HeadTailProperties
  <2> HIDE DEF r, n
  <2>2. ASSUME NEW y \in ToSet(q)
        PROVE  y \in ToSet(r) \cup {Head(q)}
    <3>1. PICK i \in 1 .. n : y = q[i]
      BY <2>1 DEF ToSet
    <3>2. CASE i = 1
      BY <2>1, <3>1, <3>2
    <3>3. CASE i # 1
      <4>1. i - 1 \in 1 .. n - 1 /\ (i - 1) + 1 = i
        BY <2>1, <3>3
      <4>2. r[i - 1] = y /\ i - 1 \in DOMAIN r
        BY <2>1, <3>1, <4>1
      <4> QED
        BY <4>2 DEF ToSet
    <3> QED
      BY <3>2, <3>3
  <2>3. ASSUME NEW y \in ToSet(r) \cup {Head(q)}
        PROVE  y \in ToSet(q)
    <3>1. CASE y = Head(q)
      <4>1. 1 \in DOMAIN q
        BY <2>1
      <4> QED
        BY <2>1, <3>1, <4>1 DEF ToSet
    <3>2. CASE y \in ToSet(r)
      <4>1. PICK i \in 1 .. n - 1 : y = r[i]
        BY <2>1, <3>2 DEF ToSet
      <4>2. q[i + 1] = y /\ i + 1 \in DOMAIN q
        BY <2>1, <4>1
      <4> QED
        BY <4>2 DEF ToSet
    <3> QED
      BY <3>1, <3>2
  <2> QED
    BY <2>1, <2>2, <2>3 DEF r
<1> QED
  BY <1>1, <1>2, <1>3

LEMMA RsInvInit == RsInit => RsInv
<1> SUFFICES ASSUME RsInit
             PROVE  RsInv
  OBVIOUS
<1>1. 1 \in Clouds /\ 0 \in Angles /\ 0 \in 0 .. CloudPointMax + 1 /\ None \notin Clouds
  BY RsAssumption DEF Clouds, Angles, None
<1>2. RsTypeOK
  <2>1. packets \in Seq(Packet) /\ Len(packets) <= PacketPoolMax + 1
    BY RsAssumption DEF RsInit
  <2>2. points \in [Clouds -> Angles \X (0 .. CloudPointMax + 1)]
    BY <1>1 DEF RsInit, NoPoints
  <2>3. /\ stage = "running" /\ angle \in Angles /\ lost = TRUE /\ receiving = "loop"
        /\ handling = Loop /\ angles_ready = FALSE /\ prev_angle \in Angles
        /\ filling \in Clouds /\ whole = {} /\ unused = {} /\ clouds = <<>> /\ sending = None
    BY <1>1 DEF RsInit
  <2>4. lost \in BOOLEAN /\ angles_ready \in BOOLEAN
    BY <2>3
  <2>5. clouds \in Seq(Clouds)
    BY <2>3
  <2> QED
    BY <2>1, <2>2, <2>3, <2>4, <2>5 DEF RsTypeOK
<1>3. HandedOver = {} /\ ToSet(clouds) = {}
  BY DEF RsInit, HandedOver, ToSet
<1>4. OneOwner
  BY <1>1, <1>3 DEF OneOwner, RsInit
<1>5. HandedOverCounted
  BY <1>1, <1>3, FS_EmptySet DEF HandedOverCounted, RsInit
<1>6. HandedOverAreTurns
  BY <1>3 DEF HandedOverAreTurns
<1>7. RoomInQueue
  BY RsAssumption DEF RoomInQueue, RsInit
<1>8. ~InHand /\ ~Begun /\ filling # None /\ whole = {}
  BY <1>1, Kinds DEF RsInit, InHand, Begun, None
<1>9. PacketsAreLinked
  <2>1. Linked(packets, lost, angle)
    BY DEF Linked, RsInit
  <2> QED
    BY <1>8, <2>1 DEF PacketsAreLinked
<1>10. FilledInTurn
  BY <1>8 DEF FilledInTurn
<1> QED
  BY <1>2, <1>4, <1>5, <1>6, <1>7, <1>9, <1>10 DEF RsInv

\* What a split-off cloud, a cloud taken up and a cloud given back are.
LEMMA FreshCloud ==
  ASSUME RsInv, GetPointCloud
  PROVE  /\ filling' \in Clouds /\ filling' \notin HandedOver
         /\ unused' = unused \ {filling'}
<1> DEFINE S == IF unused # {} THEN unused ELSE Clouds \ InUse
<1>1. S # {} /\ filling' = (CHOOSE c \in S : TRUE) /\ unused' = unused \ {filling'}
  BY DEF GetPointCloud
<1> HIDE DEF S
<1>2. filling' \in S
  BY <1>1
<1>3. S \subseteq Clouds /\ S \cap HandedOver = {}
  BY DEF S, RsInv, RsTypeOK, OneOwner, HandedOver, InUse
<1> QED
  BY <1>1, <1>2, <1>3

LEMMA ToFillIsCloud ==
  ASSUME RsTypeOK, filling # None
  PROVE  filling \in Clouds /\ points[filling] \in Angles \X (0 .. CloudPointMax + 1)
BY DEF RsTypeOK

LEMMA RsTypesKept ==
  ASSUME RsInv, RsNext
  PROVE  RsTypeOK' /\ RoomInQueue'
<1> USE DEF RsInv
<1>1. /\ stage' \in {"running", "input", "handle", "process", "stopped", "terminated"}
      /\ receiving' \in {"loop", "overflow", "ended"}
  BY DEF RsTypeOK, RsNext, RecvPacket, Receive, Overflow, ReceiveEnds, HandleThread, TakePacket,
         HandleEnds, ProcessDifop, IgnoreMsop, ClearCloud, SplitFrame, GetPointCloud, AddPoints,
         SendThread, TakeCloud, SendPointCloud, ProcessEnds, Stop, inputVars
<1>2. angle' \in Angles
  <2>1. (angle + 1) % Turn \in Angles
    BY AngleAfter DEF RsTypeOK, NextAngle
  <2> QED
    BY <2>1
       DEF RsTypeOK, RsNext, RecvPacket, Receive, Overflow, ReceiveEnds, HandleThread, TakePacket,
           HandleEnds, ProcessDifop, IgnoreMsop, ClearCloud, SplitFrame, GetPointCloud, AddPoints,
           SendThread, TakeCloud, SendPointCloud, ProcessEnds, Stop, inputVars
<1>3. lost' \in BOOLEAN /\ angles_ready' \in BOOLEAN
  <2>1. lost' \in {lost, TRUE, FALSE}
    BY DEF RsNext, RecvPacket, Receive, Overflow, ReceiveEnds, HandleThread, TakePacket,
           HandleEnds, ProcessDifop, IgnoreMsop, ClearCloud, SplitFrame, GetPointCloud, AddPoints,
           SendThread, TakeCloud, SendPointCloud, ProcessEnds, Stop, inputVars
  <2>2. angles_ready' \in {angles_ready, TRUE}
    BY DEF RsNext, RecvPacket, Receive, Overflow, ReceiveEnds, HandleThread, TakePacket,
           HandleEnds, ProcessDifop, IgnoreMsop, ClearCloud, SplitFrame, GetPointCloud, AddPoints,
           SendThread, TakeCloud, SendPointCloud, ProcessEnds, Stop, decodeVars
  <2> QED
    BY <2>1, <2>2 DEF RsTypeOK
<1>4. /\ packets' \in Seq(Packet) /\ Len(packets') <= PacketPoolMax + 1
      /\ RoomInQueue'
  <2>1. ASSUME NEW p \in Packet, Receive(p)
        PROVE  packets' \in Seq(Packet) /\ Len(packets') <= PacketPoolMax + 1 /\ RoomInQueue'
    <3>1. /\ packets \in Seq(Packet) /\ Len(packets) <= PacketPoolMax
          /\ packets' = Append(packets, p)
          /\ receiving' = IF Len(packets') > PacketPoolMax THEN "overflow" ELSE "loop"
      BY <2>1 DEF Receive, RoomInQueue, RsTypeOK
    <3>2. Len(packets') = Len(packets) + 1 /\ packets' \in Seq(Packet) /\ Len(packets) \in Nat
      BY <3>1, AppendProperties
    <3> QED
      BY <3>1, <3>2, RsAssumption DEF RoomInQueue
  <2>2. Msop(angle, ~lost) \in Packet /\ Difop \in Packet
    <3>1. PICK g \in BOOLEAN : g = ~lost
      OBVIOUS
    <3>2. Msop(angle, g) \in Packet /\ Difop \in Packet
      BY DEF Packet, RsTypeOK
    <3>3. Msop(angle, ~lost) = Msop(angle, g)
      BY <3>1, Zenon
    <3> QED
      BY <3>2, <3>3
  <2>3. CASE TakePacket
    <3>1. /\ packets \in Seq(Packet) /\ packets # <<>> /\ packets' = Tail(packets)
          /\ Len(packets) <= PacketPoolMax + 1 /\ UNCHANGED receiving
      BY <2>3 DEF TakePacket, RsTypeOK, inputVars
    <3>2. Len(packets') = Len(packets) - 1 /\ packets' \in Seq(Packet) /\ Len(packets) \in Nat
      BY <3>1, HeadTailProperties
    <3> QED
      BY <3>1, <3>2, RsAssumption DEF RoomInQueue
  <2>4. CASE Overflow
    <3>1. packets' = <<>>
      BY <2>4 DEF Overflow
    <3>2. packets' \in Seq(Packet) /\ Len(packets') = 0
      BY <3>1
    <3> QED
      BY <3>2, RsAssumption DEF RoomInQueue
  <2>5. ASSUME UNCHANGED packets, receiving' = "overflow" => receiving = "overflow",
               receiving = "overflow" => receiving' = "overflow"
        PROVE  packets' \in Seq(Packet) /\ Len(packets') <= PacketPoolMax + 1 /\ RoomInQueue'
    BY <2>5 DEF RsTypeOK, RoomInQueue
  <2> QED
    BY <2>1, <2>2, <2>3, <2>4, <2>5
       DEF RsNext, RecvPacket, ReceiveEnds, HandleThread,
           HandleEnds, ProcessDifop, IgnoreMsop, ClearCloud, SplitFrame, GetPointCloud, AddPoints,
           SendThread, TakeCloud, SendPointCloud, ProcessEnds, Stop, inputVars
<1>5. handling' \in Packet \cup {Loop, Ended}
  <2>1. CASE TakePacket
    BY <2>1, HeadTailProperties DEF TakePacket, RsTypeOK
  <2>2. handling' \in {handling, Loop, Ended} => handling' \in Packet \cup {Loop, Ended}
    BY DEF RsTypeOK
  <2> QED
    BY <2>1, <2>2
       DEF RsNext, RecvPacket, Receive, Overflow, ReceiveEnds, HandleThread,
           HandleEnds, ProcessDifop, IgnoreMsop, ClearCloud, SplitFrame, GetPointCloud, AddPoints,
           SendThread, TakeCloud, SendPointCloud, ProcessEnds, Stop
<1>6. prev_angle' \in Angles
  <2>1. handling.kind = "msop" => handling.angle \in Angles
    BY Kinds DEF RsTypeOK
  <2> QED
    BY <2>1
       DEF RsTypeOK, RsNext, RecvPacket, Receive, Overflow, ReceiveEnds, HandleThread, TakePacket,
           HandleEnds, ProcessDifop, IgnoreMsop, ClearCloud, SplitFrame, GetPointCloud, AddPoints,
           SendThread, TakeCloud, SendPointCloud, ProcessEnds, Stop, decodeVars, Decoding
<1>7. filling' \in Clouds \cup {None}
  <2>1. CASE GetPointCloud
    BY <2>1, FreshCloud
  <2> QED
    BY <2>1
       DEF RsTypeOK, RsNext, RecvPacket, Receive, Overflow, ReceiveEnds, HandleThread, TakePacket,
           HandleEnds, ProcessDifop, IgnoreMsop, ClearCloud, SplitFrame, AddPoints,
           SendThread, TakeCloud, SendPointCloud, ProcessEnds, Stop, decodeVars
<1>8. points' \in [Clouds -> Angles \X (0 .. CloudPointMax + 1)]
  <2> DEFINE P == Angles \X (0 .. CloudPointMax + 1)
  <2>1. NoPoints \in P /\ points \in [Clouds -> P]
    BY RsAssumption DEF NoPoints, Angles, RsTypeOK
  <2>2. CASE AddPoints
    <3>1. /\ filling \in Clouds /\ points[filling] \in P
          /\ points[filling][2] <= CloudPointMax /\ handling.angle \in Angles
      <4>1. filling # None /\ ~Overfull /\ handling.kind = "msop"
        BY <2>2 DEF AddPoints, Decoding
      <4>2. filling \in Clouds /\ points[filling] \in P /\ points[filling][2] \in Int
        BY <4>1, ToFillIsCloud
      <4>3. handling.angle \in Angles
        BY <4>1, Kinds DEF RsTypeOK
      <4> QED
        BY <4>1, <4>2, <4>3, RsAssumption DEF Overfull
    <3>2. <<handling.angle, 1>> \in P /\ <<points[filling][1], points[filling][2] + 1>> \in P
      BY <3>1, RsAssumption
    <3>3. points' = [points EXCEPT ![filling] =
                       IF @ = NoPoints THEN <<handling.angle, 1>> ELSE <<@[1], @[2] + 1>>]
      BY <2>2 DEF AddPoints, Fill
    <3> HIDE DEF P
    <3> QED
      BY <2>1, <3>1, <3>2, <3>3 DEF P
  <2>3. ASSUME NEW c, \/ points' = [points EXCEPT ![c] = NoPoints]
                      \/ UNCHANGED points
        PROVE  points' \in [Clouds -> P]
    BY <2>1, <2>3
  <2>4. CASE SplitFrame
    BY <2>1, <2>4 DEF SplitFrame
  <2> HIDE DEF P
  <2> QED
    BY <2>1, <2>2, <2>3, <2>4
       DEF RsNext, RecvPacket, Receive, Overflow, ReceiveEnds, HandleThread, TakePacket,
           HandleEnds, ProcessDifop, IgnoreMsop, ClearCloud, GetPointCloud,
           SendThread, TakeCloud, SendPointCloud, ProcessEnds, Stop, decodeVars, P
<1>9. whole' \subseteq Clouds
  BY FreshCloud
     DEF RsTypeOK, RsNext, RecvPacket, Receive, Overflow, ReceiveEnds, HandleThread, TakePacket,
         HandleEnds, ProcessDifop, IgnoreMsop, ClearCloud, SplitFrame, GetPointCloud, AddPoints,
         Fill, WholeStill, SendThread, TakeCloud, SendPointCloud, ProcessEnds, Stop, decodeVars
<1>10. unused' \subseteq Clouds
  BY FreshCloud
     DEF RsTypeOK, RsNext, RecvPacket, Receive, Overflow, ReceiveEnds, HandleThread, TakePacket,
         HandleEnds, ProcessDifop, IgnoreMsop, ClearCloud, SplitFrame, GetPointCloud, AddPoints,
         SendThread, TakeCloud, SendPointCloud, ProcessEnds, Stop
<1>11. clouds' \in Seq(Clouds) /\ sending' \in Clouds \cup {None, Gone}
  <2>1. CASE SplitFrame
    BY <2>1, ToFillIsCloud DEF SplitFrame, RsTypeOK
  <2>2. CASE TakeCloud
    BY <2>2, HeadTailProperties DEF TakeCloud, RsTypeOK
  <2>3. (UNCHANGED clouds /\ sending' \in {sending, None, Gone})
          => clouds' \in Seq(Clouds) /\ sending' \in Clouds \cup {None, Gone}
    BY DEF RsTypeOK
  <2> QED
    BY <2>1, <2>2, <2>3
       DEF RsNext, RecvPacket, Receive, Overflow, ReceiveEnds, HandleThread, TakePacket,
           HandleEnds, ProcessDifop, IgnoreMsop, ClearCloud, GetPointCloud, AddPoints,
           SendThread, SendPointCloud, ProcessEnds, Stop
<1> QED
  BY <1>1, <1>2, <1>3, <1>4, <1>5, <1>6, <1>7, <1>8, <1>9, <1>10, <1>11 DEF RsTypeOK

Filling == <<handling, filling, points, whole, angles_ready, prev_angle>>
Owning  == <<filling, points, whole, clouds, sending, unused>>

\* The receive thread adds packets that go on, or throws all away; ...
LEMMA ReceivingKeepsTurns ==
  ASSUME RsInv, RecvPacket \/ Overflow \/ ReceiveEnds
  PROVE  UNCHANGED <<Filling, Owning>> /\ PacketsAreLinked'
<1>1. UNCHANGED <<Filling, Owning>>
  BY DEF RecvPacket, Receive, Overflow, ReceiveEnds, decodeVars, Filling, Owning
<1>2. UNCHANGED <<InHand, Begun, handling, prev_angle>>
  BY <1>1 DEF InHand, Begun, Filling
<1>3. /\ packets \in Seq(Packet) /\ lost \in BOOLEAN /\ angle \in Angles
      /\ Linked(packets, lost, angle)
  BY DEF RsInv, RsTypeOK, PacketsAreLinked
<1>4. ASSUME Linked(packets', lost', angle'),
             \A a : GoesOn(a, 0, packets, lost, angle) => GoesOn(a, 0, packets', lost', angle')
      PROVE  PacketsAreLinked'
  BY <1>2, <1>4 DEF RsInv, PacketsAreLinked
<1>5. ASSUME lost' = TRUE, packets' = packets \/ packets' = <<>>
      PROVE  PacketsAreLinked'
  <2>0. /\ Linked(packets, lost', angle') /\ Linked(<<>>, lost', angle')
        /\ \A a : GoesOn(a, 0, packets, lost, angle) => GoesOn(a, 0, packets, lost', angle')
        /\ \A a : GoesOn(a, 0, <<>>, lost', angle')
    BY <1>3, <1>5, LossUnlinks, Zenon
  <2>1. /\ Linked(packets', lost', angle')
        /\ \A a : GoesOn(a, 0, packets, lost, angle) => GoesOn(a, 0, packets', lost', angle')
    BY <1>5, <2>0
  <2> QED
    BY <1>4, <2>1
<1>6. ASSUME packets' = Append(packets, Msop(angle, ~lost)), angle' = NextAngle(angle),
             lost' = FALSE
      PROVE  PacketsAreLinked'
  BY <1>3, <1>4, <1>6, MsopLinks
<1>7. ASSUME packets' = Append(packets, Difop), UNCHANGED <<angle, lost>>
      PROVE  PacketsAreLinked'
  BY <1>3, <1>4, <1>7, DifopLinks
<1>8. ASSUME UNCHANGED <<packets, angle, lost>>
      PROVE  PacketsAreLinked'
  BY <1>3, <1>4, <1>8
<1> QED
  BY <1>1, <1>5, <1>6, <1>7, <1>8 DEF RecvPacket, Receive, Overflow, ReceiveEnds, NextAngle

\* ... the handle thread takes the next one, or is done with one, ...
LEMMA TakingKeepsTurns ==
  ASSUME RsInv, TakePacket
  PROVE  UNCHANGED Owning /\ PacketsAreLinked' /\ FilledInTurn'
<1>1. /\ UNCHANGED <<filling, points, whole, prev_angle, angles_ready, lost, angle>>
      /\ UNCHANGED Owning
      /\ handling = Loop /\ packets # <<>> /\ handling' = Head(packets) /\ packets' = Tail(packets)
  BY DEF TakePacket, inputVars, decodeVars, Owning
<1>2. ~InHand /\ ~AtSplit /\ handling # Ended
  BY <1>1, Kinds DEF InHand, AtSplit, Decoding
<1>3. /\ filling # None /\ ~(filling \in whole /\ points[filling] = NoPoints)
      /\ UNCHANGED Begun
  BY <1>1, <1>2 DEF RsInv, FilledInTurn, Begun
<1>4. FilledInTurn'
  BY <1>1, <1>3 DEF RsInv, FilledInTurn
<1>5. packets \in Seq(Packet) /\ Linked(packets, lost, angle)
      /\ (Begun => GoesOn(prev_angle, 0, packets, lost, angle))
  BY <1>2 DEF RsInv, RsTypeOK, PacketsAreLinked
<1>6. /\ Linked(packets', lost, angle)
      /\ handling'.kind = "msop" => GoesOn(handling'.angle, 0, packets', lost, angle)
      /\ Begun => IF handling'.kind = "msop"
                  THEN handling'.follows => handling'.angle = NextAngle(prev_angle)
                  ELSE GoesOn(prev_angle, 0, packets', lost, angle)
  BY <1>1, <1>5, HeadLinks
<1>7. PacketsAreLinked'
  BY <1>1, <1>3, <1>6 DEF PacketsAreLinked, InHand
<1> QED
  BY <1>1, <1>4, <1>7

LEMMA IdlingKeepsTurns ==
  ASSUME RsInv, HandleEnds \/ ProcessDifop \/ IgnoreMsop
  PROVE  UNCHANGED Owning /\ PacketsAreLinked' /\ FilledInTurn'
<1>1. /\ UNCHANGED <<filling, points, whole, prev_angle, lost, angle, packets>>
      /\ UNCHANGED Owning
      /\ handling' \in {Loop, Ended}
  BY DEF HandleEnds, ProcessDifop, IgnoreMsop, inputVars, decodeVars, Owning
<1>2. ~AtSplit /\ handling # Ended
  BY Kinds DEF AtSplit, Decoding, HandleEnds, ProcessDifop, IgnoreMsop
<1>3. /\ filling # None /\ ~(filling \in whole /\ points[filling] = NoPoints)
      /\ UNCHANGED Begun
  BY <1>1, <1>2 DEF RsInv, FilledInTurn, Begun
<1>4. FilledInTurn'
  <2>0. angles_ready => angles_ready'
    BY DEF HandleEnds, ProcessDifop, IgnoreMsop, decodeVars
  <2>1. WaitForDifop /\ ~angles_ready' => ~Begun /\ whole = {}
    BY <2>0 DEF RsInv, FilledInTurn
  <2> QED
    BY <1>1, <1>3, <2>1 DEF RsInv, FilledInTurn
<1>5. ~InHand \/ ~Begun
  BY Kinds DEF InHand, HandleEnds, ProcessDifop, IgnoreMsop, RsInv, FilledInTurn
<1>6. ~InHand'
  BY <1>1, Kinds DEF InHand
<1>7. PacketsAreLinked'
  BY <1>1, <1>3, <1>5, <1>6 DEF RsInv, PacketsAreLinked
<1> QED
  BY <1>1, <1>4, <1>7

\* ... empties a cloud, ...
LEMMA ClearingKeepsTurns ==
  ASSUME RsInv, ClearCloud
  PROVE  PacketsAreLinked' /\ FilledInTurn'
<1>1. /\ UNCHANGED <<filling, handling, prev_angle, lost, angle, packets, angles_ready>>
      /\ filling # None /\ Decoding /\ whole' = whole \ {filling}
      /\ points' = [points EXCEPT ![filling] = NoPoints]
  BY DEF ClearCloud, inputVars
<1>2. points'[filling] = NoPoints
  BY <1>1, ToFillIsCloud DEF RsInv, RsTypeOK
<1>3. ~Begun' /\ filling' # None /\ filling' \notin whole'
  BY <1>1, <1>2 DEF Begun
<1>4. InHand /\ InHand' /\ (WaitForDifop => angles_ready')
  BY <1>1 DEF InHand, Decoding
<1>5. FilledInTurn'
  BY <1>1, <1>3, <1>4 DEF FilledInTurn
<1>6. PacketsAreLinked'
  BY <1>1, <1>3, <1>4 DEF RsInv, PacketsAreLinked
<1> QED
  BY <1>5, <1>6

\* ... splits it off, ...
LEMMA SplittingKeepsTurns ==
  ASSUME RsInv, SplitFrame
  PROVE  /\ PacketsAreLinked' /\ FilledInTurn'
         /\ filling \in whole' => points[filling] = <<0, Turn>> /\ UNCHANGED points
<1>1. /\ UNCHANGED <<handling, lost, angle, packets, angles_ready>>
      /\ filling # None /\ filling' = None /\ Decoding /\ prev_angle' = handling.angle
      /\ NewBlock(handling.angle) /\ points[filling] # NoPoints /\ whole' = WholeStill
      /\ points' = [points EXCEPT ![filling] = IF filling \in whole' THEN @ ELSE NoPoints]
  BY DEF SplitFrame, inputVars, Splits
<1>2. /\ filling \in Clouds /\ InHand /\ Begun /\ points \in [Clouds -> Angles \X (0 .. CloudPointMax + 1)]
      /\ handling.angle \in Angles /\ handling.follows \in BOOLEAN /\ prev_angle \in Angles
  BY <1>1, Kinds, ToFillIsCloud DEF InHand, Begun, Decoding, RsInv, RsTypeOK
<1>3. handling.angle < prev_angle
  BY <1>1, <1>2, RsAssumption DEF NewBlock, Angles
<1>4. handling.follows => handling.angle = 0 /\ prev_angle + 1 = Turn
  <2>1. handling.follows => handling.angle = NextAngle(prev_angle)
    BY <1>2 DEF RsInv, PacketsAreLinked
  <2>2. NextAngle(prev_angle) = IF prev_angle + 1 = Turn THEN 0 ELSE prev_angle + 1
    BY <1>2, AngleAfter
  <2> QED
    BY <1>2, <1>3, <2>1, <2>2 DEF Angles
<1>5. filling \in whole' => points[filling] = <<0, Turn>> /\ UNCHANGED points
  <2>1. filling \in whole' => handling.follows /\ filling \in whole
    BY <1>1, <1>2 DEF WholeStill
  <2>2. filling \in whole => points[filling] = <<0, prev_angle + 1>>
    BY <1>1 DEF RsInv, FilledInTurn
  <2>3. filling \in whole' => UNCHANGED points
    BY <1>1, <1>2
  <2> QED
    BY <1>4, <2>1, <2>2, <2>3
<1>6. InHand' /\ ~Begun' /\ AtSplit'
  BY <1>1, <1>2, <1>4 DEF InHand, Begun, AtSplit, Decoding
<1>7. None \notin Clouds
  BY DEF None, Clouds
<1>8. FilledInTurn'
  <2>1. filling' \notin whole'
    BY <1>1, <1>7 DEF RsInv, RsTypeOK, WholeStill
  <2>2. WaitForDifop => angles_ready'
    BY <1>1 DEF Decoding
  <2> QED
    BY <1>6, <2>1, <2>2 DEF FilledInTurn
<1>9. PacketsAreLinked'
  BY <1>1, <1>2, <1>6 DEF RsInv, PacketsAreLinked
<1> QED
  BY <1>5, <1>8, <1>9

\* ... gets another one, ...
LEMMA GettingKeepsTurns ==
  ASSUME RsInv, GetPointCloud
  PROVE  PacketsAreLinked' /\ FilledInTurn'
<1>1. /\ UNCHANGED <<handling, lost, angle, packets, angles_ready, prev_angle>>
      /\ filling = None /\ points' = [points EXCEPT ![filling'] = NoPoints]
  BY DEF GetPointCloud, inputVars
<1>2. filling' \in Clouds /\ filling' # None /\ points'[filling'] = NoPoints
  <2>1. filling' \in Clouds
    BY FreshCloud
  <2> QED
    BY <1>1, <2>1 DEF RsInv, RsTypeOK, None, Clouds
<1>3. AtSplit
  BY <1>1 DEF RsInv, FilledInTurn
<1>4. InHand /\ InHand' /\ AtSplit' /\ ~Begun' /\ (WaitForDifop => angles_ready')
  BY <1>1, <1>2, <1>3 DEF InHand, AtSplit, Begun, Decoding
<1>5. FilledInTurn'
  BY <1>2, <1>4 DEF FilledInTurn
<1>6. PacketsAreLinked'
  BY <1>1, <1>4 DEF RsInv, PacketsAreLinked
<1> QED
  BY <1>5, <1>6

\* ... and adds a block to it.
LEMMA AddingKeepsTurns ==
  ASSUME RsInv, AddPoints
  PROVE  /\ PacketsAreLinked' /\ FilledInTurn' /\ UNCHANGED <<filling, clouds, sending, unused>>
         /\ whole' \subseteq whole
         /\ \A c \in Clouds : c # filling => points'[c] = points[c]
<1> DEFINE a == handling.angle
           pts == points[filling]
<1>1. /\ UNCHANGED <<filling, lost, angle, packets, angles_ready, clouds, sending, unused>>
      /\ filling # None /\ Decoding /\ prev_angle' = a /\ handling' = Loop
      /\ ~Splits(a) /\ whole' = WholeStill
      /\ points' = [points EXCEPT ![filling] = IF @ = NoPoints THEN <<a, 1>> ELSE <<@[1], @[2] + 1>>]
  BY DEF AddPoints, inputVars, Fill
<1>2. /\ filling \in Clouds /\ InHand /\ points \in [Clouds -> Angles \X (0 .. CloudPointMax + 1)]
      /\ a \in Angles /\ handling.follows \in BOOLEAN /\ prev_angle \in Angles
      /\ handling # Ended
  BY <1>1, Kinds, ToFillIsCloud DEF InHand, Decoding, RsInv, RsTypeOK
<1>3. points'[filling] = IF pts = NoPoints THEN <<a, 1>> ELSE <<pts[1], pts[2] + 1>>
  BY <1>1, <1>2
<1>4. \A c \in Clouds : c # filling => points'[c] = points[c]
  BY <1>1, <1>2
<1>5. points'[filling] # NoPoints
  <2>1. pts[2] \in 0 .. CloudPointMax + 1
    BY <1>2
  <2>2. pts[2] + 1 # 0
    BY <2>1, RsAssumption
  <2> HIDE DEF pts, a
  <2>3. CASE pts = NoPoints
    BY <1>3, <2>3 DEF NoPoints
  <2>4. CASE pts # NoPoints
    BY <1>3, <2>2, <2>4 DEF NoPoints
  <2> QED
    BY <2>3, <2>4
<1>6. ASSUME filling \in whole'
      PROVE  points'[filling] = <<0, a + 1>>
  <2>1. filling \in whole /\ handling.follows
    BY <1>1, <1>2, <1>6 DEF WholeStill
  <2>2. CASE pts = NoPoints
    <3>1. a = 0
      BY <1>2, <2>1, <2>2 DEF RsInv, FilledInTurn, AtSplit
    <3>2. points'[filling] = <<a, 1>>
      BY <1>3, <2>2
    <3> QED
      BY <3>1, <3>2
  <2>3. CASE pts # NoPoints
    <3>1. pts = <<0, prev_angle + 1>> /\ Begun
      BY <1>1, <2>1, <2>3 DEF RsInv, FilledInTurn, Begun
    <3>2. a = NextAngle(prev_angle)
      BY <1>2, <2>1, <3>1 DEF RsInv, PacketsAreLinked
    <3>3. ~(a < prev_angle)
      BY <1>1, <1>2, <2>3, RsAssumption DEF Splits, NewBlock, Angles
    <3>4. NextAngle(prev_angle) = IF prev_angle + 1 = Turn THEN 0 ELSE prev_angle + 1
      BY <1>2, AngleAfter
    <3>5. prev_angle + 1 # Turn
      BY <1>2, <3>2, <3>3, <3>4, RsAssumption DEF Angles
    <3>6. a = prev_angle + 1
      BY <3>2, <3>4, <3>5
    <3>7. points'[filling] = <<pts[1], pts[2] + 1>>
      BY <1>3, <2>3
    <3> QED
      BY <3>1, <3>6, <3>7
  <2> QED
    BY <2>2, <2>3
<1>7. ~InHand' /\ filling' # None /\ (WaitForDifop => angles_ready')
  BY <1>1, Kinds DEF InHand, Decoding
<1>8. FilledInTurn'
  BY <1>1, <1>5, <1>6, <1>7 DEF FilledInTurn
<1>9. PacketsAreLinked'
  <2>1. Linked(packets, lost, angle) /\ GoesOn(a, 0, packets, lost, angle)
    BY <1>2 DEF RsInv, PacketsAreLinked
  <2> QED
    BY <1>1, <1>7, <2>1 DEF PacketsAreLinked
<1>10. whole' \subseteq whole
  BY <1>1 DEF WholeStill
<1> QED
  BY <1>1, <1>4, <1>8, <1>9, <1>10

\* The sending of clouds and the end are nothing to the cloud that is filled.
LEMMA SendingKeepsTurns ==
  ASSUME RsInv, SendThread \/ Stop
  PROVE  PacketsAreLinked' /\ FilledInTurn'
<1>1. UNCHANGED <<filling, handling, prev_angle, lost, angle, packets, angles_ready>>
      /\ whole' \subseteq whole
  BY DEF SendThread, TakeCloud, SendPointCloud, ProcessEnds, Stop, inputVars, decodeVars
<1>2. CASE UNCHANGED points
  <2>1. UNCHANGED <<InHand, Begun, AtSplit>>
    BY <1>1, <1>2 DEF InHand, Begun, AtSplit, Decoding
  <2> QED
    BY <1>1, <1>2, <2>1 DEF RsInv, PacketsAreLinked, FilledInTurn
<1>3. CASE SendPointCloud
  <2>1. /\ sending \in Clouds /\ whole' = whole \ {sending}
        /\ points' = [points EXCEPT ![sending] = NoPoints]
    BY <1>3 DEF SendPointCloud
  <2>2. filling # sending
    BY <2>1 DEF RsInv, OneOwner, HandedOver, None, Gone, Clouds
  <2>3. filling # None => points'[filling] = points[filling]
    BY <2>1, <2>2, ToFillIsCloud DEF RsInv, RsTypeOK
  <2>4. filling \in whole => filling # None
    BY DEF RsInv, RsTypeOK, Clouds, None
  <2>5. UNCHANGED <<InHand, Begun, AtSplit>>
    BY <1>1, <2>3 DEF InHand, Begun, AtSplit, Decoding
  <2>6. FilledInTurn'
    BY <1>1, <2>1, <2>3, <2>4, <2>5 DEF RsInv, FilledInTurn
  <2> QED
    BY <1>1, <2>5, <2>6 DEF RsInv, PacketsAreLinked
<1>4. ASSUME handling = Ended, points' = [points EXCEPT ![filling] = NoPoints]
      PROVE  PacketsAreLinked' /\ FilledInTurn'
  <2>1. ~InHand /\ ~InHand' /\ ~AtSplit /\ ~AtSplit'
    BY <1>1, <1>4, Kinds DEF InHand, AtSplit, Decoding
  <2>2. filling # None /\ points'[filling] = NoPoints
    BY <1>4, <2>1, ToFillIsCloud DEF RsInv, FilledInTurn, RsTypeOK
  <2>3. ~Begun'
    BY <1>1, <2>2 DEF Begun
  <2>4. FilledInTurn'
    BY <1>1, <1>4, <2>2, <2>3 DEF RsInv, FilledInTurn
  <2> QED
    BY <1>1, <2>1, <2>3, <2>4 DEF RsInv, PacketsAreLinked
<1> QED
  BY <1>2, <1>3, <1>4
     DEF SendThread, TakeCloud, ProcessEnds, Stop, decodeVars

\* A step on the cloud that is filled is nothing to those handed over.
LEMMA NothingHandedOver ==
  ASSUME RsInv, UNCHANGED <<filling, clouds, sending, unused>>, whole' \subseteq whole,
         \A c \in Clouds : c # filling => points'[c] = points[c]
  PROVE  HandedOverAreTurns' /\ OneOwner' /\ HandedOverCounted'
<1>1. HandedOver' = HandedOver
  BY DEF HandedOver
<1>2. filling \notin HandedOver /\ HandedOver \subseteq Clouds
  <2>1. ToSet(clouds) \subseteq Clouds
    BY DEF RsInv, RsTypeOK, ToSet
  <2> QED
    BY <2>1 DEF RsInv, RsTypeOK, OneOwner, HandedOver
<1>3. HandedOverAreTurns'
  BY <1>1, <1>2 DEF RsInv, HandedOverAreTurns
<1>4. OneOwner' /\ HandedOverCounted'
  BY <1>1 DEF RsInv, OneOwner, HandedOverCounted
<1> QED
  BY <1>3, <1>4

LEMMA SplittingHandsOver ==
  ASSUME RsInv, SplitFrame
  PROVE  HandedOverAreTurns' /\ OneOwner' /\ HandedOverCounted'
<1>1. /\ clouds' = Append(clouds, filling) /\ filling' = None /\ filling # None
      /\ UNCHANGED <<sending, unused>> /\ whole' \subseteq whole
      /\ points' = [points EXCEPT ![filling] = IF filling \in whole' THEN @ ELSE NoPoints]
  BY DEF SplitFrame, WholeStill
<1>2. /\ filling \in Clouds /\ clouds \in Seq(Clouds) /\ unused \subseteq Clouds
      /\ points \in [Clouds -> Angles \X (0 .. CloudPointMax + 1)]
      /\ sending \in Clouds \cup {None, Gone} /\ None \notin Clouds /\ Gone \notin Clouds
  BY <1>1, ToFillIsCloud DEF RsInv, RsTypeOK, None, Gone, Clouds
<1>3. /\ ToSet(clouds') = ToSet(clouds) \cup {filling} /\ ToSet(clouds) \subseteq Clouds
      /\ HandedOver' = HandedOver \cup {filling} /\ HandedOver \subseteq Clouds
      /\ Len(clouds') = Len(clouds) + 1 /\ Len(clouds) \in Nat
  <2>1. ToSet(clouds') = ToSet(clouds) \cup {filling} /\ ToSet(clouds) \subseteq Clouds
    BY <1>1, <1>2, QueueSets
  <2>2. Len(clouds') = Len(clouds) + 1 /\ Len(clouds) \in Nat
    BY <1>1, <1>2, AppendProperties
  <2> QED
    BY <1>1, <1>2, <2>1, <2>2 DEF HandedOver
<1>4. filling \notin HandedOver /\ filling \notin unused /\ filling # sending
      /\ filling \notin ToSet(clouds)
  BY <1>2 DEF RsInv, OneOwner, HandedOver
<1>5. OneOwner'
  <2>1. ASSUME NEW i \in 1 .. Len(clouds) + 1, NEW j \in 1 .. Len(clouds) + 1,
               clouds'[i] = clouds'[j]
        PROVE  i = j
    <3>1. /\ clouds'[Len(clouds) + 1] = filling
          /\ \A k \in 1 .. Len(clouds) : clouds'[k] = clouds[k] /\ clouds[k] \in ToSet(clouds)
      BY <1>1, <1>2, AppendProperties DEF ToSet
    <3>2. /\ i \in 1 .. Len(clouds) \/ i = Len(clouds) + 1
          /\ j \in 1 .. Len(clouds) \/ j = Len(clouds) + 1
      BY <1>3
    <3> QED
      BY <1>4, <2>1, <3>1, <3>2 DEF RsInv, OneOwner
  <2>2. sending' \notin ToSet(clouds')
    BY <1>1, <1>3, <1>4 DEF RsInv, OneOwner
  <2>3. filling' \notin HandedOver' \cup unused' /\ HandedOver' \cap unused' = {}
    BY <1>1, <1>2, <1>3, <1>4 DEF RsInv, OneOwner
  <2> QED
    BY <1>3, <2>1, <2>2, <2>3 DEF OneOwner
<1>6. HandedOverCounted'
  <2>1. IsFiniteSet(HandedOver)
        /\ Cardinality(HandedOver) = Len(clouds) + (IF sending \in Clouds THEN 1 ELSE 0)
    BY DEF RsInv, HandedOverCounted
  <2>2. /\ IsFiniteSet(HandedOver \cup {filling})
        /\ Cardinality(HandedOver \cup {filling}) = Cardinality(HandedOver) + 1
    BY <1>4, <2>1, FS_AddElement
  <2> QED
    BY <1>1, <1>3, <2>1, <2>2 DEF HandedOverCounted
<1>7. HandedOverAreTurns'
  <2> SUFFICES ASSUME NEW c \in HandedOver' \cap whole'
               PROVE  points'[c] = <<0, Turn>>
    BY DEF HandedOverAreTurns
  <2>1. CASE c = filling
    BY <2>1, SplittingKeepsTurns
  <2>2. CASE c # filling
    BY <1>1, <1>2, <1>3, <2>2 DEF RsInv, HandedOverAreTurns
  <2> QED
    BY <2>1, <2>2
<1> QED
  BY <1>5, <1>6, <1>7

LEMMA GettingHandsNothingOver ==
  ASSUME RsInv, GetPointCloud
  PROVE  HandedOverAreTurns' /\ OneOwner' /\ HandedOverCounted'
<1>1. /\ UNCHANGED <<clouds, sending>> /\ unused' = unused \ {filling'}
      /\ points' = [points EXCEPT ![filling'] = NoPoints] /\ whole' = whole \cup {filling'}
      /\ filling' \notin HandedOver
  BY FreshCloud DEF GetPointCloud
<1>2. HandedOver' = HandedOver
  BY <1>1 DEF HandedOver
<1>3. HandedOver \subseteq Clouds /\ points \in [Clouds -> Angles \X (0 .. CloudPointMax + 1)]
  <2>1. ToSet(clouds) \subseteq Clouds
    BY DEF RsInv, RsTypeOK, ToSet
  <2> QED
    BY <2>1 DEF RsInv, RsTypeOK, HandedOver
<1>4. HandedOverAreTurns'
  BY <1>1, <1>2, <1>3 DEF RsInv, HandedOverAreTurns
<1>5. OneOwner' /\ HandedOverCounted'
  BY <1>1, <1>2 DEF RsInv, OneOwner, HandedOverCounted
<1> QED
  BY <1>4, <1>5

LEMMA SendingHandsOn ==
  ASSUME RsInv, SendThread
  PROVE  HandedOverAreTurns' /\ OneOwner' /\ HandedOverCounted'
<1>1. /\ clouds \in Seq(Clouds) /\ unused \subseteq Clouds /\ None \notin Clouds /\ Gone \notin Clouds
      /\ points \in [Clouds -> Angles \X (0 .. CloudPointMax + 1)] /\ None # Gone
      /\ filling \in Clouds \cup {None}
  BY DEF RsInv, RsTypeOK, None, Gone, Clouds
<1>2. ToSet(clouds) \subseteq Clouds
  BY <1>1 DEF ToSet
<1>3. CASE TakeCloud
  <2>1. /\ sending = None /\ clouds # <<>> /\ sending' = Head(clouds) /\ clouds' = Tail(clouds)
        /\ UNCHANGED <<filling, points, whole, unused>>
    BY <1>3 DEF TakeCloud, decodeVars
  <2>2. /\ ToSet(clouds) = ToSet(clouds') \cup {sending'} /\ sending' \in Clouds
    <3>1. PICK c \in Clouds : c = Head(clouds)
      BY <1>1, <2>1, HeadTailProperties
    <3>2. ToSet(clouds) = ToSet(Tail(clouds)) \cup {Head(clouds)}
      BY <1>1, <2>1, <3>1, QueueSets
    <3> QED
      BY <2>1, <3>1, <3>2
  <2>3. HandedOver' = HandedOver
    BY <1>1, <1>2, <2>1, <2>2 DEF HandedOver
  <2>4. /\ Len(clouds') = Len(clouds) - 1 /\ Len(clouds) \in Nat /\ Len(clouds) > 0
        /\ \A i \in 1 .. Len(clouds) - 1 : clouds'[i] = clouds[i + 1]
        /\ DOMAIN clouds' = 1 .. Len(clouds) - 1 /\ sending' = clouds[1]
    BY <1>1, <2>1, HeadTailProperties
  <2>5. \A i, j \in 1 .. Len(clouds) : clouds[i] = clouds[j] => i = j
    BY DEF RsInv, OneOwner
  <2>6. ASSUME NEW i \in 1 .. Len(clouds) - 1
        PROVE  i + 1 \in 1 .. Len(clouds) /\ i + 1 # 1 /\ clouds'[i] # sending'
    <3>1. i + 1 \in 1 .. Len(clouds) /\ i + 1 # 1 /\ 1 \in 1 .. Len(clouds)
      BY <2>4
    <3> QED
      BY <2>4, <2>5, <3>1
  <2>7. sending' \notin ToSet(clouds')
    BY <2>4, <2>6 DEF ToSet
  <2>8. ASSUME NEW i \in 1 .. Len(clouds) - 1, NEW j \in 1 .. Len(clouds) - 1,
               clouds'[i] = clouds'[j]
        PROVE  i = j
    BY <2>4, <2>5, <2>6, <2>8
  <2>9. OneOwner'
    BY <2>1, <2>3, <2>4, <2>7, <2>8 DEF RsInv, OneOwner
  <2>10. HandedOverCounted'
    BY <1>1, <2>1, <2>2, <2>3, <2>4 DEF RsInv, HandedOverCounted
  <2>11. HandedOverAreTurns'
    BY <2>1, <2>3 DEF RsInv, HandedOverAreTurns
  <2> QED
    BY <2>9, <2>10, <2>11
<1>4. CASE SendPointCloud
  <2>1. /\ sending \in Clouds /\ sending' = None /\ unused' = unused \cup {sending}
        /\ points' = [points EXCEPT ![sending] = NoPoints] /\ whole' = whole \ {sending}
        /\ UNCHANGED <<filling, clouds>>
    BY <1>4 DEF SendPointCloud
  <2>2. HandedOver' = HandedOver \ {sending} /\ sending \in HandedOver /\ HandedOver \subseteq Clouds
    BY <1>1, <1>2, <2>1 DEF HandedOver, RsInv, OneOwner
  <2>3. OneOwner'
    BY <1>1, <1>2, <2>1, <2>2 DEF RsInv, OneOwner
  <2>4. HandedOverCounted'
    <3>1. IsFiniteSet(HandedOver) /\ Cardinality(HandedOver) = Len(clouds) + 1
      BY <2>1 DEF RsInv, HandedOverCounted
    <3>2. /\ IsFiniteSet(HandedOver \ {sending})
          /\ Cardinality(HandedOver \ {sending}) = Cardinality(HandedOver) - 1
      BY <2>2, <3>1, FS_RemoveElement
    <3>3. Len(clouds) \in Nat
      BY <1>1
    <3> QED
      BY <1>1, <2>1, <2>2, <3>1, <3>2, <3>3 DEF HandedOverCounted
  <2>5. HandedOverAreTurns'
    BY <1>1, <2>1, <2>2 DEF RsInv, HandedOverAreTurns
  <2> QED
    BY <2>3, <2>4, <2>5
<1>5. CASE ProcessEnds
  <2>1. /\ sending = None /\ sending' = Gone
        /\ UNCHANGED <<filling, points, whole, clouds, unused>>
    BY <1>5 DEF ProcessEnds, decodeVars
  <2>2. HandedOver' = HandedOver
    BY <2>1 DEF HandedOver
  <2>3. OneOwner' /\ HandedOverAreTurns'
    BY <1>1, <1>2, <2>1, <2>2 DEF RsInv, OneOwner, HandedOverAreTurns
  <2>4. HandedOverCounted'
    BY <1>1, <2>1, <2>2 DEF RsInv, HandedOverCounted
  <2> QED
    BY <2>3, <2>4
<1> QED
  BY <1>3, <1>4, <1>5 DEF SendThread

LEMMA RsInvKept == RsInv /\ [RsNext]_rsVars => RsInv'
<1> SUFFICES ASSUME RsInv, [RsNext]_rsVars
             PROVE  RsInv'
  OBVIOUS
<1> DEFINE Turns == PacketsAreLinked /\ FilledInTurn
           Owners == HandedOverAreTurns /\ OneOwner /\ HandedOverCounted
<1>1. CASE UNCHANGED rsVars
  BY <1>1 DEF rsVars, inputVars, decodeVars, RsInv, RsTypeOK, RoomInQueue, PacketsAreLinked, InHand,
              Begun, FilledInTurn, AtSplit, Decoding, HandedOverAreTurns, HandedOver, OneOwner,
              HandedOverCounted
<1>2. CASE RsNext
  <2>1. RsTypeOK' /\ RoomInQueue'
    BY <1>2, RsTypesKept
  <2>2. CASE RecvPacket \/ Overflow \/ ReceiveEnds
    <3>1. UNCHANGED <<Filling, Owning>> /\ PacketsAreLinked'
      BY <2>2, ReceivingKeepsTurns
    <3>2. FilledInTurn'
      BY <3>1 DEF Filling, RsInv, FilledInTurn, AtSplit, Decoding, Begun
    <3>3. Owners'
      BY <3>1, NothingHandedOver DEF Owning
    <3> QED
      BY <2>1, <3>1, <3>2, <3>3 DEF RsInv
  <2>3. CASE TakePacket \/ HandleEnds \/ ProcessDifop \/ IgnoreMsop
    <3>1. UNCHANGED Owning /\ Turns'
      BY <2>3, TakingKeepsTurns, IdlingKeepsTurns
    <3>2. Owners'
      BY <3>1, NothingHandedOver DEF Owning
    <3> QED
      BY <2>1, <3>1, <3>2 DEF RsInv
  <2>4. CASE ClearCloud
    <3>1. /\ UNCHANGED <<filling, clouds, sending, unused>> /\ whole' \subseteq whole
          /\ \A c \in Clouds : c # filling => points'[c] = points[c]
      BY <2>4 DEF ClearCloud, RsInv, RsTypeOK
    <3>2. Owners'
      BY <3>1, NothingHandedOver
    <3> QED
      BY <2>1, <2>4, <3>2, ClearingKeepsTurns DEF RsInv
  <2>5. CASE SplitFrame
    BY <2>1, <2>5, SplittingKeepsTurns, SplittingHandsOver DEF RsInv
  <2>6. CASE GetPointCloud
    BY <2>1, <2>6, GettingKeepsTurns, GettingHandsNothingOver DEF RsInv
  <2>7. CASE AddPoints
    <3>1. /\ PacketsAreLinked' /\ FilledInTurn' /\ UNCHANGED <<filling, clouds, sending, unused>>
          /\ whole' \subseteq whole
          /\ \A c \in Clouds : c # filling => points'[c] = points[c]
      BY <2>7, AddingKeepsTurns
    <3>2. Owners'
      BY <3>1, NothingHandedOver
    <3> QED
      BY <2>1, <3>1, <3>2 DEF RsInv
  <2>8. CASE SendThread
    BY <2>1, <2>8, SendingKeepsTurns, SendingHandsOn DEF RsInv
  <2>9. CASE Stop
    <3>1. /\ UNCHANGED <<filling, clouds, sending, unused>> /\ whole' \subseteq whole
          /\ \A c \in Clouds : c # filling => points'[c] = points[c]
      BY <2>9 DEF Stop, RsInv, RsTypeOK
    <3>2. Owners'
      BY <3>1, NothingHandedOver
    <3> QED
      BY <2>1, <2>9, <3>2, SendingKeepsTurns DEF RsInv
  <2> QED
    BY <1>2, <2>2, <2>3, <2>4, <2>5, <2>6, <2>7, <2>8, <2>9 DEF RsNext, HandleThread
<1> QED
  BY <1>1, <1>2

\* The types of RsDriver, among them the bounds of the queue and of the clouds
\* (PACKET_POOL_MAX in lidar_driver_impl.hpp, CLOUD_POINT_MAX in decoder.hpp).
THEOREM RsTypes == RsSpec => []RsTypeOK
<1>1. RsInv => RsTypeOK
  BY DEF RsInv
<1> QED
  BY RsInvInit, RsInvKept, <1>1, PTL DEF RsSpec

\* WholeCloudsAreTurns: however packets are lost, thrown away or ignored, and
\* however the three threads interleave, a cloud split off without a gap is one
\* turn from the split angle on (splitFrame, SplitStrategyByAngle), and a cloud
\* has one owner until it has been sent (getPointCloud, processPointCloud).
THEOREM CloudsAreTurns == RsSpec => []WholeCloudsAreTurns
<1>1. RsInv => WholeCloudsAreTurns
  BY DEF RsInv, WholeCloudsAreTurns, HandedOverAreTurns, OneOwner, HandedOverCounted
<1> QED
  BY RsInvInit, RsInvKept, <1>1, PTL DEF RsSpec

-----------------------------------------------------------------------------
(* Two scans that belong together are fused                                *)

\* One turn of the matching loop, when g says what comes out of the turns after it.
Round(front, rear, g, p) ==
  LET i == p[1]
      j == p[2]
  IN  IF i > Len(front) \/ j > Len(rear)
      THEN [front |-> SubSeq(front, i, Len(front)), rear |-> SubSeq(rear, j, Len(rear)),
            pairs |-> <<>>]
      ELSE LET f == front[i]
               r == rear[j]
           IN  IF InSync(f, r)
               THEN [g[<<i + 1, j + 1>>] EXCEPT !.pairs =
                       IF FieldsMatch(f, r) THEN <<<<f, r>>>> \o @ ELSE @]
               ELSE IF Older(f, r) = "front" THEN g[<<i + 1, j>>] ELSE g[<<i, j + 1>>]

Rounds(front, rear) == (1 .. Len(front) + 1) \X (1 .. Len(rear) + 1)

IsRest(g, front, rear) == g = [p \in Rounds(front, rear) |-> Round(front, rear, g, p)]

\* matchAndPublish() is what the turns from the heads on come to, if there is a function
\* that says so.
LEMMA MatchIsRest ==
  ASSUME NEW front, NEW rear, \E g : IsRest(g, front, rear)
  PROVE  \E g : /\ \A p \in Rounds(front, rear) : g[p] = Round(front, rear, g, p)
               /\ MatchAndPublish(front, rear) = g[<<1, 1>>]
<1> DEFINE P(g) == IsRest(g, front, rear)
<1>1. P(CHOOSE g : P(g))
  OBVIOUS
<1>2. MatchAndPublish(front, rear) = (CHOOSE g : P(g))[<<1, 1>>]
  BY DEF MatchAndPublish, IsRest, Round, Rounds
<1> DEFINE h == CHOOSE g : P(g)
<1> HIDE DEF h
<1>3. P(h) /\ MatchAndPublish(front, rear) = h[<<1, 1>>]
  BY <1>1, <1>2 DEF h
<1>4. ASSUME NEW p \in Rounds(front, rear) PROVE h[p] = Round(front, rear, h, p)
  <2> DEFINE k == [x \in Rounds(front, rear) |-> Round(front, rear, h, x)]
  <2>1. k[p] = Round(front, rear, h, p)
    OBVIOUS
  <2>2. h = k
    BY <1>3 DEF IsRest
  <2> HIDE DEF k
  <2>3. QED
    BY <2>1, <2>2
<1>5. QED
  BY <1>3, <1>4

\* There is one: each turn looks only at turns with less left of the queues.
LEMMA RestExists ==
  ASSUME NEW front, NEW rear, Len(front) \in Nat, Len(rear) \in Nat
  PROVE  \E g : IsRest(g, front, rear)
<1> DEFINE D == Rounds(front, rear)
           Left(p) == (Len(front) - p[1]) + (Len(rear) - p[2]) + 2
           Upto(k, g) == \A p \in D : Left(p) <= k => g[p] = Round(front, rear, g, p)
           T == {k \in Nat : \E g : g = [p \in D |-> g[p]] /\ Upto(k, g)}
<1>0. \A k \in Nat : k \in T <=> \E g : g = [p \in D |-> g[p]] /\ Upto(k, g)
  OBVIOUS
<1>num. \A p \in D : Left(p) \in Nat /\ Left(p) <= Len(front) + Len(rear)
  BY DEF Rounds
\* A turn looks at later turns only.
<1>1. ASSUME NEW g, NEW h, NEW p \in D, \A q \in D : Left(q) < Left(p) => g[q] = h[q]
      PROVE  Round(front, rear, g, p) = Round(front, rear, h, p)
  <2> DEFINE i == p[1]
             j == p[2]
  <2>0. i \in 1 .. Len(front) + 1 /\ j \in 1 .. Len(rear) + 1
    BY DEF Rounds
  <2>1. CASE i > Len(front) \/ j > Len(rear)
    BY <2>1 DEF Round
  <2>2. CASE ~(i > Len(front) \/ j > Len(rear))
    <3>1. \A q \in {<<i + 1, j + 1>>, <<i + 1, j>>, <<i, j + 1>>} : q \in D /\ Left(q) < Left(p)
      <4>1. i + 1 \in 1 .. Len(front) + 1 /\ j + 1 \in 1 .. Len(rear) + 1
        BY <2>0, <2>2
      <4>2. <<i + 1, j + 1>> \in D /\ <<i + 1, j>> \in D /\ <<i, j + 1>> \in D
        BY <2>0, <4>1 DEF Rounds
      <4>3. /\ Left(<<i + 1, j + 1>>) < Left(p) /\ Left(<<i + 1, j>>) < Left(p)
            /\ Left(<<i, j + 1>>) < Left(p)
        <5>1. /\ Left(p) = (Len(front) - i) + (Len(rear) - j) + 2
              /\ \A x, y : Left(<<x, y>>) = (Len(front) - x) + (Len(rear) - y) + 2
          OBVIOUS
        <5> HIDE DEF Left, i, j
        <5>2. QED
          BY <2>0, <5>1
      <4>4. QED
        BY <4>2, <4>3
    <3>2. \A q \in {<<i + 1, j + 1>>, <<i + 1, j>>, <<i, j + 1>>} : g[q] = h[q]
      BY <1>1, <3>1
    <3>3. QED
      BY <2>2, <3>2 DEF Round
  <2>3. QED
    BY <2>1, <2>2
<1> HIDE DEF T, D, Left
<1>2. ASSUME NEW k \in Nat, NEW g, \A p \in D : Left(p) < k => g[p] = Round(front, rear, g, p)
      PROVE  k \in T
  <2> DEFINE h == [p \in D |-> IF Left(p) < k THEN g[p] ELSE Round(front, rear, g, p)]
  <2>1. \A p \in D : h[p] = IF Left(p) < k THEN g[p] ELSE Round(front, rear, g, p)
    OBVIOUS
  <2>2. h = [p \in D |-> h[p]]
    OBVIOUS
  <2> HIDE DEF h
  <2>3. ASSUME NEW p \in D, Left(p) <= k PROVE h[p] = Round(front, rear, h, p)
    <3>1. \A q \in D : Left(q) < Left(p) => h[q] = g[q]
      <4> SUFFICES ASSUME NEW q \in D, Left(q) < Left(p) PROVE h[q] = g[q]
        OBVIOUS
      <4>1. Left(q) < k
        BY <1>num, <2>3
      <4>2. QED
        BY <2>1, <4>1
    <3>2. Round(front, rear, h, p) = Round(front, rear, g, p)
      BY <1>1, <3>1
    <3>3. h[p] = Round(front, rear, g, p)
      BY <1>2, <2>1
    <3>4. QED
      BY <3>2, <3>3
  <2>4. QED
    BY <1>0, <2>2, <2>3
<1>3. 0 \in T
  <2>1. \A p \in D : ~(Left(p) < 0)
    BY <1>num
  <2>2. QED
    BY <1>2, <2>1
<1>4. ASSUME NEW k \in Nat, k \in T PROVE k + 1 \in T
  <2>1. PICK g : Upto(k, g)
    BY <1>0, <1>4
  <2>2. \A p \in D : Left(p) < k + 1 => g[p] = Round(front, rear, g, p)
    <3> SUFFICES ASSUME NEW p \in D, Left(p) < k + 1 PROVE g[p] = Round(front, rear, g, p)
      OBVIOUS
    <3>1. Left(p) <= k
      BY <1>num
    <3>2. QED
      BY <2>1, <3>1
  <2>3. QED
    BY <1>2, <2>2
<1>5. Nat \subseteq T
  BY <1>3, <1>4, SetInduction
<1>6. Len(front) + Len(rear) \in T /\ Len(front) + Len(rear) \in Nat
  BY <1>5
<1>7. PICK g : g = [p \in D |-> g[p]] /\ Upto(Len(front) + Len(rear), g)
  BY <1>0, <1>6
<1>8. \A p \in D : g[p] = Round(front, rear, g, p)
  BY <1>7, <1>num
<1>9. g = [p \in D |-> Round(front, rear, g, p)]
  BY <1>7, <1>8
<1>10. QED
  BY <1>9 DEF IsRest, D

Outcome == [front : Seq(CloudOf), rear : Seq(CloudOf), pairs : Seq(CloudOf \X CloudOf)]

\* From i and j on, the queues keep what they have from a and b on, and each scan
\* before has met one of the other LiDAR that is as new, or almost.
Keeps(done, front, rear, i, j, a, b) ==
  /\ a \in i .. Len(front) + 1 /\ b \in j .. Len(rear) + 1
  /\ a = Len(front) + 1 \/ b = Len(rear) + 1
  /\ done.front = SubSeq(front, a, Len(front))
  /\ done.rear = SubSeq(rear, b, Len(rear))
  /\ \A k \in i .. a - 1 : \E m \in 1 .. Len(rear) : rear[m].stamp >= front[k].stamp - MaxSyncDiff
  /\ \A m \in j .. b - 1 : \E k \in 1 .. Len(front) : front[k].stamp >= rear[m].stamp - MaxSyncDiff

\* So it is for every outcome of the loop.
LEMMA MatchOutcome ==
  ASSUME NEW front \in Seq(CloudOf), NEW rear \in Seq(CloudOf), NEW g,
         \A p \in Rounds(front, rear) : g[p] = Round(front, rear, g, p)
  PROVE  \A p \in Rounds(front, rear) :
           g[p] \in Outcome /\ \E a, b : Keeps(g[p], front, rear, p[1], p[2], a, b)
<1> DEFINE F == Len(front)
           R == Len(rear)
           Good(i, j) == /\ g[<<i, j>>] \in Outcome
                         /\ \E a, b : Keeps(g[<<i, j>>], front, rear, i, j, a, b)
           T == {k \in Nat : \A i \in 1 .. F + 1, j \in 1 .. R + 1 :
                               (F - i) + (R - j) + 2 <= k => Good(i, j)}
<1>0. \A k \in Nat : k \in T <=> \A i \in 1 .. F + 1, j \in 1 .. R + 1 :
                                   (F - i) + (R - j) + 2 <= k => Good(i, j)
  OBVIOUS
<1>num. F \in Nat /\ R \in Nat /\ F = Len(front) /\ R = Len(rear) /\ MaxSyncDiff \in Nat
  BY FusionAssumption
<1>el. /\ \A i \in 1 .. F : front[i] \in CloudOf
       /\ \A j \in 1 .. R : rear[j] \in CloudOf
       /\ \A s \in CloudOf : s.stamp \in Int
  <2>1. \A s \in CloudOf : s.stamp \in 0 .. MaxScanStamp
    BY DEF CloudOf
  <2>2. 0 .. MaxScanStamp \subseteq Int
    BY FusionAssumption
  <2>3. QED
    BY <2>1, <2>2
<1> HIDE DEF T, F, R
\* The end of one queue.
<1>1. ASSUME NEW i \in 1 .. F + 1, NEW j \in 1 .. R + 1, i > F \/ j > R PROVE Good(i, j)
  <2>1. g[<<i, j>>] = [front |-> SubSeq(front, i, F), rear |-> SubSeq(rear, j, R), pairs |-> <<>>]
    <3>1. g[<<i, j>>] = Round(front, rear, g, <<i, j>>)
      BY <1>num DEF Rounds
    <3>2. QED
      BY <1>1, <3>1 DEF Round, F, R
  <2>2. SubSeq(front, i, F) \in Seq(CloudOf) /\ SubSeq(rear, j, R) \in Seq(CloudOf)
    BY <1>num
  <2>3. <<>> \in Seq(CloudOf \X CloudOf)
    OBVIOUS
  <2>4. g[<<i, j>>] \in Outcome
    BY <2>1, <2>2, <2>3 DEF Outcome
  <2>5. Keeps(g[<<i, j>>], front, rear, i, j, i, j)
    <3>1. i = F + 1 \/ j = R + 1
      BY <1>1, <1>num
    <3>2. i .. i - 1 = {} /\ j .. j - 1 = {} /\ i \in i .. F + 1 /\ j \in j .. R + 1
      OBVIOUS
    <3>3. g[<<i, j>>].front = SubSeq(front, i, F) /\ g[<<i, j>>].rear = SubSeq(rear, j, R)
      <4> DEFINE u == SubSeq(front, i, F)
                 v == SubSeq(rear, j, R)
      <4>1. g[<<i, j>>] = [front |-> u, rear |-> v, pairs |-> <<>>]
        BY <2>1
      <4> HIDE DEF u, v
      <4>2. g[<<i, j>>].front = u /\ g[<<i, j>>].rear = v
        BY <4>1
      <4>3. QED
        BY <4>2 DEF u, v
    <3>4. QED
      BY <3>1, <3>2, <3>3 DEF Keeps, F, R
  <2>6. QED
    BY <2>4, <2>5
<1>2. ASSUME NEW k \in Nat, \A i \in 1 .. F + 1, j \in 1 .. R + 1 :
                              (F - i) + (R - j) + 2 < k => Good(i, j)
      PROVE  k \in T
  <2> SUFFICES ASSUME NEW i \in 1 .. F + 1, NEW j \in 1 .. R + 1, (F - i) + (R - j) + 2 <= k
               PROVE  Good(i, j)
    BY <1>0
  <2> HIDE DEF Good
  <2> SUFFICES ASSUME i <= F, j <= R PROVE Good(i, j)
    BY <1>1, <1>num
  <2> DEFINE f == front[i]
             r == rear[j]
  <2>1. /\ i + 1 \in 1 .. F + 1 /\ j + 1 \in 1 .. R + 1 /\ i \in 1 .. F /\ j \in 1 .. R
        /\ Good(i + 1, j + 1) /\ Good(i + 1, j) /\ Good(i, j + 1)
    <3>1. i + 1 \in 1 .. F + 1 /\ j + 1 \in 1 .. R + 1 /\ i \in 1 .. F /\ j \in 1 .. R
      BY <1>num
    <3>2. /\ (F - (i + 1)) + (R - (j + 1)) + 2 < k /\ (F - (i + 1)) + (R - j) + 2 < k
          /\ (F - i) + (R - (j + 1)) + 2 < k
      BY <1>num
    <3>3. QED
      BY <1>2, <3>1, <3>2
  <2>2. f \in CloudOf /\ r \in CloudOf /\ f.stamp \in Int /\ r.stamp \in Int
    BY <1>el, <2>1
  <2>3. /\ InSync(f, r) => g[<<i, j>>] = [g[<<i + 1, j + 1>>] EXCEPT !.pairs =
                                            IF FieldsMatch(f, r) THEN <<<<f, r>>>> \o @ ELSE @]
        /\ ~InSync(f, r) => g[<<i, j>>] = IF f.stamp < r.stamp
                                          THEN g[<<i + 1, j>>] ELSE g[<<i, j + 1>>]
    <3>1. g[<<i, j>>] = Round(front, rear, g, <<i, j>>)
      BY <1>num DEF Rounds
    <3>2. ~(i > F \/ j > R)
      BY <1>num, <2>1
    <3>3. QED
      BY <3>1, <3>2 DEF Round, Older, F, R, f, r
  <2> HIDE DEF f, r
\* Whatever is passed over has met the scan the loop is at on the other side.
  <2>4. ASSUME NEW x \in {i, i + 1}, NEW y \in {j, j + 1}, NEW a, NEW b, NEW q,
               Keeps(q, front, rear, x, y, a, b),
               x = i + 1 => r.stamp >= f.stamp - MaxSyncDiff,
               y = j + 1 => f.stamp >= r.stamp - MaxSyncDiff
        PROVE  Keeps(q, front, rear, i, j, a, b)
    <3>1. /\ a \in x .. F + 1 /\ b \in y .. R + 1 /\ (a = F + 1 \/ b = R + 1)
          /\ q.front = SubSeq(front, a, F) /\ q.rear = SubSeq(rear, b, R)
          /\ \A z \in x .. a - 1 : \E m \in 1 .. R : rear[m].stamp >= front[z].stamp - MaxSyncDiff
          /\ \A m \in y .. b - 1 : \E z \in 1 .. F : front[z].stamp >= rear[m].stamp - MaxSyncDiff
      BY <1>num, <2>4 DEF Keeps
    <3>2. a \in i .. F + 1 /\ b \in j .. R + 1
      <4>1. x \in Int /\ y \in Int /\ i <= x /\ j <= y
        OBVIOUS
      <4>2. a \in x .. F + 1 /\ b \in y .. R + 1
        BY <1>num, <2>4, Zenon DEF Keeps
      <4>3. QED
        BY <1>num, <4>1, <4>2
    <3>3. ASSUME NEW z \in i .. a - 1
          PROVE  \E m \in 1 .. R : rear[m].stamp >= front[z].stamp - MaxSyncDiff
      <4>1. CASE z \in x .. a - 1
        BY <3>1, <4>1
      <4>2. CASE z \notin x .. a - 1
        <5>1. z = i /\ x = i + 1
          BY <3>1, <4>2
        <5>2. rear[j].stamp >= front[z].stamp - MaxSyncDiff
          BY <2>4, <5>1 DEF f, r
        <5>3. QED
          BY <2>1, <5>2
      <4>3. QED
        BY <4>1, <4>2
    <3>4. ASSUME NEW m \in j .. b - 1
          PROVE  \E z \in 1 .. F : front[z].stamp >= rear[m].stamp - MaxSyncDiff
      <4>1. CASE m \in y .. b - 1
        BY <3>1, <4>1
      <4>2. CASE m \notin y .. b - 1
        <5>1. m = j /\ y = j + 1
          BY <3>1, <4>2
        <5>2. front[i].stamp >= rear[m].stamp - MaxSyncDiff
          BY <2>4, <5>1 DEF f, r
        <5>3. QED
          BY <2>1, <5>2
      <4>3. QED
        BY <4>1, <4>2
    <3>5. QED
      BY <1>num, <3>1, <3>2, <3>3, <3>4 DEF Keeps
  <2>5. CASE InSync(f, r)
    <3> DEFINE q == g[<<i + 1, j + 1>>]
    <3>1. r.stamp >= f.stamp - MaxSyncDiff /\ f.stamp >= r.stamp - MaxSyncDiff
      <4>1. f.stamp - r.stamp \in -MaxSyncDiff .. MaxSyncDiff
        BY <2>5 DEF InSync
      <4>2. QED
        BY <1>num, <2>2, <4>1
    <3>2. PICK a, b : Keeps(q, front, rear, i + 1, j + 1, a, b)
      BY <2>1 DEF Good
    <3>3. q \in Outcome
      BY <2>1 DEF Good
    <3>4. Keeps(q, front, rear, i, j, a, b)
      BY <2>4, <3>1, <3>2
    <3>5. <<<<f, r>>>> \o q.pairs \in Seq(CloudOf \X CloudOf)
      <4>1. <<<<f, r>>>> \in Seq(CloudOf \X CloudOf) /\ q.pairs \in Seq(CloudOf \X CloudOf)
        BY <2>2, <3>3 DEF Outcome
      <4>2. QED
        BY <4>1, ConcatProperties
    <3> HIDE DEF q
    <3>6. g[<<i, j>>] = [q EXCEPT !.pairs = IF FieldsMatch(f, r) THEN <<<<f, r>>>> \o @ ELSE @]
      BY <2>3, <2>5 DEF q
    <3>7. /\ g[<<i, j>>] \in Outcome
          /\ g[<<i, j>>].front = q.front /\ g[<<i, j>>].rear = q.rear
      BY <3>3, <3>5, <3>6 DEF Outcome
    <3>8. Keeps(g[<<i, j>>], front, rear, i, j, a, b)
      BY <3>4, <3>7 DEF Keeps
    <3>9. QED
      BY <3>7, <3>8 DEF Good
  <2>6. CASE ~InSync(f, r) /\ f.stamp < r.stamp
    <3> DEFINE q == g[<<i + 1, j>>]
    <3>1. r.stamp >= f.stamp - MaxSyncDiff /\ i # i + 1 /\ j # j + 1
      BY <1>num, <2>2, <2>6
    <3>2. PICK a, b : Keeps(q, front, rear, i + 1, j, a, b)
      BY <2>1 DEF Good
    <3>3. Keeps(q, front, rear, i, j, a, b)
      BY <2>4, <3>1, <3>2
    <3>4. g[<<i, j>>] = q /\ q \in Outcome
      BY <2>1, <2>3, <2>6 DEF Good
    <3>5. QED
      BY <3>3, <3>4 DEF Good
  <2>7. CASE ~InSync(f, r) /\ ~(f.stamp < r.stamp)
    <3> DEFINE q == g[<<i, j + 1>>]
    <3>1. f.stamp >= r.stamp - MaxSyncDiff /\ i # i + 1 /\ j # j + 1
      BY <1>num, <2>2, <2>7
    <3>2. PICK a, b : Keeps(q, front, rear, i, j + 1, a, b)
      BY <2>1 DEF Good
    <3>3. Keeps(q, front, rear, i, j, a, b)
      BY <2>4, <3>1, <3>2
    <3>4. g[<<i, j>>] = q /\ q \in Outcome
      BY <2>1, <2>3, <2>7 DEF Good
    <3>5. QED
      BY <3>3, <3>4 DEF Good
  <2>8. QED
    BY <2>5, <2>6, <2>7
<1> HIDE DEF Good
<1>3. 0 \in T
  <2>1. \A i \in 1 .. F + 1, j \in 1 .. R + 1 : ~((F - i) + (R - j) + 2 < 0)
    BY <1>num
  <2>2. QED
    BY <1>2, <2>1
<1>4. ASSUME NEW k \in Nat, k \in T PROVE k + 1 \in T
  <2>1. \A i \in 1 .. F + 1, j \in 1 .. R + 1 : (F - i) + (R - j) + 2 < k + 1 => Good(i, j)
    <3> SUFFICES ASSUME NEW i \in 1 .. F + 1, NEW j \in 1 .. R + 1, (F - i) + (R - j) + 2 < k + 1
                 PROVE  Good(i, j)
      OBVIOUS
    <3>1. (F - i) + (R - j) + 2 <= k
      BY <1>num
    <3>2. QED
      BY <1>0, <1>4, <3>1
  <2>2. QED
    BY <1>2, <2>1
<1>5. Nat \subseteq T
  BY <1>3, <1>4, SetInduction
<1>6. ASSUME NEW i \in 1 .. F + 1, NEW j \in 1 .. R + 1 PROVE Good(i, j)
  <2>1. (F - i) + (R - j) + 2 \in Nat
    BY <1>num
  <2>2. (F - i) + (R - j) + 2 \in T
    BY <1>5, <2>1
  <2>3. (F - i) + (R - j) + 2 <= (F - i) + (R - j) + 2
    BY <2>1
  <2>4. QED
    BY <1>0, <2>1, <2>2, <2>3
<1>7. ASSUME NEW p \in Rounds(front, rear)
      PROVE  g[p] \in Outcome /\ \E a, b : Keeps(g[p], front, rear, p[1], p[2], a, b)
  <2>1. p[1] \in 1 .. F + 1 /\ p[2] \in 1 .. R + 1 /\ p = <<p[1], p[2]>>
    BY <1>num DEF Rounds
  <2>2. Good(p[1], p[2])
    BY <1>6, <2>1
  <2>3. QED
    BY <2>1, <2>2 DEF Good
<1>8. QED
  BY <1>7

\* Stamps of one LiDAR are a period apart.
InOrder(s) == \A m, n \in 1 .. Len(s) : m < n => s[m].stamp + Period <= s[n].stamp

Paired(done, f, r) == \E n \in DOMAIN done.pairs : done.pairs[n] = <<f, r>>

\* Two scans that are in sync and fit are met in one turn: whichever of them is
\* reached first waits for the other, for all that comes before that is too old.
LEMMA MatchFinds ==
  ASSUME NEW front \in Seq(CloudOf), NEW rear \in Seq(CloudOf), InOrder(front), InOrder(rear),
         NEW g, \A p \in Rounds(front, rear) : g[p] \in Outcome /\ g[p] = Round(front, rear, g, p),
         NEW a \in 1 .. Len(front), NEW b \in 1 .. Len(rear),
         InSync(front[a], rear[b]), FieldsMatch(front[a], rear[b])
  PROVE  Paired(g[<<1, 1>>], front[a], rear[b])
<1> DEFINE F == Len(front)
           R == Len(rear)
           Good(i, j) == Paired(g[<<i, j>>], front[a], rear[b])
           T == {k \in Nat : \A i \in 1 .. a, j \in 1 .. b : (a - i) + (b - j) <= k => Good(i, j)}
<1>0. \A k \in Nat :
        k \in T <=> \A i \in 1 .. a, j \in 1 .. b : (a - i) + (b - j) <= k => Good(i, j)
  OBVIOUS
<1>num. /\ F \in Nat /\ R \in Nat /\ a \in 1 .. F /\ b \in 1 .. R
        /\ MaxSyncDiff \in Nat /\ Period \in Nat /\ Period > 2 * MaxSyncDiff
  BY FusionAssumption
<1>el. /\ \A i \in 1 .. F : front[i] \in CloudOf /\ front[i].stamp \in Int
       /\ \A j \in 1 .. R : rear[j] \in CloudOf /\ rear[j].stamp \in Int
  <2>1. \A s \in CloudOf : s.stamp \in 0 .. MaxScanStamp
    BY DEF CloudOf
  <2>2. 0 .. MaxScanStamp \subseteq Int
    BY FusionAssumption
  <2>3. QED
    BY <2>1, <2>2
<1>ord. /\ \A m, n \in 1 .. F : m < n => front[m].stamp + Period <= front[n].stamp
        /\ \A m, n \in 1 .. R : m < n => rear[m].stamp + Period <= rear[n].stamp
  BY DEF InOrder
<1>meet. /\ front[a].stamp - rear[b].stamp <= MaxSyncDiff
         /\ rear[b].stamp - front[a].stamp <= MaxSyncDiff
         /\ front[a].stamp \in Int /\ rear[b].stamp \in Int
  <2>1. front[a].stamp - rear[b].stamp \in -MaxSyncDiff .. MaxSyncDiff
    BY DEF InSync
  <2>2. QED
    BY <1>num, <1>el, <2>1
<1>turn. ASSUME NEW i \in 1 .. a, NEW j \in 1 .. b
         PROVE  /\ InSync(front[i], rear[j]) =>
                     g[<<i, j>>] = [g[<<i + 1, j + 1>>] EXCEPT !.pairs =
                                      IF FieldsMatch(front[i], rear[j])
                                      THEN <<<<front[i], rear[j]>>>> \o @ ELSE @]
                /\ ~InSync(front[i], rear[j]) =>
                     g[<<i, j>>] = IF front[i].stamp < rear[j].stamp
                                   THEN g[<<i + 1, j>>] ELSE g[<<i, j + 1>>]
                /\ g[<<i + 1, j + 1>>] \in Outcome
  <2>1. /\ i \in 1 .. F + 1 /\ j \in 1 .. R + 1 /\ ~(i > F \/ j > R)
        /\ i + 1 \in 1 .. F + 1 /\ j + 1 \in 1 .. R + 1
    BY <1>num
  <2>2. <<i, j>> \in Rounds(front, rear) /\ <<i + 1, j + 1>> \in Rounds(front, rear)
    BY <2>1 DEF Rounds
  <2>3. g[<<i, j>>] = Round(front, rear, g, <<i, j>>) /\ g[<<i + 1, j + 1>>] \in Outcome
    BY <2>2
  <2>4. QED
    BY <2>1, <2>3 DEF Round, Older
<1> HIDE DEF T, F, R
\* A pair in front of others is there, and so are the others.
<1>1. ASSUME NEW q \in Outcome, NEW f \in CloudOf, NEW r \in CloudOf, NEW d,
             d = [q EXCEPT !.pairs = IF FieldsMatch(f, r) THEN <<<<f, r>>>> \o @ ELSE @]
      PROVE  /\ FieldsMatch(f, r) => Paired(d, f, r)
             /\ Paired(q, front[a], rear[b]) => Paired(d, front[a], rear[b])
  <2> DEFINE s == q.pairs
             t == <<<<f, r>>>> \o s
  <2>1. s \in Seq(CloudOf \X CloudOf)
    BY DEF Outcome
  <2>2. <<<<f, r>>>> \in Seq(CloudOf \X CloudOf) /\ Len(<<<<f, r>>>>) = 1
    OBVIOUS
  <2>3. /\ t \in Seq(CloudOf \X CloudOf) /\ Len(t) = 1 + Len(s)
        /\ \A n \in 1 .. 1 + Len(s) : t[n] = IF n <= 1 THEN <<<<f, r>>>>[n] ELSE s[n - 1]
    BY <2>1, <2>2, ConcatProperties
  <2>4. d.pairs = IF FieldsMatch(f, r) THEN t ELSE s
    BY <1>1 DEF Outcome
  <2>5. Len(s) \in Nat /\ DOMAIN s = 1 .. Len(s)
    BY <2>1
  <2> HIDE DEF s, t
  <2>6. DOMAIN t = 1 .. 1 + Len(s) /\ t[1] = <<f, r>> /\ 1 \in DOMAIN t
    BY <2>3, <2>5
  <2>7. ASSUME NEW n \in DOMAIN s PROVE n + 1 \in DOMAIN t /\ t[n + 1] = s[n]
    <3>1. n \in Nat /\ n >= 1 /\ n + 1 \in 1 .. 1 + Len(s) /\ ~(n + 1 <= 1) /\ (n + 1) - 1 = n
      BY <2>5
    <3>2. QED
      BY <2>3, <2>6, <3>1
  <2>8. FieldsMatch(f, r) => Paired(d, f, r)
    BY <2>4, <2>6 DEF Paired
  <2>9. ASSUME Paired(q, front[a], rear[b]) PROVE Paired(d, front[a], rear[b])
    <3>1. PICK n \in DOMAIN s : s[n] = <<front[a], rear[b]>>
      BY <2>9 DEF Paired, s
    <3>2. CASE FieldsMatch(f, r)
      BY <2>4, <2>7, <3>1, <3>2 DEF Paired
    <3>3. CASE ~FieldsMatch(f, r)
      BY <2>4, <3>1, <3>3 DEF Paired
    <3>4. QED
      BY <3>2, <3>3
  <2>10. QED
    BY <2>8, <2>9
<1>2. ASSUME NEW k \in Nat, \A i \in 1 .. a, j \in 1 .. b : (a - i) + (b - j) < k => Good(i, j),
             NEW i \in 1 .. a, NEW j \in 1 .. b, (a - i) + (b - j) <= k
      PROVE  Good(i, j)
  <2> DEFINE f == front[i]
             r == rear[j]
  <2>1. /\ i \in 1 .. F /\ j \in 1 .. R /\ f \in CloudOf /\ r \in CloudOf
        /\ f.stamp \in Int /\ r.stamp \in Int
    <3>1. i \in 1 .. F /\ j \in 1 .. R
      BY <1>num
    <3>2. QED
      BY <1>el, <3>1
  <2>0. (a - i) + (b - j) <= k /\ k \in Nat
    BY <1>2
  <2>2. CASE i = a /\ j = b
    <3>1. InSync(f, r) /\ FieldsMatch(f, r)
      BY <2>2
    <3>2. Paired(g[<<i, j>>], f, r)
      BY <1>1, <1>turn, <2>1, <3>1
    <3>3. QED
      BY <2>2, <3>2
  <2>3. CASE i < a /\ j < b
    <3>1. /\ i + 1 \in 1 .. a /\ j + 1 \in 1 .. b
          /\ (a - (i + 1)) + (b - (j + 1)) < k /\ (a - (i + 1)) + (b - j) < k
          /\ (a - i) + (b - (j + 1)) < k
      BY <1>2, <1>num, <2>3
    <3>2. Good(i + 1, j + 1) /\ Good(i + 1, j) /\ Good(i, j + 1)
      BY <1>2, <3>1
    <3>3. CASE InSync(f, r)
      BY <1>1, <1>turn, <2>1, <3>2, <3>3
    <3>4. CASE ~InSync(f, r)
      BY <1>turn, <3>2, <3>4
    <3>5. QED
      BY <3>3, <3>4
  <2>4. CASE i < a /\ j = b
    <3>1. i + 1 \in 1 .. a /\ (a - (i + 1)) + (b - j) < k
      BY <1>num, <2>0, <2>4
    <3>2. Good(i + 1, j)
      BY <1>2, <3>1
    <3>3. f.stamp + Period <= front[a].stamp
      BY <1>num, <1>ord, <2>1, <2>4
    <3>4. r.stamp - f.stamp > MaxSyncDiff /\ f.stamp < r.stamp
      BY <1>num, <1>meet, <2>1, <2>4, <3>3
    <3>5. ~InSync(f, r)
      <4>1. ASSUME NEW u \in Int, NEW v \in Int, u - v > MaxSyncDiff \/ v - u > MaxSyncDiff
            PROVE  ~(u - v \in -MaxSyncDiff .. MaxSyncDiff)
        BY <1>num, <4>1
      <4>2. QED
        BY <2>1, <3>4, <4>1 DEF InSync
    <3>6. QED
      BY <1>turn, <3>2, <3>4, <3>5
  <2>5. CASE i = a /\ j < b
    <3>1. j + 1 \in 1 .. b /\ (a - i) + (b - (j + 1)) < k
      BY <1>num, <2>0, <2>5
    <3>2. Good(i, j + 1)
      BY <1>2, <3>1
    <3>3. r.stamp + Period <= rear[b].stamp
      BY <1>num, <1>ord, <2>1, <2>5
    <3>4. f.stamp - r.stamp > MaxSyncDiff /\ ~(f.stamp < r.stamp)
      BY <1>num, <1>meet, <2>1, <2>5, <3>3
    <3>5. ~InSync(f, r)
      <4>1. ASSUME NEW u \in Int, NEW v \in Int, u - v > MaxSyncDiff \/ v - u > MaxSyncDiff
            PROVE  ~(u - v \in -MaxSyncDiff .. MaxSyncDiff)
        BY <1>num, <4>1
      <4>2. QED
        BY <2>1, <3>4, <4>1 DEF InSync
    <3>6. QED
      BY <1>turn, <3>2, <3>4, <3>5
  <2>6. QED
    BY <1>num, <2>2, <2>3, <2>4, <2>5
<1> HIDE DEF Good
<1>3. 0 \in T
  <2>1. \A i \in 1 .. a, j \in 1 .. b : ~((a - i) + (b - j) < 0)
    BY <1>num
  <2>2. \A i \in 1 .. a, j \in 1 .. b : (a - i) + (b - j) <= 0 => Good(i, j)
    BY <1>2, <2>1
  <2>3. QED
    BY <1>0, <2>2
<1>4. ASSUME NEW k \in Nat, k \in T PROVE k + 1 \in T
  <2>1. \A i \in 1 .. a, j \in 1 .. b : (a - i) + (b - j) < k + 1 => Good(i, j)
    <3> SUFFICES ASSUME NEW i \in 1 .. a, NEW j \in 1 .. b, (a - i) + (b - j) < k + 1
                 PROVE  Good(i, j)
      OBVIOUS
    <3>1. (a - i) + (b - j) <= k
      BY <1>num
    <3>2. QED
      BY <1>0, <1>4, <3>1
  <2>2. \A i \in 1 .. a, j \in 1 .. b : (a - i) + (b - j) <= k + 1 => Good(i, j)
    <3> SUFFICES ASSUME NEW i \in 1 .. a, NEW j \in 1 .. b, (a - i) + (b - j) <= k + 1
                 PROVE  Good(i, j)
      OBVIOUS
    <3>1. k + 1 \in Nat
      OBVIOUS
    <3>2. QED
      BY <1>2, <2>1, <3>1
  <2>3. k + 1 \in Nat
    OBVIOUS
  <2>4. QED
    BY <1>0, <2>2, <2>3
<1>5. Nat \subseteq T
  BY <1>3, <1>4, SetInduction
<1>6. (a - 1) + (b - 1) \in Nat /\ 1 \in 1 .. a /\ 1 \in 1 .. b
  BY <1>num
<1>7. (a - 1) + (b - 1) \in T /\ (a - 1) + (b - 1) <= (a - 1) + (b - 1)
  BY <1>5, <1>6
<1>8. Good(1, 1)
  BY <1>0, <1>6, <1>7
<1>9. QED
  BY <1>8 DEF Good

Across(l) == IF l = "front" THEN "rear" ELSE "front"

Holds(queue, s) == \E n \in 1 .. Len(queue) : queue[n] = s

\* t is what queue has from c on.
EndOf(t, queue, c) ==
  /\ t \in Seq(CloudOf) /\ Len(t) = Len(queue) - c + 1
  /\ \A n \in 1 .. Len(queue) - c + 1 : t[n] = queue[c + n - 1]

AsNew(queue, s) == \E m \in 1 .. Len(queue) : queue[m].stamp >= s.stamp - MaxSyncDiff

\* The other LiDAR sent a scan that is as new as s, or almost.
Met(l, s) == \E o \in received[Across(l)] : o.stamp >= s.stamp - MaxSyncDiff

FusionTypes ==
  /\ scans \in [Lidar -> Seq(CloudOf)]
  /\ received \in [Lidar -> SUBSET CloudOf] /\ squeezed \in [Lidar -> SUBSET CloudOf]

QueuesInOrder ==
  \A l \in Lidar : InOrder(scans[l]) /\ \A n \in 1 .. Len(scans[l]) : scans[l][n] \in received[l]

\* A scan still waits, or was squeezed out, or met its time on the other side.
NoneForgotten ==
  \A l \in Lidar : \A s \in received[l] : s \in squeezed[l] \/ Holds(scans[l], s) \/ Met(l, s)

FusionInv == FusionTypes /\ FusionTypeOK /\ QueuesInOrder /\ NoneForgotten /\ NoCounterpartLost

\* What matchAndPublish() leaves of a queue is its end, what it took has met its time
\* on the other side, and scans that belong together come out as a pair.
LEMMA Matched ==
  ASSUME NEW q \in [Lidar -> Seq(CloudOf)], InOrder(q["front"]), InOrder(q["rear"]), NEW done,
         done = MatchAndPublish(q["front"], q["rear"])
  PROVE  /\ \A l \in Lidar : \E a \in 1 .. Len(q[l]) + 1 :
              EndOf(done[l], q[l], a) /\ \A k \in 1 .. a - 1 : AsNew(q[Across(l)], q[l][k])
         /\ done["front"] = <<>> \/ done["rear"] = <<>>
         /\ \A a \in 1 .. Len(q["front"]), b \in 1 .. Len(q["rear"]) :
              InSync(q["front"][a], q["rear"][b]) /\ FieldsMatch(q["front"][a], q["rear"][b])
              => Paired(done, q["front"][a], q["rear"][b])
<1> DEFINE front == q["front"]
           rear == q["rear"]
<1>1. front \in Seq(CloudOf) /\ rear \in Seq(CloudOf) /\ Len(front) \in Nat /\ Len(rear) \in Nat
  BY DEF Lidar
<1>2. PICK g : /\ \A p \in Rounds(front, rear) : g[p] = Round(front, rear, g, p)
               /\ MatchAndPublish(front, rear) = g[<<1, 1>>]
  <2>1. \E g : IsRest(g, front, rear)
    BY <1>1, RestExists
  <2>2. QED
    BY <2>1, MatchIsRest
<1> HIDE DEF front, rear
<1>3. \A p \in Rounds(front, rear) :
        g[p] \in Outcome /\ \E a, b : Keeps(g[p], front, rear, p[1], p[2], a, b)
  BY <1>1, <1>2, MatchOutcome
<1>4. <<1, 1>> \in Rounds(front, rear) /\ done = g[<<1, 1>>]
  BY <1>1, <1>2 DEF Rounds, front, rear
<1>5. PICK a, b : Keeps(done, front, rear, 1, 1, a, b)
  BY <1>3, <1>4
<1>6. /\ a \in 1 .. Len(front) + 1 /\ b \in 1 .. Len(rear) + 1
      /\ a = Len(front) + 1 \/ b = Len(rear) + 1
      /\ done.front = SubSeq(front, a, Len(front)) /\ done.rear = SubSeq(rear, b, Len(rear))
      /\ \A k \in 1 .. a - 1 : AsNew(rear, front[k])
      /\ \A m \in 1 .. b - 1 : AsNew(front, rear[m])
  BY <1>5 DEF Keeps, AsNew
<1>sub. ASSUME NEW s \in Seq(CloudOf), NEW c \in 1 .. Len(s) + 1, NEW t, t = SubSeq(s, c, Len(s))
        PROVE  EndOf(t, s, c)
  BY <1>sub DEF EndOf
<1>7. ASSUME NEW l \in Lidar
      PROVE  \E c \in 1 .. Len(q[l]) + 1 :
               EndOf(done[l], q[l], c) /\ \A k \in 1 .. c - 1 : AsNew(q[Across(l)], q[l][k])
  <2>1. CASE l = "front"
    <3>1. q[l] = front /\ q[Across(l)] = rear /\ done[l] = done.front
      BY <2>1 DEF Across, front, rear
    <3>2. QED
      BY <1>1, <1>6, <1>sub, <3>1
  <2>2. CASE l = "rear"
    <3>1. q[l] = rear /\ q[Across(l)] = front /\ done[l] = done.rear
      BY <2>2 DEF Across, front, rear
    <3>2. QED
      BY <1>1, <1>6, <1>sub, <3>1
  <2>3. QED
    BY <2>1, <2>2 DEF Lidar
<1>8. done["front"] = <<>> \/ done["rear"] = <<>>
  <2>1. CASE a = Len(front) + 1
    <3> DEFINE u == SubSeq(front, a, Len(front))
    <3>1. u \in Seq(CloudOf) /\ Len(u) = 0
      BY <1>1, <2>1
    <3> HIDE DEF u
    <3>2. u = <<>>
      BY <3>1, EmptySeq
    <3>3. QED
      BY <1>6, <3>2 DEF u
  <2>2. CASE b = Len(rear) + 1
    <3> DEFINE u == SubSeq(rear, b, Len(rear))
    <3>1. u \in Seq(CloudOf) /\ Len(u) = 0
      BY <1>1, <2>2
    <3> HIDE DEF u
    <3>2. u = <<>>
      BY <3>1, EmptySeq
    <3>3. QED
      BY <1>6, <3>2 DEF u
  <2>3. QED
    BY <1>6, <2>1, <2>2
<1>9. ASSUME NEW x \in 1 .. Len(front), NEW y \in 1 .. Len(rear),
             InSync(front[x], rear[y]), FieldsMatch(front[x], rear[y])
      PROVE  Paired(done, front[x], rear[y])
  <2>1. InOrder(front) /\ InOrder(rear)
    BY DEF front, rear
  <2>2. \A p \in Rounds(front, rear) : g[p] \in Outcome /\ g[p] = Round(front, rear, g, p)
    BY <1>2, <1>3
  <2>3. Paired(g[<<1, 1>>], front[x], rear[y])
    BY <1>1, <1>9, <2>1, <2>2, MatchFinds
  <2>4. QED
    BY <1>4, <2>3
<1>10. QED
  BY <1>7, <1>8, <1>9 DEF front, rear

\* A queue with a later scan behind it is in order, and holds what it held, except for
\* the head if it was full.
LEMMA Pushed ==
  ASSUME NEW s \in Seq(CloudOf), InOrder(s), Len(s) <= queue_size, NEW x \in CloudOf, NEW t,
         \A n \in 1 .. Len(s) : x.stamp >= s[n].stamp + Period,
         t = PushBounded(s, x)
  PROVE  /\ t \in Seq(CloudOf) /\ InOrder(t) /\ Len(t) <= queue_size
         /\ Holds(t, x)
         /\ \A n \in 1 .. Len(s) : (Len(s) = queue_size /\ n = 1) \/ Holds(t, s[n])
         /\ \A n \in 1 .. Len(t) : t[n] = x \/ Holds(s, t[n])
<1> DEFINE L == Len(s)
           d == IF L = queue_size THEN 1 ELSE 0
<1>1. L \in Nat /\ queue_size \in Nat /\ queue_size > 1 /\ d \in 0 .. 1 /\ L - d \in Nat
  BY FusionAssumption
<1>2. /\ t \in Seq(CloudOf) /\ Len(t) = L - d + 1
      /\ \A n \in 1 .. L - d : t[n] = s[n + d]
      /\ t[L - d + 1] = x
  <2>1. CASE L = queue_size
    <3> DEFINE u == Tail(s)
    <3>1. u \in Seq(CloudOf) /\ Len(u) = L - 1 /\ \A n \in 1 .. L - 1 : u[n] = s[n + 1]
      <4>1. s # <<>>
        BY <1>1, <2>1
      <4>2. QED
        BY <4>1, <1>1, <2>1, HeadTailProperties
    <3>2. t = Append(u, x) /\ d = 1
      BY <2>1 DEF PushBounded
    <3> HIDE DEF u
    <3>3. /\ t \in Seq(CloudOf) /\ Len(t) = L - 1 + 1 /\ \A n \in 1 .. L - 1 : t[n] = u[n]
          /\ t[L - 1 + 1] = x
      BY <1>1, <3>1, <3>2, AppendProperties
    <3>4. QED
      BY <3>1, <3>2, <3>3
  <2>2. CASE L # queue_size
    <3>1. t = Append(s, x) /\ d = 0
      BY <2>2 DEF PushBounded
    <3>2. /\ t \in Seq(CloudOf) /\ Len(t) = L + 1 /\ \A n \in 1 .. L : t[n] = s[n]
          /\ t[L + 1] = x
      BY <1>1, <3>1, AppendProperties
    <3>3. L - d = L /\ \A n \in 1 .. L : n + d = n
      BY <1>1, <3>1
    <3>4. QED
      BY <3>2, <3>3
  <2>3. QED
    BY <2>1, <2>2
<1>3. d = 1 <=> L = queue_size
  BY <1>1
<1>el. \A n \in 1 .. L : s[n] \in CloudOf /\ s[n].stamp \in Int
  <2>1. \A c \in CloudOf : c.stamp \in 0 .. MaxScanStamp
    BY DEF CloudOf
  <2>2. 0 .. MaxScanStamp \subseteq Int
    BY FusionAssumption
  <2>3. QED
    BY <2>1, <2>2
<1>ord. /\ \A m, n \in 1 .. L : m < n => s[m].stamp + Period <= s[n].stamp
        /\ \A n \in 1 .. L : s[n].stamp + Period <= x.stamp
  <2>1. x.stamp \in Int /\ Period \in Int
    BY FusionAssumption DEF CloudOf
  <2>2. QED
    BY <1>el, <2>1 DEF InOrder
<1>len. L <= queue_size /\ L = Len(s)
  OBVIOUS
<1> HIDE DEF L, d
<1>4. InOrder(t)
  <2> SUFFICES ASSUME NEW m \in 1 .. L - d + 1, NEW n \in 1 .. L - d + 1, m < n
               PROVE  t[m].stamp + Period <= t[n].stamp
    BY <1>2 DEF InOrder
  <2>1. m \in 1 .. L - d /\ m + d \in 1 .. L
    BY <1>1
  <2>2. CASE n \in 1 .. L - d
    <3>1. n + d \in 1 .. L /\ m + d < n + d
      BY <1>1, <2>2
    <3>2. QED
      BY <1>2, <1>ord, <2>1, <2>2, <3>1
  <2>3. CASE n = L - d + 1
    BY <1>2, <1>ord, <2>1, <2>3
  <2>4. QED
    BY <1>1, <2>2, <2>3
<1>5. Len(t) <= queue_size
  BY <1>1, <1>2, <1>3, <1>len
<1>6. \E n \in 1 .. Len(t) : t[n] = x
  <2>1. L - d + 1 \in 1 .. Len(t)
    BY <1>1, <1>2
  <2>2. QED
    BY <1>2, <2>1
<1>7. ASSUME NEW n \in 1 .. L
      PROVE  \/ L = queue_size /\ n = 1
             \/ \E m \in 1 .. Len(t) : t[m] = s[n]
  <2>1. CASE n - d \in 1 .. L - d
    <3>1. n - d \in 1 .. Len(t) /\ (n - d) + d = n
      BY <1>1, <1>2, <2>1
    <3>2. t[n - d] = s[n]
      BY <1>2, <2>1, <3>1
    <3>3. QED
      BY <3>1, <3>2
  <2>2. CASE n - d \notin 1 .. L - d
    <3>1. n = 1 /\ d = 1
      BY <1>1, <2>2
    <3>2. QED
      BY <1>3, <3>1
  <2>3. QED
    BY <2>1, <2>2
<1>8. ASSUME NEW n \in 1 .. Len(t) PROVE t[n] = x \/ \E m \in 1 .. L : t[n] = s[m]
  <2>1. CASE n = L - d + 1
    BY <1>2, <2>1
  <2>2. CASE n # L - d + 1
    <3>1. n \in 1 .. L - d /\ n + d \in 1 .. L
      BY <1>1, <1>2, <2>2
    <3>2. QED
      BY <1>2, <3>1
  <2>3. QED
    BY <2>1, <2>2
<1>9. QED
  BY <1>2, <1>4, <1>5, <1>6, <1>7, <1>8, <1>len DEF Holds

\* Nothing is received at the start.
LEMMA FusionInvInit == FusionInit => FusionInv
<1> SUFFICES ASSUME FusionInit PROVE FusionInv
  OBVIOUS
<1>1. \A l \in Lidar : /\ scans[l] = <<>> /\ received[l] = {}
                       /\ scans[l] \in Seq(CloudOf) /\ Len(scans[l]) = 0
  BY DEF FusionInit
<1>2. FusionTypes
  BY DEF FusionInit, FusionTypes
<1>3. FusionTypeOK
  <2>1. 0 <= queue_size
    BY FusionAssumption
  <2>2. QED
    BY <1>1, <2>1 DEF FusionTypeOK, Lidar
<1>4. QueuesInOrder
  BY <1>1 DEF QueuesInOrder, InOrder
<1>5. NoneForgotten
  BY <1>1 DEF NoneForgotten
<1>6. NoCounterpartLost
  BY <1>1 DEF NoCounterpartLost, Lidar
<1>7. QED
  BY <1>2, <1>3, <1>4, <1>5, <1>6 DEF FusionInv

\* A callback pushes its scan and matches: what it takes has met its time, and the new
\* scan finds its counterpart waiting or is too late for it.
LEMMA CallbackKeepsFusion ==
  ASSUME FusionInv, NEW l \in Lidar, Callback(l)
  PROVE  FusionInv'
<1>1. PICK x \in CloudOf :
        LET pushed == [scans EXCEPT ![l] = PushBounded(@, x)]
            done   == MatchAndPublish(pushed["front"], pushed["rear"])
        IN  /\ Later(l, x)
            /\ scans' = [k \in Lidar |-> done[k]]
            /\ fused' = done.pairs
            /\ received' = [received EXCEPT ![l] = @ \cup {x}]
            /\ squeezed' = [squeezed EXCEPT ![l] =
                 IF Len(scans[l]) = queue_size THEN @ \cup {Head(scans[l])} ELSE @]
            /\ fusions' = fusions \cup {done.pairs[k] : k \in DOMAIN done.pairs}
  BY DEF Callback
<1> DEFINE q == [scans EXCEPT ![l] = PushBounded(@, x)]
           done == MatchAndPublish(q["front"], q["rear"])
<1>2. /\ Later(l, x)
      /\ scans' = [k \in Lidar |-> done[k]]
      /\ received' = [received EXCEPT ![l] = @ \cup {x}]
      /\ squeezed' = [squeezed EXCEPT ![l] =
           IF Len(scans[l]) = queue_size THEN @ \cup {Head(scans[l])} ELSE @]
      /\ fusions' = fusions \cup {done.pairs[k] : k \in DOMAIN done.pairs}
  BY <1>1
<1>3. done = MatchAndPublish(q["front"], q["rear"])
  OBVIOUS
<1>4. /\ \A k \in Lidar : scans[k] \in Seq(CloudOf) /\ Len(scans[k]) <= queue_size
      /\ \A k \in Lidar : received[k] \in SUBSET CloudOf /\ squeezed[k] \in SUBSET CloudOf
      /\ \A k \in Lidar : InOrder(scans[k])
      /\ \A k \in Lidar : \A n \in 1 .. Len(scans[k]) : scans[k][n] \in received[k]
  BY DEF FusionInv, FusionTypes, FusionTypeOK, QueuesInOrder
<1>5. /\ q[l] = PushBounded(scans[l], x)
      /\ \A k \in Lidar \ {l} : q[k] = scans[k]
      /\ q = [k \in Lidar |-> q[k]]
  BY DEF FusionInv, FusionTypes
<1> HIDE DEF q, done
<1>6. \A n \in 1 .. Len(scans[l]) : x.stamp >= scans[l][n].stamp + Period
  BY <1>2, <1>4 DEF Later
<1>7. /\ q[l] \in Seq(CloudOf) /\ InOrder(q[l]) /\ Len(q[l]) <= queue_size
      /\ \E n \in 1 .. Len(q[l]) : q[l][n] = x
      /\ \A n \in 1 .. Len(scans[l]) : \/ Len(scans[l]) = queue_size /\ n = 1
                                       \/ \E m \in 1 .. Len(q[l]) : q[l][m] = scans[l][n]
      /\ \A n \in 1 .. Len(q[l]) :
           q[l][n] = x \/ \E m \in 1 .. Len(scans[l]) : q[l][n] = scans[l][m]
  <2> DEFINE s == scans[l]
             t == q[l]
  <2>1. /\ s \in Seq(CloudOf) /\ InOrder(s) /\ Len(s) <= queue_size
        /\ \A n \in 1 .. Len(s) : x.stamp >= s[n].stamp + Period
        /\ t = PushBounded(s, x)
    BY <1>4, <1>5, <1>6
  <2> HIDE DEF s, t
  <2>2. /\ t \in Seq(CloudOf) /\ InOrder(t) /\ Len(t) <= queue_size
        /\ Holds(t, x)
        /\ \A n \in 1 .. Len(s) : (Len(s) = queue_size /\ n = 1) \/ Holds(t, s[n])
        /\ \A n \in 1 .. Len(t) : t[n] = x \/ Holds(s, t[n])
    BY <2>1, Pushed
  <2>3. QED
    BY <2>2 DEF s, t, Holds
<1>8. \A k \in Lidar : q[k] \in Seq(CloudOf) /\ InOrder(q[k]) /\ Len(q[k]) <= queue_size
  BY <1>4, <1>5, <1>7
<1>9. q \in [Lidar -> Seq(CloudOf)]
  BY <1>5, <1>8
<1>10. /\ \A k \in Lidar : \E a \in 1 .. Len(q[k]) + 1 :
            EndOf(done[k], q[k], a) /\ \A i \in 1 .. a - 1 : AsNew(q[Across(k)], q[k][i])
       /\ done["front"] = <<>> \/ done["rear"] = <<>>
       /\ \A a \in 1 .. Len(q["front"]), b \in 1 .. Len(q["rear"]) :
            InSync(q["front"][a], q["rear"][b]) /\ FieldsMatch(q["front"][a], q["rear"][b])
            => Paired(done, q["front"][a], q["rear"][b])
  <2>1. InOrder(q["front"]) /\ InOrder(q["rear"])
    BY <1>8 DEF Lidar
  <2>2. QED
    BY <1>3, <1>9, <2>1, Matched
\* What is received, squeezed out and waiting afterwards.
<1>11. /\ received'[l] = received[l] \cup {x}
       /\ \A k \in Lidar \ {l} : received'[k] = received[k] /\ squeezed'[k] = squeezed[k]
       /\ squeezed'[l] = IF Len(scans[l]) = queue_size
                         THEN squeezed[l] \cup {Head(scans[l])} ELSE squeezed[l]
       /\ \A k \in Lidar : received[k] \subseteq received'[k] /\ squeezed[k] \subseteq squeezed'[k]
       /\ \A k \in Lidar : scans'[k] = done[k]
  BY <1>2 DEF FusionInv, FusionTypes
<1>12. \A k \in Lidar : \A n \in 1 .. Len(q[k]) : q[k][n] \in received'[k]
  <2>1. \A n \in 1 .. Len(q[l]) : q[l][n] \in received'[l]
    BY <1>4, <1>7, <1>11
  <2>2. \A k \in Lidar \ {l} : \A n \in 1 .. Len(q[k]) : q[k][n] \in received'[k]
    BY <1>4, <1>5, <1>11
  <2>3. QED
    BY <2>1, <2>2
<1>13. ASSUME NEW k \in Lidar
       PROVE  /\ scans'[k] \in Seq(CloudOf) /\ Len(scans'[k]) <= queue_size
              /\ InOrder(scans'[k])
              /\ \A n \in 1 .. Len(scans'[k]) : scans'[k][n] \in received'[k]
              /\ \A n \in 1 .. Len(q[k]) :
                   \/ \E m \in 1 .. Len(scans'[k]) : scans'[k][m] = q[k][n]
                   \/ AsNew(q[Across(k)], q[k][n])
  <2> DEFINE s == q[k]
             t == scans'[k]
             L == Len(s)
  <2>1. PICK a \in 1 .. L + 1 :
          EndOf(t, s, a) /\ \A i \in 1 .. a - 1 : AsNew(q[Across(k)], s[i])
    <3>1. t = done[k]
      BY <1>11
    <3> HIDE DEF t
    <3>2. QED
      BY <1>10, <3>1
  <2>2. s \in Seq(CloudOf) /\ InOrder(s) /\ L <= queue_size /\ L \in Nat
    BY <1>8
  <2>3. \A n \in 1 .. L : s[n] \in received'[k]
    BY <1>12
  <2>4. L = Len(s)
    OBVIOUS
  <2> HIDE DEF s, t, L
  <2>5. t \in Seq(CloudOf) /\ Len(t) = L - a + 1 /\ \A n \in 1 .. L - a + 1 : t[n] = s[a + n - 1]
    BY <2>1, <2>4 DEF EndOf
  <2>6. Len(t) <= queue_size
    <3>1. queue_size \in Nat
      BY FusionAssumption
    <3>2. QED
      BY <2>2, <2>5, <3>1
  <2>7. \A n \in 1 .. L - a + 1 : a + n - 1 \in 1 .. L
    BY <2>2
  <2>8. InOrder(t)
    <3> SUFFICES ASSUME NEW m \in 1 .. L - a + 1, NEW n \in 1 .. L - a + 1, m < n
                 PROVE  t[m].stamp + Period <= t[n].stamp
      BY <2>5 DEF InOrder
    <3>1. a + m - 1 \in 1 .. L /\ a + n - 1 \in 1 .. L /\ a + m - 1 < a + n - 1
      BY <2>7
    <3>2. QED
      BY <2>2, <2>4, <2>5, <3>1 DEF InOrder
  <2>9. \A n \in 1 .. Len(t) : t[n] \in received'[k]
    BY <2>3, <2>5, <2>7
  <2>10. ASSUME NEW n \in 1 .. L
         PROVE  \/ \E m \in 1 .. Len(t) : t[m] = s[n]
                \/ AsNew(q[Across(k)], s[n])
    <3>1. CASE n \in 1 .. a - 1
      BY <2>1, <3>1
    <3>2. CASE n \notin 1 .. a - 1
      <4>1. n - a + 1 \in 1 .. L - a + 1 /\ a + (n - a + 1) - 1 = n
        BY <2>2, <3>2
      <4>2. t[n - a + 1] = s[n]
        BY <2>5, <4>1
      <4>3. QED
        BY <2>5, <4>1, <4>2
    <3>3. QED
      BY <3>1, <3>2
  <2>11. QED
    BY <2>2, <2>5, <2>6, <2>8, <2>9, <2>10 DEF s, t, L
<1>14. FusionTypes'
  <2>1. scans' \in [Lidar -> Seq(CloudOf)]
    BY <1>2, <1>11, <1>13
  <2>2. received' \in [Lidar -> SUBSET CloudOf]
    BY <1>2 DEF FusionInv, FusionTypes
  <2>3. squeezed' \in [Lidar -> SUBSET CloudOf]
    <3>1. Len(scans[l]) = queue_size => Head(scans[l]) \in CloudOf
      <4>1. queue_size \in Nat /\ queue_size > 0
        BY FusionAssumption
      <4>2. QED
        BY <1>4, <4>1
    <3>2. QED
      BY <1>2, <3>1 DEF FusionInv, FusionTypes
  <2>4. QED
    BY <2>1, <2>2, <2>3 DEF FusionTypes
<1>15. FusionTypeOK'
  BY <1>10, <1>11, <1>13 DEF FusionTypeOK, Lidar
<1>16. QueuesInOrder'
  BY <1>13 DEF QueuesInOrder
\* What was pushed and is not left has met its time.
<1>17. ASSUME NEW k \in Lidar, NEW n \in 1 .. Len(q[k]), NEW s, s = q[k][n]
       PROVE  Holds(scans[k], s)' \/ Met(k, s)'
  <2>1. CASE \E m \in 1 .. Len(scans'[k]) : scans'[k][m] = s
    BY <2>1 DEF Holds
  <2>2. CASE AsNew(q[Across(k)], s)
    <3>1. Across(k) \in Lidar
      BY DEF Across, Lidar
    <3>2. QED
      BY <1>12, <2>2, <3>1 DEF Met, AsNew
  <2>3. QED
    BY <1>13, <1>17, <2>1, <2>2
<1>18. NoneForgotten'
  <2> SUFFICES ASSUME NEW k \in Lidar, NEW s \in received'[k]
               PROVE  s \in squeezed'[k] \/ Holds(scans[k], s)' \/ Met(k, s)'
    BY DEF NoneForgotten
  <2>1. CASE \E n \in 1 .. Len(q[k]) : q[k][n] = s
    BY <1>17, <2>1
  <2>2. CASE ~ \E n \in 1 .. Len(q[k]) : q[k][n] = s
    <3>1. s \in received[k]
      BY <1>7, <1>11, <2>2
    <3>2. s \in squeezed[k] \/ Holds(scans[k], s) \/ Met(k, s)
      BY <3>1 DEF FusionInv, NoneForgotten
    <3>3. CASE s \in squeezed[k]
      BY <1>11, <3>3
    <3>4. CASE Holds(scans[k], s)
      <4>1. PICK n \in 1 .. Len(scans[k]) : scans[k][n] = s
        BY <3>4 DEF Holds
      <4>2. k = l /\ Len(scans[l]) = queue_size /\ n = 1
        BY <1>5, <1>7, <2>2, <4>1
      <4>3. s = Head(scans[l])
        BY <1>4, <4>1, <4>2
      <4>4. QED
        BY <1>11, <4>2, <4>3
    <3>5. CASE Met(k, s)
      <4>1. Across(k) \in Lidar
        BY DEF Across, Lidar
      <4>2. QED
        BY <1>11, <3>5, <4>1 DEF Met
    <3>6. QED
      BY <3>2, <3>3, <3>4, <3>5
  <2>3. QED
    BY <2>1, <2>2
\* A scan waits for the new one, or is far too old for it.
<1>19. ASSUME NEW s \in received[Across(l)], s \notin squeezed[Across(l)],
              s.stamp - x.stamp <= MaxSyncDiff, x.stamp - s.stamp <= MaxSyncDiff
       PROVE  \E n \in 1 .. Len(q[Across(l)]) : q[Across(l)][n] = s
  <2>1. Across(l) \in Lidar \ {l} /\ Across(Across(l)) = l
    BY DEF Across, Lidar
  <2>2. ~Met(Across(l), s)
    <3> SUFFICES ASSUME NEW o \in received[l], o.stamp >= s.stamp - MaxSyncDiff PROVE FALSE
      BY <2>1 DEF Met
    <3>1. x.stamp >= o.stamp + Period
      BY <1>2 DEF Later
    <3>2. x \in CloudOf /\ s \in CloudOf /\ o \in CloudOf
      BY <1>4, <2>1
    <3>3. x.stamp \in Int /\ s.stamp \in Int /\ o.stamp \in Int
      <4>1. 0 .. MaxScanStamp \subseteq Int
        BY FusionAssumption
      <4>2. QED
        BY <3>2, <4>1 DEF CloudOf
    <3>4. Period \in Nat /\ MaxSyncDiff \in Nat /\ Period > 2 * MaxSyncDiff
      BY FusionAssumption
    <3>5. QED
      BY <1>19, <3>1, <3>3, <3>4
  <2>3. Holds(scans[Across(l)], s)
    BY <1>19, <2>1, <2>2 DEF FusionInv, NoneForgotten
  <2>4. QED
    BY <1>5, <2>1, <2>3 DEF Holds
<1>20. NoCounterpartLost'
  <2> SUFFICES ASSUME NEW f \in received'["front"], NEW r \in received'["rear"],
                      f.stamp - r.stamp \in -MaxSyncDiff .. MaxSyncDiff, FieldsMatch(f, r),
                      f \notin squeezed'["front"], r \notin squeezed'["rear"]
               PROVE  <<f, r>> \in fusions'
    BY DEF NoCounterpartLost
  <2>1. "front" \in Lidar /\ "rear" \in Lidar
    BY DEF Lidar
  <2>2. f \notin squeezed["front"] /\ r \notin squeezed["rear"]
    BY <1>11, <2>1
  <2>3. f.stamp - r.stamp <= MaxSyncDiff /\ r.stamp - f.stamp <= MaxSyncDiff
    <3>1. f \in CloudOf /\ r \in CloudOf
      BY <1>14, <2>1 DEF FusionTypes
    <3>2. f.stamp \in Int /\ r.stamp \in Int /\ MaxSyncDiff \in Nat
      <4>1. 0 .. MaxScanStamp \subseteq Int
        BY FusionAssumption
      <4>2. QED
        BY <3>1, <4>1, FusionAssumption DEF CloudOf
    <3>3. QED
      BY <3>2
  <2>4. CASE f \in received["front"] /\ r \in received["rear"]
    <3>1. <<f, r>> \in fusions
      BY <2>2, <2>4 DEF FusionInv, NoCounterpartLost
    <3>2. QED
      BY <1>2, <3>1
  <2>5. ASSUME NEW a \in 1 .. Len(q["front"]), NEW b \in 1 .. Len(q["rear"]),
               q["front"][a] = f, q["rear"][b] = r
        PROVE  <<f, r>> \in fusions'
    <3>1. InSync(f, r)
      BY DEF InSync
    <3>2. Paired(done, f, r)
      BY <1>10, <2>5, <3>1
    <3>3. QED
      BY <1>2, <3>2 DEF Paired
  <2>6. CASE l = "front" /\ f = x /\ r \in received["rear"]
    <3>1. \E b \in 1 .. Len(q["rear"]) : q["rear"][b] = r
      BY <1>19, <2>2, <2>3, <2>6 DEF Across
    <3>2. \E a \in 1 .. Len(q["front"]) : q["front"][a] = f
      BY <1>7, <2>6
    <3>3. QED
      BY <2>5, <3>1, <3>2
  <2>7. CASE l = "rear" /\ r = x /\ f \in received["front"]
    <3>1. \E a \in 1 .. Len(q["front"]) : q["front"][a] = f
      BY <1>19, <2>2, <2>3, <2>7 DEF Across
    <3>2. \E b \in 1 .. Len(q["rear"]) : q["rear"][b] = r
      BY <1>7, <2>7
    <3>3. QED
      BY <2>5, <3>1, <3>2
  <2>8. QED
    <3>1. l = "front" \/ l = "rear"
      BY DEF Lidar
    <3>2. QED
      BY <1>11, <2>1, <2>4, <2>6, <2>7, <3>1
<1>21. QED
  BY <1>14, <1>15, <1>16, <1>18, <1>20 DEF FusionInv

\* Two scans that belong together are fused, unless one of them was squeezed out of its
\* queue: whatever is lost on the way, however long the queues, the period and the
\* tolerance (m20_lidar_fusion.cpp).
THEOREM CounterpartsAreFused == FusionSpec => []NoCounterpartLost
<1>1. ASSUME FusionInv, [FusionNext]_fusionVars PROVE FusionInv'
  <2>1. CASE FusionNext
    BY <1>1, <2>1, CallbackKeepsFusion DEF FusionNext
  <2>2. CASE UNCHANGED fusionVars
    BY <1>1, <2>2 DEF fusionVars, FusionInv, FusionTypes, FusionTypeOK, QueuesInOrder, InOrder,
         NoneForgotten, Holds, Met, NoCounterpartLost
  <2>3. QED
    BY <1>1, <2>1, <2>2
<1>2. FusionInv => NoCounterpartLost
  BY DEF FusionInv
<1>3. QED
  BY <1>1, <1>2, FusionInvInit, PTL DEF FusionSpec
=============================================================================
