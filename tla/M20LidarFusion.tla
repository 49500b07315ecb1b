--------------------------- MODULE M20LidarFusion ---------------------------
(***************************************************************************)
(* The fusion of the M20's two LiDARs (m20_lidar_fusion.cpp): scans of the  *)
(* front and of the rear LiDAR are queued, and the oldest two are fused     *)
(* into one cloud if their stamps are close; otherwise the older one is     *)
(* dropped.  Either callback holds the mutex from beginning to end.        *)
(*                                                                         *)
(* A scan is its stamp and what makes it fit another: the layout of its     *)
(* fields, or "padded" if its rows are.  The points are left out.          *)
(***************************************************************************)
EXTENDS Integers, Sequences

CONSTANTS
  MaxSyncDiff,  \* max_sync_diff
  queue_size,   \* queue_size
  Layouts,      \* layouts of fields, among them perhaps "padded"
  Period,       \* time between two scans of a LiDAR, at least
  MaxScanStamp  \* bound: stamps

ASSUME FusionAssumption ==
  /\ MaxSyncDiff \in Nat /\ queue_size \in Nat \ {0, 1} /\ MaxScanStamp \in Nat
  /\ Period \in Nat /\ Period > 2 * MaxSyncDiff

Lidar == {"front", "rear"}
CloudOf == [stamp : 0 .. MaxScanStamp, layout : Layouts]

VARIABLES
  scans,     \* front_queue_, rear_queue_
  fused,     \* the pairs fused last, by one callback
  received,  \* history: every scan received
  squeezed,  \* history: scans dropped because the queue was full
  fusions    \* history: every pair fused

fusionVars == <<scans, fused, received, squeezed, fusions>>

FusionInit ==
  /\ scans = [l \in Lidar |-> <<>>] /\ fused = <<>>
  /\ received = [l \in Lidar |-> {}] /\ squeezed = [l \in Lidar |-> {}]
  /\ fusions = {}

PushBounded(queue, scan) ==
  IF Len(queue) = queue_size THEN Append(Tail(queue), scan) ELSE Append(queue, scan)

InSync(f, r) == f.stamp - r.stamp \in -MaxSyncDiff .. MaxSyncDiff

FieldsMatch(f, r) == f.layout = r.layout /\ f.layout # "padded"

\* A slip: the newer of two scans is dropped.
OlderSwapped(f, r) == IF f.stamp < r.stamp THEN "rear" ELSE "front"

Older(f, r) == IF f.stamp < r.stamp THEN "front" ELSE "rear"

\* matchAndPublish() goes through both queues in step until one of them is empty.
MatchAndPublish(front, rear) ==
  LET rest[p \in (1 .. Len(front) + 1) \X (1 .. Len(rear) + 1)] ==
        LET i == p[1]
            j == p[2]
        IN  IF i > Len(front) \/ j > Len(rear)
            THEN [front |-> SubSeq(front, i, Len(front)), rear |-> SubSeq(rear, j, Len(rear)),
                  pairs |-> <<>>]
            ELSE LET f == front[i]
                     r == rear[j]
                 IN  IF InSync(f, r)
                     THEN [rest[<<i + 1, j + 1>>] EXCEPT !.pairs =
                             IF FieldsMatch(f, r) THEN <<<<f, r>>>> \o @ ELSE @]
                     ELSE IF Older(f, r) = "front"
                          THEN rest[<<i + 1, j>>] ELSE rest[<<i, j + 1>>]
  IN  rest[<<1, 1>>]

\* Scans of a LiDAR arrive in their order, and may have been lost on the way.
Later(l, scan) == \A s \in received[l] : scan.stamp >= s.stamp + Period

Callback(l) ==
  \E scan \in CloudOf :
    LET pushed == [scans EXCEPT ![l] = PushBounded(@, scan)]
        done   == MatchAndPublish(pushed["front"], pushed["rear"])
    IN  /\ Later(l, scan)
        /\ scans' = [k \in Lidar |-> done[k]]
        /\ fused' = done.pairs
        /\ received' = [received EXCEPT ![l] = @ \cup {scan}]
        /\ squeezed' = [squeezed EXCEPT ![l] =
             IF Len(scans[l]) = queue_size THEN @ \cup {Head(scans[l])} ELSE @]
        /\ fusions' = fusions \cup {done.pairs[k] : k \in DOMAIN done.pairs}

FusionNext == \E l \in Lidar : Callback(l)

FusionSpec == FusionInit /\ [][FusionNext]_fusionVars

-----------------------------------------------------------------------------
(* Properties                                                              *)

\* Queues are bounded, and one is empty between two callbacks.
FusionTypeOK ==
  /\ \A l \in Lidar : scans[l] \in Seq(CloudOf) /\ Len(scans[l]) <= queue_size
  /\ scans["front"] = <<>> \/ scans["rear"] = <<>>

\* Whatever was lost or late, two scans that belong together are fused, unless one of
\* them was squeezed out before the other came: dropping the older of two scans never
\* drops one whose counterpart is still to come.
NoCounterpartLost ==
  \A f \in received["front"], r \in received["rear"] :
    (/\ f.stamp - r.stamp \in -MaxSyncDiff .. MaxSyncDiff
     /\ FieldsMatch(f, r)
     /\ f \notin squeezed["front"] /\ r \notin squeezed["rear"])
    => <<f, r>> \in fusions

=============================================================================
