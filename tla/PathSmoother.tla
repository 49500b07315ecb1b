---------------------------- MODULE PathSmoother ----------------------------
(***************************************************************************)
(* pathCb of the Bezier optimizer: a planned path is cut into control      *)
(* polygons of six points, an auxiliary point Q1 is inserted in front of   *)
(* each next polygon while the path is being cut, and what is left, five   *)
(* points at most, gives the last curve.  A curve is its control polygon:  *)
(* it starts at the first point and ends at the last.  Positions are taken *)
(* along a straight line, in a unit of a centimetre.                       *)
(***************************************************************************)
EXTENDS Integers, SequencesExt

CONSTANTS
  Waypoints,     \* the vertex sequences computePath may read back
  SampleRate,    \* sample_rate_: intervals a curve is sampled at
  EndStrategy    \* end_strategy_: "same_as_prev" or "keep_original"

ASSUME SmootherAssumption ==
  /\ Waypoints \subseteq Seq(Int)
  /\ \A w \in Waypoints : Len(w) >= 2
  /\ SampleRate \in Nat \ {0}

VARIABLES
  msg,       \* the positions of the message's poses
  raw,       \* the same with the Q1 points inserted so far
  seg_beg,   \* where the next polygon begins, counted from 0
  curves,    \* the control polygons of the curves sampled so far
  kept       \* the last pose's orientation is: "none" yet, "planned", "tangent"

smootherVars == <<msg, raw, seg_beg, curves, kept>>

\* computePath repeats the last position, so that it carries the goal's heading.
PlannedPath(w) == Append(w, w[Len(w)])

LastOf(s) == s[Len(s)]
Abs(n)    == IF n < 0 THEN -n ELSE n
Sign(n)   == IF n < 0 THEN -1 ELSE IF n = 0 THEN 0 ELSE 1

\* computeQ1 with q1_scale_ = 0.3: beyond p5 as seen from p4, and a centimetre
\* further than p5 if that is not closer to p5 than to q2.
ComputeQ1(p4, p5, q2) ==
  LET q1    == p5 + (3 * (p5 - p4)) \div 10
      extra == Abs(q1 - p5) - Abs(q1 - q2)
  IN  IF extra >= 0 THEN q1 + (extra + 1) * Sign(p5 - p4) ELSE q1

SmootherInit ==
  /\ msg \in {PlannedPath(w) : w \in Waypoints}
  /\ raw = msg
  /\ seg_beg = 0
  /\ curves = <<>>
  /\ kept = "none"

\* A slip: one place too early.
InsertBefore(s, n, e) == SubSeq(s, 1, n - 1) \o <<e>> \o SubSeq(s, n, Len(s))

InsertAfter(s, n, e) == SubSeq(s, 1, n) \o <<e>> \o SubSeq(s, n + 1, Len(s))

\* Slips: Q1 is used and not inserted; six points are not enough to go on.
FitSegmentWithoutQ1 ==
  /\ kept = "none"
  /\ seg_beg + 5 < Len(raw)
  /\ curves' = Append(curves, SubSeq(raw, seg_beg + 1, seg_beg + 6))
  /\ seg_beg' = seg_beg + 6
  /\ UNCHANGED <<msg, raw, kept>>
\* One turn of the loop: six points are left.
FitSegment ==
  /\ kept = "none"
  /\ seg_beg + 5 < Len(raw)
  /\ LET P  == SubSeq(raw, seg_beg + 1, seg_beg + 6)
         q2 == IF seg_beg + 6 < Len(raw) THEN raw[seg_beg + 7] ELSE LastOf(raw)
     IN  /\ curves' = Append(curves, P)
         /\ raw' = InsertAfter(raw, seg_beg + 6, ComputeQ1(P[5], P[6], q2))
  /\ seg_beg' = seg_beg + 6
  /\ UNCHANGED <<msg, kept>>

Remaining == SubSeq(raw, seg_beg + 1, Len(raw))

\* The last curve's polygon, if any point is left, and the index of the last
\* sample, counted from 0.
AllCurves == IF seg_beg < Len(raw) THEN Append(curves, Remaining) ELSE curves
LastIndex == (SampleRate + 1) * Len(AllCurves) - 1

\* The orientation of the last pose: the code looks up the pose of the planned
\* path under the index the sample has in the smooth one (and takes it if its
\* w component is not zero, which leaves fewer ways to keep it than here).
Assemble ==
  /\ kept = "none"
  /\ ~(seg_beg + 5 < Len(raw))
  /\ curves' = AllCurves
  /\ kept' = IF EndStrategy = "keep_original" /\ LastIndex < Len(msg)
               THEN "planned" ELSE "tangent"
  /\ UNCHANGED <<msg, raw, seg_beg>>

SmootherNext == FitSegment \/ Assemble
SmootherSpec == SmootherInit /\ [][SmootherNext]_smootherVars /\ WF_smootherVars(SmootherNext)

-----------------------------------------------------------------------------
(* Properties                                                              *)

Published == kept # "none"

\* Positions stay positions, and curves are made of them.
SmootherTypeOK ==
  /\ msg \in Seq(Int) /\ raw \in Seq(Int)
  /\ seg_beg \in Nat
  /\ curves \in Seq(Seq(Int))
  /\ kept \in {"none", "planned", "tangent"}

\* The path grows while it is being cut; the cut never overtakes the end, so
\* a last curve of one to five points is left, whatever the number of points
\* was, and no curve reads past the end of the path.
CutLeavesATail ==
  /\ seg_beg < Len(raw)
  /\ Published => Len(Remaining) <= 5

\* Cutting and inserting lose nothing: the polygons, one after the other, are
\* the planned points in order with one Q1 in front of each but the first.  The
\* robot is led to where the plan ends even if the last point is a Q1, for then
\* the two it is computed from are the plan's repeated last position.
NoPointLost ==
  Published =>
    /\ FlattenSeq(curves) = raw
    /\ msg = FlattenSeq(<<curves[1]>> \o [i \in 1 .. Len(curves) - 1 |-> Tail(curves[i + 1])])
    /\ LastOf(LastOf(curves)) = LastOf(msg)

\* Every message is answered: the loop ends although its bound grows.
SmoothPathAppears == <>Published

\* ReadMe: end_strategy controls that the end orientation is kept.  It does
\* not: with the 20 samples of its launch file or any number from five on, the
\* orientation at the end is recomputed even with keep_original.
EndOrientationRecomputed == kept # "planned"
=============================================================================
