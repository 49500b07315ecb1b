------------------------------- MODULE Edt3d -------------------------------
(***************************************************************************)
(* The distance transform of planning_3d (edt_3d.h) on one line of voxels:  *)
(* every voxel q of the line is the foot of a parabola of height f[q], and  *)
(* the lower envelope of the parabolas is the squared distance to the       *)
(* nearest obstacle.  The line of a grid in each direction in turn gives    *)
(* the distance in space (Roadmap).                                        *)
(*                                                                         *)
(* A line is a function on 0 .. n - 1.  A boundary of the envelope is a     *)
(* fraction <<num, den>>, den > 0.  The first boundary of a line that       *)
(* begins without a parabola is a float that nothing was ever assigned to. *)
(***************************************************************************)
EXTENDS Integers, SequencesExt

CONSTANTS
  INF,            \* the largest float, beyond any squared distance
  Uninitialised   \* the whole numbers such a float may be found to be

ASSUME EdtAssumption == INF \in Nat /\ Uninitialised \subseteq Int /\ Uninitialised # {}

Before(r, s) == r[1] * s[2] < s[1] * r[2]

\* Where the parabolas of p and q meet, p to the left of q.
Intersection(f, p, q) == <<(f[q] + q * q) - (f[p] + p * p), 2 * (q - p)>>

\* A parabola of the envelope: its foot, and where it begins to be the lowest.
Parabola(at, from) == [at |-> at, from |-> from]

\* A slip: the last one alone is looked at, an if in place of the while.
UncoveredOnce(f, envelope, q) ==
  LET k == Len(envelope)
      p == envelope[k].at
  IN  IF f[p] # INF /\ Before(envelope[k].from, Intersection(f, p, q)) THEN k ELSE k - 1

\* The parabola of q covers those at the end that begin where it is lower already,
\* and the first voxel's if that has none.
Uncovered(f, envelope, q) ==
  Max({0} \cup {k \in 1 .. Len(envelope) :
                  /\ f[envelope[k].at] # INF
                  /\ Before(envelope[k].from, Intersection(f, envelope[k].at, q))})

Extended(f, envelope, q, s) ==
  LET k == Uncovered(f, envelope, q)
      p == envelope[Max({k, 1})].at
  IN  IF f[q] = INF THEN envelope
      ELSE Append(SubSeq(envelope, 1, k),
                  Parabola(q, IF f[p] # INF THEN Intersection(f, p, q) ELSE <<s, 1>>))

\* The forward pass; s is what the boundary is found to be before it is assigned.
Envelope(f, s) ==
  LET upTo[q \in DOMAIN f] ==
        IF q = 0 THEN <<Parabola(0, <<-INF, 1>>)>> ELSE Extended(f, upTo[q - 1], q, s)
  IN  upTo[Max(DOMAIN f)]

\* The backward pass: the height of the envelope over q.
Height(f, envelope, q) ==
  LET k == Min({i \in 1 .. Len(envelope) :
                  i = Len(envelope) \/ ~Before(envelope[i + 1].from, <<q, 1>>)})
      p == envelope[k].at
  IN  IF f[p] = INF THEN INF ELSE (q - p) * (q - p) + f[p]

\* The lines that differ by what s is: they begin without a parabola, and a second
\* one is compared with the boundary of the first.
HangsOnUninitialised(f) ==
  f[0] = INF /\ \E p, q \in DOMAIN f : p < q /\ f[p] # INF /\ f[q] # INF

\* A boundary at s comes before every place where two parabolas meet.
BelowOthers(f, s) ==
  \A p, q \in DOMAIN f :
    p < q /\ f[p] # INF /\ f[q] # INF => Before(<<s, 1>>, Intersection(f, p, q))
=============================================================================
