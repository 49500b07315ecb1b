---------------------------- MODULE MCNavPlanner ----------------------------
(***************************************************************************)
(* A corridor a - b - c with a detour over d, for TLC.  One unit is a      *)
(* quarter of a metre, distances are Manhattan distances: StepSize = 4,    *)
(* PosTol = 2 and PosTolExit = 8 are the values of 3d_planning.launch.     *)
(* From x neither a plan nor a snap succeeds.                              *)
(***************************************************************************)
EXTENDS NavPlanner

MCCoord ==
  [p \in {"a", "b", "c", "d", "f", "x"} |->
     CASE p = "a" -> <<0, 0>>  [] p = "b" -> <<5, 0>>  [] p = "c" -> <<10, 0>>
       [] p = "d" -> <<5, 5>>  [] p = "f" -> <<13, 0>> [] p = "x" -> <<40, 0>>]

MCPoint  == DOMAIN MCCoord
MCVertex == {"a", "b", "c", "d"}
MCFree   == MCPoint

MCAdj == [v \in MCVertex |->
            CASE v \in {"a", "c"} -> {"b", "d"} [] v \in {"b", "d"} -> {"a", "c"}]

Abs(n) == IF n < 0 THEN -n ELSE n

\* Manhattan distances between the points of S.
DistOn(S) ==
  [p \in S |-> [q \in S |-> Abs(MCCoord[p][1] - MCCoord[q][1])
                             + Abs(MCCoord[p][2] - MCCoord[q][2])]]
CostOn(S) == [u \in S |-> [v \in S |-> DistOn(S)[u][v] + 1]]

MCDist == DistOn(MCPoint)
MCCost == CostOn(MCVertex)

\* A triangle, for the liveness run.
LiveVertex == {"a", "b", "d"}
LiveAdj    == [v \in LiveVertex |-> LiveVertex \ {v}]
LiveDist   == DistOn(LiveVertex)
LiveCost   == CostOn(LiveVertex)
=============================================================================
