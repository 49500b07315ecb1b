----------------------------- MODULE MCPlanning -----------------------------
(***************************************************************************)
(* What a plan passes through, for TLC, each in a run of its own: the       *)
(* roadmap, which the global planner makes before anything else, its search, *)
(* the path smoother, which works on a plan that came earlier, and the      *)
(* local planner.                                                          *)
(*                                                                         *)
(* The search has a roadmap of five vertices on two rows, with a shortest   *)
(* way that is not the cheapest one, two samples at the same place (v and   *)
(* w), and two positions off the roadmap, one of them out of its reach.     *)
(* The smoother has plans of two to twelve vertices: up to three polygons,  *)
(* with every length of the last one.  A leg is a metre, the longest edge   *)
(* of the roadmap, or nothing, an edge between two samples of one voxel.    *)
(* The local planner's solutions begin with every direction of motion.      *)
(***************************************************************************)
EXTENDS PrmAstar, PathSmoother, LocalPlanner, MCRoadmap

CONSTANTS Legs, MaxVertices

Coord ==
  [p \in {"s", "u", "v", "w", "y", "p", "x"} |->
     CASE p = "s" -> <<0, 0>> [] p = "u" -> <<3, 0>> [] p \in {"v", "w"} -> <<3, 3>>
       [] p = "y" -> <<6, 0>>
       [] p = "p" -> <<8, 1>> [] p = "x" -> <<30, 30>>]

MCPoint  == DOMAIN Coord
MCVertex == {"s", "u", "v", "w", "y"}
MCDist   == [p \in MCPoint |-> [q \in MCPoint |->
               Abs(Coord[p][1] - Coord[q][1]) + Abs(Coord[p][2] - Coord[q][2])]]

Edges == {{"s", "u"}, {"s", "v"}, {"v", "w"}, {"u", "v"}, {"u", "y"}, {"w", "y"}}
MCAdj == [a \in MCVertex |-> {b \in MCVertex \ {a} : {a, b} \in Edges}]

\* The corridor over u is narrow, at s more than at y.
MCCost == [a \in MCVertex |-> [b \in MCVertex |->
             MCDist[a][b] * (CASE {a, b} = {"s", "u"} -> 5
                               [] {a, b} = {"u", "y"} -> 4
                               [] OTHER               -> 1)]]

\* The vertices reached by a sequence of legs from the origin.
Reached(legs) ==
  LET at[i \in 1 .. Len(legs) + 1] == IF i = 1 THEN 0 ELSE at[i - 1] + legs[i - 1]
  IN  [i \in 1 .. Len(legs) + 1 |-> at[i]]

MCWaypoints ==
  {Reached(legs) : legs \in UNION {[1 .. n -> Legs] : n \in 1 .. MaxVertices - 1}}

MCControls == {0, 1} \X {-1, 0, 1}

VARIABLE part  \* the part whose runs are all taken, after the shortest of the others

planningVars == <<part, astarVars, smootherVars, vars, roadVars>>

ShortestSearch == start = "x" /\ goal = "x" /\ blocked = {} /\ AstarInit
ShortestCut    == msg = PlannedPath(<<0, 0>>) /\ SmootherInit
ShortestEnded  == done /\ Published
SmallestMap    == hits = {<<0, 0, 0>>} /\ RoadInit

PlanningInit ==
  /\ Init
  /\ \/ part = "search" /\ ShortestCut /\ SmallestMap /\ AstarInit
     \/ part = "smoother" /\ ShortestSearch /\ SmallestMap /\ SmootherInit
     \/ part = "local" /\ ShortestSearch /\ ShortestCut /\ SmallestMap
     \/ part = "roadmap" /\ ShortestSearch /\ ShortestCut /\ RoadInit

PlanningNext ==
  /\ UNCHANGED part
  /\ \/ AstarNext /\ UNCHANGED <<smootherVars, vars, roadVars>>
     \/ SmootherNext /\ UNCHANGED <<astarVars, vars, roadVars>>
     \/ part = "local" /\ ShortestEnded /\ Next /\ UNCHANGED <<astarVars, smootherVars, roadVars>>
     \/ part = "roadmap" /\ ShortestEnded /\ RoadNext
        /\ UNCHANGED <<astarVars, smootherVars, vars>>

\* Every plan is answered: the search comes to an end, for it runs inside the
\* planner's main loop, and so does the cutting, whose bound grows.
PlansAreAnswered == SearchEnds /\ SmoothPathAppears

PlanningSpec ==
  /\ PlanningInit /\ [][PlanningNext]_planningVars
  /\ WF_astarVars(AstarNext) /\ WF_smootherVars(SmootherNext)
=============================================================================
