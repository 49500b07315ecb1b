------------------------------ MODULE PrmAstar ------------------------------
(***************************************************************************)
(* computePath step by step: the start and the goal are snapped to the     *)
(* roadmap, then A* takes one element after the other out of its priority  *)
(* queue.  NavPlanner only uses what a search may return (PlanResults);    *)
(* this module is the search itself.                                       *)
(***************************************************************************)
EXTENDS PrmGraph

\* There are max_nodes vertices at most.  Lengths are the same both ways and obey
\* the triangle inequality, and the penalty factor of an edge is at least one, so
\* no edge costs less than its length.
ASSUME CostAssumption ==
  /\ IsFiniteSet(Vertex)
  /\ \A p, q \in Point : Dist[p][q] = Dist[q][p]
  /\ \A p \in Point, u \in Vertex : \A v \in Adj[u] :
       /\ Dist[p][u] <= Cost[u][v] + Dist[p][v]
       /\ Dist[p][v] <= Cost[u][v] + Dist[p][u]

NoVertex == "none"   \* the code's -1
ASSUME NoVertexAssumption == NoVertex \notin Vertex

VARIABLES
  start, goal,   \* the two positions the path is computed between
  blocked,       \* vertex_blocked_ during the call
  sId, gId,      \* the vertices they are snapped to
  pq,            \* the elements [id, f] in the priority queue
  gScore,        \* defined on the vertices reached so far
  cameFrom,      \* defined on those with a predecessor
  done           \* the search has left its loop, or never entered it

request == <<start, goal, blocked, sId, gId>>
astarVars    == <<request, pq, gScore, cameFrom, done>>

OrNone(S) == IF S = {} THEN {NoVertex} ELSE S

AstarInit ==
  /\ start \in Point /\ goal \in Point
  /\ blocked \in SUBSET Vertex
  /\ sId \in OrNone(SnapVertex(start, blocked))
  /\ gId \in OrNone(SnapVertex(goal, blocked))
  /\ done = (NoVertex \in {sId, gId})
  /\ gScore = [v \in {sId} \cap Vertex |-> 0]
  /\ pq = {[id |-> v, f |-> 0] : v \in {sId} \cap Vertex}
  /\ cameFrom = [v \in {} |-> NoVertex]

\* The elements a pop may take: heap order leaves ties open.
Top == {q \in pq : \A r \in pq : q.f <= r.f}

Heuristic(v) == Dist[v][goal]

Tentative(u, v) == gScore[u] + Cost[u][v]

\* Slips: no vertex is reached twice; one is reached again at the same cost.
ImprovedOnce(u)    == {v \in Adj[u] \ blocked : v \notin DOMAIN gScore}
ImprovedOrEqual(u) ==
  {v \in Adj[u] \ blocked : v \in DOMAIN gScore => Tentative(u, v) <= gScore[v]}

\* The neighbours of u reached for the first time or more cheaply.
Improved(u) ==
  {v \in Adj[u] \ blocked :
     v \in DOMAIN gScore => Tentative(u, v) < gScore[v]}

Relax(u, rest) ==
  LET better == Improved(u) IN
  /\ pq' = rest \cup {[id |-> v, f |-> Tentative(u, v) + Heuristic(v)] : v \in better}
  /\ gScore' = [v \in DOMAIN gScore \cup better |->
                   IF v \in better THEN Tentative(u, v) ELSE gScore[v]]
  /\ cameFrom' = [v \in DOMAIN cameFrom \cup better |->
                     IF v \in better THEN u ELSE cameFrom[v]]

\* One turn of the loop: the goal ends the search, a blocked vertex is
\* dropped, any other is expanded.
Pop ==
  \E q \in Top :
    /\ ~done
    /\ done' = (q.id = gId)
    /\ IF done' \/ q.id \in blocked
         THEN pq' = pq \ {q} /\ UNCHANGED <<gScore, cameFrom>>
         ELSE Relax(q.id, pq \ {q})
    /\ UNCHANGED request

Exhausted ==
  /\ ~done /\ pq = {}
  /\ done' = TRUE
  /\ UNCHANGED <<request, pq, gScore, cameFrom>>

AstarNext == Pop \/ Exhausted
AstarSpec == AstarInit /\ [][AstarNext]_astarVars /\ WF_astarVars(AstarNext)

\* The vertices on the way back from v, oldest first; a walk that does not end
\* within the number of vertices never does.
Back(v) ==
  LET walk[n \in 0 .. Cardinality(Vertex)] ==
        IF n = 0 THEN <<v>>
        ELSE LET w == walk[n - 1] IN
             IF Head(w) \in DOMAIN cameFrom THEN <<cameFrom[Head(w)]>> \o w ELSE w
  IN  walk[Cardinality(Vertex)]

\* What computePath returns once it is done.
Result == IF gId \in DOMAIN cameFrom THEN Back(gId) ELSE <<>>

-----------------------------------------------------------------------------
(* Properties                                                              *)

\* Scores and predecessors are kept for vertices only.
AstarTypeOK ==
  /\ start \in Point /\ goal \in Point
  /\ blocked \subseteq Vertex
  /\ sId \in Vertex \cup {NoVertex} /\ gId \in Vertex \cup {NoVertex}
  /\ \A q \in pq : q.id \in Vertex /\ q.f \in Nat
  /\ DOMAIN gScore \subseteq Vertex /\ \A v \in DOMAIN gScore : gScore[v] \in Nat
  /\ DOMAIN cameFrom \subseteq Vertex /\ \A v \in DOMAIN cameFrom : cameFrom[v] \in Vertex
  /\ done \in BOOLEAN

\* The search as it runs is the one the planner's module assumes: it ends with
\* a cheapest unblocked route between two vertices the positions may be
\* snapped to, or with the empty path when there is none.
SearchIsPlanResult == done => Result \in PlanResults(start, goal, blocked)

\* Every step from a predecessor costs at most what the scores say, its
\* vertices are unblocked, and the start has no predecessor: the chain that
\* is read back at the end can only lead to the start.
ScoresFollowPredecessors ==
  \A v \in DOMAIN cameFrom :
    LET u == cameFrom[v] IN
    /\ {u, v} \subseteq DOMAIN gScore \ blocked
    /\ v \in Adj[u]
    /\ gScore[u] + Cost[u][v] <= gScore[v]

\* Planning runs inside the main loop, so every search must come to an end.
SearchEnds == <>done
=============================================================================
