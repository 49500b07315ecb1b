---------------------------- MODULE PlanningProofs ----------------------------
(***************************************************************************)
(* Theorems about what a plan passes through: the search on the roadmap,   *)
(* for every roadmap, every set of blocked vertices and every pair of      *)
(* positions; the cutting of the planned path into curves, for plans of    *)
(* any length over any positions and for every sampling rate; and the      *)
(* making of the roadmap, for every map.  First the scores and             *)
(* predecessors of the search and what it returns, then the cut and what   *)
(* it leaves in its curves, then the distances to the nearest obstacle and *)
(* the edges that were drawn from them.                                    *)
(***************************************************************************)
EXTENDS PrmAstar, PathSmoother, Roadmap, SequenceTheorems, Induction

-----------------------------------------------------------------------------
(* The search: scores and predecessors                                      *)

\* What the queue holds has been reached, and so has every predecessor.
QueueReached ==
  /\ \A q \in pq : q.id \in DOMAIN gScore
  /\ DOMAIN cameFrom \subseteq DOMAIN gScore
ScoreInv == AstarTypeOK /\ QueueReached /\ ScoresFollowPredecessors

\* The queue starts with the start vertex alone, without predecessors.
LEMMA InitScoreInv == AstarInit => ScoreInv
<1> SUFFICES ASSUME AstarInit PROVE ScoreInv
  OBVIOUS
<1>1. /\ DOMAIN gScore \subseteq Vertex /\ \A v \in DOMAIN gScore : gScore[v] = 0
      /\ \A q \in pq : q.id \in DOMAIN gScore /\ q.f = 0
      /\ DOMAIN cameFrom = {}
  BY DEF AstarInit
<1>2. sId \in Vertex \cup {NoVertex} /\ gId \in Vertex \cup {NoVertex}
  BY DEF AstarInit, OrNone, SnapVertex, FindClosestVertex, Nearest
<1>3. AstarTypeOK
  BY <1>1, <1>2 DEF AstarInit, AstarTypeOK
<1>4. QueueReached /\ ScoresFollowPredecessors
  BY <1>1 DEF QueueReached, ScoresFollowPredecessors
<1>5. QED
  BY <1>3, <1>4 DEF ScoreInv

\* Expanding an unblocked vertex keeps every score above what its predecessor
\* accounts for: a predecessor's score only ever falls, and a vertex whose
\* score falls gets a new predecessor in the same step.
LEMMA RelaxPreservesScoreInv ==
  ASSUME ScoreInv, NEW u \in DOMAIN gScore, u \notin blocked,
         NEW rest \in SUBSET pq, Relax(u, rest),
         UNCHANGED request, done' \in BOOLEAN
  PROVE  ScoreInv'
<1> DEFINE better == Improved(u)
<1>1. /\ u \in Vertex /\ gScore[u] \in Nat /\ goal \in Point /\ blocked \subseteq Vertex
      /\ better \subseteq Vertex \ blocked /\ better \subseteq Adj[u]
  BY GraphAssumption DEF ScoreInv, AstarTypeOK, Improved
<1>2. \A v \in better : Tentative(u, v) \in Nat /\ Heuristic(v) \in Nat
                        /\ Tentative(u, v) = gScore[u] + Cost[u][v] /\ Cost[u][v] \in Nat
  BY <1>1, GraphAssumption DEF Tentative, Heuristic
<1>3. /\ DOMAIN gScore' = DOMAIN gScore \cup better
      /\ \A v \in better : gScore'[v] = Tentative(u, v)
      /\ \A v \in DOMAIN gScore \ better : gScore'[v] = gScore[v]
      /\ DOMAIN cameFrom' = DOMAIN cameFrom \cup better
      /\ \A v \in better : cameFrom'[v] = u
      /\ \A v \in DOMAIN cameFrom \ better : cameFrom'[v] = cameFrom[v]
  BY DEF Relax
<1>4. \A q \in pq' : q \in pq \/ (q.id \in better /\ q.f \in Nat)
  BY <1>2 DEF Relax
<1>5. UNCHANGED <<start, goal, blocked, sId, gId>>
  BY DEF request
<1>6. AstarTypeOK'
  <2>1. \A q \in pq' : q.id \in Vertex /\ q.f \in Nat
    BY <1>1, <1>4 DEF ScoreInv, AstarTypeOK
  <2>2. \A v \in DOMAIN gScore' : v \in Vertex /\ gScore'[v] \in Nat
    BY <1>1, <1>2, <1>3 DEF ScoreInv, AstarTypeOK
  <2>3. \A v \in DOMAIN cameFrom' : v \in Vertex /\ cameFrom'[v] \in Vertex
    BY <1>1, <1>3 DEF ScoreInv, AstarTypeOK
  <2>4. QED
    BY <1>5, <2>1, <2>2, <2>3 DEF ScoreInv, AstarTypeOK
<1>7. QueueReached'
  BY <1>3, <1>4 DEF ScoreInv, QueueReached
<1>8. u \notin better
  BY <1>1, <1>2 DEF Improved
<1>9. \A v \in DOMAIN gScore : gScore'[v] <= gScore[v]
  BY <1>1, <1>2, <1>3 DEF ScoreInv, AstarTypeOK, Improved
<1>10. ASSUME NEW v \in DOMAIN cameFrom'
       PROVE  LET w == cameFrom'[v] IN
              /\ {w, v} \subseteq DOMAIN gScore' \ blocked
              /\ v \in Adj[w]
              /\ gScore'[w] + Cost[w][v] <= gScore'[v]
  <2>1. CASE v \in better
    BY <1>1, <1>2, <1>3, <1>8, <2>1
  <2>2. CASE v \notin better
    <3>1. v \in DOMAIN cameFrom /\ cameFrom'[v] = cameFrom[v] /\ v \in DOMAIN gScore
          /\ gScore'[v] = gScore[v]
      BY <1>3, <2>2 DEF ScoreInv, QueueReached
    <3>2. /\ {cameFrom[v], v} \subseteq DOMAIN gScore \ blocked
          /\ v \in Adj[cameFrom[v]]
          /\ gScore[cameFrom[v]] + Cost[cameFrom[v]][v] <= gScore[v]
      BY <3>1 DEF ScoreInv, ScoresFollowPredecessors
    <3>3. /\ cameFrom[v] \in Vertex /\ v \in Vertex
          /\ gScore[cameFrom[v]] \in Nat /\ gScore'[cameFrom[v]] \in Nat /\ gScore[v] \in Nat
      BY <1>3, <1>6, <3>1, <3>2 DEF ScoreInv, AstarTypeOK
    <3>4. Cost[cameFrom[v]][v] \in Nat
      BY <3>3, GraphAssumption
    <3>5. gScore'[cameFrom[v]] <= gScore[cameFrom[v]]
      BY <1>9, <3>2
    <3>6. gScore'[cameFrom[v]] + Cost[cameFrom[v]][v] <= gScore[v]
      BY <3>2, <3>3, <3>4, <3>5
    <3>7. QED
      BY <1>3, <3>1, <3>2, <3>6
  <2>3. QED
    BY <2>1, <2>2
<1>11. ScoresFollowPredecessors'
  BY <1>5, <1>10 DEF ScoresFollowPredecessors
<1>12. QED
  BY <1>6, <1>7, <1>11 DEF ScoreInv

\* Each turn of the loop keeps the scores and predecessors in order.
LEMMA StepScoreInv == ScoreInv /\ [AstarNext]_astarVars => ScoreInv'
<1> SUFFICES ASSUME ScoreInv, [AstarNext]_astarVars PROVE ScoreInv'
  OBVIOUS
<1>1. CASE Pop
  <2>1. PICK q \in pq :
          /\ done' = (q.id = gId)
          /\ IF done' \/ q.id \in blocked
               THEN pq' = pq \ {q} /\ UNCHANGED <<gScore, cameFrom>>
               ELSE Relax(q.id, pq \ {q})
          /\ UNCHANGED request
    BY <1>1 DEF Pop, Top
  <2>2. done' \in BOOLEAN
    BY <2>1
  <2>3. CASE done' \/ q.id \in blocked
    BY <2>1, <2>2, <2>3
    DEF request, ScoreInv, AstarTypeOK, QueueReached, ScoresFollowPredecessors
  <2>4. CASE ~(done' \/ q.id \in blocked)
    <3>1. q.id \in DOMAIN gScore /\ q.id \notin blocked /\ Relax(q.id, pq \ {q})
      BY <2>1, <2>4 DEF ScoreInv, QueueReached
    <3>2. QED
      BY <2>1, <2>2, <3>1, RelaxPreservesScoreInv
  <2>5. QED
    BY <2>3, <2>4
<1>2. CASE Exhausted
  BY <1>2 DEF Exhausted, request, ScoreInv, AstarTypeOK, QueueReached, ScoresFollowPredecessors
<1>3. CASE UNCHANGED astarVars
  BY <1>3 DEF astarVars, request, ScoreInv, AstarTypeOK, QueueReached, ScoresFollowPredecessors
<1>4. QED
  BY <1>1, <1>2, <1>3 DEF AstarNext

\* At any point of the search, every recorded predecessor is joined to its
\* successor by an unblocked edge whose cost the scores account for.
THEOREM PredecessorsAreSound == AstarSpec => [](AstarTypeOK /\ ScoresFollowPredecessors)
<1>1. ScoreInv => AstarTypeOK /\ ScoresFollowPredecessors
  BY DEF ScoreInv
<1>2. QED
  BY <1>1, InitScoreInv, StepScoreInv, PTL DEF AstarSpec

-----------------------------------------------------------------------------
(* The search: costs of routes, and the way back *)

\* What the vertices along r cost from its first one on.
IsCosts(c, r) ==
  /\ c \in [1 .. Len(r) -> Nat]
  /\ c[1] = 0
  /\ \A i \in 1 .. Len(r) - 1 : c[i + 1] = c[i] + Cost[r[i]][r[i + 1]]

\* Every walk has such costs, counted from its first vertex on.
LEMMA CostsExist ==
  ASSUME NEW r \in Seq(Vertex), Len(r) # 0
  PROVE  \E c : IsCosts(c, r)
<1> DEFINE Upto(n, c) ==
             /\ c \in [1 .. n -> Nat]
             /\ c[1] = 0
             /\ \A i \in 1 .. n - 1 : c[i + 1] = c[i] + Cost[r[i]][r[i + 1]]
           T == {n \in Nat : n + 1 <= Len(r) => \E c : Upto(n + 1, c)}
<1>0. \A n \in Nat : n \in T <=> (n + 1 <= Len(r) => \E c : Upto(n + 1, c))
  OBVIOUS
<1> HIDE DEF T
<1>1. 0 \in T
  <2>1. Upto(0 + 1, [i \in 1 .. 1 |-> 0])
    OBVIOUS
  <2> HIDE DEF Upto
  <2>2. QED
    BY <1>0, <2>1
<1>2. ASSUME NEW n \in Nat, n \in T PROVE n + 1 \in T
  <2> HIDE DEF Upto
  <2> DEFINE m == n + 1
  <2>m. m \in Nat \ {0} /\ m - 1 \in Nat
    OBVIOUS
  <2> HIDE DEF m
  <2> SUFFICES ASSUME m + 1 <= Len(r) PROVE \E c : Upto(m + 1, c)
    BY <1>0 DEF m
  <2>1. PICK c : Upto(m, c)
    BY <1>0, <1>2, <2>m DEF m
  <2>2. /\ c \in [1 .. m -> Nat] /\ c[1] = 0
        /\ \A i \in 1 .. m - 1 : c[i + 1] = c[i] + Cost[r[i]][r[i + 1]]
    BY <2>1 DEF Upto
  <2>3. \A i \in 1 .. m + 1 : r[i] \in Vertex
    BY <2>m
  <2> DEFINE last == c[m] + Cost[r[m]][r[m + 1]]
             d == [i \in 1 .. m + 1 |-> IF i <= m THEN c[i] ELSE last]
  <2>4. last \in Nat
    <3>1. c[m] \in Nat /\ r[m] \in Vertex /\ r[m + 1] \in Vertex
      BY <2>m, <2>2, <2>3
    <3>2. Cost[r[m]][r[m + 1]] \in Nat
      BY <3>1, GraphAssumption
    <3>3. QED
      BY <3>1, <3>2
  <2> HIDE DEF last
  <2>5. d \in [1 .. m + 1 -> Nat] /\ d[1] = 0
    BY <2>m, <2>2, <2>4
  <2>6. ASSUME NEW i \in 1 .. (m + 1) - 1 PROVE d[i + 1] = d[i] + Cost[r[i]][r[i + 1]]
    <3>1. CASE i = m
      <4>1. d[i + 1] = last /\ d[i] = c[i]
        BY <2>m, <3>1
      <4>2. QED
        BY <3>1, <4>1 DEF last
    <3>2. CASE i # m
      <4>1. i \in 1 .. m - 1 /\ d[i + 1] = c[i + 1] /\ d[i] = c[i]
        BY <2>m, <3>2
      <4>2. QED
        BY <2>2, <4>1
    <3>3. QED
      BY <3>1, <3>2
  <2>7. Upto(m + 1, d)
    BY <2>5, <2>6 DEF Upto
  <2>8. QED
    BY <2>7
<1>3. Nat \subseteq T
  BY <1>1, <1>2, SetInduction
<1>4. Len(r) - 1 \in T /\ (Len(r) - 1) + 1 = Len(r)
  BY <1>3
<1> HIDE DEF Upto
<1>5. PICK c : Upto(Len(r), c)
  BY <1>0, <1>4
<1>6. IsCosts(c, r)
  BY <1>5 DEF Upto, IsCosts
<1>7. QED
  BY <1>6

\* RouteCost is what its last vertex costs.
LEMMA RouteCostIsLast ==
  ASSUME NEW r \in Seq(Vertex), Len(r) # 0
  PROVE  \E c : IsCosts(c, r) /\ RouteCost(r) = c[Len(r)]
<1> DEFINE P(f) == f = [n \in 1 .. Len(r) |->
                          IF n = 1 THEN 0 ELSE f[n - 1] + Cost[r[n - 1]][r[n]]]
           m == Len(r)
<1>0. m \in Nat /\ m # 0
  OBVIOUS
<1>1. PICK c : IsCosts(c, r)
  BY CostsExist
<1>2. /\ c \in [1 .. m -> Nat] /\ c[1] = 0
      /\ \A i \in 1 .. m - 1 : c[i + 1] = c[i] + Cost[r[i]][r[i + 1]]
  BY <1>1 DEF IsCosts
<1>3. \A n \in 1 .. m : c[n] = IF n = 1 THEN 0 ELSE c[n - 1] + Cost[r[n - 1]][r[n]]
  <2> SUFFICES ASSUME NEW n \in 1 .. m, n # 1
               PROVE  c[n] = c[n - 1] + Cost[r[n - 1]][r[n]]
    BY <1>2
  <2>1. n - 1 \in 1 .. m - 1 /\ (n - 1) + 1 = n
    BY <1>0
  <2>2. QED
    BY <1>2, <2>1
<1>4. P(c)
  BY <1>2, <1>3
<1>5. P(CHOOSE g : P(g))
  BY <1>4
<1>6. RouteCost(r) = (CHOOSE g : P(g))[m]
  BY DEF RouteCost
<1> DEFINE h == CHOOSE g : P(g)
<1> HIDE DEF h
<1>7. P(h) /\ RouteCost(r) = h[m]
  BY <1>5, <1>6 DEF h
<1>8. \A n \in 1 .. m : h[n] = IF n = 1 THEN 0 ELSE h[n - 1] + Cost[r[n - 1]][r[n]]
  BY <1>7
<1> HIDE DEF P, m
<1> DEFINE T == {k \in Nat : k \in 1 .. m => h[k] = c[k]}
<1>9. 0 \in T
  OBVIOUS
<1>10. ASSUME NEW n \in Nat, n \in T PROVE n + 1 \in T
  <2> SUFFICES ASSUME n + 1 \in 1 .. m PROVE h[n + 1] = c[n + 1]
    OBVIOUS
  <2>1. n = 0 \/ h[n] = c[n]
    BY <1>0, <1>10
  <2>2. (n + 1) - 1 = n /\ (n + 1 = 1 <=> n = 0)
    OBVIOUS
  <2>3. QED
    BY <1>3, <1>8, <2>1, <2>2
<1> HIDE DEF T
<1>11. Nat \subseteq T
  BY <1>9, <1>10, SetInduction
<1>12. h[m] = c[m]
  BY <1>0, <1>11 DEF T
<1>13. QED
  BY <1>1, <1>7, <1>12 DEF m

\* r leads from the start to v, from one predecessor to the next.
IsChain(r, v) ==
  /\ r \in Seq(DOMAIN gScore) /\ Len(r) # 0
  /\ r[1] = sId /\ r[Len(r)] = v
  /\ \A i \in 1 .. Len(r) - 1 : r[i + 1] \in DOMAIN cameFrom /\ cameFrom[r[i + 1]] = r[i]

\* The start is reached first, at no cost, and everything else has a predecessor.
ReachedFromStart ==
  /\ IF sId \in Vertex THEN sId \in DOMAIN gScore /\ gScore[sId] = 0 ELSE DOMAIN gScore = {}
  /\ sId \notin DOMAIN cameFrom
  /\ DOMAIN gScore \subseteq DOMAIN cameFrom \cup {sId}
ChainsLeadToStart == \A v \in DOMAIN gScore : \E r : IsChain(r, v)

\* A chain visits no vertex twice.
LEMMA ChainIsSimple ==
  ASSUME NEW r, NEW v, IsChain(r, v), sId \notin DOMAIN cameFrom,
         NEW i \in 1 .. Len(r), NEW j \in 1 .. Len(r), i < j
  PROVE  r[i] # r[j]
<1> SUFFICES ASSUME r[i] = r[j] PROVE FALSE
  OBVIOUS
<1> DEFINE n == Len(r)
<1>1. /\ n \in Nat /\ i \in Nat /\ j \in Nat /\ 1 <= i /\ i < j /\ j <= n
      /\ r[1] = sId
      /\ \A k \in 1 .. n - 1 : r[k + 1] \in DOMAIN cameFrom /\ cameFrom[r[k + 1]] = r[k]
  BY DEF IsChain
<1> DEFINE T == {k \in Nat : k < i => r[i - k] = r[j - k]}
<1> HIDE DEF n
<1>2. 0 \in T
  BY <1>1
<1>3. ASSUME NEW k \in Nat, k \in T PROVE k + 1 \in T
  <2> SUFFICES ASSUME k + 1 < i PROVE r[i - (k + 1)] = r[j - (k + 1)]
    OBVIOUS
  <2>1. r[i - k] = r[j - k]
    BY <1>1, <1>3
  <2>2. /\ i - (k + 1) \in 1 .. n - 1 /\ (i - (k + 1)) + 1 = i - k
        /\ j - (k + 1) \in 1 .. n - 1 /\ (j - (k + 1)) + 1 = j - k
    BY <1>1
  <2>3. cameFrom[r[i - k]] = r[i - (k + 1)] /\ cameFrom[r[j - k]] = r[j - (k + 1)]
    BY <1>1, <2>2
  <2>4. QED
    BY <2>1, <2>3
<1> HIDE DEF T
<1>4. Nat \subseteq T
  BY <1>2, <1>3, SetInduction
<1>5. /\ i - 1 \in T /\ i - 1 < i /\ i - (i - 1) = 1 
      /\ j - (i - 1) = (j - i) + 1 /\ j - i \in 1 .. n - 1
  BY <1>1, <1>4
<1>6. r[1] = r[(j - i) + 1]
  BY <1>5 DEF T
<1>7. QED
  BY <1>1, <1>5, <1>6

\* So it has no more vertices than there are.
LEMMA ChainFits ==
  ASSUME NEW r, NEW v, IsChain(r, v), sId \notin DOMAIN cameFrom, DOMAIN gScore \subseteq Vertex
  PROVE  r \in Seq(Vertex) /\ Cardinality(Vertex) \in Nat /\ Len(r) <= Cardinality(Vertex)
<1> DEFINE n == Len(r)
<1>1. r \in Seq(DOMAIN gScore)
  BY DEF IsChain
<1>2. r \in Seq(Vertex)
  BY <1>1, SeqMonotonic
<1>3. n \in Nat /\ r \in [1 .. n -> Vertex]
  BY <1>2, LenProperties
<1>4. \A i, j \in 1 .. n : r[i] = r[j] => i = j
  <2> SUFFICES ASSUME NEW i \in 1 .. n, NEW j \in 1 .. n, i # j PROVE r[i] # r[j]
    OBVIOUS
  <2>1. i < j \/ j < i
    BY <1>3
  <2>2. QED
    BY <2>1, ChainIsSimple
<1> HIDE DEF n
<1>5. r \in Injection(1 .. n, Vertex)
  BY <1>3, <1>4 DEF Injection, IsInjective
<1>6. IsFiniteSet(Vertex)
  BY CostAssumption
<1>7. Cardinality(1 .. n) <= Cardinality(Vertex)
  BY <1>5, <1>6, FS_Injection
<1>8. Cardinality(1 .. n) = n
  BY <1>3, FS_Interval
<1>9. Cardinality(Vertex) \in Nat
  BY <1>6, FS_CardinalityType
<1>10. QED
  BY <1>2, <1>7, <1>8, <1>9 DEF n

\* What is read back from v is its chain.
LEMMA BackIsChain ==
  ASSUME NEW r, NEW v, IsChain(r, v), sId \notin DOMAIN cameFrom, DOMAIN gScore \subseteq Vertex
  PROVE  Back(v) = r
<1> DEFINE N == Cardinality(Vertex)
           P(f) == f = [n \in 0 .. N |->
                     IF n = 0 THEN <<v>>
                     ELSE LET w == f[n - 1] IN
                          IF Head(w) \in DOMAIN cameFrom THEN <<cameFrom[Head(w)]>> \o w ELSE w]
           L == Len(r)
           From(n) == IF n < L THEN L - n ELSE 1
           W == [n \in 0 .. N |-> SubSeq(r, From(n), L)]
<1>1. /\ r \in Seq(Vertex) /\ N \in Nat /\ L <= N /\ L \in Nat \ {0}
      /\ r[1] = sId /\ r[L] = v
      /\ \A i \in 1 .. L - 1 : r[i + 1] \in DOMAIN cameFrom /\ cameFrom[r[i + 1]] = r[i]
  BY ChainFits DEF IsChain
<1>len. L = Len(r)
  OBVIOUS
<1>num. N \in Nat /\ L \in Nat /\ 1 <= L /\ L <= N
  BY <1>1
<1> HIDE DEF N, L
<1>2. \A n \in Nat : From(n) \in 1 .. L
  BY <1>1
<1>3. SubSeq(r, L, L) = <<v>>
  <2>1. L \in 1 .. Len(r) /\ L \in L .. Len(r) /\ L + 1 > L
    BY <1>1, <1>len
  <2>2. SubSeq(r, L, L) = <<r[L]>> \o SubSeq(r, L + 1, L)
    BY <1>1, <2>1, SubSeqRecursiveFirst
  <2>3. SubSeq(r, L + 1, L) = <<>>
    BY <1>1, SubSeqEmpty
  <2>4. r[L] \in Vertex
    BY <1>1, <2>1
  <2>5. <<r[L]>> \o <<>> = <<r[L]>>
    BY <2>4, ConcatEmptySeq
  <2>6. QED
    BY <1>1, <2>2, <2>3, <2>5
<1>4. W[0] = <<v>>
  <2>1. 0 \in 0 .. N /\ From(0) = L
    BY <1>1
  <2>2. QED
    BY <1>3, <2>1
<1>5. ASSUME NEW n \in 0 .. N, n # 0
      PROVE  W[n] = IF Head(W[n - 1]) \in DOMAIN cameFrom
                    THEN <<cameFrom[Head(W[n - 1])]>> \o W[n - 1] ELSE W[n - 1]
  <2> DEFINE a == From(n - 1)
  <2>0. n \in Nat /\ n - 1 \in 0 .. N /\ n - 1 \in Nat
    BY <1>5, <1>num
  <2> HIDE DEF From
  <2>1. /\ n - 1 \in 0 .. N /\ n - 1 \in Nat
        /\ W[n] = SubSeq(r, From(n), L) /\ W[n - 1] = SubSeq(r, a, L)
    BY <2>0
  <2>2. a \in 1 .. L
    BY <1>2, <2>1
  <2>a. a = IF n - 1 < L THEN L - (n - 1) ELSE 1
    BY DEF From
  <2>b. From(n) = IF n < L THEN L - n ELSE 1
    BY DEF From
  <2> HIDE DEF a
  <2>3. Head(W[n - 1]) = r[a]
    <3>1. a \in 1 .. Len(r) /\ L \in a .. Len(r)
      BY <1>1, <1>len, <2>2
    <3>2. Head(SubSeq(r, a, L)) = r[a]
      BY <1>1, <3>1, HeadTailOfSubSeq
    <3>3. QED
      BY <2>1, <3>2
  <2>4. CASE n < L
    <3>1. a = L - n + 1 /\ From(n) = L - n /\ L - n \in 1 .. L - 1 /\ (L - n) + 1 = a
      BY <1>num, <2>0, <2>a, <2>b, <2>4
    <3>2. r[a] \in DOMAIN cameFrom /\ cameFrom[r[a]] = r[L - n]
      BY <1>1, <3>1
    <3>3. SubSeq(r, L - n, L) = <<r[L - n]>> \o SubSeq(r, a, L)
      <4>1. L - n \in 1 .. Len(r) /\ L \in L - n .. Len(r)
        BY <1>1, <1>len, <3>1
      <4>2. QED
        BY <1>1, <3>1, <4>1, SubSeqRecursiveFirst
    <3>4. QED
      BY <2>1, <2>3, <3>1, <3>2, <3>3
  <2>5. CASE ~(n < L)
    <3>1. a = 1 /\ From(n) = 1
      BY <1>num, <2>0, <2>a, <2>b, <2>5
    <3>2. QED
      BY <1>1, <2>1, <2>3, <3>1
  <2>6. QED
    BY <2>4, <2>5
<1> HIDE DEF W
<1>6. \A n \in 0 .. N : W[n] = IF n = 0 THEN <<v>>
                     ELSE LET w == W[n - 1] IN
                          IF Head(w) \in DOMAIN cameFrom THEN <<cameFrom[Head(w)]>> \o w ELSE w
  BY <1>4, <1>5
<1>7. P(W)
  <2>1. W = [n \in 0 .. N |-> W[n]]
    BY DEF W
  <2>2. QED
    BY <1>6, <2>1
<1>8. P(CHOOSE g : P(g))
  BY <1>7
<1>9. Back(v) = (CHOOSE g : P(g))[N]
  BY DEF Back, N
<1> DEFINE h == CHOOSE g : P(g)
<1> HIDE DEF h
<1>10. P(h) /\ Back(v) = h[N]
  BY <1>8, <1>9 DEF h
<1>11. \A n \in 0 .. N : h[n] = IF n = 0 THEN <<v>>
                     ELSE LET w == h[n - 1] IN
                          IF Head(w) \in DOMAIN cameFrom THEN <<cameFrom[Head(w)]>> \o w ELSE w
  BY <1>10
<1> HIDE DEF P
<1> DEFINE T == {k \in Nat : k \in 0 .. N => h[k] = W[k]}
<1>12. 0 \in T
  BY <1>1, <1>6, <1>11
<1>13. ASSUME NEW n \in Nat, n \in T PROVE n + 1 \in T
  <2> SUFFICES ASSUME n + 1 \in 0 .. N PROVE h[n + 1] = W[n + 1]
    OBVIOUS
  <2>1. h[n] = W[n]
    BY <1>1, <1>13
  <2>2. (n + 1) - 1 = n /\ n + 1 # 0
    OBVIOUS
  <2>3. QED
    BY <1>6, <1>11, <2>1, <2>2
<1> HIDE DEF T
<1>14. Nat \subseteq T
  BY <1>12, <1>13, SetInduction
<1>15. h[N] = W[N]
  BY <1>1, <1>14 DEF T
<1>16. W[N] = SubSeq(r, 1, L)
  <2>1. N \in 0 .. N /\ From(N) = 1
    BY <1>1
  <2>2. QED
    BY <2>1 DEF W
<1>17. QED
  BY <1>1, <1>len, <1>10, <1>15, <1>16, SubSeqFull

-----------------------------------------------------------------------------
(* What is reached stays joined to the start                                *)

\* At first only the start is reached.
LEMMA ReachedInit == AstarInit => ReachedFromStart /\ ChainsLeadToStart
<1> SUFFICES ASSUME AstarInit PROVE ReachedFromStart /\ ChainsLeadToStart
  OBVIOUS
<1>1. /\ DOMAIN gScore = {sId} \cap Vertex /\ \A v \in DOMAIN gScore : gScore[v] = 0
      /\ DOMAIN cameFrom = {}
  BY DEF AstarInit
<1>2. ReachedFromStart
  BY <1>1 DEF ReachedFromStart
<1>3. ASSUME NEW v \in DOMAIN gScore PROVE \E r : IsChain(r, v)
  <2>1. v = sId
    BY <1>1
  <2>2. <<v>> \in Seq(DOMAIN gScore) /\ Len(<<v>>) = 1 /\ <<v>>[1] = v
    OBVIOUS
  <2>3. IsChain(<<v>>, v)
    BY <2>1, <2>2 DEF IsChain
  <2>4. QED
    BY <2>3
<1>4. QED
  BY <1>2, <1>3 DEF ChainsLeadToStart

\* Expanding u finds it, and what leads to it, as it was.
LEMMA RelaxKeepsReached ==
  ASSUME ScoreInv, ReachedFromStart, ChainsLeadToStart,
         NEW u \in DOMAIN gScore, u \notin blocked,
         NEW rest, Relax(u, rest), UNCHANGED request
  PROVE  ReachedFromStart' /\ ChainsLeadToStart'
<1> DEFINE better == Improved(u)
<1>1. /\ DOMAIN gScore \subseteq Vertex /\ \A v \in DOMAIN gScore : gScore[v] \in Nat
      /\ better \subseteq Vertex
      /\ \A v \in better : Cost[u][v] \in Nat
      /\ sId' = sId
  <2>1. DOMAIN gScore \subseteq Vertex /\ \A v \in DOMAIN gScore : gScore[v] \in Nat
    BY DEF ScoreInv, AstarTypeOK
  <2>2. better \subseteq Adj[u] /\ Adj[u] \subseteq Vertex
    BY <2>1, GraphAssumption DEF Improved
  <2>3. \A v \in Vertex : Cost[u][v] \in Nat
    BY <2>1, GraphAssumption
  <2>4. QED
    BY <2>1, <2>2, <2>3 DEF request
<1>2. /\ DOMAIN gScore' = DOMAIN gScore \cup better
      /\ \A v \in better : gScore'[v] = gScore[u] + Cost[u][v]
      /\ \A v \in DOMAIN gScore \ better : gScore'[v] = gScore[v]
      /\ DOMAIN cameFrom' = DOMAIN cameFrom \cup better
      /\ \A v \in better : cameFrom'[v] = u
      /\ \A v \in DOMAIN cameFrom \ better : cameFrom'[v] = cameFrom[v]
  BY DEF Relax, Tentative
<1>3. \A v \in better : v \in DOMAIN gScore => gScore[u] < gScore[v]
  <2> SUFFICES ASSUME NEW v \in better, v \in DOMAIN gScore PROVE gScore[u] < gScore[v]
    OBVIOUS
  <2>1. gScore[u] + Cost[u][v] < gScore[v]
    BY DEF Improved, Tentative
  <2>2. QED
    BY <1>1, <2>1
<1> HIDE DEF better
<1>4. sId \in DOMAIN gScore /\ gScore[sId] = 0 /\ sId \in Vertex
  BY <1>1 DEF ReachedFromStart
<1>5. sId \notin better /\ u \notin better
  BY <1>1, <1>3, <1>4
<1>6. ReachedFromStart'
  BY <1>1, <1>2, <1>4, <1>5 DEF ReachedFromStart
\* One more predecessor makes a chain longer.
<1>7. ASSUME NEW r, NEW v, IsChain(r, v)', NEW w \in DOMAIN cameFrom', cameFrom'[w] = v,
             w \in DOMAIN gScore'
      PROVE  IsChain(Append(r, w), w)'
  <2> DEFINE n == Len(r)
             s == Append(r, w)
  <2>1. /\ r \in Seq(DOMAIN gScore') /\ n \in Nat /\ n # 0 /\ r[1] = sId' /\ r[n] = v
        /\ \A i \in 1 .. n - 1 : r[i + 1] \in DOMAIN cameFrom' /\ cameFrom'[r[i + 1]] = r[i]
    BY <1>7 DEF IsChain
  <2>2. s \in Seq(DOMAIN gScore') /\ Len(s) = n + 1 /\ s[n + 1] = w
        /\ \A i \in 1 .. n : s[i] = r[i]
    BY <1>7, <2>1, AppendProperties
  <2> HIDE DEF n, s
  <2>3. ASSUME NEW i \in 1 .. (n + 1) - 1
        PROVE  s[i + 1] \in DOMAIN cameFrom' /\ cameFrom'[s[i + 1]] = s[i]
    <3>1. CASE i = n
      BY <1>7, <2>1, <2>2, <3>1
    <3>2. CASE i # n
      <4>1. i \in 1 .. n - 1 /\ i \in 1 .. n /\ i + 1 \in 1 .. n
        BY <2>1, <3>2
      <4>2. QED
        BY <2>1, <2>2, <4>1
    <3>3. QED
      BY <3>1, <3>2
  <2>4. s[1] = sId' /\ Len(s) # 0
    BY <2>1, <2>2
  <2>5. IsChain(s, w)'
    BY <2>2, <2>3, <2>4 DEF IsChain
  <2>6. QED
    BY <2>5 DEF s
\* The chain of u has no improved vertex in it, for their scores are higher.
<1>8. \E r : IsChain(r, u)'
  <2>1. PICK r : IsChain(r, u)
    BY DEF ChainsLeadToStart
  <2> DEFINE n == Len(r)
  <2>2. /\ r \in Seq(DOMAIN gScore) /\ n \in Nat /\ n # 0 /\ r[1] = sId /\ r[n] = u
        /\ \A i \in 1 .. n - 1 : r[i + 1] \in DOMAIN cameFrom /\ cameFrom[r[i + 1]] = r[i]
        /\ \A i \in 1 .. n : r[i] \in DOMAIN gScore
    BY <2>1 DEF IsChain
  <2> HIDE DEF n
  <2>3. \A i \in 1 .. n - 1 : gScore[r[i]] <= gScore[r[i + 1]]
    <3> SUFFICES ASSUME NEW i \in 1 .. n - 1 PROVE gScore[r[i]] <= gScore[r[i + 1]]
      OBVIOUS
    <3>1. r[i + 1] \in DOMAIN cameFrom /\ cameFrom[r[i + 1]] = r[i]
          /\ i \in 1 .. n /\ i + 1 \in 1 .. n
      BY <2>2
    <3>2. r[i] \in DOMAIN gScore /\ r[i + 1] \in DOMAIN gScore
      BY <2>2, <3>1
    <3>3. gScore[r[i]] + Cost[r[i]][r[i + 1]] <= gScore[r[i + 1]]
      BY <3>1 DEF ScoreInv, ScoresFollowPredecessors
    <3>4. r[i] \in Vertex /\ r[i + 1] \in Vertex /\ gScore[r[i]] \in Nat /\ gScore[r[i + 1]] \in Nat
      BY <1>1, <3>2
    <3>5. Cost[r[i]][r[i + 1]] \in Nat
      BY <3>4, GraphAssumption
    <3>6. QED
      BY <3>3, <3>4, <3>5
  <2> DEFINE T == {k \in Nat : k < n => gScore[r[n - k]] <= gScore[u]}
  <2>4. 0 \in T
    BY <1>1, <2>2
  <2>5. ASSUME NEW k \in Nat, k \in T PROVE k + 1 \in T
    <3> SUFFICES ASSUME k + 1 < n PROVE gScore[r[n - (k + 1)]] <= gScore[u]
      OBVIOUS
    <3>1. n - (k + 1) \in 1 .. n - 1 /\ (n - (k + 1)) + 1 = n - k /\ n - k \in 1 .. n
          /\ n - (k + 1) \in 1 .. n
      BY <2>2
    <3>2. gScore[r[n - (k + 1)]] <= gScore[r[n - k]]
      BY <2>3, <3>1
    <3>3. gScore[r[n - k]] <= gScore[u]
      BY <2>2, <2>5
    <3>4. gScore[r[n - (k + 1)]] \in Nat /\ gScore[r[n - k]] \in Nat /\ gScore[u] \in Nat
      BY <1>1, <2>2, <3>1
    <3>5. QED
      BY <3>2, <3>3, <3>4
  <2> HIDE DEF T
  <2>6. Nat \subseteq T
    BY <2>4, <2>5, SetInduction
  <2>7. ASSUME NEW i \in 1 .. n PROVE r[i] \notin better
    <3>1. n - i \in T /\ n - i \in Nat /\ n - i < n /\ n - (n - i) = i
      BY <2>2, <2>6
    <3>2. gScore[r[i]] <= gScore[u]
      BY <3>1 DEF T
    <3>3. r[i] \in DOMAIN gScore /\ gScore[r[i]] \in Nat /\ gScore[u] \in Nat
      BY <1>1, <2>2
    <3>4. QED
      BY <1>3, <3>2, <3>3
  <2>8. r \in Seq(DOMAIN gScore')
    BY <1>2, <2>2, SeqMonotonic
  <2>9. ASSUME NEW i \in 1 .. n - 1
        PROVE  r[i + 1] \in DOMAIN cameFrom' /\ cameFrom'[r[i + 1]] = r[i]
    <3>1. i + 1 \in 1 .. n
      BY <2>2
    <3>2. QED
      BY <1>2, <2>2, <2>7, <3>1
  <2>10. IsChain(r, u)'
    BY <1>1, <2>2, <2>8, <2>9 DEF IsChain, n
  <2>11. QED
    BY <2>10
<1>9. \A w \in better : \E r : IsChain(r, w)'
  BY <1>2, <1>7, <1>8
<1>10. ASSUME NEW w \in DOMAIN gScore PROVE \E r : IsChain(r, w)'
  <2>1. PICK r : IsChain(r, w)
    BY DEF ChainsLeadToStart
  <2> DEFINE n == Len(r)
  <2>2. /\ r \in Seq(DOMAIN gScore) /\ n \in Nat /\ n # 0 /\ r[1] = sId /\ r[n] = w
        /\ \A i \in 1 .. n - 1 : r[i + 1] \in DOMAIN cameFrom /\ cameFrom[r[i + 1]] = r[i]
        /\ \A i \in 1 .. n : r[i] \in DOMAIN gScore
    BY <2>1 DEF IsChain
  <2> HIDE DEF n
  <2> DEFINE T == {k \in Nat : k + 1 <= n => \E q : IsChain(q, r[k + 1])'}
  <2>3. \A k \in Nat : k \in T <=> (k + 1 <= n => \E q : IsChain(q, r[k + 1])')
    OBVIOUS
  <2> HIDE DEF T
  <2>4. 0 \in T
    <3>1. PICK s : s = sId
      OBVIOUS
    <3>2. <<s>> \in Seq(DOMAIN gScore') /\ Len(<<s>>) = 1 /\ <<s>>[1] = s
      BY <1>2, <1>4, <3>1
    <3>3. IsChain(<<s>>, s)'
      BY <1>1, <3>1, <3>2 DEF IsChain
    <3>4. r[0 + 1] = s /\ 0 \in Nat
      BY <2>2, <3>1
    <3>5. QED
      BY <2>3, <3>3, <3>4
  <2>5. ASSUME NEW k \in Nat, k \in T PROVE k + 1 \in T
    <3> SUFFICES ASSUME (k + 1) + 1 <= n PROVE \E q : IsChain(q, r[(k + 1) + 1])'
      BY <2>3
    <3>1. k + 1 \in 1 .. n - 1 /\ k + 1 <= n /\ (k + 1) + 1 \in 1 .. n
      BY <2>2
    <3>2. PICK q : IsChain(q, r[k + 1])'
      BY <2>3, <2>5, <3>1
    <3>3. /\ r[(k + 1) + 1] \in DOMAIN cameFrom /\ cameFrom[r[(k + 1) + 1]] = r[k + 1]
          /\ r[(k + 1) + 1] \in DOMAIN gScore
      BY <2>2, <3>1
    <3>4. CASE r[(k + 1) + 1] \in better
      BY <1>9, <3>4
    <3>5. CASE r[(k + 1) + 1] \notin better
      <4>1. /\ r[(k + 1) + 1] \in DOMAIN cameFrom' /\ cameFrom'[r[(k + 1) + 1]] = r[k + 1]
            /\ r[(k + 1) + 1] \in DOMAIN gScore'
        BY <1>2, <3>3, <3>5
      <4>2. IsChain(Append(q, r[(k + 1) + 1]), r[(k + 1) + 1])'
        BY <1>7, <3>2, <4>1
      <4>3. QED
        BY <4>2
    <3>6. QED
      BY <3>4, <3>5
  <2>6. Nat \subseteq T
    BY <2>4, <2>5, SetInduction
  <2>7. n - 1 \in T /\ n - 1 \in Nat /\ (n - 1) + 1 = n /\ n <= n
    BY <2>2, <2>6
  <2>8. QED
    BY <2>2, <2>3, <2>7
<1>11. ChainsLeadToStart'
  BY <1>2, <1>9, <1>10 DEF ChainsLeadToStart
<1>12. QED
  BY <1>6, <1>11

-----------------------------------------------------------------------------
(* Every vertex reached is expanded, or its element is still to be taken    *)

\* v has been expanded at its present score: no neighbour of it can be improved.
Settled(v) ==
  \A w \in Adj[v] \ blocked : w \in DOMAIN gScore /\ gScore[w] <= gScore[v] + Cost[v][w]

\* v is in the queue with its present score, or with a better one.
Queued(v) == \E q \in pq : q.id = v /\ q.f <= gScore[v] + Heuristic(v)

Pending == ~done => \A v \in DOMAIN gScore \ blocked : Queued(v) \/ (v # gId /\ Settled(v))

\* No element promises more than the score of its vertex; the first one, put
\* in without its heuristic, may.
QueueBounds == \A q \in pq : q.id = sId \/ gScore[q.id] + Heuristic(q.id) <= q.f

\* What the search has found when it ends.
Answered ==
  done => \/ NoVertex \in {sId, gId}
          \/ sId = gId
          \/ \A r \in Routes(sId, gId, blocked) :
               gId \in DOMAIN cameFrom /\ gScore[gId] <= RouteCost(r)

Snapped ==
  /\ sId \in OrNone(SnapVertex(start, blocked))
  /\ gId \in OrNone(SnapVertex(goal, blocked))

SearchInv ==
  /\ ScoreInv /\ ReachedFromStart /\ ChainsLeadToStart
  /\ QueueBounds /\ Pending /\ Answered /\ Snapped

\* Along a route the cost so far and the heuristic never fall together.
LEMMA HeuristicAlongRoute ==
  ASSUME NEW p \in Point, NEW r \in Seq(Vertex), NEW c, IsCosts(c, r),
         \A i \in 1 .. Len(r) - 1 : r[i + 1] \in Adj[r[i]],
         NEW i \in 1 .. Len(r)
  PROVE  c[i] + Dist[r[i]][p] <= c[Len(r)] + Dist[r[Len(r)]][p]
<1> DEFINE n == Len(r)
           h == [k \in 1 .. n |-> Dist[r[k]][p]]
<1>1. n \in Nat /\ i \in 1 .. n
  OBVIOUS
<1>2. \A k \in 1 .. n : r[k] \in Vertex
  OBVIOUS
<1>3. h \in [1 .. n -> Nat]
  BY <1>2, GraphAssumption
<1>4. /\ c \in [1 .. n -> Nat]
      /\ \A k \in 1 .. n - 1 : c[k + 1] = c[k] + Cost[r[k]][r[k + 1]]
  BY DEF IsCosts
<1>5. ASSUME NEW k \in 1 .. n - 1 PROVE c[k] + h[k] <= c[k + 1] + h[k + 1]
  <2>1. k \in 1 .. n /\ k + 1 \in 1 .. n
    BY <1>1
  <2>2. r[k] \in Vertex /\ r[k + 1] \in Vertex /\ r[k + 1] \in Adj[r[k]]
    BY <1>2, <2>1
  <2>3. Dist[p][r[k]] <= Cost[r[k]][r[k + 1]] + Dist[p][r[k + 1]]
    BY <2>2, CostAssumption
  <2>4. Dist[p][r[k]] = Dist[r[k]][p] /\ Dist[p][r[k + 1]] = Dist[r[k + 1]][p]
    BY <2>2, CostAssumption, GraphAssumption
  <2>5. h[k] = Dist[p][r[k]] /\ h[k + 1] = Dist[p][r[k + 1]]
    BY <2>1, <2>4
  <2>6. h[k] \in Nat /\ h[k + 1] \in Nat /\ c[k] \in Nat /\ Cost[r[k]][r[k + 1]] \in Nat
    BY <1>3, <1>4, <2>1, <2>2, GraphAssumption
  <2>7. h[k] <= Cost[r[k]][r[k + 1]] + h[k + 1]
    BY <2>3, <2>5
  <2> HIDE DEF h
  <2>8. c[k + 1] = c[k] + Cost[r[k]][r[k + 1]]
    BY <1>4
  <2>9. QED
    BY <2>6, <2>7, <2>8
<1>6. h[i] = Dist[r[i]][p] /\ h[n] = Dist[r[n]][p]
  BY <1>1
<1> DEFINE T == {k \in Nat : k < n => c[n - k] + h[n - k] <= c[n] + h[n]}
<1> HIDE DEF n, h
<1>7. 0 \in T
  BY <1>1, <1>3, <1>4
<1>8. ASSUME NEW k \in Nat, k \in T PROVE k + 1 \in T
  <2> SUFFICES ASSUME k + 1 < n PROVE c[n - (k + 1)] + h[n - (k + 1)] <= c[n] + h[n]
    OBVIOUS
  <2>1. /\ n - (k + 1) \in 1 .. n - 1 /\ (n - (k + 1)) + 1 = n - k
        /\ n - k \in 1 .. n /\ n - (k + 1) \in 1 .. n /\ n \in 1 .. n /\ k < n
    BY <1>1
  <2>2. c[n - (k + 1)] + h[n - (k + 1)] <= c[n - k] + h[n - k]
    BY <1>5, <2>1
  <2>3. c[n - k] + h[n - k] <= c[n] + h[n]
    BY <1>8, <2>1
  <2>4. /\ c[n - (k + 1)] \in Nat /\ h[n - (k + 1)] \in Nat /\ c[n - k] \in Nat
        /\ h[n - k] \in Nat /\ c[n] \in Nat /\ h[n] \in Nat
    BY <1>3, <1>4, <2>1
  <2>5. QED
    BY <2>2, <2>3, <2>4
<1> HIDE DEF T
<1>9. Nat \subseteq T
  BY <1>7, <1>8, SetInduction
<1>10. n - i \in T /\ n - i < n /\ n - (n - i) = i
  BY <1>1, <1>9
<1>11. c[i] + h[i] <= c[n] + h[n]
  BY <1>10 DEF T
<1>12. QED
  BY <1>6, <1>11 DEF n

\* On every route there is a vertex the search has reached as cheaply as the
\* route does and whose element is still in the queue: before it every vertex
\* has been expanded.
LEMMA Frontier ==
  ASSUME AstarTypeOK, ReachedFromStart, Pending, ~done, sId \in Vertex,
         NEW r, IsRoute(r, sId, gId, blocked), NEW c, IsCosts(c, r)
  PROVE  \E i \in 1 .. Len(r) :
           r[i] \in DOMAIN gScore /\ gScore[r[i]] <= c[i] /\ Queued(r[i])
<1> SUFFICES ASSUME \A i \in 1 .. Len(r) :
                      r[i] \in DOMAIN gScore /\ gScore[r[i]] <= c[i] => ~Queued(r[i])
             PROVE  FALSE
  OBVIOUS
<1> DEFINE n == Len(r)
<1>1. /\ r \in Seq(Vertex \ blocked) /\ n \in Nat /\ n >= 2 /\ r[1] = sId /\ r[n] = gId
      /\ \A i \in 1 .. n - 1 : r[i + 1] \in Adj[r[i]]
      /\ \A i \in 1 .. n : r[i] \in Vertex \ blocked
  BY DEF IsRoute
<1>2. /\ c \in [1 .. n -> Nat] /\ c[1] = 0
      /\ \A k \in 1 .. n - 1 : c[k + 1] = c[k] + Cost[r[k]][r[k + 1]]
  BY DEF IsCosts
<1>3. /\ \A v \in DOMAIN gScore : v \in Vertex /\ gScore[v] \in Nat
      /\ sId \in DOMAIN gScore /\ gScore[sId] = 0
  BY DEF AstarTypeOK, ReachedFromStart
<1>4. \A i \in 1 .. n :
        r[i] \in DOMAIN gScore /\ gScore[r[i]] <= c[i] => r[i] # gId /\ Settled(r[i])
  <2> SUFFICES ASSUME NEW i \in 1 .. n, r[i] \in DOMAIN gScore, gScore[r[i]] <= c[i]
               PROVE  r[i] # gId /\ Settled(r[i])
    OBVIOUS
  <2>1. ~Queued(r[i])
    OBVIOUS
  <2>2. r[i] \in DOMAIN gScore \ blocked
    BY <1>1
  <2>3. QED
    BY <2>1, <2>2 DEF Pending
<1> HIDE DEF n
<1> DEFINE T == {k \in Nat :
                  k + 1 <= n => r[k + 1] \in DOMAIN gScore /\ gScore[r[k + 1]] <= c[k + 1]}
<1>5. 0 \in T
  BY <1>1, <1>2, <1>3
<1>6. ASSUME NEW k \in Nat, k \in T PROVE k + 1 \in T
  <2> DEFINE u == r[k + 1]
             v == r[(k + 1) + 1]
  <2> SUFFICES ASSUME (k + 1) + 1 <= n
               PROVE  v \in DOMAIN gScore /\ gScore[v] <= c[(k + 1) + 1]
    OBVIOUS
  <2>1. k + 1 \in 1 .. n - 1 /\ k + 1 \in 1 .. n /\ (k + 1) + 1 \in 1 .. n /\ k + 1 <= n
    BY <1>1
  <2>2. u \in DOMAIN gScore /\ gScore[u] <= c[k + 1]
    BY <1>6, <2>1
  <2>3. v \in Adj[u] /\ v \notin blocked /\ c[(k + 1) + 1] = c[k + 1] + Cost[u][v]
    BY <1>1, <1>2, <2>1
  <2>4. Settled(u)
    BY <1>4, <2>1, <2>2
  <2> HIDE DEF u, v
  <2>5. v \in DOMAIN gScore /\ gScore[v] <= gScore[u] + Cost[u][v]
    BY <2>3, <2>4 DEF Settled
  <2>6. gScore[u] \in Nat /\ gScore[v] \in Nat /\ c[k + 1] \in Nat /\ u \in Vertex /\ v \in Vertex
    BY <1>2, <1>3, <2>1, <2>2, <2>5
  <2>7. Cost[u][v] \in Nat
    BY <2>6, GraphAssumption
  <2>8. QED
    BY <2>2, <2>3, <2>5, <2>6, <2>7
<1> HIDE DEF T
<1>7. Nat \subseteq T
  BY <1>5, <1>6, SetInduction
<1>8. n - 1 \in T /\ (n - 1) + 1 = n /\ n <= n
  BY <1>1, <1>7
<1>9. r[n] \in DOMAIN gScore /\ gScore[r[n]] <= c[n]
  BY <1>8 DEF T
<1>10. n \in 1 .. n
  BY <1>1
<1>11. QED
  BY <1>1, <1>4, <1>9, <1>10

\* When the goal is taken out, no route is cheaper than its score.
LEMMA GoalIsCheapest ==
  ASSUME AstarTypeOK, QueueReached, ReachedFromStart, QueueBounds, Pending, ~done, sId # gId,
         sId \in Vertex, NEW q \in Top, q.id = gId,
         NEW r, IsRoute(r, sId, gId, blocked)
  PROVE  gScore[gId] <= RouteCost(r)
<1>1. /\ r \in Seq(Vertex \ blocked) /\ Len(r) \in Nat /\ Len(r) >= 2 /\ r[Len(r)] = gId
      /\ \A i \in 1 .. Len(r) - 1 : r[i + 1] \in Adj[r[i]]
  BY DEF IsRoute
<1>2. r \in Seq(Vertex) /\ Len(r) # 0
  BY <1>1, SeqMonotonic
<1>3. PICK c : IsCosts(c, r) /\ RouteCost(r) = c[Len(r)]
  BY <1>2, RouteCostIsLast
<1>4. PICK i \in 1 .. Len(r) : r[i] \in DOMAIN gScore /\ gScore[r[i]] <= c[i] /\ Queued(r[i])
  BY <1>3, Frontier
<1>5. PICK p \in pq : p.id = r[i] /\ p.f <= gScore[r[i]] + Heuristic(r[i])
  BY <1>4 DEF Queued
<1>6. q \in pq /\ q.f <= p.f
  BY <1>5 DEF Top
<1>7. gScore[gId] + Heuristic(gId) <= q.f /\ gId \in DOMAIN gScore
  BY <1>6 DEF QueueBounds, QueueReached
<1>8. c[i] + Dist[r[i]][goal] <= c[Len(r)] + Dist[gId][goal]
  <2>1. goal \in Point
    BY DEF AstarTypeOK
  <2>2. c[i] + Dist[r[i]][goal] <= c[Len(r)] + Dist[r[Len(r)]][goal]
    BY <1>1, <1>2, <1>3, <2>1, HeuristicAlongRoute
  <2>3. QED
    BY <1>1, <2>2
<1>9. /\ gScore[gId] \in Nat /\ gScore[r[i]] \in Nat /\ q.f \in Nat /\ p.f \in Nat
      /\ gId \in Vertex /\ r[i] \in Vertex /\ goal \in Point
  BY <1>4, <1>5, <1>6, <1>7 DEF AstarTypeOK
<1>10. Dist[r[i]][goal] \in Nat /\ Dist[gId][goal] \in Nat
  BY <1>9, GraphAssumption
<1>11. c[i] \in Nat /\ c[Len(r)] \in Nat
  BY <1>1, <1>3 DEF IsCosts
<1>12. /\ p.f <= gScore[r[i]] + Dist[r[i]][goal]
       /\ gScore[gId] + Dist[gId][goal] <= q.f
  BY <1>5, <1>7 DEF Heuristic
<1>13. gScore[gId] + Dist[gId][goal] <= gScore[r[i]] + Dist[r[i]][goal]
  <2>1. gScore[gId] + Dist[gId][goal] \in Nat /\ gScore[r[i]] + Dist[r[i]][goal] \in Nat
    BY <1>9, <1>10
  <2> QED
    BY <1>6, <1>9, <1>12, <2>1
<1>14. gScore[r[i]] + Dist[r[i]][goal] <= c[Len(r)] + Dist[gId][goal]
  <2>1. gScore[r[i]] + Dist[r[i]][goal] <= c[i] + Dist[r[i]][goal]
    BY <1>4, <1>9, <1>10, <1>11
  <2>2. QED
    BY <1>8, <1>9, <1>10, <1>11, <2>1
<1>15. gScore[gId] <= c[Len(r)]
  BY <1>9, <1>10, <1>11, <1>13, <1>14
<1>16. QED
  BY <1>3, <1>15

\* Snapping finds vertices or nothing.
LEMMA SnapsToVertices ==
  ASSUME NEW p, NEW skipped
  PROVE  SnapVertex(p, skipped) \subseteq Vertex
BY DEF SnapVertex, FindClosestVertex, Nearest

\* The search begins with the start, if there is one, in its queue.
LEMMA SearchInvInit == AstarInit => SearchInv
<1> SUFFICES ASSUME AstarInit PROVE SearchInv
  OBVIOUS
<1>1. ScoreInv /\ ReachedFromStart /\ ChainsLeadToStart
  BY InitScoreInv, ReachedInit
<1>2. Snapped /\ Answered
  BY DEF AstarInit, Snapped, Answered
<1>3. /\ DOMAIN gScore = {sId} \cap Vertex /\ \A v \in DOMAIN gScore : gScore[v] = 0
      /\ pq = {[id |-> v, f |-> 0] : v \in {sId} \cap Vertex}
  BY DEF AstarInit
<1>4. QueueBounds
  BY <1>3 DEF QueueBounds
<1>5. ASSUME NEW v \in DOMAIN gScore PROVE Queued(v)
  <2>1. v \in Vertex /\ goal \in Point /\ gScore[v] = 0 /\ v \in {sId} \cap Vertex
    BY <1>3 DEF AstarInit
  <2>2. Heuristic(v) \in Nat
    BY <2>1, GraphAssumption DEF Heuristic
  <2>3. [id |-> v, f |-> 0] \in pq
    BY <1>3, <2>1
  <2>4. QED
    BY <2>1, <2>2, <2>3 DEF Queued
<1>6. Pending
  BY <1>5 DEF Pending
<1>7. QED
  BY <1>1, <1>2, <1>4, <1>6 DEF SearchInv

\* Expanding u settles it; whatever it improves goes into the queue, and what
\* was settled stays so, for its neighbours' scores only fall.
LEMMA RelaxKeepsPending ==
  ASSUME ScoreInv, QueueBounds, Pending, ~done,
         NEW q \in pq, q.id \notin blocked, q.id # gId, Relax(q.id, pq \ {q}),
         UNCHANGED request
  PROVE  QueueBounds' /\ Pending'
<1> DEFINE u == q.id
           better == Improved(u)
<1>1. /\ u \in DOMAIN gScore
      /\ \A v \in DOMAIN gScore : v \in Vertex /\ gScore[v] \in Nat
      /\ goal \in Point
      /\ \A p \in pq : p.id \in DOMAIN gScore /\ p.f \in Nat
  BY DEF ScoreInv, AstarTypeOK, QueueReached
<1>2. \A v \in Adj[u] : v \in Vertex /\ Cost[u][v] \in Nat
  BY <1>1, GraphAssumption
<1>3. /\ better \subseteq Adj[u] \ blocked
      /\ \A v \in better : v \in DOMAIN gScore => gScore[u] + Cost[u][v] < gScore[v]
      /\ \A v \in (Adj[u] \ blocked) \ better :
           v \in DOMAIN gScore /\ ~(gScore[u] + Cost[u][v] < gScore[v])
  BY DEF Improved, Tentative
<1>4. /\ DOMAIN gScore' = DOMAIN gScore \cup better
      /\ \A v \in better : gScore'[v] = gScore[u] + Cost[u][v]
      /\ \A v \in DOMAIN gScore \ better : gScore'[v] = gScore[v]
  BY DEF Relax, Tentative
<1>5. /\ \A p \in pq' :
           p \in pq \/ (p.id \in better /\ p.f = gScore[u] + Cost[u][p.id] + Heuristic(p.id))
      /\ \A p \in pq \ {q} : p \in pq'
      /\ \A v \in better : [id |-> v, f |-> gScore[u] + Cost[u][v] + Heuristic(v)] \in pq'
  BY DEF Relax, Tentative
<1>6. /\ blocked' = blocked /\ sId' = sId /\ gId' = gId /\ goal' = goal
      /\ \A v : Heuristic(v)' = Heuristic(v)
  BY DEF request, Heuristic
<1>7. \A v \in Vertex : Heuristic(v) \in Nat
  BY <1>1, GraphAssumption DEF Heuristic
<1> HIDE DEF better, u
<1>8. u \notin better
  <2> SUFFICES ASSUME u \in better PROVE FALSE
    OBVIOUS
  <2>1. gScore[u] + Cost[u][u] < gScore[u] /\ Cost[u][u] \in Nat /\ gScore[u] \in Nat
    BY <1>1, <1>2, <1>3
  <2>2. QED
    BY <2>1
<1>9. \A v \in DOMAIN gScore : gScore'[v] <= gScore[v] /\ gScore'[v] \in Nat
  <2> SUFFICES ASSUME NEW v \in DOMAIN gScore PROVE gScore'[v] <= gScore[v] /\ gScore'[v] \in Nat
    OBVIOUS
  <2>1. gScore[v] \in Nat /\ gScore[u] \in Nat
    BY <1>1
  <2>2. CASE v \in better
    <3>1. gScore[u] + Cost[u][v] < gScore[v] /\ gScore'[v] = gScore[u] + Cost[u][v]
          /\ Cost[u][v] \in Nat
      BY <1>2, <1>3, <1>4, <2>2
    <3>2. QED
      BY <2>1, <3>1
  <2>3. CASE v \notin better
    BY <1>4, <2>1, <2>3
  <2>4. QED
    BY <2>2, <2>3
<1>10. ASSUME NEW p \in pq', p.id # sId
       PROVE  gScore'[p.id] + Heuristic(p.id) <= p.f
  <2> DEFINE v == p.id
             b == gScore'[v]
  <2>1. CASE v \in better /\ p.f = gScore[u] + Cost[u][v] + Heuristic(v)
    <3>1. /\ b = gScore[u] + Cost[u][v] /\ gScore[u] \in Nat
          /\ Cost[u][v] \in Nat /\ Heuristic(v) \in Nat
      BY <1>1, <1>2, <1>3, <1>4, <1>7, <2>1
    <3>2. QED
      BY <2>1, <3>1
  <2>2. CASE p \in pq
    <3>1. v \in DOMAIN gScore /\ v \in Vertex /\ gScore[v] \in Nat /\ p.f \in Nat
      BY <1>1, <2>2
    <3>2. gScore[v] + Heuristic(v) <= p.f
      BY <1>10, <2>2 DEF QueueBounds
    <3>3. b <= gScore[v] /\ b \in Nat /\ Heuristic(v) \in Nat
      BY <1>7, <1>9, <3>1
    <3> HIDE DEF v, b
    <3>4. b + Heuristic(v) <= p.f
      BY <3>1, <3>2, <3>3
    <3>5. QED
      BY <3>4 DEF v, b
  <2>3. QED
    BY <1>5, <2>1, <2>2
<1>11. QueueBounds'
  BY <1>6, <1>10 DEF QueueBounds
<1>12. ASSUME NEW v \in DOMAIN gScore' \ blocked
       PROVE  Queued(v)' \/ (v # gId /\ Settled(v)')
  <2>1. CASE v \in better
    <3> DEFINE p == [id |-> v, f |-> gScore[u] + Cost[u][v] + Heuristic(v)]
    <3>1. p \in pq' /\ p.id = v /\ p.f = gScore[u] + Cost[u][v] + Heuristic(v)
      BY <1>5, <2>1
    <3> HIDE DEF p
    <3>2. gScore'[v] = gScore[u] + Cost[u][v] /\ gScore[u] \in Nat /\ Cost[u][v] \in Nat
          /\ Heuristic(v) \in Nat
      BY <1>1, <1>2, <1>3, <1>4, <1>7, <2>1
    <3>3. p.f <= gScore'[v] + Heuristic(v)
      BY <3>1, <3>2
    <3>4. QED
      BY <1>6, <3>1, <3>3 DEF Queued
  <2>2. CASE v = u
    <3>1. ASSUME NEW w \in Adj[u] \ blocked
          PROVE  w \in DOMAIN gScore' /\ gScore'[w] <= gScore'[u] + Cost[u][w]
      <4>1. gScore'[u] = gScore[u] /\ gScore[u] \in Nat /\ Cost[u][w] \in Nat
        BY <1>1, <1>2, <1>4, <1>8
      <4>2. CASE w \in better
        <5>1. gScore'[w] = gScore[u] + Cost[u][w] /\ w \in DOMAIN gScore'
          BY <1>4, <4>2
        <5>2. QED
          BY <4>1, <5>1
      <4>3. CASE w \notin better
        <5>1. w \in DOMAIN gScore /\ ~(gScore[u] + Cost[u][w] < gScore[w])
          BY <1>3, <4>3
        <5>2. gScore'[w] = gScore[w] /\ gScore[w] \in Nat /\ w \in DOMAIN gScore'
          BY <1>1, <1>4, <4>3, <5>1
        <5>3. QED
          BY <4>1, <5>1, <5>2
      <4>4. QED
        BY <4>2, <4>3
    <3>2. Settled(u)'
      BY <1>6, <3>1 DEF Settled
    <3>3. v # gId
      BY <2>2 DEF u
    <3>4. QED
      BY <2>2, <3>2, <3>3
  <2>3. CASE v \notin better /\ v # u
    <3>1. v \in DOMAIN gScore \ blocked /\ gScore'[v] = gScore[v]
      BY <1>4, <2>3
    <3>2. CASE Queued(v)
      <4>1. PICK p \in pq : p.id = v /\ p.f <= gScore[v] + Heuristic(v)
        BY <3>2 DEF Queued
      <4>2. p \in pq'
        BY <1>5, <2>3, <4>1 DEF u
      <4>3. QED
        BY <1>6, <3>1, <4>1, <4>2 DEF Queued
    <3>3. CASE v # gId /\ Settled(v)
      <4>1. ASSUME NEW w \in Adj[v] \ blocked
            PROVE  w \in DOMAIN gScore' /\ gScore'[w] <= gScore'[v] + Cost[v][w]
        <5>1. w \in DOMAIN gScore /\ gScore[w] <= gScore[v] + Cost[v][w]
          BY <3>3 DEF Settled
        <5>2. gScore'[w] <= gScore[w] /\ gScore'[w] \in Nat /\ gScore[w] \in Nat
              /\ w \in DOMAIN gScore'
          BY <1>1, <1>4, <1>9, <5>1
        <5>3. v \in Vertex /\ w \in Vertex /\ gScore[v] \in Nat
          BY <1>1, <3>1, <5>1
        <5>4. Cost[v][w] \in Nat
          BY <5>3, GraphAssumption
        <5>5. gScore'[w] <= gScore[v] + Cost[v][w]
          BY <5>1, <5>2, <5>3, <5>4
        <5>6. QED
          BY <3>1, <5>2, <5>5
      <4>2. Settled(v)'
        BY <1>6, <4>1 DEF Settled
      <4>3. QED
        BY <3>3, <4>2
    <3>4. QED
      BY <3>1, <3>2, <3>3 DEF Pending
  <2>4. QED
    BY <2>1, <2>2, <2>3
<1>13. Pending'
  BY <1>6, <1>12 DEF Pending
<1>14. QED
  BY <1>11, <1>13

\* Each turn of the loop, and the end of the queue, keep all of it.
LEMMA SearchInvStep == SearchInv /\ [AstarNext]_astarVars => SearchInv'
<1> SUFFICES ASSUME SearchInv, [AstarNext]_astarVars PROVE SearchInv'
  OBVIOUS
<1>0. /\ ScoreInv /\ ReachedFromStart /\ ChainsLeadToStart
      /\ QueueBounds /\ Pending /\ Answered /\ Snapped
  BY DEF SearchInv
<1>1. ScoreInv'
  BY <1>0, StepScoreInv
<1>2. CASE Pop
  <2>1. PICK q \in Top :
          /\ ~done /\ done' = (q.id = gId)
          /\ IF done' \/ q.id \in blocked
               THEN pq' = pq \ {q} /\ UNCHANGED <<gScore, cameFrom>>
               ELSE Relax(q.id, pq \ {q})
          /\ UNCHANGED request
    BY <1>2 DEF Pop
  <2>2. q \in pq /\ q.id \in DOMAIN gScore
    BY <1>0 DEF Top, ScoreInv, QueueReached
  <2>3. Snapped'
    BY <1>0, <2>1 DEF Snapped, request
  <2>4. CASE done' \/ q.id \in blocked
    <3>1. pq' = pq \ {q} /\ gScore' = gScore /\ cameFrom' = cameFrom
      BY <2>1, <2>4
    <3>2. ReachedFromStart' /\ ChainsLeadToStart'
      BY <1>0, <2>1, <3>1 DEF ReachedFromStart, ChainsLeadToStart, IsChain, request
    <3>3. QueueBounds'
      BY <1>0, <2>1, <3>1 DEF QueueBounds, Heuristic, request
    <3>4. Pending'
      <4> SUFFICES ASSUME ~done', NEW v \in DOMAIN gScore \ blocked
                   PROVE  Queued(v)' \/ (v # gId /\ Settled(v))
        BY <2>1, <3>1 DEF Pending, Settled, request
      <4>1. v # q.id
        BY <2>4
      <4>2. Queued(v) \/ (v # gId /\ Settled(v))
        BY <1>0, <2>1 DEF Pending
      <4>3. ASSUME Queued(v) PROVE Queued(v)'
        <5>1. PICK p \in pq : p.id = v /\ p.f <= gScore[v] + Heuristic(v)
          BY <4>3 DEF Queued
        <5>2. p \in pq'
          BY <3>1, <4>1, <5>1
        <5>3. QED
          BY <2>1, <3>1, <5>1, <5>2 DEF Queued, Heuristic, request
      <4>4. QED
        BY <4>2, <4>3
    <3>5. Answered'
      <4> SUFFICES ASSUME q.id = gId, NoVertex \notin {sId, gId}, sId # gId,
                          NEW r \in Routes(sId, gId, blocked)
                   PROVE  gId \in DOMAIN cameFrom /\ gScore[gId] <= RouteCost(r)
        BY <2>1, <3>1 DEF Answered, request
      <4>1. IsRoute(r, sId, gId, blocked)
        BY DEF Routes
      <4>2. sId \in Vertex /\ AstarTypeOK /\ QueueReached
        BY <1>0 DEF ScoreInv, AstarTypeOK
      <4>3. gScore[gId] <= RouteCost(r)
        BY <1>0, <2>1, <4>1, <4>2, GoalIsCheapest
      <4>4. gId \in DOMAIN cameFrom
        BY <1>0, <2>2 DEF ReachedFromStart
      <4>5. QED
        BY <4>3, <4>4
    <3>6. QED
      BY <1>1, <2>3, <3>2, <3>3, <3>4, <3>5 DEF SearchInv
  <2>5. CASE ~(done' \/ q.id \in blocked)
    <3>1. q.id \notin blocked /\ q.id # gId /\ Relax(q.id, pq \ {q})
      BY <2>1, <2>5
    <3>2. ReachedFromStart' /\ ChainsLeadToStart'
      BY <1>0, <2>1, <2>2, <3>1, RelaxKeepsReached
    <3>3. QueueBounds' /\ Pending'
      BY <1>0, <2>1, <2>2, <3>1, RelaxKeepsPending
    <3>4. Answered'
      BY <2>5 DEF Answered
    <3>5. QED
      BY <1>1, <2>3, <3>2, <3>3, <3>4 DEF SearchInv
  <2>6. QED
    BY <2>4, <2>5
<1>3. CASE Exhausted
  <2>1. /\ ~done /\ pq = {} /\ pq' = pq /\ gScore' = gScore /\ cameFrom' = cameFrom
        /\ UNCHANGED request /\ done' = TRUE
    BY <1>3 DEF Exhausted
  <2>2. /\ ReachedFromStart' /\ ChainsLeadToStart' /\ QueueBounds' /\ Snapped' /\ Pending'
    BY <1>0, <2>1
    DEF ReachedFromStart, ChainsLeadToStart, IsChain, QueueBounds, Snapped, Pending, Heuristic,
        request
  <2>3. Answered'
    <3> SUFFICES ASSUME NoVertex \notin {sId, gId}, NEW r \in Routes(sId, gId, blocked) PROVE FALSE
      BY <2>1 DEF Answered, request
    <3>1. IsRoute(r, sId, gId, blocked)
      BY DEF Routes
    <3>2. r \in Seq(Vertex) /\ Len(r) # 0
      BY <3>1, SeqMonotonic DEF IsRoute
    <3>3. PICK c : IsCosts(c, r)
      BY <3>2, CostsExist
    <3>4. AstarTypeOK /\ sId \in Vertex
      BY <1>0 DEF ScoreInv, AstarTypeOK
    <3>5. \E i \in 1 .. Len(r) : Queued(r[i])
      BY <1>0, <2>1, <3>1, <3>3, <3>4, Frontier
    <3>6. QED
      BY <2>1, <3>5 DEF Queued
  <2>4. QED
    BY <1>1, <2>2, <2>3 DEF SearchInv
<1>4. CASE UNCHANGED astarVars
  <2>1. /\ pq' = pq /\ gScore' = gScore /\ cameFrom' = cameFrom /\ done' = done
        /\ UNCHANGED request
    BY <1>4 DEF astarVars
  <2>2. ReachedFromStart' /\ ChainsLeadToStart' /\ QueueBounds' /\ Snapped'
    BY <1>0, <2>1
    DEF ReachedFromStart, ChainsLeadToStart, IsChain, QueueBounds, Snapped, Heuristic, request
  <2>3. Pending' /\ Answered'
    BY <1>0, <2>1 DEF Pending, Answered, Queued, Settled, Heuristic, request
  <2>4. QED
    BY <1>1, <2>2, <2>3 DEF SearchInv
<1>5. QED
  BY <1>2, <1>3, <1>4 DEF AstarNext

\* A chain costs no more than the score of its last vertex.
LEMMA ChainCost ==
  ASSUME ScoreInv, NEW v, NEW r, IsChain(r, v), gScore[sId] = 0, sId \in DOMAIN gScore
  PROVE  RouteCost(r) \in Nat /\ RouteCost(r) <= gScore[v]
<1> DEFINE n == Len(r)
<1>1. /\ r \in Seq(DOMAIN gScore) /\ n \in Nat /\ n # 0 /\ r[1] = sId /\ r[n] = v
      /\ \A i \in 1 .. n : r[i] \in DOMAIN gScore
      /\ \A i \in 1 .. n - 1 : r[i + 1] \in DOMAIN cameFrom /\ cameFrom[r[i + 1]] = r[i]
  BY DEF IsChain
<1>2. \A w \in DOMAIN gScore : w \in Vertex /\ gScore[w] \in Nat
  BY DEF ScoreInv, AstarTypeOK
<1>3. r \in Seq(Vertex)
  BY <1>1, <1>2, SeqMonotonic
<1>4. PICK c : IsCosts(c, r) /\ RouteCost(r) = c[n]
  BY <1>1, <1>3, RouteCostIsLast
<1>5. /\ c \in [1 .. n -> Nat] /\ c[1] = 0
      /\ \A i \in 1 .. n - 1 : c[i + 1] = c[i] + Cost[r[i]][r[i + 1]]
  BY <1>4 DEF IsCosts
<1> HIDE DEF n
<1> DEFINE T == {k \in Nat : k + 1 <= n => c[k + 1] <= gScore[r[k + 1]]}
<1>6. 0 \in T
  BY <1>1, <1>5
<1>7. ASSUME NEW k \in Nat, k \in T PROVE k + 1 \in T
  <2> DEFINE u == r[k + 1]
             w == r[(k + 1) + 1]
  <2> SUFFICES ASSUME (k + 1) + 1 <= n PROVE c[(k + 1) + 1] <= gScore[w]
    OBVIOUS
  <2>1. k + 1 \in 1 .. n - 1 /\ k + 1 \in 1 .. n /\ (k + 1) + 1 \in 1 .. n /\ k + 1 <= n
    BY <1>1
  <2>2. c[k + 1] <= gScore[u]
    BY <1>7, <2>1
  <2>3. /\ u \in DOMAIN gScore /\ w \in DOMAIN gScore
        /\ w \in DOMAIN cameFrom /\ cameFrom[w] = u
        /\ c[(k + 1) + 1] = c[k + 1] + Cost[u][w]
    BY <1>1, <1>5, <2>1
  <2> HIDE DEF u, w
  <2>4. gScore[u] + Cost[u][w] <= gScore[w]
    BY <2>3 DEF ScoreInv, ScoresFollowPredecessors
  <2>5. u \in Vertex /\ w \in Vertex /\ gScore[u] \in Nat /\ gScore[w] \in Nat /\ c[k + 1] \in Nat
    BY <1>2, <1>5, <2>1, <2>3
  <2>6. Cost[u][w] \in Nat
    BY <2>5, GraphAssumption
  <2>7. QED
    BY <2>2, <2>3, <2>4, <2>5, <2>6
<1> HIDE DEF T
<1>8. Nat \subseteq T
  BY <1>6, <1>7, SetInduction
<1>9. n - 1 \in T /\ (n - 1) + 1 = n /\ n <= n /\ n \in 1 .. n
  BY <1>1, <1>8
<1>10. c[n] <= gScore[r[n]] /\ c[n] \in Nat
  BY <1>5, <1>9 DEF T
<1>11. QED
  BY <1>1, <1>4, <1>10

\* What is read back at the goal is one of the routes, and none is cheaper.
LEMMA ReadBackIsCheapest ==
  ASSUME SearchInv, done, NoVertex \notin {sId, gId}, sId # gId, gId \in DOMAIN cameFrom
  PROVE  Back(gId) \in CheapestRoutes(sId, gId, blocked)
<1>0. /\ ScoreInv /\ ReachedFromStart /\ ChainsLeadToStart /\ Answered /\ AstarTypeOK
      /\ QueueReached /\ ScoresFollowPredecessors
  BY DEF SearchInv, ScoreInv
<1>1. /\ DOMAIN gScore \subseteq Vertex /\ gId \in DOMAIN gScore /\ sId \in Vertex
      /\ sId \in DOMAIN gScore /\ gScore[sId] = 0 /\ sId \notin DOMAIN cameFrom
      /\ gScore[gId] \in Nat
  BY <1>0 DEF AstarTypeOK, QueueReached, ReachedFromStart
<1>2. PICK r : IsChain(r, gId)
  BY <1>0, <1>1 DEF ChainsLeadToStart
<1>3. Back(gId) = r
  BY <1>1, <1>2, BackIsChain
<1> DEFINE n == Len(r)
<1>4. /\ r \in Seq(Vertex) /\ Cardinality(Vertex) \in Nat /\ n <= Cardinality(Vertex)
  BY <1>1, <1>2, ChainFits
<1>5. /\ n \in Nat /\ n # 0 /\ r[1] = sId /\ r[n] = gId
      /\ \A i \in 1 .. n - 1 : r[i + 1] \in DOMAIN cameFrom /\ cameFrom[r[i + 1]] = r[i]
      /\ \A i \in 1 .. n : r[i] \in Vertex
      /\ r = [i \in 1 .. n |-> r[i]]
  BY <1>2, <1>4 DEF IsChain
<1>6. \A i, j \in 1 .. n : r[i] = r[j] => i = j
  <2> SUFFICES ASSUME NEW i \in 1 .. n, NEW j \in 1 .. n, i # j PROVE r[i] # r[j]
    OBVIOUS
  <2>1. i < j \/ j < i
    BY <1>5
  <2>2. QED
    BY <1>1, <1>2, <2>1, ChainIsSimple
<1>len. n = Len(r) /\ DOMAIN r = 1 .. n
  BY <1>5
<1> HIDE DEF n
<1>7. n >= 2
  BY <1>5
<1>8. \A i \in 1 .. n - 1 : r[i] \notin blocked /\ r[i + 1] \notin blocked /\ r[i + 1] \in Adj[r[i]]
  BY <1>0, <1>5 DEF ScoresFollowPredecessors
<1>9. ASSUME NEW i \in 1 .. n PROVE r[i] \in Vertex \ blocked
  <2>1. CASE i = n
    <3>1. n - 1 \in 1 .. n - 1 /\ (n - 1) + 1 = n
      BY <1>5, <1>7
    <3>2. QED
      BY <1>5, <1>8, <2>1, <3>1
  <2>2. CASE i # n
    <3>1. i \in 1 .. n - 1
      BY <1>5, <2>2
    <3>2. QED
      BY <1>5, <1>8, <3>1
  <2>3. QED
    BY <2>1, <2>2
<1>10. r \in [1 .. n -> Vertex \ blocked]
  BY <1>5, <1>9
<1>11. r \in Seq(Vertex \ blocked)
  BY <1>5, <1>10
<1>12. IsRoute(r, sId, gId, blocked)
  BY <1>len, <1>5, <1>7, <1>8, <1>11 DEF IsRoute
<1>13. n \in 2 .. Cardinality(Vertex)
  BY <1>len, <1>4, <1>5, <1>7
<1>14. r \in Routes(sId, gId, blocked)
  BY <1>len, <1>6, <1>10, <1>12, <1>13 DEF Routes
<1>15. RouteCost(r) \in Nat /\ RouteCost(r) <= gScore[gId]
  BY <1>0, <1>1, <1>2, ChainCost
<1>16. ASSUME NEW q \in Routes(sId, gId, blocked) PROVE RouteCost(r) <= RouteCost(q)
  <2>1. gScore[gId] <= RouteCost(q)
    BY <1>0 DEF Answered
  <2>2. RouteCost(q) \in Nat
    <3>1. q \in Seq(Vertex \ blocked) /\ Len(q) >= 2
      BY DEF Routes, IsRoute
    <3>2. q \in Seq(Vertex) /\ Len(q) # 0 /\ Len(q) \in 1 .. Len(q)
      BY <3>1, SeqMonotonic
    <3>3. PICK c : IsCosts(c, q) /\ RouteCost(q) = c[Len(q)]
      BY <3>2, RouteCostIsLast
    <3>4. QED
      BY <3>2, <3>3 DEF IsCosts
  <2>3. QED
    BY <1>1, <1>15, <2>1, <2>2
<1>17. QED
  BY <1>3, <1>14, <1>16 DEF CheapestRoutes

\* What the search has found when it ends is one of the results the planner allows
\* for: a cheapest route, or the empty path when there is none.
LEMMA AnswerIsPlanResult == SearchInv => SearchIsPlanResult
<1> SUFFICES ASSUME SearchInv, done PROVE Result \in PlanResults(start, goal, blocked)
  BY DEF SearchIsPlanResult
<1> DEFINE ss == SnapVertex(start, blocked)
           gs == SnapVertex(goal, blocked)
           found(s, g) == IF s = g THEN {} ELSE CheapestRoutes(s, g, blocked)
<1>0. /\ ScoreInv /\ ReachedFromStart /\ Answered /\ Snapped /\ AstarTypeOK /\ QueueReached
  BY DEF SearchInv, ScoreInv
<1>1. ss \subseteq Vertex /\ gs \subseteq Vertex /\ sId \in OrNone(ss) /\ gId \in OrNone(gs)
  BY <1>0, SnapsToVertices DEF Snapped
<1> HIDE DEF ss, gs
<1>2. /\ NoVertex \notin Vertex
      /\ sId = NoVertex \/ (ss # {} /\ sId \in ss)
      /\ gId = NoVertex \/ (gs # {} /\ gId \in gs)
      /\ sId = NoVertex => ss = {}
      /\ gId = NoVertex => gs = {}
  BY <1>1, NoVertexAssumption DEF OrNone
<1>3. CASE NoVertex \in {sId, gId}
  <2>1. gId \notin DOMAIN cameFrom
    BY <1>0, <1>2, <1>3 DEF AstarTypeOK, QueueReached, ReachedFromStart
  <2>2. Result = <<>>
    BY <2>1 DEF Result
  <2>3. PlanResults(start, goal, blocked) = {<<>>}
    BY <1>2, <1>3 DEF PlanResults, ss, gs
  <2>4. QED
    BY <2>2, <2>3
<1>4. CASE NoVertex \notin {sId, gId}
  <2>1. sId \in ss /\ gId \in gs
    BY <1>2, <1>4
  <2>2. ASSUME NEW p, p \in IF found(sId, gId) = {} THEN {<<>>} ELSE found(sId, gId)
        PROVE  p \in PlanResults(start, goal, blocked)
    <3> DEFINE ans(s, g) == IF found(s, g) = {} THEN {<<>>} ELSE found(s, g)
    <3>1. PlanResults(start, goal, blocked) = UNION {ans(s, g) : s \in ss, g \in gs}
      BY <2>1 DEF PlanResults, ss, gs
    <3>2. p \in ans(sId, gId)
      BY <2>2
    <3> HIDE DEF ans
    <3>3. ans(sId, gId) \in {ans(s, g) : s \in ss, g \in gs}
      BY <2>1
    <3>4. QED
      BY <3>1, <3>2, <3>3
  <2>3. CASE gId \notin DOMAIN cameFrom
    <3>1. Result = <<>>
      BY <2>3 DEF Result
    <3>2. sId = gId \/ Routes(sId, gId, blocked) = {}
      BY <1>0, <1>4, <2>3 DEF Answered
    <3>3. found(sId, gId) = {}
      BY <3>2 DEF CheapestRoutes
    <3>4. QED
      BY <2>2, <3>1, <3>3
  <2>4. CASE gId \in DOMAIN cameFrom
    <3>1. sId # gId
      BY <1>0, <2>4 DEF ReachedFromStart
    <3>2. Back(gId) \in CheapestRoutes(sId, gId, blocked)
      BY <1>4, <2>4, <3>1, ReadBackIsCheapest
    <3>3. Result \in found(sId, gId)
      BY <2>4, <3>1, <3>2 DEF Result
    <3>4. QED
      BY <2>2, <3>3
  <2>5. QED
    BY <2>3, <2>4
<1>5. QED
  BY <1>3, <1>4

\* The A* of computePath is right: on every roadmap, for every set of blocked
\* vertices and every pair of positions, what it returns is a cheapest unblocked
\* route between two vertices the positions may be snapped to, or the empty path
\* when there is none, whatever the order among equal elements of the queue.
THEOREM SearchFindsCheapest == AstarSpec => []SearchIsPlanResult
  BY SearchInvInit, SearchInvStep, AnswerIsPlanResult, PTL DEF AstarSpec

-----------------------------------------------------------------------------
(* The smoother: how far the cut has come *)

\* How far the cut has come: every turn consumes six points and adds one.
CutCount ==
  /\ seg_beg < Len(raw)
  /\ kept = "none" => /\ seg_beg = 6 * Len(curves)
                      /\ Len(raw) = Len(msg) + Len(curves)
  /\ Published => Len(Remaining) <= 5
CutInv == SmootherTypeOK /\ CutCount

\* What is published, with at least five intervals a curve, has more samples
\* than the plan has points.
Dead == SampleRate >= 5 => kept # "planned"

\* A planned path is a sequence of at least three positions.
LEMMA PlannedPathType ==
  ASSUME NEW w \in Waypoints
  PROVE  PlannedPath(w) \in Seq(Int) /\ Len(PlannedPath(w)) >= 3
<1>1. w \in Seq(Int) /\ Len(w) >= 2
  BY SmootherAssumption
<1>2. w[Len(w)] \in Int
  BY <1>1
<1>3. QED
  BY <1>1, <1>2 DEF PlannedPath

\* The inserted point is a position.
LEMMA Q1Type ==
  ASSUME NEW p4 \in Int, NEW p5 \in Int, NEW q2 \in Int
  PROVE  ComputeQ1(p4, p5, q2) \in Int
<1>1. \A n \in Int : Abs(n) \in Int /\ Sign(n) \in {-1, 0, 1}
  BY DEF Abs, Sign
<1> DEFINE q1 == p5 + (3 * (p5 - p4)) \div 10
           extra == Abs(q1 - p5) - Abs(q1 - q2)
<1>2. q1 \in Int
  OBVIOUS
<1>3. extra \in Int /\ Sign(p5 - p4) \in {-1, 0, 1}
  BY <1>1, <1>2
<1>4. \A s \in {-1, 0, 1} : (extra + 1) * s \in Int
  BY <1>3
<1>5. q1 + (extra + 1) * Sign(p5 - p4) \in Int
  BY <1>2, <1>3, <1>4
<1>6. QED
  BY <1>2, <1>5 DEF ComputeQ1

\* Inserting an element keeps a sequence a sequence, one longer.
LEMMA InsertAfterLen ==
  ASSUME NEW s \in Seq(Int), NEW n \in 0 .. Len(s), NEW e \in Int
  PROVE  InsertAfter(s, n, e) \in Seq(Int) /\ Len(InsertAfter(s, n, e)) = Len(s) + 1
<1>1. SubSeq(s, 1, n) \in Seq(Int) /\ Len(SubSeq(s, 1, n)) = n
  OBVIOUS
<1>2. SubSeq(s, n + 1, Len(s)) \in Seq(Int) /\ Len(SubSeq(s, n + 1, Len(s))) = Len(s) - n
  OBVIOUS
<1>3. <<e>> \in Seq(Int) /\ Len(<<e>>) = 1
  OBVIOUS
<1>4. /\ SubSeq(s, 1, n) \o <<e>> \in Seq(Int)
      /\ Len(SubSeq(s, 1, n) \o <<e>>) = n + 1
  BY <1>1, <1>3, ConcatProperties
<1>5. /\ InsertAfter(s, n, e) \in Seq(Int)
      /\ Len(InsertAfter(s, n, e)) = (n + 1) + (Len(s) - n)
  <2>1. InsertAfter(s, n, e) = (SubSeq(s, 1, n) \o <<e>>) \o SubSeq(s, n + 1, Len(s))
    BY DEF InsertAfter
  <2> DEFINE a == SubSeq(s, 1, n) \o <<e>>
             b == SubSeq(s, n + 1, Len(s))
  <2>2. a \in Seq(Int) /\ b \in Seq(Int) /\ Len(a) = n + 1 /\ Len(b) = Len(s) - n
    BY <1>2, <1>4
  <2> HIDE DEF a, b
  <2>3. a \o b \in Seq(Int) /\ Len(a \o b) = Len(a) + Len(b)
    BY <2>2, ConcatProperties
  <2>4. QED
    BY <2>1, <2>2, <2>3 DEF a, b
<1>6. QED
  BY <1>5

\* The cut begins at the first point with nothing inserted.
LEMMA InitCutInv == SmootherInit => CutInv /\ Dead
<1> SUFFICES ASSUME SmootherInit PROVE CutInv /\ Dead
  OBVIOUS
<1>1. msg \in Seq(Int) /\ Len(msg) >= 3 /\ raw = msg
  BY PlannedPathType DEF SmootherInit
<1>2. SmootherTypeOK
  BY <1>1 DEF SmootherInit, SmootherTypeOK
<1>3. CutCount
  BY <1>1 DEF SmootherInit, CutCount, Published
<1>4. QED
  BY <1>2, <1>3 DEF SmootherInit, CutInv, Dead

\* A turn of the loop consumes six points and inserts one.
LEMMA FitSegmentPreservesCutInv == CutInv /\ FitSegment => CutInv'
<1> SUFFICES ASSUME CutInv, FitSegment PROVE CutInv'
  OBVIOUS
<1> DEFINE P  == SubSeq(raw, seg_beg + 1, seg_beg + 6)
           q2 == IF seg_beg + 6 < Len(raw) THEN raw[seg_beg + 7] ELSE LastOf(raw)
<1>1. /\ raw \in Seq(Int) /\ seg_beg \in Nat /\ curves \in Seq(Seq(Int)) /\ msg \in Seq(Int)
      /\ kept = "none" /\ seg_beg + 6 <= Len(raw)
      /\ seg_beg = 6 * Len(curves) /\ Len(raw) = Len(msg) + Len(curves)
  BY DEF CutInv, SmootherTypeOK, CutCount, FitSegment
<1>2. P \in Seq(Int) /\ Len(P) = 6 /\ P[5] \in Int /\ P[6] \in Int
  BY <1>1
<1>3. q2 \in Int
  BY <1>1 DEF LastOf
<1>4. /\ curves' = Append(curves, P)
      /\ raw' = InsertAfter(raw, seg_beg + 6, ComputeQ1(P[5], P[6], q2))
      /\ seg_beg' = seg_beg + 6 /\ msg' = msg /\ kept' = kept
  BY DEF FitSegment
<1> HIDE DEF P, q2
<1>5. curves' \in Seq(Seq(Int)) /\ Len(curves') = Len(curves) + 1
  BY <1>1, <1>2, <1>4
<1>6. ComputeQ1(P[5], P[6], q2) \in Int
  BY <1>2, <1>3, Q1Type
<1>7. raw' \in Seq(Int) /\ Len(raw') = Len(raw) + 1
  <2>1. seg_beg + 6 \in 0 .. Len(raw)
    BY <1>1
  <2>2. QED
    BY <1>1, <1>4, <1>6, <2>1, InsertAfterLen
<1>8. SmootherTypeOK'
  BY <1>1, <1>4, <1>5, <1>7 DEF CutInv, SmootherTypeOK
<1>9. CutCount'
  BY <1>1, <1>4, <1>5, <1>7 DEF CutCount, Published
<1>10. QED
  BY <1>8, <1>9 DEF CutInv

\* The last curve is made of the points that are left.
LEMMA AssemblePreservesCutInv == CutInv /\ Assemble => CutInv' /\ Dead'
<1> SUFFICES ASSUME CutInv, Assemble PROVE CutInv' /\ Dead'
  OBVIOUS
<1>1. /\ raw \in Seq(Int) /\ seg_beg \in Nat /\ curves \in Seq(Seq(Int)) /\ msg \in Seq(Int)
      /\ kept = "none" /\ seg_beg < Len(raw) /\ Len(raw) <= seg_beg + 5
      /\ seg_beg = 6 * Len(curves) /\ Len(raw) = Len(msg) + Len(curves)
  BY DEF CutInv, SmootherTypeOK, CutCount, Assemble
<1>2. /\ curves' = AllCurves /\ kept' \in {"planned", "tangent"}
      /\ kept' = "planned" => LastIndex < Len(msg)
      /\ UNCHANGED <<msg, raw, seg_beg>>
  BY DEF Assemble
<1>3. Remaining \in Seq(Int) /\ Len(Remaining) = Len(raw) - seg_beg
  <2>1. seg_beg + 1 \in 1 .. Len(raw) /\ Len(raw) \in seg_beg + 1 .. Len(raw)
    BY <1>1
  <2>2. QED
    BY <1>1, <2>1, SubSeqProperties DEF Remaining
<1>4. AllCurves = Append(curves, Remaining)
  BY <1>1 DEF AllCurves
<1>5. AllCurves \in Seq(Seq(Int)) /\ Len(AllCurves) = Len(curves) + 1
  BY <1>1, <1>3, <1>4
<1>6. SmootherTypeOK'
  BY <1>1, <1>2, <1>5 DEF CutInv, SmootherTypeOK
<1>7. CutCount'
  <2>1. Len(Remaining') <= 5 /\ kept' # "none"
    BY <1>1, <1>2, <1>3 DEF Remaining
  <2>2. QED
    BY <1>1, <1>2, <2>1 DEF CutCount, Published
<1>8. ASSUME SampleRate >= 5 PROVE Len(msg) <= LastIndex
  <2> DEFINE k == Len(AllCurves)
  <2>1. k \in Nat /\ Len(msg) <= 5 * k
    BY <1>1, <1>5
  <2>2. SampleRate + 1 >= 6 /\ SampleRate \in Nat
    BY <1>8, SmootherAssumption
  <2>3. \A r, n \in Nat : r * n \in Nat /\ (r >= 6 => r * n >= 6 * n)
    OBVIOUS
  <2> DEFINE samples == (SampleRate + 1) * k
  <2>4. samples \in Nat /\ samples >= 6 * k /\ LastIndex = samples - 1
    BY <2>1, <2>2, <2>3 DEF LastIndex
  <2>5. k >= 1 /\ Len(msg) \in Nat
    BY <1>1, <1>5
  <2> HIDE DEF k, samples
  <2>6. QED
    BY <2>1, <2>4, <2>5
<1>9. Dead'
  BY <1>1, <1>2, <1>8, <1>5, SmootherAssumption DEF Dead, LastIndex
<1>10. QED
  BY <1>6, <1>7, <1>9 DEF CutInv

\* Every step keeps count.
LEMMA StepCutInv == CutInv /\ Dead /\ [SmootherNext]_smootherVars => CutInv' /\ Dead'
<1> SUFFICES ASSUME CutInv, Dead, [SmootherNext]_smootherVars PROVE CutInv' /\ Dead'
  OBVIOUS
<1>1. CASE FitSegment
  BY <1>1, FitSegmentPreservesCutInv DEF FitSegment, Dead
<1>2. CASE Assemble
  BY <1>2, AssemblePreservesCutInv
<1>3. CASE UNCHANGED smootherVars
  BY <1>3 DEF smootherVars, CutInv, Dead, SmootherTypeOK, CutCount, Published, Remaining
<1>4. QED
  BY <1>1, <1>2, <1>3 DEF SmootherNext

\* However long the plan, cutting it leaves a last curve of one to five points.
THEOREM CutAlwaysLeavesATail == SmootherSpec => [](SmootherTypeOK /\ CutLeavesATail)
<1>1. CutInv /\ Dead => SmootherTypeOK /\ CutLeavesATail
  BY DEF CutInv, CutCount, CutLeavesATail
<1>2. QED
  BY <1>1, InitCutInv, StepCutInv, PTL DEF SmootherSpec

\* With five intervals a curve or more, no smoothed path, of a plan of any
\* length, ends with the orientation that was planned: keep_original has no
\* effect.
THEOREM KeepOriginalHasNoEffect ==
  ASSUME SampleRate >= 5
  PROVE  SmootherSpec => []EndOrientationRecomputed
<1>1. CutInv /\ Dead => EndOrientationRecomputed
  BY DEF Dead, EndOrientationRecomputed
<1>2. QED
  BY <1>1, InitCutInv, StepCutInv, PTL DEF SmootherSpec

-----------------------------------------------------------------------------
(* The smoother: what the curves hold *)

\* The concatenations of the first sequences of s, one after the other.
IsPrefixes(f, s) ==
  /\ f \in [1 .. Len(s) -> Seq(Int)]
  /\ \A i \in 1 .. Len(s) : f[i] = IF i = 1 THEN s[i] ELSE f[i - 1] \o s[i]

\* They can be made for any sequence of sequences.
LEMMA PrefixesExist ==
  ASSUME NEW s \in Seq(Seq(Int))
  PROVE  \E f : IsPrefixes(f, s)
<1> DEFINE Upto(n, f) ==
             /\ f \in [1 .. n -> Seq(Int)]
             /\ \A i \in 1 .. n : f[i] = IF i = 1 THEN s[i] ELSE f[i - 1] \o s[i]
           T == {n \in Nat : n <= Len(s) => \E f : Upto(n, f)}
<1>0. \A n \in Nat : n \in T <=> (n <= Len(s) => \E f : Upto(n, f))
  OBVIOUS
<1> HIDE DEF T
<1>1. 0 \in T
  <2>1. Upto(0, [i \in 1 .. 0 |-> <<>>])
    OBVIOUS
  <2> HIDE DEF Upto
  <2>2. QED
    BY <1>0, <2>1
<1>2. ASSUME NEW n \in Nat, n \in T PROVE n + 1 \in T
  <2> HIDE DEF Upto
  <2> SUFFICES ASSUME n + 1 <= Len(s) PROVE \E f : Upto(n + 1, f)
    BY <1>0
  <2>1. PICK f : Upto(n, f)
    BY <1>0, <1>2
  <2> DEFINE g == [i \in 1 .. n + 1 |-> IF i <= n THEN f[i]
                                        ELSE IF i = 1 THEN s[i] ELSE f[n] \o s[i]]
  <2>2. s[n + 1] \in Seq(Int)
    OBVIOUS
  <2> USE DEF Upto
  <2>3. g \in [1 .. n + 1 -> Seq(Int)]
    <3>1. ASSUME NEW i \in 1 .. n + 1 PROVE g[i] \in Seq(Int)
      <4>1. CASE i <= n
        BY <2>1, <4>1
      <4>2. CASE i = n + 1 /\ i = 1
        BY <2>2, <4>2
      <4>3. CASE i = n + 1 /\ i # 1
        <5>1. f[n] \in Seq(Int)
          BY <2>1, <4>3
        <5>2. f[n] \o s[i] \in Seq(Int)
          BY <2>2, <4>3, <5>1, ConcatProperties
        <5>3. QED
          BY <4>3, <5>2
      <4>4. QED
        BY <4>1, <4>2, <4>3
    <3>2. QED
      BY <3>1
  <2>4. ASSUME NEW i \in 1 .. n + 1
        PROVE  g[i] = IF i = 1 THEN s[i] ELSE g[i - 1] \o s[i]
    <3>1. CASE i <= n /\ i = 1
      <4>1. i \in 1 .. n
        BY <3>1
      <4>2. g[i] = f[i]
        BY <3>1
      <4>3. f[i] = IF i = 1 THEN s[i] ELSE f[i - 1] \o s[i]
        BY <2>1, <4>1
      <4>4. QED
        BY <3>1, <4>2, <4>3
    <3>2. CASE i <= n /\ i # 1
      <4>1. i \in 1 .. n + 1 /\ i - 1 \in 1 .. n + 1 /\ i - 1 <= n /\ i \in 1 .. n
        BY <3>2
      <4>2. g[i] = f[i] /\ g[i - 1] = f[i - 1]
        BY <3>2, <4>1
      <4>3. f[i] = f[i - 1] \o s[i]
        BY <2>1, <3>2, <4>1
      <4>4. QED
        BY <3>2, <4>2, <4>3
    <3>3. CASE i = n + 1
      BY <3>3
    <3>4. QED
      BY <3>1, <3>2, <3>3
  <2>5. Upto(n + 1, g)
    BY <2>3, <2>4
  <2> HIDE DEF Upto, g
  <2>6. QED
    BY <2>5
<1>3. Nat \subseteq T
  BY <1>1, <1>2, SetInduction
<1>4. Len(s) \in T
  BY <1>3
<1> HIDE DEF Upto
<1>5. PICK f : Upto(Len(s), f)
  BY <1>0, <1>4
<1>6. IsPrefixes(f, s)
  BY <1>5 DEF Upto, IsPrefixes
<1>7. QED
  BY <1>6

\* FlattenSeq is the longest of these concatenations.
LEMMA FlattenIsLastPrefix ==
  ASSUME NEW s \in Seq(Seq(Int)), Len(s) # 0
  PROVE  \E f : IsPrefixes(f, s) /\ FlattenSeq(s) = f[Len(s)]
<1> DEFINE P(f) == f = [i \in 1 .. Len(s) |-> IF i = 1 THEN s[i] ELSE f[i - 1] \o s[i]]
<1>1. PICK f : IsPrefixes(f, s)
  BY PrefixesExist
<1>2. P(f)
  BY <1>1 DEF IsPrefixes
<1>3. P(CHOOSE g : P(g))
  BY <1>2
<1>4. FlattenSeq(s) = (CHOOSE g : P(g))[Len(s)]
  BY DEF FlattenSeq
<1> DEFINE h == CHOOSE g : P(g)
<1> HIDE DEF h
<1>5. P(h) /\ FlattenSeq(s) = h[Len(s)]
  BY <1>3, <1>4 DEF h
<1> DEFINE m == Len(s)
<1>m. m \in Nat /\ m # 0
  OBVIOUS
<1>f. /\ \A i \in 1 .. m : f[i] = IF i = 1 THEN s[i] ELSE f[i - 1] \o s[i]
      /\ \A i \in 1 .. m : h[i] = IF i = 1 THEN s[i] ELSE h[i - 1] \o s[i]
  BY <1>1, <1>5 DEF IsPrefixes
<1> HIDE DEF m, P
<1>6. \A k \in Nat : k \in 1 .. m => h[k] = f[k]
  <2> DEFINE T == {k \in Nat : k \in 1 .. m => h[k] = f[k]}
  <2>1. 0 \in T
    OBVIOUS
  <2>2. ASSUME NEW n \in Nat, n \in T PROVE n + 1 \in T
    <3> SUFFICES ASSUME n + 1 \in 1 .. m PROVE h[n + 1] = f[n + 1]
      OBVIOUS
    <3>1. n = 0 \/ h[n] = f[n]
      BY <1>m, <2>2
    <3>2. QED
      BY <1>f, <3>1
  <2> HIDE DEF T
  <2>3. Nat \subseteq T
    BY <2>1, <2>2, SetInduction
  <2>4. QED
    BY <2>3 DEF T
<1>7. FlattenSeq(s) = f[Len(s)]
  BY <1>5, <1>6, <1>m DEF m
<1>8. QED
  BY <1>1, <1>7

\* One sequence alone is flattened to itself.
LEMMA FlattenOne ==
  ASSUME NEW e \in Seq(Int)
  PROVE  FlattenSeq(<<e>>) = e
<1> DEFINE s == <<e>>
<1>1. s \in Seq(Seq(Int)) /\ Len(s) = 1 /\ s[1] = e
  OBVIOUS
<1> HIDE DEF s
<1>0. Len(s) # 0
  BY <1>1
<1>2. PICK f : IsPrefixes(f, s) /\ FlattenSeq(s) = f[Len(s)]
  BY <1>0, <1>1, FlattenIsLastPrefix
<1>3. f[1] = s[1]
  BY <1>1, <1>2 DEF IsPrefixes
<1>4. QED
  BY <1>1, <1>2, <1>3 DEF s

\* Sequences of positions are flattened to one.
LEMMA FlattenType ==
  ASSUME NEW s \in Seq(Seq(Int)), Len(s) # 0
  PROVE  FlattenSeq(s) \in Seq(Int)
<1>1. PICK f : IsPrefixes(f, s) /\ FlattenSeq(s) = f[Len(s)]
  BY FlattenIsLastPrefix
<1>2. f \in [1 .. Len(s) -> Seq(Int)] /\ Len(s) \in 1 .. Len(s)
  BY <1>1 DEF IsPrefixes
<1>3. QED
  BY <1>1, <1>2

\* A further sequence is flattened to a further part.
LEMMA FlattenAppend ==
  ASSUME NEW s \in Seq(Seq(Int)), Len(s) # 0, NEW e \in Seq(Int)
  PROVE  FlattenSeq(Append(s, e)) = FlattenSeq(s) \o e
<1> DEFINE t == Append(s, e)
           n == Len(s)
<1>1. /\ t \in Seq(Seq(Int)) /\ Len(t) = n + 1 /\ t[n + 1] = e
      /\ \A i \in 1 .. n : t[i] = s[i]
  BY AppendProperties
<1>2. n \in Nat \ {0}
  OBVIOUS
<1> HIDE DEF t
<1>3. PICK f : IsPrefixes(f, s) /\ FlattenSeq(s) = f[n]
  BY FlattenIsLastPrefix
<1>4. PICK g : IsPrefixes(g, t) /\ FlattenSeq(t) = g[n + 1]
  <2>1. Len(t) # 0
    BY <1>1, <1>2
  <2>2. PICK g : IsPrefixes(g, t) /\ FlattenSeq(t) = g[Len(t)]
    BY <1>1, <2>1, FlattenIsLastPrefix
  <2>3. QED
    BY <1>1, <2>2
<1>g. \A i \in 1 .. n + 1 : g[i] = IF i = 1 THEN t[i] ELSE g[i - 1] \o t[i]
  BY <1>1, <1>4 DEF IsPrefixes
<1>f. \A i \in 1 .. n : f[i] = IF i = 1 THEN s[i] ELSE f[i - 1] \o s[i]
  BY <1>3 DEF IsPrefixes
<1> DEFINE T == {k \in Nat : k \in 1 .. n => g[k] = f[k]}
<1> HIDE DEF n
<1>5. 0 \in T
  OBVIOUS
<1>6. ASSUME NEW k \in Nat, k \in T PROVE k + 1 \in T
  <2> SUFFICES ASSUME k + 1 \in 1 .. n PROVE g[k + 1] = f[k + 1]
    OBVIOUS
  <2>1. /\ g[k + 1] = IF k + 1 = 1 THEN t[k + 1] ELSE g[k] \o t[k + 1]
        /\ f[k + 1] = IF k + 1 = 1 THEN s[k + 1] ELSE f[k] \o s[k + 1]
    <3>1. k + 1 \in 1 .. n /\ k + 1 \in 1 .. n + 1 /\ (k + 1) - 1 = k
      BY <1>2
    <3>2. QED
      BY <1>f, <1>g, <3>1
  <2>2. k = 0 \/ k \in 1 .. n
    BY <1>2
  <2>3. k \in 1 .. n => g[k] = f[k]
    BY <1>6
  <2>4. QED
    BY <1>1, <2>1, <2>2, <2>3
<1> HIDE DEF T
<1>7. Nat \subseteq T
  BY <1>5, <1>6, SetInduction
<1>8. g[n] = f[n]
  BY <1>2, <1>7 DEF T
<1>9. g[n + 1] = g[n] \o e
  <2>1. n + 1 \in 1 .. n + 1 /\ n + 1 # 1 /\ (n + 1) - 1 = n
    BY <1>2
  <2>2. QED
    BY <1>1, <1>g, <2>1
<1>10. QED
  BY <1>3, <1>4, <1>8, <1>9 DEF t

\* Concatenation associates, for sequences of paths.
LEMMA PathsAssociate ==
  ASSUME NEW x \in Seq(Seq(Int)), NEW y \in Seq(Seq(Int)), NEW z \in Seq(Seq(Int))
  PROVE  (x \o y) \o z = x \o (y \o z)
BY ConcatAssociative

\* What the curves have of the plan: all but the Q1 each but the first begins with.
OfPlan(cs) == FlattenSeq(<<cs[1]>> \o [i \in 1 .. Len(cs) - 1 |-> Tail(cs[i + 1])])

\* Of a first curve, all is of the plan.
LEMMA OfPlanOne ==
  ASSUME NEW e \in Seq(Int)
  PROVE  OfPlan(<<e>>) = e
<1>1. [i \in 1 .. Len(<<e>>) - 1 |-> Tail(<<e>>[i + 1])] = <<>>
  OBVIOUS
<1>2. <<e>> \in Seq(Seq(Int)) /\ <<e>>[1] = e
  OBVIOUS
<1>3. <<e>> \o <<>> = <<e>>
  BY <1>2, ConcatEmptySeq
<1>4. QED
  BY <1>1, <1>2, <1>3, FlattenOne DEF OfPlan

\* Of each further curve, all but its first point is.
LEMMA OfPlanAppend ==
  ASSUME NEW cs \in Seq(Seq(Int)), Len(cs) # 0, \A i \in 1 .. Len(cs) : cs[i] # <<>>,
         NEW e \in Seq(Int), e # <<>>
  PROVE  OfPlan(Append(cs, e)) = OfPlan(cs) \o Tail(e)
<1> DEFINE n == Len(cs)
           Tails(ds) == [i \in 1 .. Len(ds) - 1 |-> Tail(ds[i + 1])]
           ds == Append(cs, e)
<1>1. /\ n \in Nat \ {0} /\ ds \in Seq(Seq(Int)) /\ Len(ds) = n + 1 /\ ds[n + 1] = e
      /\ \A i \in 1 .. n : ds[i] = cs[i] /\ cs[i] \in Seq(Int) /\ cs[i] # <<>>
  BY AppendProperties
<1>2. Tail(e) \in Seq(Int) /\ \A i \in 1 .. n : Tail(cs[i]) \in Seq(Int)
  BY <1>1, HeadTailProperties
<1> HIDE DEF n, ds
<1>3. Tails(cs) \in Seq(Seq(Int)) /\ Len(Tails(cs)) = n - 1
  <2>1. \A i \in 1 .. n - 1 : Tail(cs[i + 1]) \in Seq(Int)
    BY <1>1, <1>2
  <2>2. QED
    BY <1>1, <2>1 DEF n
<1>4. Tails(ds) = Append(Tails(cs), Tail(e))
  <2>1. Tails(ds) = [i \in 1 .. n |-> Tail(ds[i + 1])]
    BY <1>1
  <2>2. Append(Tails(cs), Tail(e)) =
          [i \in 1 .. n |-> IF i = n THEN Tail(e) ELSE Tails(cs)[i]]
    BY <1>1, <1>2, <1>3
  <2>3. ASSUME NEW i \in 1 .. n
        PROVE  Tail(ds[i + 1]) = IF i = n THEN Tail(e) ELSE Tails(cs)[i]
    <3>1. CASE i = n
      BY <1>1, <3>1
    <3>2. CASE i # n
      <4>0. i \in 1 .. n - 1 /\ i + 1 \in 1 .. n
        BY <1>1, <3>2
      <4>1. i \in 1 .. Len(cs) - 1 /\ i + 1 \in 1 .. n
        BY <4>0 DEF n
      <4>2. Tails(cs)[i] = Tail(cs[i + 1])
        BY <4>1
      <4>3. QED
        BY <1>1, <3>2, <4>1, <4>2
    <3>3. QED
      BY <3>1, <3>2
  <2>4. QED
    BY <2>1, <2>2, <2>3
<1> DEFINE tc == Tails(cs)
           s  == <<cs[1]>> \o tc
<1>a. Tails(ds) = Append(tc, Tail(e)) /\ tc \in Seq(Seq(Int))
  BY <1>3, <1>4
<1> HIDE DEF tc, Tails
<1>b. ds[1] = cs[1] /\ cs[1] \in Seq(Int)
  BY <1>1
<1>c. <<cs[1]>> \in Seq(Seq(Int)) /\ <<Tail(e)>> \in Seq(Seq(Int))
  BY <1>2, <1>b
<1>5. /\ <<cs[1]>> \in Seq(Seq(Int)) /\ tc \in Seq(Seq(Int)) /\ <<Tail(e)>> \in Seq(Seq(Int))
      /\ Tails(ds) = Append(tc, Tail(e)) /\ ds[1] = cs[1]
  BY <1>a, <1>b, <1>c
<1>6. s \in Seq(Seq(Int)) /\ Len(s) # 0
  <2>1. s \in Seq(Seq(Int)) /\ Len(s) = Len(<<cs[1]>>) + Len(tc)
    BY <1>5, ConcatProperties
  <2>2. Len(<<cs[1]>>) = 1 /\ Len(tc) \in Nat
    BY <1>5
  <2>3. QED
    BY <2>1, <2>2
<1>7. <<ds[1]>> \o Tails(ds) = Append(s, Tail(e))
  <2>1. \A q \in Seq(Seq(Int)) : Append(q, Tail(e)) = q \o <<Tail(e)>>
    BY <1>2, AppendIsConcat
  <2>2. <<cs[1]>> \o (tc \o <<Tail(e)>>) = (<<cs[1]>> \o tc) \o <<Tail(e)>>
    <3> DEFINE a == <<cs[1]>>
               b == <<Tail(e)>>
    <3>1. a \in Seq(Seq(Int)) /\ b \in Seq(Seq(Int)) /\ tc \in Seq(Seq(Int))
      BY <1>5
    <3> HIDE DEF a, b
    <3>2. (a \o tc) \o b = a \o (tc \o b)
      BY <3>1, PathsAssociate, Zenon
    <3>3. QED
      BY <3>2 DEF a, b
  <2>3. QED
    BY <1>5, <1>6, <2>1, <2>2
<1> HIDE DEF s
<1>8. FlattenSeq(<<ds[1]>> \o Tails(ds)) = FlattenSeq(s) \o Tail(e)
  BY <1>2, <1>6, <1>7, FlattenAppend
<1>9. OfPlan(ds) = FlattenSeq(<<ds[1]>> \o Tails(ds)) /\ OfPlan(cs) = FlattenSeq(s)
  BY DEF OfPlan, s, tc, Tails
<1>10. QED
  BY <1>8, <1>9 DEF ds

\* Where an inserted element is, and where the others are then.
LEMMA InsertAfterElements ==
  ASSUME NEW s \in Seq(Int), NEW n \in 1 .. Len(s), NEW e \in Int
  PROVE  /\ SubSeq(InsertAfter(s, n, e), 1, n) = SubSeq(s, 1, n)
         /\ InsertAfter(s, n, e)[n + 1] = e
         /\ \A j \in n + 2 .. Len(s) + 1 : InsertAfter(s, n, e)[j] = s[j - 1]
<1> DEFINE a == SubSeq(s, 1, n)
           b == SubSeq(s, n + 1, Len(s))
           ae == a \o <<e>>
           t == InsertAfter(s, n, e)
<1>1. a \in Seq(Int) /\ Len(a) = n /\ \A i \in 1 .. n : a[i] = s[i]
  OBVIOUS
<1>2. /\ b \in Seq(Int) /\ Len(b) = Len(s) - n
      /\ \A i \in 1 .. Len(s) - n : b[i] = s[n + i]
  OBVIOUS
<1>3. <<e>> \in Seq(Int) /\ Len(<<e>>) = 1 /\ <<e>>[1] = e
  OBVIOUS
<1>4. t = ae \o b
  BY DEF InsertAfter
<1> HIDE DEF a, b, t
<1>5. /\ ae \in Seq(Int) /\ Len(ae) = n + 1
      /\ \A i \in 1 .. n : ae[i] = a[i]
      /\ ae[n + 1] = e
  <2>1. /\ ae \in Seq(Int) /\ Len(ae) = n + 1
        /\ \A i \in 1 .. n + 1 : ae[i] = IF i <= n THEN a[i] ELSE <<e>>[i - n]
    BY <1>1, <1>3, ConcatProperties
  <2>2. n + 1 \in 1 .. n + 1 /\ ~(n + 1 <= n) /\ (n + 1) - n = 1
    OBVIOUS
  <2>3. QED
    BY <1>3, <2>1, <2>2
<1> HIDE DEF ae
<1>6. /\ t \in Seq(Int) /\ Len(t) = Len(s) + 1
      /\ \A i \in 1 .. Len(s) + 1 : t[i] = IF i <= n + 1 THEN ae[i] ELSE b[i - (n + 1)]
  <2>1. Len(ae) + Len(b) = Len(s) + 1
    BY <1>2, <1>5
  <2>2. /\ ae \o b \in Seq(Int) /\ Len(ae \o b) = Len(ae) + Len(b)
        /\ \A i \in 1 .. Len(ae) + Len(b) :
             (ae \o b)[i] = IF i <= Len(ae) THEN ae[i] ELSE b[i - Len(ae)]
    BY <1>2, <1>5, ConcatProperties
  <2>3. QED
    BY <1>4, <1>5, <2>1, <2>2
<1>7. t[n + 1] = e
  BY <1>5, <1>6
<1>8. ASSUME NEW j \in n + 2 .. Len(s) + 1 PROVE t[j] = s[j - 1]
  <2>1. j \in 1 .. Len(s) + 1 /\ ~(j <= n + 1) /\ j - (n + 1) \in 1 .. Len(s) - n
    OBVIOUS
  <2>2. n + (j - (n + 1)) = j - 1
    OBVIOUS
  <2>3. QED
    BY <1>2, <1>6, <2>1, <2>2
<1>9. SubSeq(t, 1, n) = a
  <2>1. ASSUME NEW i \in 1 .. n PROVE t[i] = a[i]
    <3>1. i \in 1 .. Len(s) + 1 /\ i <= n + 1
      OBVIOUS
    <3>2. t[i] = ae[i] /\ ae[i] = a[i]
      BY <1>5, <1>6, <3>1
    <3>3. QED
      BY <3>2
  <2>2. /\ SubSeq(t, 1, n) \in Seq(Int) /\ Len(SubSeq(t, 1, n)) = n
        /\ \A i \in 1 .. n : SubSeq(t, 1, n)[i] = t[i]
    BY <1>6
  <2>3. QED
    BY <1>1, <2>1, <2>2, SeqEqual
<1>10. QED
  BY <1>7, <1>8, <1>9 DEF t, a

\* A Q1 behind a position that is repeated is that position.
LEMMA Q1OfRepeated == ASSUME NEW p \in Int PROVE ComputeQ1(p, p, p) = p
<1>1. p + (3 * (p - p)) \div 10 = p
  OBVIOUS
<1>2. Abs(p - p) - Abs(p - p) = 0 /\ Sign(p - p) = 0
  BY DEF Abs, Sign
<1>3. QED
  BY <1>1, <1>2 DEF ComputeQ1

\* What has been cut is in the curves; what has not is still in the path as it was
\* planned, after one Q1, and if the Q1 is all there is, it is where the plan ends.
PlanRepeatsItsEnd == Len(msg) >= 3 /\ msg[Len(msg) - 1] = msg[Len(msg)]
CutIsKept ==
  /\ \A i \in 1 .. Len(curves) : curves[i] # <<>>
  /\ curves = <<>> => raw = msg
  /\ curves # <<>> => /\ FlattenSeq(curves) = SubSeq(raw, 1, seg_beg)
                      /\ OfPlan(curves) = SubSeq(msg, 1, 5 * Len(curves) + 1)
                      /\ seg_beg + 1 = Len(raw) => LastOf(raw) = LastOf(msg)
RestIsPlanned ==
  \A j \in 2 .. Len(raw) - seg_beg : raw[seg_beg + j] = msg[5 * Len(curves) + j]
CutLosesNothing ==
  /\ PlanRepeatsItsEnd
  /\ kept = "none" => CutIsKept /\ RestIsPlanned
  /\ NoPointLost

\* Nothing is lost before the cut begins.
LEMMA InitLosesNothing == SmootherInit => CutLosesNothing
<1> SUFFICES ASSUME SmootherInit PROVE CutLosesNothing
  OBVIOUS
<1>1. PICK w \in Waypoints : msg = PlannedPath(w)
  BY DEF SmootherInit
<1>2. w \in Seq(Int) /\ Len(w) >= 2 /\ w[Len(w)] \in Int
  BY SmootherAssumption
<1>3. PlanRepeatsItsEnd
  BY <1>1, <1>2 DEF PlanRepeatsItsEnd, PlannedPath
<1>4. CutIsKept /\ RestIsPlanned
  BY DEF SmootherInit, CutIsKept, RestIsPlanned
<1>5. NoPointLost
  BY DEF SmootherInit, NoPointLost, Published
<1>6. QED
  BY <1>3, <1>4, <1>5 DEF CutLosesNothing

\* What a part of a sequence consists of.
LEMMA PartElements ==
  ASSUME NEW s \in Seq(Int), NEW a \in Nat, NEW b \in Nat, a <= b, b <= Len(s)
  PROVE  /\ SubSeq(s, a + 1, b) \in Seq(Int) /\ Len(SubSeq(s, a + 1, b)) = b - a
         /\ \A i \in 1 .. b - a : SubSeq(s, a + 1, b)[i] = s[a + i]
<1>1. \A i \in a + 1 .. b : s[i] \in Int
  OBVIOUS
<1>2. /\ SubSeq(s, a + 1, b) \in Seq(Int)
      /\ Len(SubSeq(s, a + 1, b)) = IF a + 1 <= b THEN b - (a + 1) + 1 ELSE 0
      /\ \A i \in 1 .. b - (a + 1) + 1 : SubSeq(s, a + 1, b)[i] = s[(a + 1) + i - 1]
  BY <1>1, SubSeqProperties
<1>3. b - (a + 1) + 1 = b - a /\ \A i \in Int : (a + 1) + i - 1 = a + i
  OBVIOUS
<1>4. QED
  BY <1>2, <1>3

\* The elements of a tail.
LEMMA TailElements ==
  ASSUME NEW s \in Seq(Int), s # <<>>
  PROVE  /\ Tail(s) \in Seq(Int) /\ Len(Tail(s)) = Len(s) - 1
         /\ \A i \in 1 .. Len(s) - 1 : Tail(s)[i] = s[i + 1]
BY HeadTailProperties

\* A turn of the loop moves six points into a curve, five of them the plan's but
\* for the first curve, and puts the Q1 in front of what is left.
LEMMA FitSegmentLosesNothing == CutInv /\ CutLosesNothing /\ FitSegment => CutLosesNothing'
<1> SUFFICES ASSUME CutInv, CutLosesNothing, FitSegment PROVE CutLosesNothing'
  OBVIOUS
<1> DEFINE k == Len(curves)
           P == SubSeq(raw, seg_beg + 1, seg_beg + 6)
           q2 == IF seg_beg + 6 < Len(raw) THEN raw[seg_beg + 7] ELSE LastOf(raw)
           q1 == ComputeQ1(P[5], P[6], q2)
           n == Len(msg)
<1>0. /\ raw \in Seq(Int) /\ msg \in Seq(Int) /\ curves \in Seq(Seq(Int))
      /\ seg_beg \in Nat /\ kept = "none" /\ seg_beg = 6 * k /\ seg_beg + 5 < Len(raw)
      /\ Len(raw) = n + k
  BY DEF CutInv, SmootherTypeOK, CutCount, FitSegment
<1>1. /\ raw \in Seq(Int) /\ msg \in Seq(Int) /\ curves \in Seq(Seq(Int))
      /\ k \in Nat /\ seg_beg = 6 * k /\ seg_beg + 6 <= Len(raw) /\ Len(raw) = n + k
      /\ n \in Nat /\ 5 * k + 6 <= n /\ kept = "none"
  BY <1>0
<1>kept. CutIsKept /\ RestIsPlanned /\ PlanRepeatsItsEnd
  BY <1>1 DEF CutLosesNothing
<1>len. seg_beg \in Nat /\ Len(raw) \in Nat /\ Len(curves) = k /\ Len(msg) = n
  BY <1>0
<1>seq. raw \in Seq(Int) /\ msg \in Seq(Int) /\ curves \in Seq(Seq(Int))
  BY <1>0
<1>num. /\ k \in Nat /\ n \in Nat /\ seg_beg \in Nat /\ Len(raw) \in Nat
        /\ seg_beg = 6 * k /\ Len(raw) = n + k /\ 5 * k + 6 <= n /\ seg_beg + 6 <= Len(raw)
  BY <1>1, <1>len
<1>keeps. /\ \A i \in 1 .. k : curves[i] # <<>>
          /\ k = 0 => curves = <<>> /\ raw = msg
          /\ k # 0 => /\ FlattenSeq(curves) = SubSeq(raw, 1, seg_beg)
                      /\ OfPlan(curves) = SubSeq(msg, 1, 5 * k + 1)
                      /\ seg_beg + 1 = Len(raw) => raw[Len(raw)] = msg[n]
          /\ \A j \in 2 .. Len(raw) - seg_beg : raw[seg_beg + j] = msg[5 * k + j]
          /\ n >= 3 /\ msg[n - 1] = msg[n]
  <2>1. k = 0 <=> curves = <<>>
    BY <1>seq
  <2>2. QED
    BY <2>1, <1>kept DEF CutIsKept, RestIsPlanned, PlanRepeatsItsEnd, LastOf
<1> HIDE DEF k, n
<1>2. /\ P \in Seq(Int) /\ Len(P) = 6 /\ P # <<>>
      /\ \A i \in 1 .. 6 : P[i] = raw[seg_beg + i] /\ P[i] \in Int
  <2>1. (seg_beg + 6) - seg_beg = 6 /\ seg_beg <= seg_beg + 6
    BY <1>len
  <2>2. P \in Seq(Int) /\ Len(P) = 6 /\ \A i \in 1 .. 6 : P[i] = raw[seg_beg + i]
    BY <1>1, <1>len, <2>1, PartElements
  <2> HIDE DEF P
  <2>3. ASSUME NEW i \in 1 .. 6 PROVE P[i] \in Int
    <3>1. i \in 1 .. Len(P)
      BY <2>2
    <3>2. QED
      BY <2>2, <3>1, ElementOfSeq
  <2>4. P # <<>>
    BY <2>2
  <2>5. QED
    BY <2>2, <2>3, <2>4
<1>3. q1 \in Int
  <2>0. \A i \in 1 .. Len(raw) : raw[i] \in Int
    BY <1>seq
  <2>1. q2 \in Int
    <3>1. CASE seg_beg + 6 < Len(raw)
      <4>1. seg_beg + 7 \in 1 .. Len(raw)
        BY <1>num, <3>1
      <4>2. QED
        BY <2>0, <3>1, <4>1
    <3>2. CASE ~(seg_beg + 6 < Len(raw))
      <4>1. Len(raw) \in 1 .. Len(raw)
        BY <1>num
      <4>2. QED
        BY <2>0, <3>2, <4>1 DEF LastOf
    <3>3. QED
      BY <3>1, <3>2
  <2>2. P[5] \in Int /\ P[6] \in Int
    BY <1>2
  <2> HIDE DEF P, q2
  <2>3. QED
    BY <2>1, <2>2, Q1Type
<1>4. /\ curves' = Append(curves, P) /\ raw' = InsertAfter(raw, seg_beg + 6, q1)
      /\ seg_beg' = seg_beg + 6 /\ msg' = msg /\ kept' = kept
  BY DEF FitSegment
<1> HIDE DEF P, q2, q1
<1>5. /\ raw' \in Seq(Int) /\ Len(raw') = Len(raw) + 1
      /\ SubSeq(raw', 1, seg_beg + 6) = SubSeq(raw, 1, seg_beg + 6)
      /\ raw'[seg_beg + 7] = q1
      /\ \A j \in seg_beg + 8 .. Len(raw) + 1 : raw'[j] = raw[j - 1]
  <2>1. seg_beg + 6 \in 1 .. Len(raw) /\ seg_beg + 6 \in 0 .. Len(raw)
    BY <1>1
  <2>2. (seg_beg + 6) + 1 = seg_beg + 7 /\ (seg_beg + 6) + 2 = seg_beg + 8
    BY <1>1
  <2>3. raw' \in Seq(Int) /\ Len(raw') = Len(raw) + 1
    BY <1>1, <1>3, <1>4, <2>1, InsertAfterLen
  <2> DEFINE m == seg_beg + 6
  <2> HIDE DEF m
  <2>4. m \in 1 .. Len(raw) /\ raw' = InsertAfter(raw, m, q1)
    BY <1>4, <2>1 DEF m
  <2>5. /\ SubSeq(raw', 1, m) = SubSeq(raw, 1, m)
        /\ raw'[m + 1] = q1
        /\ \A j \in m + 2 .. Len(raw) + 1 : raw'[j] = raw[j - 1]
    BY <1>1, <1>3, <2>4, InsertAfterElements
  <2>6. QED
    BY <2>2, <2>3, <2>5 DEF m
<1>6. Len(curves') = k + 1 /\ curves' # <<>> /\ \A i \in 1 .. k + 1 : curves'[i] # <<>>
  <2>1. Len(curves') = k + 1 /\ \A i \in 1 .. k + 1 : curves'[i] = IF i <= k THEN curves[i] ELSE P
    <3>1. \A c \in Seq(Seq(Int)) : \A e \in Seq(Int) :
            /\ Len(Append(c, e)) = Len(c) + 1
            /\ \A i \in 1 .. Len(c) + 1 : Append(c, e)[i] = IF i <= Len(c) THEN c[i] ELSE e
      BY AppendProperties
    <3>2. QED
      BY <1>seq, <1>len, <1>2, <1>4, <3>1
  <2>2. \A i \in 1 .. k : curves[i] # <<>>
    BY <1>kept, <1>len DEF CutIsKept
  <2>3. k + 1 # 0
    BY <1>1
  <2>4. ASSUME NEW i \in 1 .. k + 1 PROVE curves'[i] # <<>>
    <3>1. CASE i <= k
      <4>1. i \in 1 .. k
        BY <3>1
      <4>2. QED
        BY <2>1, <2>2, <3>1, <4>1
    <3>2. CASE ~(i <= k)
      BY <1>2, <2>1, <3>2
    <3>3. QED
      BY <3>1, <3>2
  <2>5. curves' # <<>>
    BY <2>1, <2>3
  <2>6. QED
    BY <2>1, <2>4, <2>5
<1>7. FlattenSeq(curves') = SubSeq(raw', 1, seg_beg')
  <2>1. FlattenSeq(curves') = SubSeq(raw, 1, seg_beg + 6)
    <3>1. CASE k = 0
      <4>1. curves' = <<P>>
        BY <1>2, <1>4, <1>keeps, <3>1
      <4>2. P = SubSeq(raw, 1, seg_beg + 6)
        BY <1>1, <3>1 DEF P
      <4>3. QED
        BY <1>2, <4>1, <4>2, FlattenOne
    <3>2. CASE k # 0
      <4>1. FlattenSeq(curves) = SubSeq(raw, 1, seg_beg)
        BY <1>keeps, <3>2
      <4>2. FlattenSeq(curves') = FlattenSeq(curves) \o P
        BY <1>seq, <1>len, <1>2, <1>4, <3>2, FlattenAppend
      <4>3. SubSeq(raw, 1, seg_beg) \o P = SubSeq(raw, 1, seg_beg + 6)
        <5>1. 1 \in 1 .. Len(raw) + 1 /\ seg_beg \in 1 - 1 .. Len(raw)
              /\ seg_beg + 6 \in seg_beg .. Len(raw)
          BY <1>1
        <5>2. QED
          BY <1>1, <5>1, ConcatAdjacentSubSeq DEF P
      <4>4. QED
        BY <4>1, <4>2, <4>3
    <3>3. QED
      BY <3>1, <3>2
  <2>2. QED
    BY <1>4, <1>5, <2>1
<1>8. OfPlan(curves') = SubSeq(msg', 1, 5 * Len(curves') + 1)
  <2> SUFFICES OfPlan(curves') = SubSeq(msg, 1, 5 * k + 6)
    BY <1>1, <1>4, <1>6
  <2>1. CASE k = 0
    <3>1. curves' = <<P>>
      BY <1>2, <1>4, <1>keeps, <2>1
    <3>2. P = SubSeq(msg, 1, 6)
      BY <1>num, <1>keeps, <2>1 DEF P
    <3>3. OfPlan(curves') = P
      BY <1>2, <3>1, OfPlanOne
    <3>4. 5 * k + 6 = 6
      BY <2>1
    <3>5. QED
      BY <3>2, <3>3, <3>4
  <2>2. CASE k # 0
    <3>1. OfPlan(curves') = OfPlan(curves) \o Tail(P)
      BY <1>seq, <1>len, <1>keeps, <1>2, <1>4, <2>2, OfPlanAppend
    <3>2. OfPlan(curves) = SubSeq(msg, 1, 5 * k + 1)
      BY <1>keeps, <2>2
    <3> DEFINE m == 5 * k
    <3>m. m \in Nat /\ m + 6 <= n
      BY <1>1
    <3>3. Tail(P) = SubSeq(msg, m + 2, m + 6)
      <4>1. /\ Tail(P) \in Seq(Int) /\ Len(Tail(P)) = 5
            /\ \A i \in 1 .. 5 : Tail(P)[i] = P[i + 1]
        <5>1. Len(P) - 1 = 5
          BY <1>2
        <5>2. QED
          BY <1>2, <5>1, TailElements
      <4>2. ASSUME NEW i \in 1 .. 5 PROVE P[i + 1] = msg[m + 1 + i]
        <5>1. P[i + 1] = raw[seg_beg + (i + 1)]
          BY <1>2
        <5>2. i + 1 \in 2 .. Len(raw) - seg_beg
          BY <1>1
        <5>3. raw[seg_beg + (i + 1)] = msg[m + (i + 1)]
          BY <1>keeps, <5>2
        <5>4. m + (i + 1) = m + 1 + i
          BY <3>m
        <5>5. QED
          BY <5>1, <5>3, <5>4
      <4> HIDE DEF m
      <4>3. /\ SubSeq(msg, m + 2, m + 6) \in Seq(Int) /\ Len(SubSeq(msg, m + 2, m + 6)) = 5
            /\ \A i \in 1 .. 5 : SubSeq(msg, m + 2, m + 6)[i] = msg[m + 1 + i]
        <5>1. /\ m + 1 \in Nat /\ m + 6 \in Nat /\ m + 1 <= m + 6 /\ m + 6 <= Len(msg)
              /\ (m + 6) - (m + 1) = 5 /\ (m + 1) + 1 = m + 2
          BY <3>m, <1>num, <1>len
        <5> DEFINE a == m + 1
                   z == m + 6
        <5>2. a \in Nat /\ z \in Nat /\ a <= z /\ z <= Len(msg)
          BY <5>1
        <5> HIDE DEF a, z
        <5>3. /\ SubSeq(msg, a + 1, z) \in Seq(Int) /\ Len(SubSeq(msg, a + 1, z)) = z - a
              /\ \A i \in 1 .. z - a : SubSeq(msg, a + 1, z)[i] = msg[a + i]
          BY <1>seq, <5>2, PartElements
        <5>4. QED
          BY <5>1, <5>3 DEF a, z
      <4>4. QED
        <5> DEFINE a == Tail(P)
                   d == SubSeq(msg, m + 2, m + 6)
        <5>1. /\ a \in Seq(Int) /\ d \in Seq(Int) /\ Len(a) = 5 /\ Len(d) = 5
              /\ \A i \in 1 .. 5 : a[i] = d[i]
          BY <4>1, <4>2, <4>3
        <5> HIDE DEF a, d
        <5>2. a = d
          BY <5>1, SeqEqual
        <5>3. QED
          BY <5>2 DEF a, d
    <3> HIDE DEF m
    <3>4. SubSeq(msg, 1, m + 1) \o SubSeq(msg, (m + 1) + 1, m + 6) = SubSeq(msg, 1, m + 6)
      <4>1. 1 \in 1 .. n + 1 /\ m + 1 \in 1 - 1 .. n /\ m + 6 \in m + 1 .. n
        BY <1>1, <3>m
      <4>2. QED
        BY <1>seq, <1>len, <4>1, ConcatAdjacentSubSeq
    <3>5. (m + 1) + 1 = m + 2
      BY <3>m
    <3>6. QED
      BY <3>1, <3>2, <3>3, <3>4, <3>5 DEF m
  <2>3. QED
    BY <2>1, <2>2
<1>9. ASSUME NEW j \in 2 .. Len(raw') - seg_beg'
      PROVE  raw'[seg_beg' + j] = msg'[5 * Len(curves') + j]
  <2>1. j + 5 \in 2 .. Len(raw) - seg_beg
    <3>1. Len(raw') = Len(raw) + 1 /\ seg_beg' = seg_beg + 6
      BY <1>4, <1>5
    <3>2. j \in 2 .. (Len(raw) + 1) - (seg_beg + 6)
      BY <3>1, Zenon
    <3>3. Len(raw) \in Int /\ seg_beg \in Int
      BY <1>1
    <3>4. QED
      BY <3>2, <3>3
  <2>2. raw[seg_beg + (j + 5)] = msg[5 * k + (j + 5)]
    BY <1>keeps, <2>1
  <2>3. seg_beg + 6 + j \in seg_beg + 8 .. Len(raw) + 1 /\ (seg_beg + 6 + j) - 1 = seg_beg + (j + 5)
    BY <1>len, <2>1
  <2>4. 5 * (k + 1) + j = 5 * k + (j + 5)
    BY <1>1
  <2>5. QED
    BY <1>4, <1>5, <1>6, <2>2, <2>3, <2>4
<1>10. ASSUME seg_beg' + 1 = Len(raw') PROVE LastOf(raw') = LastOf(msg')
  <2>0. seg_beg + 6 = Len(raw) /\ Len(raw') = seg_beg + 7
    BY <1>len, <1>4, <1>5, <1>10
  <2>1. seg_beg + 6 = Len(raw) /\ 5 * k + 6 = n /\ LastOf(raw') = q1
    BY <1>num, <1>5, <2>0 DEF LastOf
  <2>2. P[5] = msg[n - 1] /\ P[6] = msg[n]
    <3>1. 5 \in 2 .. Len(raw) - seg_beg /\ 6 \in 2 .. Len(raw) - seg_beg
      BY <1>1
    <3>2. raw[seg_beg + 5] = msg[5 * k + 5] /\ raw[seg_beg + 6] = msg[5 * k + 6]
      BY <1>keeps, <3>1
    <3>3. 5 * k + 5 = n - 1
      BY <1>1, <2>1
    <3>4. P[5] = raw[seg_beg + 5] /\ P[6] = raw[seg_beg + 6]
      BY <1>2
    <3>5. QED
      BY <2>1, <3>2, <3>3, <3>4
  <2>3. q2 = P[6]
    <3>1. ~(seg_beg + 6 < Len(raw)) /\ q2 = raw[Len(raw)]
      BY <1>num, <2>1 DEF q2, LastOf
    <3>2. P[6] = raw[seg_beg + 6]
      BY <1>2
    <3>3. QED
      BY <2>1, <3>1, <3>2
  <2>4. msg[n - 1] = msg[n] /\ msg[n] \in Int
    BY <1>keeps, <1>seq, <1>num, <1>len
  <2>5. QED
    BY <1>4, <1>len, <2>1, <2>2, <2>3, <2>4, Q1OfRepeated DEF q1, LastOf
<1>11. CutIsKept'
  BY <1>6, <1>7, <1>8, <1>10 DEF CutIsKept
<1>12. RestIsPlanned'
  BY <1>9 DEF RestIsPlanned
<1>13. PlanRepeatsItsEnd' /\ NoPointLost'
  BY <1>1, <1>kept, <1>4 DEF PlanRepeatsItsEnd, NoPointLost, Published
<1>14. QED
  BY <1>11, <1>12, <1>13 DEF CutLosesNothing

\* The last curve takes all that is left.
LEMMA AssembleLosesNothing == CutInv /\ CutLosesNothing /\ Assemble => CutLosesNothing'
<1> SUFFICES ASSUME CutInv, CutLosesNothing, Assemble PROVE CutLosesNothing'
  OBVIOUS
<1> DEFINE k == Len(curves)
           R == Remaining
           n == Len(msg)
<1>1. /\ raw \in Seq(Int) /\ msg \in Seq(Int) /\ curves \in Seq(Seq(Int))
      /\ k \in Nat /\ seg_beg = 6 * k /\ seg_beg < Len(raw) /\ Len(raw) = n + k
      /\ n \in Nat /\ 5 * k + 1 <= n
      /\ CutIsKept /\ RestIsPlanned /\ PlanRepeatsItsEnd
  BY DEF CutInv, SmootherTypeOK, CutCount, Assemble, CutLosesNothing
<1>len. Len(curves) = k /\ Len(msg) = n /\ seg_beg \in Nat /\ Len(raw) \in Nat
  BY <1>1
<1>seq. raw \in Seq(Int) /\ msg \in Seq(Int) /\ curves \in Seq(Seq(Int))
  BY <1>1
<1>num. /\ k \in Nat /\ n \in Nat /\ seg_beg \in Nat /\ Len(raw) \in Nat
        /\ seg_beg = 6 * k /\ Len(raw) = n + k /\ 5 * k + 1 <= n /\ seg_beg < Len(raw)
  BY <1>1, <1>len
<1>kept. CutIsKept /\ RestIsPlanned /\ PlanRepeatsItsEnd
  BY <1>1
<1>keeps. /\ \A i \in 1 .. k : curves[i] # <<>>
          /\ k = 0 => curves = <<>> /\ raw = msg
          /\ k # 0 => /\ FlattenSeq(curves) = SubSeq(raw, 1, seg_beg)
                      /\ OfPlan(curves) = SubSeq(msg, 1, 5 * k + 1)
                      /\ seg_beg + 1 = Len(raw) => raw[Len(raw)] = msg[n]
          /\ \A j \in 2 .. Len(raw) - seg_beg : raw[seg_beg + j] = msg[5 * k + j]
          /\ n >= 3 /\ msg[n - 1] = msg[n]
  <2>1. k = 0 <=> curves = <<>>
    BY <1>seq
  <2>2. QED
    BY <2>1, <1>kept DEF CutIsKept, RestIsPlanned, PlanRepeatsItsEnd, LastOf
<1> HIDE DEF k, n
<1>2. /\ curves' = Append(curves, R) /\ kept' \in {"planned", "tangent"}
      /\ UNCHANGED <<msg, raw, seg_beg>>
  BY <1>1 DEF Assemble, AllCurves
<1>3. /\ R \in Seq(Int) /\ Len(R) = Len(raw) - seg_beg /\ R # <<>>
      /\ \A i \in 1 .. Len(R) : R[i] = raw[seg_beg + i]
  <2>1. seg_beg \in Nat /\ Len(raw) \in Nat /\ R = SubSeq(raw, seg_beg + 1, Len(raw))
    BY <1>1 DEF Remaining
  <2> HIDE DEF R
  <2>2. /\ R \in Seq(Int) /\ Len(R) = Len(raw) - seg_beg
        /\ \A i \in 1 .. Len(raw) - seg_beg : R[i] = raw[seg_beg + i]
    <3>1. seg_beg <= Len(raw) /\ Len(raw) <= Len(raw)
      BY <1>num
    <3>2. QED
      BY <1>seq, <2>1, <3>1, PartElements
  <2>3. Len(R) # 0
    BY <1>1, <2>1, <2>2
  <2>4. QED
    BY <2>2, <2>3
<1> HIDE DEF R
<1>4. FlattenSeq(curves') = raw
  <2>1. CASE k = 0
    <3>1. curves' = <<R>> /\ R = SubSeq(raw, 1, Len(raw))
      BY <1>num, <1>2, <1>3, <1>keeps, <2>1 DEF R, Remaining
    <3>2. R = raw
      BY <1>1, <3>1, SubSeqFull
    <3>3. QED
      BY <1>3, <3>1, <3>2, FlattenOne
  <2>2. CASE k # 0
    <3>1. FlattenSeq(curves) = SubSeq(raw, 1, seg_beg)
      BY <1>keeps, <2>2
    <3>2. FlattenSeq(curves') = FlattenSeq(curves) \o R
      BY <1>seq, <1>len, <1>2, <1>3, <2>2, FlattenAppend
    <3>3. SubSeq(raw, 1, seg_beg) \o R = SubSeq(raw, 1, Len(raw))
      <4>1. 1 \in 1 .. Len(raw) + 1 /\ seg_beg \in 1 - 1 .. Len(raw)
            /\ Len(raw) \in seg_beg .. Len(raw)
        BY <1>1
      <4>2. QED
        BY <1>seq, <1>len, <4>1, ConcatAdjacentSubSeq DEF R, Remaining
    <3>4. QED
      BY <1>1, <3>1, <3>2, <3>3, SubSeqFull
  <2>3. QED
    BY <2>1, <2>2
<1>5. OfPlan(curves') = msg
  <2>1. CASE k = 0
    <3>1. curves' = <<R>> /\ R = SubSeq(raw, 1, Len(raw)) /\ raw = msg
      BY <1>num, <1>2, <1>3, <1>keeps, <2>1 DEF R, Remaining
    <3>2. R = msg
      BY <1>1, <3>1, SubSeqFull
    <3>3. QED
      BY <1>1, <3>1, <3>2, OfPlanOne
  <2>2. CASE k # 0
    <3>1. OfPlan(curves') = OfPlan(curves) \o Tail(R)
      BY <1>seq, <1>len, <1>keeps, <1>2, <1>3, <2>2, OfPlanAppend
    <3>2. OfPlan(curves) = SubSeq(msg, 1, 5 * k + 1)
      BY <1>keeps, <2>2
    <3> DEFINE m == 5 * k
    <3>m. m \in Nat /\ m + 1 <= n /\ Len(R) = n - m
      BY <1>1, <1>3
    <3>3. Tail(R) = SubSeq(msg, m + 2, n)
      <4>1. /\ Tail(R) \in Seq(Int) /\ Len(Tail(R)) = n - m - 1
            /\ \A i \in 1 .. n - m - 1 : Tail(R)[i] = R[i + 1]
        BY <1>3, <3>m, TailElements
      <4>2. ASSUME NEW i \in 1 .. n - m - 1 PROVE R[i + 1] = msg[m + 1 + i]
        <5>1. R[i + 1] = raw[seg_beg + (i + 1)]
          BY <1>3, <3>m
        <5>2. i + 1 \in 2 .. Len(raw) - seg_beg
          BY <1>1
        <5>3. raw[seg_beg + (i + 1)] = msg[m + (i + 1)]
          BY <1>keeps, <5>2
        <5>4. m + (i + 1) = m + 1 + i
          BY <3>m
        <5>5. QED
          BY <5>1, <5>3, <5>4
      <4> HIDE DEF m
      <4>3. /\ SubSeq(msg, m + 2, n) \in Seq(Int) /\ Len(SubSeq(msg, m + 2, n)) = n - m - 1
            /\ \A i \in 1 .. n - m - 1 : SubSeq(msg, m + 2, n)[i] = msg[m + 1 + i]
        <5>1. /\ m + 1 \in Nat /\ n \in Nat /\ m + 1 <= n /\ n <= Len(msg)
              /\ n - (m + 1) = n - m - 1 /\ (m + 1) + 1 = m + 2
          BY <1>num, <1>len, <3>m
        <5> DEFINE a == m + 1
                   z == n
        <5>2. a \in Nat /\ z \in Nat /\ a <= z /\ z <= Len(msg)
          BY <5>1
        <5> HIDE DEF a, z
        <5>3. /\ SubSeq(msg, a + 1, z) \in Seq(Int) /\ Len(SubSeq(msg, a + 1, z)) = z - a
              /\ \A i \in 1 .. z - a : SubSeq(msg, a + 1, z)[i] = msg[a + i]
          BY <1>seq, <5>2, PartElements
        <5>4. QED
          BY <5>1, <5>3 DEF a, z
      <4>4. QED
        BY <4>1, <4>2, <4>3, SeqEqual
    <3> HIDE DEF m
    <3>4. SubSeq(msg, 1, m + 1) \o SubSeq(msg, (m + 1) + 1, n) = SubSeq(msg, 1, n)
      <4>1. 1 \in 1 .. n + 1 /\ m + 1 \in 1 - 1 .. n /\ n \in m + 1 .. n
        BY <1>1, <3>m
      <4>2. QED
        BY <1>seq, <1>len, <4>1, ConcatAdjacentSubSeq
    <3>5. (m + 1) + 1 = m + 2 /\ SubSeq(msg, 1, n) = msg
      BY <1>seq, <1>len, <3>m, SubSeqFull
    <3>6. QED
      BY <3>1, <3>2, <3>3, <3>4, <3>5 DEF m
  <2>3. QED
    BY <2>1, <2>2
<1>6. LastOf(LastOf(curves')) = LastOf(msg)
  <2>1. LastOf(curves') = R
    BY <1>1, <1>2, <1>3 DEF LastOf
  <2>2. LastOf(R) = raw[Len(raw)]
    <3>1. Len(R) \in 1 .. Len(R) /\ seg_beg + Len(R) = Len(raw)
      BY <1>num, <1>3
    <3>2. QED
      BY <1>3, <3>1 DEF LastOf
  <2>3. raw[Len(raw)] = msg[n]
    <3>1. CASE k = 0
      BY <1>len, <1>keeps, <3>1
    <3>2. CASE k # 0 /\ seg_beg + 1 = Len(raw)
      BY <1>keeps, <3>2
    <3>3. CASE k # 0 /\ seg_beg + 1 # Len(raw)
      <4>1. n - 5 * k \in 2 .. Len(raw) - seg_beg
        BY <1>num, <3>3
      <4>2. raw[seg_beg + (n - 5 * k)] = msg[5 * k + (n - 5 * k)]
        BY <1>keeps, <4>1
      <4>3. seg_beg + (n - 5 * k) = Len(raw) /\ 5 * k + (n - 5 * k) = n
        BY <1>1
      <4>4. QED
        BY <4>2, <4>3
    <3>4. QED
      BY <3>1, <3>2, <3>3
  <2>4. QED
    BY <1>len, <2>1, <2>2, <2>3 DEF LastOf
<1>7. NoPointLost'
  BY <1>2, <1>4, <1>5, <1>6 DEF NoPointLost, OfPlan
<1>8. PlanRepeatsItsEnd' /\ kept' # "none"
  BY <1>1, <1>2 DEF PlanRepeatsItsEnd
<1>9. QED
  BY <1>7, <1>8 DEF CutLosesNothing

\* Cutting a plan of any length into curves loses none of its points and leads to
\* where it ends.
THEOREM CuttingLosesNoPoint == SmootherSpec => []NoPointLost
<1>1. CutLosesNothing /\ UNCHANGED smootherVars => CutLosesNothing'
  BY DEF smootherVars, CutLosesNothing, PlanRepeatsItsEnd, CutIsKept, RestIsPlanned, NoPointLost,
         Published
<1>2. CutInv /\ CutLosesNothing /\ [SmootherNext]_smootherVars => CutLosesNothing'
  BY <1>1, FitSegmentLosesNothing, AssembleLosesNothing DEF SmootherNext
<1>3. CutLosesNothing => NoPointLost
  BY DEF CutLosesNothing
<1>4. QED
  BY <1>2, <1>3, InitCutInv, StepCutInv, InitLosesNothing, PTL DEF SmootherSpec

-----------------------------------------------------------------------------
(* The roadmap: the parabolas of a line                                     *)

\* A line: heights, of which INF is none, over the voxels from 0.
IsLine(f, n) == n \in Nat /\ f \in [0 .. n -> 0 .. INF]
Fractions    == Int \X (Nat \ {0})
Envelopes(n) == Seq([at : 0 .. n, from : Int \X Int]) \ {<<>>}
Above(f, p, x) == (x - p) * (x - p) + f[p]

\* To the right of where two parabolas meet the right one is lower, elsewhere the left one.
LEMMA MeetingPoint ==
  ASSUME NEW n, NEW f, IsLine(f, n), NEW p \in 0 .. n, NEW q \in 0 .. n, p < q,
         f[p] # INF, f[q] # INF, NEW x \in Int
  PROVE  /\ Intersection(f, p, q) \in Fractions
         /\ Before(Intersection(f, p, q), <<x, 1>>) => Above(f, q, x) <= Above(f, p, x)
         /\ ~Before(Intersection(f, p, q), <<x, 1>>) => Above(f, p, x) <= Above(f, q, x)
         /\ Before(<<-INF, 1>>, Intersection(f, p, q))
<1>1. /\ f[p] \in Nat /\ f[q] \in Nat /\ f[p] < INF /\ f[q] < INF /\ INF \in Nat
      /\ p \in Nat /\ q \in Nat
  BY EdtAssumption DEF IsLine
<1> DEFINE N == (f[q] + q * q) - (f[p] + p * p)
           M == 2 * (q - p)
<1>2. Intersection(f, p, q) = <<N, M>>
  BY DEF Intersection
<1>3. N \in Int /\ M \in Nat /\ M >= 2
  BY <1>1
<1>4. Intersection(f, p, q) \in Fractions
  BY <1>2, <1>3 DEF Fractions
<1>5. Above(f, q, x) - Above(f, p, x) = N - x * M
  BY <1>1 DEF Above
<1>6. Above(f, p, x) \in Int /\ Above(f, q, x) \in Int /\ x * M \in Int
  BY <1>1 DEF Above
<1>7. Before(Intersection(f, p, q), <<x, 1>>) <=> N < x * M
  BY <1>2, <1>3 DEF Before
<1> HIDE DEF N, M
<1>8. Before(<<-INF, 1>>, Intersection(f, p, q))
  <2>1. Before(<<-INF, 1>>, Intersection(f, p, q)) <=> (-INF) * M < N
    BY <1>1, <1>2, <1>3 DEF Before
  <2>2. (-INF) * M <= -INF
    BY <1>1, <1>3
  <2>3. q * q >= p * p
    BY <1>1
  <2>4. N > -INF
    BY <1>1, <2>3 DEF N
  <2>5. (-INF) * M \in Int
    BY <1>1, <1>3
  <2>6. QED
    BY <1>1, <1>3, <2>1, <2>2, <2>4, <2>5
<1>9. QED
  BY <1>3, <1>4, <1>5, <1>6, <1>7, <1>8

\* The order of fractions.
LEMMA FractionsFollow ==
  ASSUME NEW r \in Fractions, NEW s \in Fractions, NEW t \in Fractions
  PROVE  /\ Before(r, s) /\ Before(s, t) => Before(r, t)
         /\ ~Before(s, r) /\ Before(s, t) => Before(r, t)
         /\ ~Before(r, s) /\ ~Before(s, t) => ~Before(r, t)
<1> DEFINE a == r[1]
           b == r[2]
           c == s[1]
           d == s[2]
           e == t[1]
           g == t[2]
<1>1. /\ a \in Int /\ c \in Int /\ e \in Int
      /\ b \in Nat /\ b > 0 /\ d \in Nat /\ d > 0 /\ g \in Nat /\ g > 0
  BY DEF Fractions
<1> HIDE DEF a, b, c, d, e, g
<1>2. ASSUME a * d <= c * b, c * g < e * d PROVE a * g < e * b
  <2>1. /\ (a * d) * g <= (c * b) * g /\ (c * g) * b < (e * d) * b
    BY <1>1, <1>2
  <2>2. (a * g) * d < (e * b) * d
    BY <1>1, <2>1
  <2>3. QED
    BY <1>1, <2>2
<1>3. ASSUME c * b <= a * d, e * d <= c * g PROVE e * b <= a * g
  <2>1. /\ (c * b) * g <= (a * d) * g /\ (e * d) * b <= (c * g) * b
    BY <1>1, <1>3
  <2>2. (e * b) * d <= (a * g) * d
    BY <1>1, <2>1
  <2>3. QED
    BY <1>1, <2>2
<1>4. /\ a * d \in Int /\ c * b \in Int /\ c * g \in Int /\ e * d \in Int
      /\ a * g \in Int /\ e * b \in Int
  BY <1>1
<1>5. /\ Before(r, s) <=> a * d < c * b
      /\ Before(s, r) <=> c * b < a * d
      /\ Before(s, t) <=> c * g < e * d
      /\ Before(r, t) <=> a * g < e * b
  BY DEF Before, a, b, c, d, e, g
<1>6. QED
  BY <1>2, <1>3, <1>4, <1>5

\* A set of numbers that is bounded has a greatest one.
LEMMA MaxIs ==
  ASSUME NEW n \in Nat, NEW T \in SUBSET (0 .. n), T # {}
  PROVE  Max(T) \in T /\ \A k \in T : k <= Max(T)
<1> DEFINE U == {n - k : k \in T}
<1>1. U \in SUBSET Nat /\ U # {}
  <2>1. \A k \in T : n - k \in Nat
    OBVIOUS
  <2>2. QED
    BY <2>1
<1>2. PICK m \in U : \A k \in U : m <= k
  BY <1>1, LeastElement
<1>3. PICK t \in T : m = n - t
  BY <1>2
<1>4. \A k \in T : k <= t
  <2> TAKE k \in T
  <2>1. m <= n - k
    BY <1>2
  <2>2. QED
    BY <1>3, <2>1
<1>5. \E x \in T : \A y \in T : x >= y
  BY <1>4
<1>6. QED
  BY <1>5 DEF Max

\* The parabolas at the end that are lower only where that of q is lower still.
Holds(f, env, q, k) ==
  f[env[k].at] # INF /\ Before(env[k].from, Intersection(f, env[k].at, q))

\* They end with the last one that does not, if there is any.
LEMMA UncoveredIs ==
  ASSUME NEW n, NEW f, IsLine(f, n), NEW q, NEW env \in Envelopes(n)
  PROVE  LET k == Uncovered(f, env, q)
         IN  /\ k \in 0 .. Len(env) /\ (k > 0 => Holds(f, env, q, k))
             /\ \A j \in k + 1 .. Len(env) : ~Holds(f, env, q, j)
             /\ Max({k, 1}) = IF k = 0 THEN 1 ELSE k
<1> DEFINE T == {0} \cup {k \in 1 .. Len(env) : Holds(f, env, q, k)}
           k == Uncovered(f, env, q)
<1>1. Len(env) \in Nat
  BY DEF Envelopes
<1>2. T \in SUBSET (0 .. Len(env)) /\ T # {}
  BY <1>1
<1>3. k = Max(T)
  BY DEF Uncovered, Holds
<1>4. k \in T /\ \A j \in T : j <= k
  BY <1>1, <1>2, <1>3, MaxIs, Zenon
<1> HIDE DEF k
<1>5. /\ k \in 0 .. Len(env) /\ (k > 0 => Holds(f, env, q, k))
      /\ \A j \in k + 1 .. Len(env) : ~Holds(f, env, q, j)
  BY <1>1, <1>4
<1>6. Max({k, 1}) = IF k = 0 THEN 1 ELSE k
  <2>1. {k, 1} \in SUBSET (0 .. Len(env) + 1) /\ {k, 1} # {} /\ Len(env) + 1 \in Nat
    BY <1>1, <1>5
  <2>2. Max({k, 1}) \in {k, 1} /\ \A j \in {k, 1} : j <= Max({k, 1})
    BY <2>1, MaxIs, Zenon
  <2>3. QED
    BY <1>1, <1>5, <2>2
<1>7. QED
  BY <1>5, <1>6 DEF k

\* The parabola of q is put after those that it leaves.
Puts(n, f, q, s, env, k, new) ==
  LET p == env[IF k = 0 THEN 1 ELSE k].at
  IN  /\ new \in Envelopes(n) /\ Len(new) = k + 1
      /\ \A i \in 1 .. k : new[i] = env[i]
      /\ new[k + 1] = Parabola(q, IF f[p] # INF THEN Intersection(f, p, q) ELSE <<s, 1>>)

\* An envelope that takes the parabola of q is cut there, and q put behind.
LEMMA ExtendedIs ==
  ASSUME NEW n, NEW f, IsLine(f, n), NEW q \in 0 .. n, NEW s \in Int,
         NEW env \in Envelopes(n), f[q] # INF
  PROVE  Puts(n, f, q, s, env, Uncovered(f, env, q), Extended(f, env, q, s))
<1> DEFINE Foot == [at : 0 .. n, from : Int \X Int]
           k == Uncovered(f, env, q)
           new == Extended(f, env, q, s)
           p   == env[IF k = 0 THEN 1 ELSE k].at
           last == Parabola(q, IF f[p] # INF THEN Intersection(f, p, q) ELSE <<s, 1>>)
           head == SubSeq(env, 1, k)
<1>0. env \in Seq(Foot) /\ env # <<>> /\ Len(env) \in Nat /\ Len(env) >= 1
  BY DEF Envelopes
<1>1. k \in 0 .. Len(env) /\ Max({k, 1}) = IF k = 0 THEN 1 ELSE k
  BY UncoveredIs
<1>2. new = Append(head, last)
  BY <1>1 DEF Extended
<1> HIDE DEF k, Foot
<1>3. p \in 0 .. n
  <2>1. (IF k = 0 THEN 1 ELSE k) \in 1 .. Len(env)
    BY <1>0, <1>1
  <2>2. env[IF k = 0 THEN 1 ELSE k] \in Foot
    BY <1>0, <2>1, ElementOfSeq
  <2>3. QED
    BY <2>2 DEF Foot
<1> HIDE DEF p
<1>4. last \in Foot
  <2>1. f[p] \in Int /\ f[q] \in Int /\ n \in Nat
    BY <1>3, EdtAssumption DEF IsLine
  <2>2. Intersection(f, p, q) \in Int \X Int
    BY <1>3, <2>1 DEF Intersection
  <2>3. QED
    BY <2>2 DEF Parabola, Foot
<1>5. head \in Seq(Foot) /\ Len(head) = k /\ \A i \in 1 .. k : head[i] = env[i]
  <2>1. 1 \in 1 .. Len(env) + 1 /\ k \in 1 - 1 .. Len(env)
    BY <1>0, <1>1
  <2>2. head \in Seq(Foot) /\ Len(head) = k
    BY <1>0, <1>1, <2>1, SubSeqProperties
  <2>3. ASSUME NEW i \in 1 .. k PROVE head[i] = env[i]
    <3>1. i \in 1 .. k - 1 + 1 /\ 1 + i - 1 = i
      BY <1>1
    <3>2. QED
      BY <1>0, <2>1, <3>1, SubSeqProperties
  <2>4. QED
    BY <2>2, <2>3
<1> HIDE DEF last, head, Foot, new
<1>6. /\ new \in Seq(Foot) /\ Len(new) = k + 1 /\ new[k + 1] = last
      /\ \A i \in 1 .. k : new[i] = head[i]
  BY <1>1, <1>2, <1>4, <1>5, AppendProperties
<1>7. new \in Envelopes(n)
  BY <1>1, <1>6 DEF Envelopes, Foot
<1>8. QED
  BY <1>5, <1>6, <1>7 DEF k, p, last, new, Puts

\* What holds when the parabolas up to q have been looked at: either there is none, or
\* they follow each other from where they meet, and none of the line is anywhere lower
\* than all of them.
NoneUpTo(f, env, q) ==
  env = <<Parabola(0, <<-INF, 1>>)>> /\ \A p \in 0 .. q : f[p] = INF
InSequence(f, env, q) ==
  /\ \A i \in 1 .. Len(env) :
       env[i].at \in 0 .. q /\ f[env[i].at] # INF /\ env[i].from \in Fractions
  /\ \A i, j \in 1 .. Len(env) :
       i < j => env[i].at < env[j].at /\ Before(env[i].from, env[j].from)
  /\ \A i \in 1 .. Len(env) - 1 : env[i + 1].from = Intersection(f, env[i].at, env[i + 1].at)
BeginsBelow(f, env) ==
  \A p, r \in DOMAIN f : p < r /\ f[p] # INF /\ f[r] # INF
                           => Before(env[1].from, Intersection(f, p, r))
NoneBelow(f, env, q, x) ==
  \A p \in 0 .. q : f[p] # INF => \E i \in 1 .. Len(env) : Above(f, env[i].at, x) <= Above(f, p, x)
Envelops(f, env, q) ==
  /\ InSequence(f, env, q) /\ BeginsBelow(f, env)
  /\ \A x \in DOMAIN f : NoneBelow(f, env, q, x)

\* At the beginning there is the parabola of the first voxel, if it has one.
LEMMA FirstEnvelops ==
  ASSUME NEW n, NEW f, IsLine(f, n)
  PROVE  LET env == <<Parabola(0, <<-INF, 1>>)>>
         IN  env \in Envelopes(n) /\ (NoneUpTo(f, env, 0) \/ Envelops(f, env, 0))
<1> DEFINE foot == Parabola(0, <<-INF, 1>>)
           env == <<foot>>
<1>1. n \in Nat /\ f \in [0 .. n -> 0 .. INF] /\ INF \in Nat /\ 0 \in 0 .. n
  BY EdtAssumption DEF IsLine
<1>2. foot \in [at : 0 .. n, from : Int \X Int] /\ foot.at = 0 /\ foot.from = <<-INF, 1>>
  BY <1>1 DEF Parabola
<1>3. <<-INF, 1>> \in Fractions
  BY <1>1 DEF Fractions
<1> HIDE DEF foot
<1>4. env \in Envelopes(n) /\ Len(env) = 1 /\ env[1] = foot
  BY <1>2 DEF Envelopes
<1>5. CASE f[0] = INF
  <2>1. NoneUpTo(f, env, 0)
    BY <1>5 DEF NoneUpTo, foot
  <2>2. QED
    BY <1>4, <2>1 DEF foot
<1>6. CASE f[0] # INF
  <2> HIDE DEF env
  <2>1. InSequence(f, env, 0)
    BY <1>1, <1>2, <1>3, <1>4, <1>6 DEF InSequence
  <2>2. BeginsBelow(f, env)
    <3> SUFFICES ASSUME NEW p \in 0 .. n, NEW r \in 0 .. n, p < r, f[p] # INF, f[r] # INF
                 PROVE  Before(env[1].from, Intersection(f, p, r))
      BY <1>1 DEF BeginsBelow
    <3>1. QED
      BY <1>2, <1>4, MeetingPoint
  <2>3. ASSUME NEW x \in DOMAIN f PROVE NoneBelow(f, env, 0, x)
    <3> SUFFICES ASSUME NEW p \in 0 .. 0
                 PROVE  \E i \in 1 .. Len(env) : Above(f, env[i].at, x) <= Above(f, p, x)
      BY DEF NoneBelow
    <3>1. p = 0 /\ f[0] \in Int /\ x \in Int
      BY <1>1
    <3>2. Above(f, 0, x) \in Int
      BY <3>1 DEF Above
    <3>3. 1 \in 1 .. Len(env) /\ env[1].at = p
      BY <1>2, <1>4, <3>1
    <3>4. QED
      BY <3>1, <3>2, <3>3
  <2>4. QED
    BY <1>4, <2>1, <2>2, <2>3 DEF Envelops, env, foot
<1>7. QED
  BY <1>5, <1>6

\* A voxel without a parabola changes nothing.
LEMMA SkippedEnvelops ==
  ASSUME NEW n, NEW f, IsLine(f, n), NEW q \in 1 .. n, NEW env \in Envelopes(n),
         NoneUpTo(f, env, q - 1) \/ Envelops(f, env, q - 1), f[q] = INF
  PROVE  NoneUpTo(f, env, q) \/ Envelops(f, env, q)
<1>1. \A p \in 0 .. q : p \in 0 .. q - 1 \/ p = q
  OBVIOUS
<1>2. CASE NoneUpTo(f, env, q - 1)
  BY <1>1, <1>2 DEF NoneUpTo
<1>3. CASE Envelops(f, env, q - 1)
  <2>1. \A p \in 0 .. q - 1 : p \in 0 .. q
    OBVIOUS
  <2>2. InSequence(f, env, q)
    BY <1>3, <2>1 DEF Envelops, InSequence
  <2>3. \A x \in DOMAIN f : NoneBelow(f, env, q, x)
    BY <1>1, <1>3 DEF Envelops, NoneBelow
  <2>4. QED
    BY <1>3, <2>2, <2>3 DEF Envelops
<1>4. QED
  BY <1>2, <1>3

\* The first parabola of a line that begins without one.
LEMMA FirstParabola ==
  ASSUME NEW n, NEW f, IsLine(f, n), NEW q \in 1 .. n, NEW s \in Int, NEW env \in Envelopes(n),
         NoneUpTo(f, env, q - 1), f[q] # INF, f[0] # INF \/ BelowOthers(f, s)
  PROVE  Envelops(f, Extended(f, env, q, s), q)
<1> DEFINE new == Extended(f, env, q, s)
           k == Uncovered(f, env, q)
<1>1. /\ n \in Nat /\ f \in [0 .. n -> 0 .. INF] /\ INF \in Nat /\ q \in 0 .. n /\ 0 \in 0 .. q - 1
  BY EdtAssumption DEF IsLine
<1>2. /\ env = <<Parabola(0, <<-INF, 1>>)>> /\ f[0] = INF /\ \A p \in 0 .. q - 1 : f[p] = INF
      /\ BelowOthers(f, s)
  BY <1>1 DEF NoneUpTo
<1>3. Len(env) = 1 /\ env[1].at = 0
  BY <1>2 DEF Parabola
<1>4. k = 0
  <2>1. k \in 0 .. 1 /\ (k > 0 => Holds(f, env, q, k))
    BY <1>3, UncoveredIs
  <2>2. ~Holds(f, env, q, 1)
    BY <1>2, <1>3 DEF Holds
  <2>3. QED
    BY <2>1, <2>2
<1>5. Len(new) = 1 /\ new[1] = Parabola(q, <<s, 1>>)
  <2>1. Puts(n, f, q, s, env, k, new)
    BY <1>1, ExtendedIs
  <2> HIDE DEF new, k
  <2>2. f[env[1].at] = INF
    BY <1>2, <1>3
  <2>3. QED
    BY <1>4, <2>1, <2>2 DEF Puts
<1>6. new[1].at = q /\ new[1].from = <<s, 1>> /\ <<s, 1>> \in Fractions
  BY <1>5 DEF Parabola, Fractions
<1> HIDE DEF new, k
<1>7. InSequence(f, new, q)
  <2>1. \A i \in 1 .. Len(new) : i = 1
    BY <1>5
  <2>2. \A i \in 1 .. Len(new) - 1 : FALSE
    BY <1>5
  <2>3. q \in 0 .. q /\ \A i, j \in 1 .. Len(new) : ~(i < j)
    BY <1>1, <2>1
  <2>4. QED
    BY <1>6, <2>1, <2>2, <2>3 DEF InSequence
<1>8. BeginsBelow(f, new)
  BY <1>2, <1>6 DEF BeginsBelow, BelowOthers
<1>9. ASSUME NEW x \in DOMAIN f PROVE NoneBelow(f, new, q, x)
  <2> SUFFICES ASSUME NEW p \in 0 .. q, f[p] # INF
               PROVE  \E i \in 1 .. Len(new) : Above(f, new[i].at, x) <= Above(f, p, x)
    BY DEF NoneBelow
  <2>1. p = q
    <3>1. p \in 0 .. q - 1 \/ p = q
      BY <1>1
    <3>2. QED
      BY <1>2, <3>1
  <2>2. Above(f, q, x) \in Int
    BY <1>1 DEF Above
  <2>3. 1 \in 1 .. Len(new) /\ new[1].at = p
    BY <1>5, <1>6, <2>1
  <2>4. QED
    BY <2>1, <2>2, <2>3
<1>10. QED
  BY <1>7, <1>8, <1>9 DEF Envelops, new

\* A further parabola: those that it covers are nowhere lower than it and the last one
\* that it leaves.
LEMMA FurtherParabola ==
  ASSUME NEW n, NEW f, IsLine(f, n), NEW q \in 1 .. n, NEW s \in Int, NEW env \in Envelopes(n),
         Envelops(f, env, q - 1), f[q] # INF
  PROVE  Envelops(f, Extended(f, env, q, s), q)
<1> DEFINE new == Extended(f, env, q, s)
           k == Uncovered(f, env, q)
           m == Len(env)
<1>1. /\ n \in Nat /\ f \in [0 .. n -> 0 .. INF] /\ INF \in Nat /\ q \in 0 .. n
      /\ \A p \in 0 .. q - 1 : p \in 0 .. n /\ p < q /\ p \in 0 .. q
      /\ \A p \in 0 .. q : p \in 0 .. q - 1 \/ p = q
  BY EdtAssumption DEF IsLine
<1>2. m \in Nat /\ m >= 1
  BY DEF Envelopes
<1>3. InSequence(f, env, q - 1) /\ BeginsBelow(f, env)
  BY DEF Envelops
<1>4. \A i \in 1 .. m : /\ env[i].at \in 0 .. q - 1 /\ env[i].at \in 0 .. n /\ env[i].at < q
                        /\ f[env[i].at] # INF /\ env[i].from \in Fractions
                        /\ Intersection(f, env[i].at, q) \in Fractions
  <2> TAKE i \in 1 .. m
  <2>1. env[i].at \in 0 .. q - 1 /\ f[env[i].at] # INF /\ env[i].from \in Fractions
    BY <1>3 DEF InSequence
  <2>2. Intersection(f, env[i].at, q) \in Fractions
    <3>1. 0 \in Int /\ env[i].at \in 0 .. n /\ env[i].at < q /\ q \in 0 .. n
      BY <1>1, <2>1
    <3>2. QED
      BY <2>1, <3>1, MeetingPoint
  <2>3. QED
    BY <1>1, <2>1, <2>2
<1>5. /\ k \in 0 .. m /\ (k > 0 => Holds(f, env, q, k))
      /\ \A j \in k + 1 .. m : ~Holds(f, env, q, j)
  BY UncoveredIs
<1>6. k >= 1
  <2>1. 1 \in 1 .. m /\ Holds(f, env, q, 1)
    BY <1>1, <1>2, <1>3, <1>4 DEF BeginsBelow, Holds
  <2>2. QED
    BY <1>2, <1>5, <2>1
<1>7. /\ k \in 1 .. m /\ Len(new) = k + 1 /\ \A i \in 1 .. k : new[i] = env[i] /\ i \in 1 .. m
      /\ new[k + 1] = Parabola(q, Intersection(f, env[k].at, q))
  <2>1. k \in 1 .. m /\ \A i \in 1 .. k : i \in 1 .. m
    BY <1>2, <1>5, <1>6
  <2>2. f[env[k].at] # INF
    BY <1>4, <2>1
  <2>3. Puts(n, f, q, s, env, k, new)
    BY <1>1, ExtendedIs
  <2> HIDE DEF new, k
  <2>4. (IF k = 0 THEN 1 ELSE k) = k
    BY <1>6
  <2>5. QED
    BY <2>1, <2>2, <2>3, <2>4 DEF Puts
<1>8. new[k + 1].at = q /\ new[k + 1].from = Intersection(f, env[k].at, q)
  BY <1>7 DEF Parabola
<1> HIDE DEF new, k, m
<1>9. \A i \in 1 .. k + 1 : i \in 1 .. k \/ i = k + 1
  BY <1>7
<1>10. InSequence(f, new, q)
  <2>1. ASSUME NEW i \in 1 .. k + 1
        PROVE  new[i].at \in 0 .. q /\ f[new[i].at] # INF /\ new[i].from \in Fractions
    <3>1. CASE i = k + 1
      BY <1>1, <1>4, <1>7, <1>8, <3>1
    <3>2. CASE i \in 1 .. k
      <4>1. i \in 1 .. m /\ new[i] = env[i] /\ env[i].at \in 0 .. q - 1
        BY <1>4, <1>7, <3>2
      <4>2. QED
        BY <1>1, <1>4, <4>1
    <3>3. QED
      BY <1>9, <3>1, <3>2
  <2>2. ASSUME NEW i \in 1 .. k + 1, NEW j \in 1 .. k + 1, i < j
        PROVE  new[i].at < new[j].at /\ Before(new[i].from, new[j].from)
    <3>1. i \in 1 .. k
      BY <1>2, <1>7, <2>2
    <3>2. CASE j \in 1 .. k
      BY <1>3, <1>7, <2>2, <3>1, <3>2 DEF InSequence, m
    <3>3. CASE j = k + 1
      <4>1. new[i].at < q
        BY <1>4, <1>7, <3>1
      <4>2. Before(env[k].from, new[j].from)
        BY <1>5, <1>6, <1>8, <3>3 DEF Holds
      <4>3. i = k \/ Before(env[i].from, env[k].from)
        BY <1>2, <1>3, <1>7, <3>1 DEF InSequence, m
      <4>4. Before(env[i].from, new[j].from)
        BY <1>4, <1>7, <1>8, <3>1, <3>3, <4>2, <4>3, FractionsFollow
      <4>5. QED
        BY <1>7, <1>8, <3>1, <3>3, <4>1, <4>4
    <3>4. QED
      BY <1>9, <3>2, <3>3
  <2>3. ASSUME NEW i \in 1 .. k
        PROVE  new[i + 1].from = Intersection(f, new[i].at, new[i + 1].at)
    <3>1. CASE i = k
      BY <1>7, <1>8, <3>1
    <3>2. CASE i # k
      <4>1. i + 1 \in 1 .. k /\ i \in 1 .. m - 1
        BY <1>2, <1>7, <3>2
      <4>2. env[i + 1].from = Intersection(f, env[i].at, env[i + 1].at)
        BY <1>3, <4>1 DEF InSequence, m
      <4>3. QED
        BY <1>7, <4>1, <4>2
    <3>3. QED
      BY <3>1, <3>2
  <2>4. Len(new) = k + 1 /\ Len(new) - 1 = k
    BY <1>7
  <2>5. QED
    BY <2>1, <2>2, <2>3, <2>4 DEF InSequence
<1>11. BeginsBelow(f, new)
  <2>1. 1 \in 1 .. k
    BY <1>2, <1>7
  <2>2. QED
    BY <1>3, <1>7, <2>1 DEF BeginsBelow
<1>12. ASSUME NEW x \in DOMAIN f PROVE NoneBelow(f, new, q, x)
  <2> SUFFICES ASSUME NEW p \in 0 .. q, f[p] # INF
               PROVE  \E i \in 1 .. k + 1 : Above(f, new[i].at, x) <= Above(f, p, x)
    BY <1>7 DEF NoneBelow
  <2>1. x \in Int /\ \A r \in 0 .. n : Above(f, r, x) \in Int
    BY <1>1 DEF Above
  <2>2. k + 1 \in 1 .. k + 1
    BY <1>7
  <2>3. CASE p = q
    BY <1>1, <1>8, <2>1, <2>2, <2>3
  <2>4. CASE p \in 0 .. q - 1
    <3> DEFINE T == {i \in 1 .. m : Above(f, env[i].at, x) <= Above(f, p, x)}
    <3>1. NoneBelow(f, env, q - 1, x)
      BY DEF Envelops
    <3>2. T \in SUBSET Nat /\ T # {}
      BY <1>2, <2>4, <3>1 DEF NoneBelow, m
    <3>3. PICK i \in T : \A j \in T : i <= j
      BY <3>2, LeastElement
    <3>4. i \in 1 .. m /\ Above(f, env[i].at, x) <= Above(f, p, x)
      BY <3>3
    <3>5. CASE i <= k
      <4>1. i \in 1 .. k
        BY <3>4, <3>5, <1>7
      <4>2. i \in 1 .. k + 1 /\ new[i] = env[i]
        BY <1>7, <4>1
      <4>3. QED
        BY <3>4, <4>2
    <3>6. CASE i > k
      <4>1. i - 1 \in 1 .. m /\ i - 1 \in 1 .. m - 1 /\ i - 1 + 1 = i /\ i \in k + 1 .. m
        BY <1>2, <1>7, <3>4, <3>6
      <4>2. i - 1 \notin T
        BY <3>3, <4>1
      <4>3. Above(f, env[i].at, x) < Above(f, env[i - 1].at, x)
        <5>1. ~(Above(f, env[i - 1].at, x) <= Above(f, p, x))
          BY <4>1, <4>2
        <5>2. /\ p \in 0 .. n /\ env[i].at \in 0 .. n /\ env[i - 1].at \in 0 .. n
          BY <1>1, <1>4, <2>4, <3>4, <4>1
        <5>3. /\ Above(f, p, x) \in Int /\ Above(f, env[i].at, x) \in Int
              /\ Above(f, env[i - 1].at, x) \in Int
          BY <2>1, <5>2
        <5>4. QED
          BY <3>4, <5>1, <5>3
      <4>4. Before(env[i].from, <<x, 1>>)
        <5>1. env[i].from = Intersection(f, env[i - 1].at, env[i].at)
          BY <1>3, <4>1 DEF InSequence, m
        <5>2. env[i - 1].at < env[i].at
          BY <1>3, <4>1 DEF InSequence, m
        <5>3. CASE ~Before(Intersection(f, env[i - 1].at, env[i].at), <<x, 1>>)
          <6>1. Above(f, env[i - 1].at, x) <= Above(f, env[i].at, x)
            BY <1>4, <2>1, <3>4, <4>1, <5>2, <5>3, MeetingPoint
          <6>2. QED
            BY <1>4, <2>1, <3>4, <4>1, <4>3, <6>1
        <5>4. QED
          BY <5>1, <5>3
      <4>5. ~Before(env[i].from, Intersection(f, env[i].at, q))
        BY <1>4, <1>5, <3>4, <4>1 DEF Holds
      <4>6. Before(Intersection(f, env[i].at, q), <<x, 1>>)
        <5>1. <<x, 1>> \in Fractions
          BY <2>1 DEF Fractions
        <5>2. QED
          BY <1>4, <3>4, <4>4, <4>5, <5>1, FractionsFollow
      <4>7. Above(f, q, x) <= Above(f, env[i].at, x)
        BY <1>1, <1>4, <2>1, <3>4, <4>6, MeetingPoint
      <4>8. Above(f, q, x) <= Above(f, p, x)
        BY <1>1, <1>4, <2>1, <3>4, <4>7
      <4>9. QED
        BY <1>8, <2>2, <4>8
    <3>7. QED
      BY <1>7, <3>4, <3>5, <3>6
  <2>5. QED
    BY <1>1, <2>3, <2>4
<1>13. QED
  BY <1>10, <1>11, <1>12 DEF Envelops, new

-----------------------------------------------------------------------------
(* The roadmap: both passes over a line                                     *)

\* A set of natural numbers has a least one.
LEMMA MinIs ==
  ASSUME NEW T \in SUBSET Nat, T # {}
  PROVE  Min(T) \in T /\ \A k \in T : Min(T) <= k
BY LeastElement DEF Min

\* One voxel is looked at after another.
EnvelopesUpTo(f, s, n, upTo) ==
  /\ upTo \in [0 .. n -> Envelopes(n)]
  /\ \A q \in 0 .. n :
       upTo[q] = IF q = 0 THEN <<Parabola(0, <<-INF, 1>>)>> ELSE Extended(f, upTo[q - 1], q, s)

\* The forward pass leaves what it has made at the last one.
LEMMA EnvelopeIsLast ==
  ASSUME NEW n, NEW f, IsLine(f, n), NEW s \in Int
  PROVE  \E upTo : EnvelopesUpTo(f, s, n, upTo) /\ Envelope(f, s) = upTo[n]
<1> DEFINE alone == <<Parabola(0, <<-INF, 1>>)>>
           P(g) == g = [q \in DOMAIN f |-> IF q = 0 THEN alone ELSE Extended(f, g[q - 1], q, s)]
<1>1. n \in Nat /\ DOMAIN f = 0 .. n
  BY DEF IsLine
<1>2. alone \in Envelopes(n)
  BY FirstEnvelops
<1>3. ASSUME NEW q \in 0 .. n, NEW env \in Envelopes(n)
      PROVE  Extended(f, env, q, s) \in Envelopes(n)
  <2>1. CASE f[q] = INF
    BY <2>1 DEF Extended
  <2>2. CASE f[q] # INF
    BY <2>2, ExtendedIs DEF Puts
  <2>3. QED
    BY <2>1, <2>2
<1> HIDE DEF alone
\* The recursion has a solution, for a step leads from envelopes to envelopes.
<1>4. \E g : P(g) /\ g \in [0 .. n -> Envelopes(n)]
  <2> DEFINE next == [q \in Nat |-> [env \in Envelopes(n) |->
                        IF q \in 1 .. n THEN Extended(f, env, q, s) ELSE env]]
  <2>1. \A q \in Nat : \A env \in Envelopes(n) :
          /\ next[q][env] \in Envelopes(n)
          /\ next[q][env] = IF q \in 1 .. n THEN Extended(f, env, q, s) ELSE env
    <3> TAKE q \in Nat
    <3> TAKE env \in Envelopes(n)
    <3>1. q \in 1 .. n => Extended(f, env, q, s) \in Envelopes(n)
      BY <1>1, <1>3
    <3>2. next[q][env] = IF q \in 1 .. n THEN Extended(f, env, q, s) ELSE env
      OBVIOUS
    <3>3. QED
      BY <3>1, <3>2
  <2> HIDE DEF next
  <2>2. PICK g \in [0 .. n -> Envelopes(n)] : GoesBy(g, next, alone)
    BY <1>1, <1>2, <2>1, RecursionExists
  <2>3. ASSUME NEW q \in 0 .. n
        PROVE  g[q] = IF q = 0 THEN alone ELSE Extended(f, g[q - 1], q, s)
    <3>1. g[q] = next[q][IF q = 0 THEN alone ELSE g[q - 1]]
      BY <2>2 DEF GoesBy
    <3>2. CASE q = 0
      BY <1>1, <1>2, <2>1, <3>1, <3>2
    <3>3. CASE q # 0
      <4>1. q \in Nat /\ q \in 1 .. n /\ q - 1 \in 0 .. n /\ g[q - 1] \in Envelopes(n)
        BY <1>1, <3>3
      <4>2. QED
        BY <2>1, <3>1, <3>3, <4>1
    <3>4. QED
      BY <3>2, <3>3
  <2>4. P(g)
    BY <1>1, <2>3
  <2> HIDE DEF P
  <2>5. QED
    BY <2>4
<1> DEFINE upTo == CHOOSE g : P(g)
<1>5. P(upTo)
  <2> HIDE DEF P
  <2>1. QED
    BY <1>4
<1>6. Envelope(f, s) = upTo[Max(DOMAIN f)]
  BY DEF Envelope, alone
<1>7. Max(DOMAIN f) = n
  <2>1. n \in 0 .. n /\ 0 .. n \in SUBSET (0 .. n) /\ 0 .. n # {}
    BY <1>1
  <2>2. Max(0 .. n) \in 0 .. n /\ \A k \in 0 .. n : k <= Max(0 .. n)
    BY <1>1, <2>1, MaxIs
  <2>3. QED
    BY <1>1, <2>1, <2>2
<1> HIDE DEF upTo
<1>8. \A q \in 0 .. n : upTo[q] = IF q = 0 THEN alone ELSE Extended(f, upTo[q - 1], q, s)
  BY <1>1, <1>5, Zenon
<1>9. upTo \in [0 .. n -> Envelopes(n)]
  <2> DEFINE T == {q \in Nat : q \in 0 .. n => upTo[q] \in Envelopes(n)}
  <2>1. 0 \in T
    BY <1>1, <1>2, <1>8
  <2>2. ASSUME NEW q \in Nat, q \in T PROVE q + 1 \in T
    <3>1. q + 1 \in 0 .. n => q \in 0 .. n /\ q + 1 # 0 /\ q + 1 - 1 = q
      BY <1>1
    <3>2. QED
      BY <1>3, <1>8, <2>2, <3>1
  <2>3. \A q \in 0 .. n : upTo[q] \in Envelopes(n)
    <3> HIDE DEF T
    <3>1. Nat \subseteq T
      BY <2>1, <2>2, SetInduction
    <3>2. QED
      BY <3>1 DEF T
  <2>4. \E h : upTo = [q \in 0 .. n |-> h[q]]
    <3> DEFINE h == [q \in DOMAIN f |-> IF q = 0 THEN alone ELSE Extended(f, upTo[q - 1], q, s)]
    <3>1. upTo = h
      BY <1>5
    <3>2. h = [q \in 0 .. n |-> h[q]]
      BY <1>1
    <3> HIDE DEF h
    <3>3. QED
      BY <3>1, <3>2
  <2>5. QED
    BY <2>3, <2>4
<1>10. QED
  BY <1>6, <1>7, <1>8, <1>9 DEF EnvelopesUpTo, alone

\* The envelope of a line on which every boundary is where it belongs.
LEMMA EnvelopeEnvelops ==
  ASSUME NEW n, NEW f, IsLine(f, n), NEW s \in Int
  PROVE  /\ Envelope(f, s) \in Envelopes(n)
         /\ f[0] # INF \/ BelowOthers(f, s)
              => NoneUpTo(f, Envelope(f, s), n) \/ Envelops(f, Envelope(f, s), n)
<1>1. n \in Nat
  BY DEF IsLine
<1>2. PICK upTo : EnvelopesUpTo(f, s, n, upTo) /\ Envelope(f, s) = upTo[n]
  BY EnvelopeIsLast
<1>3. \A q \in 0 .. n : upTo[q] \in Envelopes(n)
  BY <1>2 DEF EnvelopesUpTo
<1>4. ASSUME f[0] # INF \/ BelowOthers(f, s)
      PROVE  NoneUpTo(f, upTo[n], n) \/ Envelops(f, upTo[n], n)
  <2> DEFINE Right(q) == NoneUpTo(f, upTo[q], q) \/ Envelops(f, upTo[q], q)
             T == {q \in Nat : q \in 0 .. n => Right(q)}
  <2>1. 0 \in T
    <3>1. 0 \in 0 .. n /\ upTo[0] = <<Parabola(0, <<-INF, 1>>)>>
      BY <1>1, <1>2 DEF EnvelopesUpTo
    <3>2. QED
      BY <3>1, FirstEnvelops
  <2>2. ASSUME NEW r \in Nat, r \in T PROVE r + 1 \in T
    <3> SUFFICES ASSUME r + 1 \in 0 .. n PROVE Right(r + 1)
      OBVIOUS
    <3> DEFINE q == r + 1
    <3>1. q \in 1 .. n /\ q \in 0 .. n /\ q - 1 = r /\ q - 1 \in 0 .. n
      BY <1>1
    <3>2. upTo[q] = Extended(f, upTo[q - 1], q, s) /\ upTo[q - 1] \in Envelopes(n)
      BY <1>2, <1>3, <3>1 DEF EnvelopesUpTo
    <3>3. NoneUpTo(f, upTo[q - 1], q - 1) \/ Envelops(f, upTo[q - 1], q - 1)
      BY <2>2, <3>1
    <3> HIDE DEF q
    <3>4. CASE f[q] = INF
      <4>1. upTo[q] = upTo[q - 1]
        BY <3>2, <3>4 DEF Extended
      <4>2. QED
        BY <3>1, <3>2, <3>3, <3>4, <4>1, SkippedEnvelops DEF q
    <3>5. CASE f[q] # INF
      BY <1>4, <3>1, <3>2, <3>3, <3>5, FirstParabola, FurtherParabola DEF q
    <3>6. QED
      BY <3>4, <3>5
  <2> HIDE DEF T
  <2>3. Nat \subseteq T
    BY <2>1, <2>2, SetInduction
  <2>4. QED
    BY <1>1, <2>3 DEF T
<1>5. QED
  BY <1>1, <1>2, <1>3, <1>4

\* The parabola whose height is taken: that of the first voxel or of one that begins before
\* x, and the next one begins there or later.
IsOver(env, x, k) ==
  /\ k \in 1 .. Len(env)
  /\ k = Len(env) \/ ~Before(env[k + 1].from, <<x, 1>>)
  /\ \A i \in 1 .. k - 1 : Before(env[i + 1].from, <<x, 1>>)

\* There is such a parabola, and the height taken is its own.
LEMMA HeightIs ==
  ASSUME NEW n, NEW f, IsLine(f, n), NEW env \in Envelopes(n), NEW x
  PROVE  \E k : /\ IsOver(env, x, k) /\ env[k].at \in 0 .. n
                /\ Height(f, env, x) = IF f[env[k].at] = INF THEN INF ELSE Above(f, env[k].at, x)
<1> DEFINE T == {i \in 1 .. Len(env) : i = Len(env) \/ ~Before(env[i + 1].from, <<x, 1>>)}
           k == Min(T)
<1>1. /\ Len(env) \in Nat /\ Len(env) >= 1
      /\ env \in Seq([at : 0 .. n, from : Int \X Int])
  BY DEF Envelopes
<1>2. Len(env) \in T /\ T \in SUBSET Nat
  BY <1>1
<1>3. k \in T /\ \A i \in T : k <= i
  BY <1>2, MinIs, Zenon
<1>4. Height(f, env, x) = IF f[env[k].at] = INF THEN INF ELSE Above(f, env[k].at, x)
  BY DEF Height, Above
<1> HIDE DEF k
<1>5. \A i \in 1 .. k - 1 : Before(env[i + 1].from, <<x, 1>>)
  <2> TAKE i \in 1 .. k - 1
  <2>1. i \in 1 .. Len(env) /\ ~(k <= i)
    BY <1>1, <1>3
  <2>2. i \notin T
    BY <1>3, <2>1
  <2>3. QED
    BY <2>1, <2>2
<1>6. IsOver(env, x, k)
  BY <1>3, <1>5 DEF IsOver
<1>7. env[k].at \in 0 .. n
  <2>1. env[k] \in [at : 0 .. n, from : Int \X Int]
    BY <1>1, <1>3, ElementOfSeq
  <2>2. QED
    BY <2>1
<1>8. QED
  BY <1>4, <1>6, <1>7

\* It is the lowest one there.
LEMMA IsOverIsLowest ==
  ASSUME NEW n, NEW f, IsLine(f, n), NEW env \in Envelopes(n), Envelops(f, env, n),
         NEW x \in 0 .. n, NEW k, IsOver(env, x, k), NEW i \in 1 .. Len(env)
  PROVE  Above(f, env[k].at, x) <= Above(f, env[i].at, x)
<1> DEFINE h(j) == Above(f, env[j].at, x)
           m == Len(env)
<1>1. /\ m \in Nat /\ n \in Nat /\ x \in Int /\ k \in 1 .. m /\ f \in [0 .. n -> 0 .. INF]
      /\ INF \in Nat
  <2>1. n \in Nat /\ f \in [0 .. n -> 0 .. INF] /\ INF \in Nat
    BY EdtAssumption DEF IsLine
  <2>2. m \in Nat /\ k \in 1 .. m
    BY DEF Envelopes, IsOver
  <2>3. QED
    BY <2>1, <2>2
<1>2. InSequence(f, env, n)
  BY DEF Envelops
<1>3. \A j \in 1 .. m : /\ env[j].at \in 0 .. n /\ f[env[j].at] # INF /\ env[j].from \in Fractions
                        /\ h(j) \in Int
  <2> TAKE j \in 1 .. m
  <2>1. env[j].at \in 0 .. n /\ f[env[j].at] # INF /\ env[j].from \in Fractions
    BY <1>2 DEF InSequence
  <2>2. h(j) \in Int
    BY <1>1, <2>1 DEF Above
  <2>3. QED
    BY <2>1, <2>2
<1>4. ASSUME NEW j \in 1 .. m, j + 1 \in 1 .. m
      PROVE  /\ Before(env[j + 1].from, <<x, 1>>) => h(j + 1) <= h(j)
             /\ ~Before(env[j + 1].from, <<x, 1>>) => h(j) <= h(j + 1)
  <2>1. /\ env[j + 1].from = Intersection(f, env[j].at, env[j + 1].at)
        /\ env[j].at < env[j + 1].at
    <3>1. j \in 1 .. m - 1 /\ j < j + 1
      BY <1>1, <1>4
    <3>2. QED
      BY <1>2, <1>4, <3>1 DEF InSequence
  <2>2. QED
    BY <1>1, <1>3, <1>4, <2>1, MeetingPoint
<1> SUFFICES h(k) <= h(i)
  OBVIOUS
<1> HIDE DEF h
<1>ik. h(i) \in Int /\ h(k) \in Int /\ i \in Int /\ k \in Int /\ (~(h(i) < h(k)) => h(k) <= h(i))
  <2>1. h(i) \in Int /\ h(k) \in Int /\ i \in Int /\ k \in Int
    BY <1>1, <1>3
  <2>2. QED
    BY <2>1
<1>5. CASE i > k
  <2> DEFINE T == {j \in 1 .. m : j > k /\ h(j) < h(k)}
  <2> SUFFICES ASSUME T # {} PROVE FALSE
    BY <1>5, <1>ik
  <2>1. T \in SUBSET Nat
    BY <1>1
  <2>2. PICK j \in T : \A l \in T : j <= l
    BY <2>1, LeastElement
  <2>3. /\ j \in 1 .. m /\ j > k /\ h(j) < h(k) /\ j - 1 \in 1 .. m /\ j - 1 + 1 = j
        /\ k + 1 \in 1 .. m /\ k # m
    BY <1>1, <2>2
  <2>4. ~Before(env[j].from, <<x, 1>>)
    <3>1. ~Before(env[k + 1].from, <<x, 1>>)
      BY <2>3 DEF IsOver
    <3>2. j = k + 1 \/ Before(env[k + 1].from, env[j].from)
      <4>1. j = k + 1 \/ k + 1 < j
        BY <1>1, <2>3
      <4>2. QED
        BY <1>2, <2>3, <4>1 DEF InSequence
    <3>3. <<x, 1>> \in Fractions
      BY <1>1 DEF Fractions
    <3>4. QED
      <4>1. ASSUME Before(env[k + 1].from, env[j].from), Before(env[j].from, <<x, 1>>) PROVE FALSE
        BY <1>3, <2>3, <3>1, <3>3, <4>1, FractionsFollow
      <4>2. QED
        BY <3>1, <3>2, <4>1
  <2>5. h(j - 1) <= h(j)
    BY <1>4, <2>3, <2>4
  <2>6. h(j - 1) < h(k)
    <3>1. h(j - 1) \in Int /\ h(j) \in Int /\ h(k) \in Int
      BY <1>1, <1>3, <2>3
    <3>2. QED
      BY <2>3, <2>5, <3>1
  <2>7. j - 1 \notin T
    BY <1>1, <2>2, <2>3
  <2>8. j - 1 = k
    BY <1>1, <2>3, <2>6, <2>7
  <2>9. QED
    BY <1>1, <1>3, <2>6, <2>8
<1>6. CASE i < k
  <2> DEFINE T == {l \in Nat : l \in 1 .. k - 1 /\ h(k - l) < h(k)}
  <2> SUFFICES ASSUME T # {} PROVE FALSE
    <3>1. k - i \in Nat /\ k - i \in 1 .. k - 1 /\ k - (k - i) = i
      BY <1>1, <1>6
    <3>2. h(i) < h(k) => k - i \in T
      BY <3>1
    <3>3. QED
      BY <1>ik, <3>2
  <2>1. PICK l \in T : \A o \in T : l <= o
    BY LeastElement
  <2> DEFINE j == k - l
  <2>2. /\ l \in Nat /\ l \in 1 .. k - 1 /\ h(j) < h(k) /\ j \in 1 .. k - 1
        /\ j \in 1 .. m /\ j + 1 \in 1 .. m /\ l - 1 \in Nat /\ k - (l - 1) = j + 1
    BY <1>1, <2>1
  <2>3. Before(env[j + 1].from, <<x, 1>>)
    BY <2>2 DEF IsOver
  <2> HIDE DEF j
  <2>4. h(j + 1) <= h(j)
    BY <1>4, <2>2, <2>3
  <2>5. h(j + 1) < h(k)
    BY <1>1, <1>3, <2>2, <2>4
  <2>6. l - 1 \notin T
    BY <2>1, <2>2
  <2>7. l - 1 = 0
    BY <1>1, <2>2, <2>5, <2>6
  <2>8. j + 1 = k
    BY <1>1, <2>2, <2>7
  <2>9. QED
    BY <1>1, <1>3, <2>5, <2>8
<1>7. CASE i = k
  BY <1>7, <1>ik
<1>8. QED
  BY <1>ik, <1>5, <1>6, <1>7

\* One pass over a line: no height is made up, and where no boundary is out of place each
\* is the lowest.
LEMMA LineIsExact ==
  ASSUME NEW n, NEW f, IsLine(f, n), NEW s \in Int, NEW x \in 0 .. n
  PROVE  LET h == Height(f, Envelope(f, s), x)
         IN  /\ h = INF \/ \E p \in 0 .. n : f[p] # INF /\ h = Above(f, p, x)
             /\ f[0] # INF \/ BelowOthers(f, s)
                  => \A p \in 0 .. n : f[p] # INF => h <= Above(f, p, x)
<1> DEFINE env == Envelope(f, s)
           h == Height(f, env, x)
<1>1. /\ env \in Envelopes(n)
      /\ f[0] # INF \/ BelowOthers(f, s) => NoneUpTo(f, env, n) \/ Envelops(f, env, n)
  BY EnvelopeEnvelops
<1> HIDE DEF env
<1>2. PICK k : /\ IsOver(env, x, k) /\ env[k].at \in 0 .. n
               /\ h = IF f[env[k].at] = INF THEN INF ELSE Above(f, env[k].at, x)
  BY <1>1, HeightIs
<1>3. /\ n \in Nat /\ x \in Int /\ f \in [0 .. n -> 0 .. INF] /\ INF \in Nat
      /\ \A p \in 0 .. n : Above(f, p, x) \in Int
  BY EdtAssumption DEF IsLine, Above
<1> HIDE DEF h
<1>4. h = INF \/ \E p \in 0 .. n : f[p] # INF /\ h = Above(f, p, x)
  BY <1>2
<1>5. ASSUME f[0] # INF \/ BelowOthers(f, s), NEW p \in 0 .. n, f[p] # INF
      PROVE  h <= Above(f, p, x)
  <2>1. Envelops(f, env, n)
    BY <1>1, <1>5 DEF NoneUpTo
  <2>2. PICK i \in 1 .. Len(env) : Above(f, env[i].at, x) <= Above(f, p, x)
    BY <1>3, <1>5, <2>1 DEF Envelops, NoneBelow
  <2>3. Above(f, env[k].at, x) <= Above(f, env[i].at, x)
    BY <1>1, <1>2, <2>1, <2>2, IsOverIsLowest
  <2>4. f[env[k].at] # INF /\ env[i].at \in 0 .. n
    BY <1>2, <2>1, <2>2 DEF Envelops, InSequence, IsOver
  <2>5. h = Above(f, env[k].at, x)
    BY <1>2, <2>4
  <2>6. QED
    <3>1. /\ h \in Int /\ Above(f, env[i].at, x) \in Int /\ Above(f, p, x) \in Int
          /\ h <= Above(f, env[i].at, x)
      BY <1>2, <1>3, <2>3, <2>4, <2>5
    <3>2. QED
      BY <2>2, <3>1
<1>6. QED
  BY <1>4, <1>5 DEF h, env

-----------------------------------------------------------------------------
(* The roadmap: voxels and their grid                                       *)

Cells == Int \X Int \X Int

\* A voxel is its three coordinates, of which one can be changed.
LEMMA CellsAre ==
  /\ \A v \in Cells : v[1] \in Int /\ v[2] \in Int /\ v[3] \in Int /\ v = <<v[1], v[2], v[3]>>
  /\ \A v \in Cells, z \in Int :
       /\ [v EXCEPT ![1] = z] = <<z, v[2], v[3]>>
       /\ [v EXCEPT ![2] = z] = <<v[1], z, v[3]>>
       /\ [v EXCEPT ![3] = z] = <<v[1], v[2], z>>
BY DEF Cells

\* Changing one coordinate leaves a voxel, the others as they were.
LEMMA CoordinatesAre ==
  ASSUME NEW v \in Cells, NEW d \in 1 .. 3, NEW z \in Int
  PROVE  /\ [v EXCEPT ![d] = z] \in Cells /\ [v EXCEPT ![d] = z][d] = z
         /\ \A e \in 1 .. 3 : e # d => [v EXCEPT ![d] = z][e] = v[e]
BY CellsAre DEF Cells

\* Voxels with the same coordinates are the same.
LEMMA SameCell ==
  ASSUME NEW v \in Cells, NEW w \in Cells, \A d \in 1 .. 3 : v[d] = w[d]
  PROVE  v = w
BY CellsAre

\* Only the difference in direction d changes when v is moved to the plane of w.
LEMMA SquaredSplits ==
  ASSUME NEW v \in Cells, NEW w \in Cells, NEW u \in Cells, NEW d \in 1 .. 3, u[d] = w[d],
         \A e \in 1 .. 3 : e # d => u[e] = v[e]
  PROVE  /\ Sq(v, w) = (v[d] - w[d]) * (v[d] - w[d]) + Sq(u, w)
         /\ Sq(u, w) \in Int /\ Sq(v, w) \in Int /\ Sq(v, w) >= 0
<1>0. \A k \in Int : Square(k) \in Int /\ Square(k) >= 0 /\ Square(-k) = Square(k)
  BY DEF Square
<1>1. /\ v[1] \in Int /\ v[2] \in Int /\ v[3] \in Int /\ w[1] \in Int /\ w[2] \in Int
      /\ w[3] \in Int /\ u[1] \in Int /\ u[2] \in Int /\ u[3] \in Int
  BY CellsAre
<1>2. Sq(u, w) \in Int /\ Sq(v, w) \in Int /\ Sq(v, w) >= 0
  BY <1>0, <1>1 DEF Sq
<1>3. \A k \in Int : Square(k - k) = 0
  BY DEF Square
<1>4. CASE d = 1
  <2>1. u[1] = w[1] /\ u[2] = v[2] /\ u[3] = v[3]
    BY <1>4
  <2>2. Square(w[1] - v[1]) = (v[1] - w[1]) * (v[1] - w[1])
    BY <1>1 DEF Square
  <2>3. QED
    BY <1>0, <1>1, <1>2, <1>3, <1>4, <2>1, <2>2 DEF Sq
<1>5. CASE d = 2
  <2>1. u[2] = w[2] /\ u[1] = v[1] /\ u[3] = v[3]
    BY <1>5
  <2>2. Square(w[2] - v[2]) = (v[2] - w[2]) * (v[2] - w[2])
    BY <1>1 DEF Square
  <2>3. QED
    BY <1>0, <1>1, <1>2, <1>3, <1>5, <2>1, <2>2 DEF Sq
<1>6. CASE d = 3
  <2>1. u[3] = w[3] /\ u[1] = v[1] /\ u[2] = v[2]
    BY <1>6
  <2>2. Square(w[3] - v[3]) = (v[3] - w[3]) * (v[3] - w[3])
    BY <1>1 DEF Square
  <2>3. QED
    BY <1>0, <1>1, <1>2, <1>3, <1>6, <2>1, <2>2 DEF Sq
<1>7. QED
  BY <1>2, <1>4, <1>5, <1>6

\* A bounded set of integers has a least and a greatest element.
LEMMA BoundsAre ==
  ASSUME NEW n \in Nat, NEW T \in SUBSET (-n .. n), T # {}
  PROVE  /\ Min(T) \in T /\ Max(T) \in T /\ \A k \in T : Min(T) <= k /\ k <= Max(T)
<1>1. \A k \in T : k \in Int /\ k + n \in Nat /\ n - k \in Nat /\ k + n - n = k /\ n - (n - k) = k
  OBVIOUS
<1>2. \E x \in T : \A y \in T : x <= y
  <2> DEFINE U == {k + n : k \in T}
  <2>1. U \in SUBSET Nat /\ U # {}
    BY <1>1
  <2>2. PICK m \in U : \A k \in U : m <= k
    BY <2>1, LeastElement
  <2>3. PICK t \in T : m = t + n
    BY <2>2
  <2>4. \A k \in T : t <= k
    <3> TAKE k \in T
    <3>1. m <= k + n
      BY <2>2
    <3>2. QED
      BY <1>1, <2>3, <3>1
  <2>5. QED
    BY <2>4
<1>3. \E x \in T : \A y \in T : x >= y
  <2> DEFINE U == {n - k : k \in T}
  <2>1. U \in SUBSET Nat /\ U # {}
    BY <1>1
  <2>2. PICK m \in U : \A k \in U : m <= k
    BY <2>1, LeastElement
  <2>3. PICK t \in T : m = n - t
    BY <2>2
  <2>4. \A k \in T : t >= k
    <3> TAKE k \in T
    <3>1. m <= n - k
      BY <2>2
    <3>2. QED
      BY <1>1, <2>3, <3>1
  <2>5. QED
    BY <2>4
<1>4. Min(T) \in T /\ \A k \in T : Min(T) <= k
  BY <1>2 DEF Min
<1>5. Max(T) \in T /\ \A k \in T : Max(T) >= k
  BY <1>3 DEF Max
<1>6. QED
  BY <1>1, <1>4, <1>5

\* The grid is a box of voxels around the map, and INF is beyond its diagonal.
LEMMA GridIs ==
  ASSUME hits \in Worlds
  PROVE  /\ \A d \in 1 .. 3 : Lowest(d) \in Int /\ Highest(d) \in Int /\ Lowest(d) <= Highest(d)
         /\ \A v : v \in Grid <=> v \in Cells /\ \A d \in 1 .. 3 : v[d] \in Lowest(d) .. Highest(d)
         /\ hits \subseteq Grid /\ hits # {}
         /\ \A v, w \in Grid : Sq(v, w) \in 0 .. INF /\ Sq(v, w) # INF
<1>1. /\ hits # {} /\ XYExpand \in Nat /\ INF \in Nat
      /\ \E n \in 0 .. INF : /\ hits \subseteq (-n .. n) \X (-n .. n) \X (-n .. n)
                             /\ 12 * Square(n + XYExpand) < INF
  BY RoadmapAssumption, EdtAssumption
<1>2. PICK n \in Nat : /\ hits \subseteq (-n .. n) \X (-n .. n) \X (-n .. n)
                       /\ 12 * Square(n + XYExpand) < INF
  BY <1>1
<1>3. \A v \in hits : /\ v \in Cells /\ \A d \in 1 .. 3 : v[d] \in -n .. n
  <2> TAKE v \in hits
  <2>1. v \in (-n .. n) \X (-n .. n) \X (-n .. n)
    BY <1>2
  <2>2. v[1] \in -n .. n /\ v[2] \in -n .. n /\ v[3] \in -n .. n
    BY <2>1
  <2>3. v \in Cells
    BY <2>1 DEF Cells
  <2>4. QED
    BY <2>2, <2>3
<1>4. ASSUME NEW d \in 1 .. 3
      PROVE  /\ Lowest(d) \in Int /\ Highest(d) \in Int
             /\ -n - XYExpand <= Lowest(d) /\ Highest(d) <= n + XYExpand
             /\ \A v \in hits : v[d] \in Lowest(d) .. Highest(d)
  <2> DEFINE T == {v[d] : v \in hits}
  <2>1. T \in SUBSET (-n .. n) /\ T # {}
    BY <1>1, <1>3
  <2>2. /\ Min(T) \in T /\ Max(T) \in T /\ \A k \in T : Min(T) <= k /\ k <= Max(T)
    BY <2>1, BoundsAre
  <2>3. Min(T) \in -n .. n /\ Max(T) \in -n .. n
    BY <2>1, <2>2
  <2>4. Margin(d) \in Nat /\ Margin(d) <= XYExpand
    BY <1>1 DEF Margin
  <2>5. Lowest(d) = Min(T) - Margin(d) /\ Highest(d) = Max(T) + Margin(d)
    BY DEF Lowest, Highest
  <2>6. \A v \in hits : v[d] \in T /\ v[d] \in Int
    BY <1>3
  <2> HIDE DEF T
  <2>7. \A v \in hits : v[d] \in Int /\ Min(T) <= v[d] /\ v[d] <= Max(T)
    BY <2>2, <2>6
  <2>8. QED
    BY <1>1, <2>3, <2>4, <2>5, <2>7
<1>5. \A d \in 1 .. 3 : Lowest(d) <= Highest(d)
  <2> TAKE d \in 1 .. 3
  <2>1. PICK v \in hits : TRUE
    BY <1>1
  <2>2. v[d] \in Lowest(d) .. Highest(d)
    BY <1>4, <2>1
  <2>3. QED
    BY <1>4, <2>2
<1>6. ASSUME NEW v
      PROVE  v \in Grid <=> v \in Cells /\ \A d \in 1 .. 3 : v[d] \in Lowest(d) .. Highest(d)
  <2>1. \A d \in 1 .. 3 : d = 1 \/ d = 2 \/ d = 3
    OBVIOUS
  <2>2. /\ Lowest(1) .. Highest(1) \subseteq Int /\ Lowest(2) .. Highest(2) \subseteq Int
        /\ Lowest(3) .. Highest(3) \subseteq Int
    BY <1>4
  <2>3. ASSUME v \in Grid
        PROVE  v \in Cells /\ \A d \in 1 .. 3 : v[d] \in Lowest(d) .. Highest(d)
    BY <2>1, <2>2, <2>3 DEF Grid, Cells
  <2>4. ASSUME v \in Cells, \A d \in 1 .. 3 : v[d] \in Lowest(d) .. Highest(d)
        PROVE  v \in Grid
    <3>1. /\ v[1] \in Lowest(1) .. Highest(1) /\ v[2] \in Lowest(2) .. Highest(2)
          /\ v[3] \in Lowest(3) .. Highest(3) /\ v = <<v[1], v[2], v[3]>>
      BY <2>4, CellsAre
    <3>2. QED
      BY <3>1 DEF Grid
  <2>5. QED
    BY <2>3, <2>4
<1>7. hits \subseteq Grid
  BY <1>3, <1>4, <1>6
<1>8. ASSUME NEW v \in Grid, NEW w \in Grid PROVE Sq(v, w) \in 0 .. INF /\ Sq(v, w) # INF
  <2> DEFINE b == n + XYExpand
  <2>1. b \in Nat /\ 12 * Square(b) < INF
    BY <1>1, <1>2
  <2>2. ASSUME NEW d \in 1 .. 3 PROVE /\ w[d] - v[d] \in Int /\ w[d] - v[d] <= 2 * b
                                      /\ -(2 * b) <= w[d] - v[d]
    BY <1>1, <1>4, <1>6
  <2> HIDE DEF b
  <2>3. \A k \in Int : -(2 * b) <= k /\ k <= 2 * b => 0 <= k * k /\ k * k <= 4 * (b * b)
    <3> TAKE k \in Int
    <3> SUFFICES ASSUME -(2 * b) <= k, k <= 2 * b PROVE 0 <= k * k /\ k * k <= 4 * (b * b)
      OBVIOUS
    <3>1. CASE k >= 0
      <4>1. k * k <= (2 * b) * k /\ (2 * b) * k <= (2 * b) * (2 * b) /\ 0 <= k * k
        BY <2>1, <3>1
      <4>2. QED
        BY <2>1, <4>1
    <3>2. CASE k < 0
      <4> DEFINE j == -k
      <4>0. j \in Nat /\ j <= 2 * b /\ k * k = j * j
        BY <2>1, <3>2
      <4> HIDE DEF j
      <4>1. j * j <= (2 * b) * j /\ (2 * b) * j <= (2 * b) * (2 * b) /\ 0 <= j * j
        BY <2>1, <4>0
      <4>2. QED
        BY <2>1, <4>0, <4>1
    <3>3. QED
      BY <3>1, <3>2
  <2>4. \A d \in 1 .. 3 : /\ Square(w[d] - v[d]) \in Int /\ 0 <= Square(w[d] - v[d])
                          /\ Square(w[d] - v[d]) <= 4 * Square(b)
    BY <2>1, <2>2, <2>3 DEF Square
  <2>5. Square(b) \in Int
    BY <2>1 DEF Square
  <2>6. /\ Square(w[1] - v[1]) \in Int /\ 0 <= Square(w[1] - v[1])
        /\ Square(w[1] - v[1]) <= 4 * Square(b)
        /\ Square(w[2] - v[2]) \in Int /\ 0 <= Square(w[2] - v[2])
        /\ Square(w[2] - v[2]) <= 4 * Square(b)
        /\ Square(w[3] - v[3]) \in Int /\ 0 <= Square(w[3] - v[3])
        /\ Square(w[3] - v[3]) <= 4 * Square(b)
    BY <2>4
  <2>7. QED
    BY <1>1, <2>1, <2>5, <2>6 DEF Sq
<1>9. QED
  BY <1>1, <1>4, <1>5, <1>6, <1>7, <1>8

-----------------------------------------------------------------------------
(* The roadmap: distances in space                                          *)

\* The obstacles a voxel has heard of when the lines in the directions of D have been
\* passed: those that differ from it in these directions alone.
Obstacles     == Grid \ Occupancy
HeardOf(D, v) == {w \in Obstacles : \A d \in (1 .. 3) \ D : w[d] = v[d]}

\* No distance is made up, and none of those heard of is nearer.
Attained(D) ==
  \A v \in Grid : distance[v] = INF \/ \E w \in HeardOf(D, v) : distance[v] = Sq(v, w)
Least(D) == \A v \in Grid : \A w \in HeardOf(D, v) : distance[v] <= Sq(v, w)

Passed == IF stage = "z" THEN {} ELSE IF stage = "y" THEN {3}
          ELSE IF stage = "x" THEN {2, 3} ELSE {1, 2, 3}

DistanceInv ==
  /\ hits \in Worlds /\ lucky \in BOOLEAN
  /\ stage \in {"z", "y", "x", "filter", "sample", "connect"}
  /\ distance \in [Grid -> 0 .. INF]
  /\ Attained(Passed) /\ (lucky => Least(Passed))

\* Before the first pass an obstacle has heard of itself.
LEMMA DistanceInvInit == RoadInit => DistanceInv
<1> SUFFICES ASSUME RoadInit PROVE DistanceInv
  OBVIOUS
<1>1. /\ hits \in Worlds /\ stage = "z" /\ lucky = TRUE /\ INF \in Nat
      /\ distance = [v \in Grid |-> IF v \in Occupancy THEN INF ELSE 0]
  BY EdtAssumption DEF RoadInit
<1>2. Passed = {}
  BY <1>1 DEF Passed
<1>3. \A v \in Grid : v \in Cells /\ Sq(v, v) = 0
  <2> TAKE v \in Grid
  <2>1. v \in Cells
    BY <1>1, GridIs
  <2>2. v[1] \in Int /\ v[2] \in Int /\ v[3] \in Int
    BY <2>1, CellsAre
  <2>3. QED
    BY <2>1, <2>2 DEF Sq, Square
<1>4. \A v \in Grid : \A w \in HeardOf({}, v) : v = w /\ v \in Obstacles
  <2> TAKE v \in Grid
  <2> TAKE w \in HeardOf({}, v)
  <2>1. w \in Obstacles /\ \A d \in 1 .. 3 : w[d] = v[d]
    BY DEF HeardOf
  <2>2. w \in Grid
    BY <2>1 DEF Obstacles
  <2>3. w \in Cells /\ v \in Cells
    BY <1>3, <2>2
  <2>4. QED
    BY <2>1, <2>3, SameCell
<1>5. Attained({})
  BY <1>1, <1>3 DEF Attained, HeardOf, Obstacles
<1>6. Least({})
  BY <1>1, <1>3, <1>4 DEF Least, Obstacles
<1>7. distance \in [Grid -> 0 .. INF]
  BY <1>1
<1>8. QED
  BY <1>1, <1>2, <1>5, <1>6, <1>7 DEF DistanceInv

\* What the uninitialised boundaries are found to be is a whole number for each.
LEMMA GarbageIs ==
  ASSUME NEW hanging, NEW s \in Garbage(hanging), NEW v \in hanging
  PROVE  s[v] \in Int
<1>1. PICK w \in hanging, a \in Uninitialised, b \in Uninitialised :
        s = [u \in hanging |-> IF u = w THEN b ELSE a]
  BY DEF Garbage
<1>2. QED
  BY <1>1, EdtAssumption

\* A line through v, the voxel on it with coordinate z, and the place of v.
Along(v, d, line) ==
  \A p \in 0 .. Highest(d) - Lowest(d) :
    LET u == [v EXCEPT ![d] = Lowest(d) + p]
    IN  /\ u \in Grid /\ line[p] = distance[u] /\ u[d] = Lowest(d) + p
        /\ \A e \in 1 .. 3 : e # d => u[e] = v[e]

\* The line through a voxel begins at the edge of the grid and passes the voxel.
LEMMA LineIs ==
  ASSUME hits \in Worlds, distance \in [Grid -> 0 .. INF], NEW v \in Grid, NEW d \in 1 .. 3
  PROVE  LET first == FirstOf(v, d)
             line  == LineOf(first, d)
             n     == Highest(d) - Lowest(d)
         IN  /\ first \in Grid /\ FirstOf(first, d) = first
             /\ n \in Nat /\ IsLine(line, n) /\ v[d] - first[d] \in 0 .. n
             /\ Along(v, d, line) /\ first[d] = Lowest(d)
<1> DEFINE first == FirstOf(v, d)
           line  == LineOf(first, d)
           n     == Highest(d) - Lowest(d)
<1>1. /\ Lowest(d) \in Int /\ Highest(d) \in Int /\ Lowest(d) <= Highest(d)
      /\ v \in Cells /\ v[d] \in Lowest(d) .. Highest(d)
  BY GridIs
<1>2. \A z \in Lowest(d) .. Highest(d) :
        /\ [v EXCEPT ![d] = z] \in Grid /\ [v EXCEPT ![d] = z] \in Cells
        /\ [v EXCEPT ![d] = z][d] = z
        /\ \A e \in 1 .. 3 : e # d => [v EXCEPT ![d] = z][e] = v[e]
  <2> TAKE z \in Lowest(d) .. Highest(d)
  <2> DEFINE u == [v EXCEPT ![d] = z]
  <2>1. z \in Int
    BY <1>1
  <2>2. u \in Cells /\ u[d] = z /\ \A e \in 1 .. 3 : e # d => u[e] = v[e]
    BY <1>1, <2>1, CoordinatesAre
  <2> HIDE DEF u
  <2>3. \A e \in 1 .. 3 : u[e] \in Lowest(e) .. Highest(e)
    BY <2>2, GridIs
  <2>4. u \in Grid
    BY <2>2, <2>3, GridIs
  <2>5. QED
    BY <2>2, <2>4 DEF u
<1>3. Lowest(d) \in Lowest(d) .. Highest(d) /\ n \in Nat
  BY <1>1
<1>4. first \in Grid /\ first[d] = Lowest(d) /\ first \in Cells
  BY <1>2, <1>3 DEF FirstOf
<1>5. ASSUME NEW z \in Int PROVE [first EXCEPT ![d] = z] = [v EXCEPT ![d] = z]
  <2> DEFINE u == [first EXCEPT ![d] = z]
             t == [v EXCEPT ![d] = z]
  <2>1. /\ u \in Cells /\ u[d] = z /\ \A e \in 1 .. 3 : e # d => u[e] = first[e]
        /\ t \in Cells /\ t[d] = z /\ \A e \in 1 .. 3 : e # d => t[e] = v[e]
    BY <1>1, <1>4, CoordinatesAre
  <2>2. \A e \in 1 .. 3 : e # d => first[e] = v[e]
    BY <1>2, <1>3 DEF FirstOf
  <2> HIDE DEF u, t
  <2>3. \A e \in 1 .. 3 : u[e] = t[e]
    BY <2>1, <2>2
  <2>4. u = t
    BY <2>1, <2>3, SameCell
  <2>5. QED
    BY <2>4 DEF u, t
<1>6. FirstOf(first, d) = first
  BY <1>1, <1>5 DEF FirstOf
<1>7. \A p \in 0 .. n : /\ Lowest(d) + p \in Lowest(d) .. Highest(d) /\ Lowest(d) + p \in Int
  BY <1>1
<1>8. ASSUME NEW p \in 0 .. n
      PROVE  line[p] = distance[[v EXCEPT ![d] = Lowest(d) + p]]
  <2>1. line[p] = distance[[first EXCEPT ![d] = first[d] + p]]
    BY DEF LineOf
  <2>2. QED
    BY <1>4, <1>5, <1>7, <2>1
<1>9. IsLine(line, n)
  <2>1. line = [i \in 0 .. n |-> distance[[first EXCEPT ![d] = @ + i]]]
    BY DEF LineOf
  <2>2. \A p \in 0 .. n : line[p] \in 0 .. INF
    BY <1>2, <1>7, <1>8
  <2> HIDE DEF line
  <2>3. line \in [0 .. n -> 0 .. INF]
    BY <2>1, <2>2
  <2>4. QED
    BY <1>3, <2>3 DEF IsLine
<1>10. v[d] - first[d] \in 0 .. n
  BY <1>1, <1>4
<1>11. Along(v, d, line)
  BY <1>2, <1>7, <1>8 DEF Along
<1>12. QED
  BY <1>3, <1>4, <1>6, <1>9, <1>10, <1>11

\* What a pass makes of one voxel, out of what those on its line have heard of.
LEMMA VoxelPassed ==
  ASSUME hits \in Worlds, distance \in [Grid -> 0 .. INF], NEW D \in SUBSET (1 .. 3),
         NEW d \in 1 .. 3, d \notin D, Attained(D), NEW v \in Grid, NEW s \in Int
  PROVE  LET first == FirstOf(v, d)
             line  == LineOf(first, d)
             h     == Height(line, Envelope(line, s), v[d] - first[d])
         IN  /\ h = INF \/ \E w \in HeardOf(D \cup {d}, v) : h = Sq(v, w)
             /\ h \in 0 .. INF
             /\ Least(D) /\ (line[0] # INF \/ BelowOthers(line, s))
                  => \A w \in HeardOf(D \cup {d}, v) : h <= Sq(v, w)
<1> DEFINE first == FirstOf(v, d)
           line  == LineOf(first, d)
           n     == Highest(d) - Lowest(d)
           x     == v[d] - first[d]
           h     == Height(line, Envelope(line, s), x)
<1>1. /\ n \in Nat /\ IsLine(line, n) /\ x \in 0 .. n /\ first[d] = Lowest(d)
      /\ Along(v, d, line)
  BY LineIs
<1>2. /\ h = INF \/ \E p \in 0 .. n : line[p] # INF /\ h = Above(line, p, x)
      /\ line[0] # INF \/ BelowOthers(line, s)
           => \A p \in 0 .. n : line[p] # INF => h <= Above(line, p, x)
  BY <1>1, LineIsExact
<1>3. /\ Lowest(d) \in Int /\ Highest(d) \in Int /\ v \in Cells /\ INF \in Nat
      /\ v[d] \in Lowest(d) .. Highest(d) /\ x = v[d] - Lowest(d)
      /\ \A w \in Obstacles : /\ w \in Grid /\ w \in Cells /\ w[d] \in Lowest(d) .. Highest(d)
                              /\ Sq(v, w) \in 0 .. INF /\ Sq(v, w) # INF
  BY <1>1, GridIs, EdtAssumption DEF Obstacles
<1> HIDE DEF h, line, first, x
<1>4. h = INF \/ \E w \in HeardOf(D \cup {d}, v) : h = Sq(v, w)
  <2> SUFFICES ASSUME NEW p \in 0 .. n, line[p] # INF, h = Above(line, p, x)
               PROVE  \E w \in HeardOf(D \cup {d}, v) : h = Sq(v, w)
    BY <1>2
  <2> DEFINE u == [v EXCEPT ![d] = Lowest(d) + p]
  <2>1. /\ u \in Grid /\ line[p] = distance[u] /\ u[d] = Lowest(d) + p /\ u \in Cells
        /\ \A e \in 1 .. 3 : e # d => u[e] = v[e]
    BY <1>1, GridIs DEF Along
  <2> HIDE DEF u
  <2>2. PICK w \in HeardOf(D, u) : distance[u] = Sq(u, w)
    BY <2>1 DEF Attained
  <2>3. w \in Obstacles /\ w[d] = u[d] /\ \A e \in (1 .. 3) \ D : w[e] = u[e]
    BY <2>2 DEF HeardOf
  <2>4. w \in HeardOf(D \cup {d}, v)
    BY <2>1, <2>3 DEF HeardOf
  <2>5. /\ Sq(v, w) = (v[d] - w[d]) * (v[d] - w[d]) + Sq(u, w)
    BY <1>3, <2>1, <2>3, SquaredSplits
  <2>6. v[d] - w[d] = x - p
    BY <1>1, <1>3, <2>1, <2>3
  <2>7. h = Sq(v, w)
    BY <2>1, <2>2, <2>5, <2>6 DEF Above
  <2>8. QED
    BY <2>4, <2>7
<1>5. ASSUME Least(D), line[0] # INF \/ BelowOthers(line, s), NEW w \in HeardOf(D \cup {d}, v)
      PROVE  h <= Sq(v, w)
  <2> DEFINE p == w[d] - Lowest(d)
             u == [v EXCEPT ![d] = Lowest(d) + p]
  <2>1. w \in Obstacles /\ \A e \in (1 .. 3) \ (D \cup {d}) : w[e] = v[e]
    BY DEF HeardOf
  <2>2. p \in 0 .. n /\ Lowest(d) + p = w[d]
    BY <1>3, <2>1
  <2>3. /\ u \in Grid /\ line[p] = distance[u] /\ u[d] = Lowest(d) + p /\ u \in Cells
        /\ \A e \in 1 .. 3 : e # d => u[e] = v[e]
    BY <1>1, <2>2, GridIs DEF Along
  <2> HIDE DEF u, p
  <2>4. w \in HeardOf(D, u)
    BY <2>1, <2>2, <2>3 DEF HeardOf
  <2>5. /\ distance[u] <= Sq(u, w) /\ distance[u] \in 0 .. INF
        /\ Sq(u, w) \in 0 .. INF /\ Sq(u, w) # INF
    BY <1>3, <1>5, <2>1, <2>3, <2>4, GridIs DEF Least
  <2>6. line[p] # INF
    BY <1>3, <2>3, <2>5
  <2>7. h <= Above(line, p, x)
    BY <1>2, <1>5, <2>2, <2>6
  <2>8. /\ Sq(v, w) = (v[d] - w[d]) * (v[d] - w[d]) + Sq(u, w)
    <3>1. u[d] = w[d] /\ w \in Cells
      BY <1>3, <2>1, <2>2, <2>3
    <3>2. QED
      BY <1>3, <2>3, <3>1, SquaredSplits
  <2>9. v[d] - w[d] = x - p
    BY <1>1, <1>3, <2>1, <2>2
  <2>10. Above(line, p, x) = (v[d] - w[d]) * (v[d] - w[d]) + distance[u]
    BY <2>3, <2>9 DEF Above
  <2>11. v[d] - w[d] \in Int /\ (v[d] - w[d]) * (v[d] - w[d]) \in Int
    BY <1>3, <2>1
  <2>12. h \in Int
    BY <1>3, <1>4 DEF HeardOf
  <2>13. QED
    BY <1>3, <2>5, <2>7, <2>8, <2>10, <2>11, <2>12
<1>6. h \in 0 .. INF
  BY <1>3, <1>4 DEF HeardOf
<1>7. QED
  BY <1>4, <1>5, <1>6 DEF h, line, first, x

\* A pass in a new direction.
LEMMA PassKeepsDistances ==
  ASSUME hits \in Worlds, lucky \in BOOLEAN, distance \in [Grid -> 0 .. INF],
         NEW D \in SUBSET (1 .. 3), NEW d \in 1 .. 3, d \notin D,
         Attained(D), lucky => Least(D), NEW name, NEW next, Pass(d, name, next)
  PROVE  /\ distance' \in [Grid -> 0 .. INF] /\ lucky' \in BOOLEAN
         /\ Attained(D \cup {d})' /\ (lucky' => Least(D \cup {d})')
<1> DEFINE hanging == {v \in DOMAIN distance :
                         v = FirstOf(v, d) /\ HangsOnUninitialised(LineOf(v, d))}
<1>1. /\ hits' = hits /\ DOMAIN distance = Grid /\ INF \in Nat
      /\ \E s \in Garbage(hanging) :
           /\ distance' = [v \in DOMAIN distance |->
                LET first == FirstOf(v, d)
                    line  == LineOf(first, d)
                IN  Height(line, Envelope(line, IF first \in hanging THEN s[first] ELSE 0),
                           v[d] - first[d])]
           /\ lucky' = (lucky /\ \A v \in hanging : BelowOthers(LineOf(v, d), s[v]))
  BY EdtAssumption DEF Pass
<1>2. PICK s \in Garbage(hanging) :
           /\ distance' = [v \in Grid |->
                LET first == FirstOf(v, d)
                    line  == LineOf(first, d)
                IN  Height(line, Envelope(line, IF first \in hanging THEN s[first] ELSE 0),
                           v[d] - first[d])]
           /\ lucky' = (lucky /\ \A v \in hanging : BelowOthers(LineOf(v, d), s[v]))
  BY <1>1
<1>3. /\ Grid' = Grid /\ Obstacles' = Obstacles
      /\ \A v : HeardOf(D \cup {d}, v)' = HeardOf(D \cup {d}, v)
  BY <1>1 DEF Grid, Obstacles, Occupancy, HeardOf, Lowest, Highest
<1>4. ASSUME NEW v \in Grid
      PROVE  LET h == distance'[v]
             IN  /\ h = INF \/ \E w \in HeardOf(D \cup {d}, v) : h = Sq(v, w)
                 /\ h \in 0 .. INF
                 /\ lucky' => \A w \in HeardOf(D \cup {d}, v) : h <= Sq(v, w)
  <2> DEFINE first == FirstOf(v, d)
             line  == LineOf(first, d)
             t     == IF first \in hanging THEN s[first] ELSE 0
             h     == Height(line, Envelope(line, t), v[d] - first[d])
  <2>1. distance'[v] = h
    BY <1>2
  <2>2. t \in Int
    BY GarbageIs
  <2>3. /\ h = INF \/ \E w \in HeardOf(D \cup {d}, v) : h = Sq(v, w)
        /\ h \in 0 .. INF
        /\ Least(D) /\ (line[0] # INF \/ BelowOthers(line, t))
                  => \A w \in HeardOf(D \cup {d}, v) : h <= Sq(v, w)
    <3> HIDE DEF t
    <3>1. QED
      BY <2>2, VoxelPassed
  <2>4. lucky' => Least(D)
    BY <1>2
  <2>5. lucky' => line[0] # INF \/ BelowOthers(line, t)
    <3> SUFFICES ASSUME lucky' PROVE line[0] # INF \/ BelowOthers(line, t)
      OBVIOUS
    <3>1. CASE first \in hanging
      <4>1. t = s[first] /\ BelowOthers(LineOf(first, d), s[first])
        BY <1>2, <3>1
      <4>2. QED
        BY <4>1
    <3>2. CASE first \notin hanging
      <4>1. first \in Grid /\ FirstOf(first, d) = first
        BY LineIs
      <4>2. ~HangsOnUninitialised(line)
        BY <1>1, <3>2, <4>1
      <4>3. QED
        BY <4>2 DEF HangsOnUninitialised, BelowOthers
    <3>3. QED
      BY <3>1, <3>2
  <2> HIDE DEF h, line, t
  <2>6. QED
    BY <2>1, <2>3, <2>4, <2>5
<1>5. distance' \in [Grid -> 0 .. INF]
  <2>1. DOMAIN distance' = Grid /\ distance' = [v \in Grid |-> distance'[v]]
    BY <1>2
  <2>2. QED
    BY <1>4, <2>1
<1>6. Attained(D \cup {d})'
  BY <1>3, <1>4 DEF Attained
<1>7. lucky' => Least(D \cup {d})'
  BY <1>3, <1>4 DEF Least
<1>8. QED
  BY <1>2, <1>5, <1>6, <1>7

\* What the constants of the roadmap are.
LEMMA RoadConstants ==
  /\ XYExpand \in Nat /\ SafeMargin \in Nat /\ MaxNodes \in Nat /\ Radius \in Nat
  /\ KNeigh \in Nat /\ StepsPerVoxel \in Nat /\ INF \in Nat
  /\ Square(SafeMargin) < INF /\ StepsPerVoxel >= 1
BY RoadmapAssumption, EdtAssumption

\* After the passes in all directions, distances are no longer changed.
LEMMA DistanceInvKept == DistanceInv /\ [RoadNext]_roadVars => DistanceInv'
<1> SUFFICES ASSUME DistanceInv, [RoadNext]_roadVars PROVE DistanceInv'
  OBVIOUS
<1>1. /\ hits \in Worlds /\ lucky \in BOOLEAN /\ distance \in [Grid -> 0 .. INF]
      /\ stage \in {"z", "y", "x", "filter", "sample", "connect"}
      /\ Attained(Passed) /\ (lucky => Least(Passed))
  BY DEF DistanceInv
<1>2. CASE Pass(3, "z", "y")
  <2>1. Passed = {} /\ stage' = "y" /\ hits' = hits
    BY <1>2 DEF Passed, Pass
  <2>2. Passed' = {} \cup {3}
    BY <2>1 DEF Passed
  <2>3. /\ distance' \in [Grid -> 0 .. INF] /\ lucky' \in BOOLEAN
        /\ Attained({} \cup {3})' /\ (lucky' => Least({} \cup {3})')
    <3>1. {} \in SUBSET (1 .. 3) /\ 3 \in 1 .. 3 /\ 3 \notin {}
      OBVIOUS
    <3>2. Attained({}) /\ (lucky => Least({}))
      BY <1>1, <2>1, Zenon
    <3>3. QED
      BY <1>1, <1>2, <3>1, <3>2, PassKeepsDistances, Zenon
  <2>4. Grid' = Grid
    BY <2>1 DEF Grid, Lowest, Highest
  <2>5. QED
    BY <1>1, <2>1, <2>2, <2>3, <2>4 DEF DistanceInv
<1>3. CASE Pass(2, "y", "x")
  <2>1. Passed = {3} /\ stage' = "x" /\ hits' = hits
    BY <1>3 DEF Passed, Pass
  <2>2. Passed' = {3} \cup {2}
    BY <2>1 DEF Passed
  <2>3. /\ distance' \in [Grid -> 0 .. INF] /\ lucky' \in BOOLEAN
        /\ Attained({3} \cup {2})' /\ (lucky' => Least({3} \cup {2})')
    <3>1. {3} \in SUBSET (1 .. 3) /\ 2 \in 1 .. 3 /\ 2 \notin {3}
      OBVIOUS
    <3>2. Attained({3}) /\ (lucky => Least({3}))
      BY <1>1, <2>1, Zenon
    <3>3. QED
      BY <1>1, <1>3, <3>1, <3>2, PassKeepsDistances, Zenon
  <2>4. Grid' = Grid
    BY <2>1 DEF Grid, Lowest, Highest
  <2>5. QED
    BY <1>1, <2>1, <2>2, <2>3, <2>4 DEF DistanceInv
<1>4. CASE Pass(1, "x", "filter")
  <2>1. Passed = {2, 3} /\ stage' = "filter" /\ hits' = hits
    BY <1>4 DEF Passed, Pass
  <2>2. Passed' = {2, 3} \cup {1}
    BY <2>1 DEF Passed
  <2>3. /\ distance' \in [Grid -> 0 .. INF] /\ lucky' \in BOOLEAN
        /\ Attained({2, 3} \cup {1})' /\ (lucky' => Least({2, 3} \cup {1})')
    <3>1. {2, 3} \in SUBSET (1 .. 3) /\ 1 \in 1 .. 3 /\ 1 \notin {2, 3}
      OBVIOUS
    <3>2. Attained({2, 3}) /\ (lucky => Least({2, 3}))
      BY <1>1, <2>1, Zenon
    <3>3. QED
      BY <1>1, <1>4, <3>1, <3>2, PassKeepsDistances, Zenon
  <2>4. Grid' = Grid
    BY <2>1 DEF Grid, Lowest, Highest
  <2>5. QED
    BY <1>1, <2>1, <2>2, <2>3, <2>4 DEF DistanceInv
<1>5. CASE FilterCenters \/ Sample \/ Connect \/ UNCHANGED roadVars
  <2>1. UNCHANGED <<hits, distance, lucky>>
    BY <1>5 DEF FilterCenters, Sample, Connect, roadVars
  <2>2. /\ Passed' = Passed /\ stage' \in {"z", "y", "x", "filter", "sample", "connect"}
    BY <1>1, <1>5 DEF FilterCenters, Sample, Connect, roadVars, Passed
  <2>3. Grid' = Grid /\ Obstacles' = Obstacles /\ \A D, v : HeardOf(D, v)' = HeardOf(D, v)
    BY <2>1 DEF Grid, Obstacles, Occupancy, HeardOf, Lowest, Highest
  <2>4. Attained(Passed)' /\ (lucky' => Least(Passed)')
    BY <1>1, <2>1, <2>2, <2>3 DEF Attained, Least
  <2>5. QED
    BY <1>1, <2>1, <2>2, <2>3, <2>4 DEF DistanceInv
<1>6. QED
  BY <1>2, <1>3, <1>4, <1>5 DEF RoadNext, Compute

\* In the end each voxel has heard of every obstacle.
LEMMA AllHeardOf ==
  ASSUME DistanceInv, stage \in {"filter", "sample", "connect"}
  PROVE  \A v \in Grid :
           /\ distance[v] \in 0 .. INF
           /\ distance[v] = INF \/ \E w \in Obstacles : distance[v] = Sq(v, w)
           /\ lucky => \A w \in Obstacles : distance[v] <= Sq(v, w)
<1>1. Passed = {1, 2, 3}
  BY DEF Passed
<1>2. \A v : HeardOf(Passed, v) = Obstacles
  BY <1>1 DEF HeardOf
<1>3. QED
  BY <1>2 DEF DistanceInv, Attained, Least

\* Of the obstacles it has heard of, each voxel has the distance of the nearest.
LEMMA ExactWhenComputed == ASSUME DistanceInv PROVE DistancesAreExact
<1> SUFFICES ASSUME stage = "filter", NEW v \in Grid
             PROVE  /\ distance[v] >= NearestObstacle(v, Obstacles)
                    /\ lucky => distance[v] = NearestObstacle(v, Obstacles)
  <2>1. DOMAIN distance = Grid
    BY DEF DistanceInv
  <2>2. QED
    BY <2>1 DEF DistancesAreExact, Computed, Obstacles
<1>1. /\ distance[v] \in 0 .. INF /\ INF \in Nat
      /\ distance[v] = INF \/ \E w \in Obstacles : distance[v] = Sq(v, w)
      /\ lucky => \A w \in Obstacles : distance[v] <= Sq(v, w)
  BY AllHeardOf, RoadConstants
<1>2. CASE Obstacles = {}
  BY <1>1, <1>2 DEF NearestObstacle
<1>3. CASE Obstacles # {}
  <2> DEFINE T == {Sq(v, w) : w \in Obstacles}
  <2>1. \A w \in Obstacles : Sq(v, w) \in 0 .. INF /\ Sq(v, w) # INF
    BY GridIs DEF Obstacles, DistanceInv
  <2>2. T \in SUBSET Nat /\ T # {}
    BY <1>1, <1>3, <2>1
  <2>3. Min(T) \in T /\ \A k \in T : Min(T) <= k
    BY <2>2, MinIs, Zenon
  <2>4. NearestObstacle(v, Obstacles) = Min(T)
    BY <1>3 DEF NearestObstacle
  <2>5. PICK u \in Obstacles : Min(T) = Sq(v, u)
    BY <2>3
  <2>6. distance[v] = INF \/ distance[v] \in T
    BY <1>1
  <2>7. lucky => distance[v] <= Min(T)
    BY <1>1, <2>5
  <2> HIDE DEF T
  <2>8. distance[v] >= Min(T)
    BY <1>1, <2>1, <2>3, <2>5, <2>6
  <2>9. Min(T) \in Int
    BY <2>1, <2>5
  <2>10. QED
    BY <1>1, <2>4, <2>7, <2>8, <2>9
<1>4. QED
  BY <1>2, <1>3

\* Three passes over lines give each voxel its distance to the nearest obstacle, unless a
\* boundary that was never assigned hides one; the distance is never too small.
THEOREM PassesGiveDistances == RoadSpec => []DistancesAreExact
<1>1. RoadInit => DistanceInv
  BY DistanceInvInit
<1>2. DistanceInv /\ [RoadNext]_roadVars => DistanceInv'
  BY DistanceInvKept
<1>3. DistanceInv => DistancesAreExact
  BY ExactWhenComputed
<1>4. QED
  BY <1>1, <1>2, <1>3, PTL DEF RoadSpec

-----------------------------------------------------------------------------
(* The roadmap: the points of an edge                                       *)

\* A quotient is the greatest whole number below the fraction.
LEMMA QuotientIs ==
  ASSUME NEW N \in Int, NEW k \in Nat \ {0}
  PROVE  N \div k \in Int /\ k * (N \div k) <= N /\ N < k * (N \div k) + k
OBVIOUS

\* No other whole number is.
LEMMA QuotientUnique ==
  ASSUME NEW N \in Int, NEW k \in Nat \ {0}, NEW a \in Int, k * a <= N, N < k * a + k
  PROVE  N \div k = a
<1> DEFINE b == N \div k
<1>1. b \in Int /\ k * b <= N /\ N < k * b + k
  BY QuotientIs
<1> HIDE DEF b
<1>2. ASSUME b > a PROVE FALSE
  <2>1. k * b >= k * (a + 1)
    BY <1>1, <1>2
  <2>2. k * (a + 1) = k * a + k
    OBVIOUS
  <2>3. k * a \in Int /\ k * b \in Int
    BY <1>1
  <2>4. QED
    BY <1>1, <2>1, <2>2, <2>3
<1>3. ASSUME b < a PROVE FALSE
  <2>1. k * a >= k * (b + 1)
    BY <1>1, <1>3
  <2>2. k * (b + 1) = k * b + k
    BY <1>1
  <2>3. k * a \in Int /\ k * b \in Int
    BY <1>1
  <2>4. QED
    BY <1>1, <2>1, <2>2, <2>3
<1>4. QED
  BY <1>1, <1>2, <1>3 DEF b

\* Whole numbers in a fraction can be taken out of it.
LEMMA QuotientMoves ==
  ASSUME NEW N \in Int, NEW k \in Nat \ {0}, NEW c \in Int
  PROVE  (k * c + N) \div k = c + N \div k
<1> DEFINE b == N \div k
<1>1. b \in Int /\ k * b <= N /\ N < k * b + k
  BY QuotientIs
<1> HIDE DEF b
<1>2. k * (c + b) = k * c + k * b /\ k * c \in Int /\ k * b \in Int
  BY <1>1
<1>3. (k * c + N) \div k = c + b
  BY <1>1, <1>2, QuotientUnique
<1>4. QED
  BY <1>3 DEF b

\* Two fractions that differ by one at most have whole numbers that do.
LEMMA QuotientsNear ==
  ASSUME NEW N \in Int, NEW M \in Int, NEW n \in Nat \ {0}, NEW m \in Nat \ {0},
         n * M - m * N <= 2 * (n * m), m * N - n * M <= 2 * (n * m)
  PROVE  (N \div (2 * n)) - (M \div (2 * m)) \in -1 .. 1
<1> DEFINE a == N \div (2 * n)
           b == M \div (2 * m)
           k == n * m
<1>1. /\ a \in Int /\ (2 * n) * a <= N /\ N < (2 * n) * a + 2 * n
      /\ b \in Int /\ (2 * m) * b <= M /\ M < (2 * m) * b + 2 * m
  <2>1. 2 * n \in Nat \ {0} /\ 2 * m \in Nat \ {0}
    OBVIOUS
  <2>2. QED
    BY <2>1, QuotientIs, Zenon
<1>2. k \in Nat \ {0}
  OBVIOUS
<1> HIDE DEF a, b
<1>3. ASSUME NEW x \in Int, NEW y \in Int, NEW i \in Nat \ {0}, x <= y PROVE i * x <= i * y
  BY <1>3
<1>4. ASSUME NEW x \in Int, NEW y \in Int, NEW i \in Nat \ {0}, x < y PROVE i * x < i * y
  BY <1>4
<1>5. m * ((2 * n) * a) <= m * N /\ m * N < m * ((2 * n) * a + 2 * n)
  <2>1. (2 * n) * a \in Int /\ (2 * n) * a + 2 * n \in Int
    BY <1>1
  <2>2. QED
    BY <1>1, <1>3, <1>4, <2>1
<1>6. n * ((2 * m) * b) <= n * M /\ n * M < n * ((2 * m) * b + 2 * m)
  <2>1. (2 * m) * b \in Int /\ (2 * m) * b + 2 * m \in Int
    BY <1>1
  <2>2. QED
    BY <1>1, <1>3, <1>4, <2>1
<1>7. m * ((2 * n) * a) = 2 * (k * a) /\ m * ((2 * n) * a + 2 * n) = 2 * (k * a) + 2 * k
  BY <1>1
<1>8. n * ((2 * m) * b) = 2 * (k * b) /\ n * ((2 * m) * b + 2 * m) = 2 * (k * b) + 2 * k
  BY <1>1
<1>9. k * a \in Int /\ k * b \in Int /\ m * N \in Int /\ n * M \in Int
  BY <1>1
<1> HIDE DEF k
<1>10. k * b - k * a < 2 * k /\ k * a - k * b < 2 * k
  <2>1. n * M - m * N <= 2 * k /\ m * N - n * M <= 2 * k
    BY DEF k
  <2>2. QED
    BY <1>2, <1>5, <1>6, <1>7, <1>8, <1>9, <2>1
<1>11. ASSUME NEW x \in Int, x >= 2 PROVE k * x >= 2 * k
  BY <1>2, <1>11
<1>12. k * (b - a) = k * b - k * a /\ k * (a - b) = k * a - k * b
  BY <1>1, <1>2
<1>13. b - a < 2 /\ a - b < 2
  BY <1>1, <1>2, <1>9, <1>10, <1>11, <1>12
<1>14. a - b \in -1 .. 1
  BY <1>1, <1>13
<1>15. QED
  BY <1>14 DEF a, b

\* One coordinate of the point i n-ths of the way from a to b.
OneOf(a, b, i, n) == (2 * n * a + n + 2 * i * (b - a)) \div (2 * n)

\* It lies between the two, is as far from the other end, and moves with them.
LEMMA OneOfIs ==
  ASSUME NEW a \in Int, NEW b \in Int, NEW n \in Nat \ {0}, NEW i \in 0 .. n
  PROVE  /\ OneOf(a, b, i, n) \in Int
         /\ a <= b => OneOf(a, b, i, n) \in a .. b
         /\ b <= a => OneOf(a, b, i, n) \in b .. a
         /\ OneOf(b, a, n - i, n) = OneOf(a, b, i, n)
         /\ OneOf(a, b, i, n) = a + OneOf(0, b - a, i, n)
<1> DEFINE N == 2 * n * a + n + 2 * i * (b - a)
           c == N \div (2 * n)
<1>1. 2 * n \in Nat \ {0} /\ N \in Int
  OBVIOUS
<1>2. c \in Int /\ (2 * n) * c <= N /\ N < (2 * n) * c + 2 * n
  BY <1>1, QuotientIs, Zenon
<1>3. /\ N = 2 * (n * a) + n + 2 * (i * (b - a))
      /\ n * a \in Int /\ n * b \in Int /\ i * (b - a) \in Int
  OBVIOUS
<1>4. (2 * n) * c = 2 * (n * c) /\ n * c \in Int
  BY <1>2
<1> HIDE DEF N, c
<1>5. ASSUME NEW x \in Int, NEW y \in Int, x < y PROVE n * x + n <= n * y
  <2>1. n * (x + 1) <= n * y
    BY <1>5
  <2>2. QED
    BY <2>1
<1>6. n * (b - a) = n * b - n * a
  OBVIOUS
<1>7. ASSUME a <= b PROVE c \in a .. b
  <2>1. 0 <= i * (b - a) /\ i * (b - a) <= n * (b - a)
    BY <1>7
  <2>2. ~(c < a)
    BY <1>2, <1>3, <1>4, <1>5, <2>1
  <2>3. ~(b < c)
    BY <1>2, <1>3, <1>4, <1>5, <1>6, <2>1
  <2>4. QED
    BY <1>2, <2>2, <2>3
<1>8. ASSUME b <= a PROVE c \in b .. a
  <2>1. i * (b - a) <= 0 /\ n * (b - a) <= i * (b - a)
    <3>1. 0 <= i * (a - b) /\ i * (a - b) <= n * (a - b)
      BY <1>8
    <3>2. i * (b - a) = -(i * (a - b)) /\ n * (b - a) = -(n * (a - b))
      OBVIOUS
    <3>3. i * (a - b) \in Int /\ n * (a - b) \in Int
      OBVIOUS
    <3>4. QED
      BY <3>1, <3>2, <3>3
  <2>2. ~(a < c)
    BY <1>2, <1>3, <1>4, <1>5, <2>1
  <2>3. ~(c < b)
    BY <1>2, <1>3, <1>4, <1>5, <1>6, <2>1
  <2>4. QED
    BY <1>2, <2>2, <2>3
<1>9. 2 * n * b + n + 2 * (n - i) * (a - b) = N
  BY DEF N
<1>10. OneOf(b, a, n - i, n) = c
  BY <1>9 DEF OneOf, c
<1>11. 2 * n * 0 + n + 2 * i * ((b - a) - 0) \in Int
  OBVIOUS
<1>12. (2 * n) * a + (2 * n * 0 + n + 2 * i * ((b - a) - 0)) = N
  BY DEF N
<1>13. c = a + OneOf(0, b - a, i, n)
  BY <1>1, <1>11, <1>12, QuotientMoves, Zenon DEF OneOf, c
<1>14. QED
  BY <1>2, <1>7, <1>8, <1>10, <1>13 DEF OneOf, c, N

\* If the two are no further apart than n, then each of the points m-ths of the way has
\* one of the n + 1 next to it.
LEMMA OnesNear ==
  ASSUME NEW a \in Int, NEW b \in Int, NEW n \in Nat \ {0}, NEW m \in Nat \ {0},
         NEW i \in 0 .. m, NEW j \in 0 .. n, b - a \in -n .. n,
         0 <= i * n - j * m, i * n - j * m <= m
  PROVE  OneOf(a, b, j, n) - OneOf(a, b, i, m) \in -1 .. 1
<1> DEFINE N == 2 * n * a + n + 2 * j * (b - a)
           M == 2 * m * a + m + 2 * i * (b - a)
           r == i * n - j * m
           c == b - a
<1>1. N \in Int /\ M \in Int /\ r \in Int /\ c \in Int /\ 0 <= r /\ r <= m /\ c <= n /\ -n <= c
  OBVIOUS
<1>2. n * M - m * N = 2 * (r * c)
  OBVIOUS
<1> HIDE DEF N, M, r, c
<1>3. r * c <= n * m /\ -(r * c) <= n * m
  <2>1. r * c <= r * n /\ -(r * c) <= r * n
    <3>1. r * c <= r * n
      BY <1>1
    <3>2. r * (-c) <= r * n
      BY <1>1
    <3>3. r * (-c) = -(r * c)
      BY <1>1
    <3>4. QED
      BY <3>1, <3>2, <3>3
  <2>2. r * n <= m * n /\ m * n = n * m
    BY <1>1
  <2>3. r * c \in Int /\ r * n \in Int /\ n * m \in Int
    BY <1>1
  <2>4. QED
    BY <2>1, <2>2, <2>3
<1>4. n * M - m * N <= 2 * (n * m) /\ m * N - n * M <= 2 * (n * m)
  <2>1. r * c \in Int /\ n * m \in Int /\ n * M \in Int /\ m * N \in Int
    BY <1>1
  <2>2. QED
    BY <1>2, <1>3, <2>1
<1>5. (N \div (2 * n)) - (M \div (2 * m)) \in -1 .. 1
  BY <1>1, <1>4, QuotientsNear
<1>6. QED
  BY <1>5 DEF OneOf, N, M

\* The voxels on the way from one voxel to another.
LEMMA WayIs ==
  ASSUME NEW v \in Cells, NEW w \in Cells, NEW n \in Nat \ {0}, NEW i \in 0 .. n
  PROVE  /\ OnTheWay(v, w, i, n) \in Cells
         /\ \A d \in 1 .. 3 : OnTheWay(v, w, i, n)[d] = OneOf(v[d], w[d], i, n)
         /\ OnTheWay(w, v, n - i, n) = OnTheWay(v, w, i, n)
<1>1. \A d \in 1 .. 3 : /\ v[d] \in Int /\ w[d] \in Int
                        /\ OnTheWay(v, w, i, n)[d] = OneOf(v[d], w[d], i, n)
                        /\ OnTheWay(w, v, n - i, n)[d] = OneOf(w[d], v[d], n - i, n)
  BY CellsAre DEF OnTheWay, OneOf
<1>2. \A d \in 1 .. 3 : /\ OneOf(v[d], w[d], i, n) \in Int
                        /\ OneOf(w[d], v[d], n - i, n) = OneOf(v[d], w[d], i, n)
  BY <1>1, OneOfIs, Zenon
<1>3. \A f : f = [d \in 1 .. 3 |-> f[d]] /\ (\A d \in 1 .. 3 : f[d] \in Int) => f \in Cells
  <2> SUFFICES ASSUME NEW f, f = [d \in 1 .. 3 |-> f[d]], \A d \in 1 .. 3 : f[d] \in Int
               PROVE  f \in Cells
    OBVIOUS
  <2>1. f = <<f[1], f[2], f[3]>>
    OBVIOUS
  <2>2. QED
    BY <2>1 DEF Cells
<1>4. /\ OnTheWay(v, w, i, n) = [d \in 1 .. 3 |-> OnTheWay(v, w, i, n)[d]]
      /\ OnTheWay(w, v, n - i, n) = [d \in 1 .. 3 |-> OnTheWay(w, v, n - i, n)[d]]
  BY DEF OnTheWay
<1>5. OnTheWay(v, w, i, n) \in Cells /\ OnTheWay(w, v, n - i, n) \in Cells
  BY <1>1, <1>2, <1>3, <1>4
<1>6. OnTheWay(w, v, n - i, n) = OnTheWay(v, w, i, n)
  BY <1>1, <1>2, <1>5, SameCell
<1>7. QED
  BY <1>1, <1>5, <1>6

\* Squares grow with what they are squares of.
LEMMA SquaresGrow ==
  /\ \A k \in Int : Square(k) \in Nat /\ Square(-k) = Square(k) /\ k <= Square(k) /\ -k <= Square(k)
  /\ \A n \in Nat, k \in Int : Square(k) <= Square(n) => k \in -n .. n
<1>1. ASSUME NEW k \in Nat PROVE k * k \in Nat /\ k <= k * k
  <2>1. CASE k = 0
    BY <2>1
  <2>2. CASE k >= 1
    BY <2>2
  <2>3. QED
    BY <2>1, <2>2
<1>2. ASSUME NEW k \in Int
      PROVE  Square(k) \in Nat /\ Square(-k) = Square(k) /\ k <= Square(k) /\ -k <= Square(k)
  <2>1. Square(-k) = Square(k) /\ Square(k) = k * k /\ Square(k) = (-k) * (-k)
    BY DEF Square
  <2>2. CASE k >= 0
    BY <1>1, <2>1, <2>2
  <2>3. CASE k < 0
    <3>1. -k \in Nat
      BY <2>3
    <3>2. QED
      BY <1>1, <2>1, <2>3, <3>1
  <2>4. QED
    BY <2>2, <2>3
<1>3. ASSUME NEW n \in Nat, NEW k \in Nat, k > n PROVE Square(k) > Square(n)
  <2>1. k * k >= k * n /\ k * n >= n * n /\ k * k >= k * (n + 1)
    BY <1>3
  <2>2. k * (n + 1) = k * n + k /\ k * n \in Int /\ n * n \in Int /\ k * k \in Int
    OBVIOUS
  <2>3. QED
    BY <1>3, <2>1, <2>2 DEF Square
<1>4. ASSUME NEW n \in Nat, NEW k \in Int, Square(k) <= Square(n) PROVE k \in -n .. n
  <2>1. Square(k) \in Nat /\ Square(n) \in Nat /\ Square(-k) = Square(k)
    BY <1>2
  <2>2. ~(k > n)
    BY <1>3, <1>4, <2>1
  <2>3. ~(-k > n)
    BY <1>3, <1>4, <2>1
  <2>4. QED
    BY <2>2, <2>3
<1>5. QED
  BY <1>2, <1>4

\* Distances are the same both ways, and no coordinate differs by more.
LEMMA SqIs ==
  ASSUME NEW v \in Cells, NEW w \in Cells
  PROVE  /\ Sq(v, w) \in Nat /\ Sq(w, v) = Sq(v, w)
         /\ \A d \in 1 .. 3 : w[d] - v[d] \in Int /\ Square(w[d] - v[d]) <= Sq(v, w)
         /\ v # w => Sq(v, w) > 0
<1>1. \A d \in 1 .. 3 : v[d] \in Int /\ w[d] \in Int /\ w[d] - v[d] \in Int /\ v[d] - w[d] \in Int
  BY CellsAre
<1>2. \A d \in 1 .. 3 : /\ Square(w[d] - v[d]) \in Nat /\ w[d] - v[d] <= Square(w[d] - v[d])
                        /\ -(w[d] - v[d]) <= Square(w[d] - v[d])
                        /\ Square(-(w[d] - v[d])) = Square(w[d] - v[d])
  BY <1>1, SquaresGrow
<1>3. \A d \in 1 .. 3 : Square(v[d] - w[d]) = Square(w[d] - v[d])
  <2> TAKE d \in 1 .. 3
  <2>1. v[d] - w[d] = -(w[d] - v[d])
    BY <1>1
  <2>2. QED
    BY <1>2, <2>1
<1> DEFINE S(d) == Square(w[d] - v[d])
<1>4. Sq(v, w) = S(1) + S(2) + S(3) /\ Sq(w, v) = S(1) + S(2) + S(3)
  BY <1>3 DEF Sq
<1>5. S(1) \in Nat /\ S(2) \in Nat /\ S(3) \in Nat
  BY <1>2
<1>6. \A d \in 1 .. 3 : d = 1 \/ d = 2 \/ d = 3
  OBVIOUS
<1>7. ASSUME v # w PROVE Sq(v, w) > 0
  <2>1. PICK d \in 1 .. 3 : v[d] # w[d]
    BY <1>7, SameCell
  <2>2. S(d) > 0
    BY <1>1, <1>2, <2>1
  <2> HIDE DEF S
  <2>3. QED
    BY <1>4, <1>5, <1>6, <2>2
<1>8. \A d \in 1 .. 3 : S(d) <= Sq(v, w)
  <2> HIDE DEF S
  <2>1. QED
    BY <1>4, <1>5, <1>6
<1>9. Sq(v, w) \in Nat /\ Sq(w, v) = Sq(v, w)
  <2> HIDE DEF S
  <2>1. QED
    BY <1>4, <1>5
<1>10. QED
  BY <1>1, <1>7, <1>8, <1>9

\* An edge has a step at least for each voxel it crosses in any direction.
LEMMA StepsAre ==
  ASSUME NEW v \in Cells, NEW w \in Cells
  PROVE  /\ Steps(v, w) \in Nat /\ Steps(w, v) = Steps(v, w)
         /\ v # w => Steps(v, w) > 0
         /\ \A d \in 1 .. 3 : w[d] - v[d] \in -Steps(v, w) .. Steps(v, w)
<1> DEFINE length == Square(StepsPerVoxel) * Sq(v, w)
           n == Steps(v, w)
           P(k) == Square(k) >= length /\ (k > 0 => Square(k - 1) < length)
<1>1. /\ Sq(v, w) \in Nat /\ Sq(w, v) = Sq(v, w) /\ (v # w => Sq(v, w) > 0)
      /\ \A d \in 1 .. 3 : w[d] - v[d] \in Int /\ Square(w[d] - v[d]) <= Sq(v, w)
  BY SqIs
<1>2. StepsPerVoxel \in Nat /\ StepsPerVoxel >= 1
  BY RoadConstants
<1>3. /\ Square(StepsPerVoxel) \in Nat /\ Square(StepsPerVoxel) >= 1
  BY <1>2, SquaresGrow
<1>4. length \in Nat /\ length >= Sq(v, w)
  BY <1>1, <1>3
<1>5. n = CHOOSE k \in 0 .. length : P(k)
  BY DEF Steps
<1>6. Steps(w, v) = n
  BY <1>1 DEF Steps
<1> HIDE DEF length, n
<1>7. \E k \in 0 .. length : P(k)
  <2> DEFINE T == {k \in 0 .. length : Square(k) >= length}
  <2>1. length \in T
    BY <1>4, SquaresGrow
  <2>2. T \in SUBSET Nat /\ T # {}
    BY <1>4, <2>1
  <2>3. PICK m \in T : \A k \in T : m <= k
    BY <2>2, MinIs, Zenon
  <2>4. m \in 0 .. length /\ Square(m) >= length
    BY <2>3
  <2>5. ASSUME m > 0 PROVE Square(m - 1) < length
    <3>1. m - 1 \in 0 .. length /\ m - 1 \notin T
      BY <1>4, <2>3, <2>4, <2>5
    <3>2. Square(m - 1) \in Nat
      BY <3>1, SquaresGrow
    <3>3. QED
      BY <1>4, <3>1, <3>2
  <2>6. QED
    BY <2>4, <2>5
<1>8. n \in 0 .. length /\ Square(n) >= length
  BY <1>5, <1>7
<1>9. n \in Nat /\ Square(n) \in Nat
  BY <1>4, <1>8, SquaresGrow
<1>10. ASSUME v # w PROVE n > 0
  BY <1>1, <1>4, <1>8, <1>9, <1>10 DEF Square
<1>11. ASSUME NEW d \in 1 .. 3 PROVE w[d] - v[d] \in -n .. n
  <2>1. Square(w[d] - v[d]) \in Nat
    BY <1>1, SquaresGrow
  <2>2. Square(w[d] - v[d]) <= Square(n)
    BY <1>1, <1>4, <1>8, <1>9, <2>1
  <2>3. QED
    BY <1>1, <1>9, <2>2, SquaresGrow
<1>12. QED
  BY <1>6, <1>9, <1>10, <1>11 DEF n

\* Next to every point of an edge is one that was looked at.
LEMMA SampleNear ==
  ASSUME NEW v \in Cells, NEW w \in Cells, v # w, NEW m \in Nat \ {0}, NEW i \in 0 .. m
  PROVE  \E p \in Samples(v, w) :
           p \in Cells /\ \A d \in 1 .. 3 : p[d] - OnTheWay(v, w, i, m)[d] \in -1 .. 1
<1> DEFINE n == Steps(v, w)
           j == (i * n) \div m
<1>1. n \in Nat \ {0} /\ \A d \in 1 .. 3 : w[d] - v[d] \in -n .. n
  BY StepsAre
<1>2. \A d \in 1 .. 3 : v[d] \in Int /\ w[d] \in Int
  BY CellsAre
<1> HIDE DEF n
<1>3. i * n \in Int /\ 0 <= i * n /\ i * n <= m * n /\ m * n \in Int
  BY <1>1
<1>4. j \in Int /\ m * j <= i * n /\ i * n < m * j + m
  BY <1>3, QuotientIs
<1> HIDE DEF j
<1>5. j \in 0 .. n
  <2>1. ~(j < 0)
    <3> SUFFICES ASSUME j < 0 PROVE FALSE
      OBVIOUS
    <3>1. m * (j + 1) <= 0 /\ m * (j + 1) = m * j + m
      BY <1>4
    <3>2. m * j \in Int
      BY <1>4
    <3>3. QED
      BY <1>3, <1>4, <3>1, <3>2
  <2>2. ~(j > n)
    <3> SUFFICES ASSUME j > n PROVE FALSE
      OBVIOUS
    <3>1. m * (n + 1) <= m * j /\ m * (n + 1) = m * n + m
      BY <1>1, <1>4
    <3>2. m * j \in Int
      BY <1>4
    <3>3. QED
      BY <1>3, <1>4, <3>1, <3>2
  <2>3. QED
    BY <1>1, <1>4, <2>1, <2>2
<1>6. 0 <= i * n - j * m /\ i * n - j * m <= m
  <2>1. j * m = m * j /\ m * j \in Int
    BY <1>4
  <2>2. QED
    BY <1>3, <1>4, <2>1
<1> DEFINE p == OnTheWay(v, w, j, n)
<1>7. p \in Samples(v, w)
  BY <1>5 DEF Samples, n
<1>8. /\ p \in Cells /\ \A d \in 1 .. 3 : p[d] = OneOf(v[d], w[d], j, n)
      /\ \A d \in 1 .. 3 : OnTheWay(v, w, i, m)[d] = OneOf(v[d], w[d], i, m)
  <2>1. p \in Cells /\ \A d \in 1 .. 3 : p[d] = OneOf(v[d], w[d], j, n)
    BY <1>1, <1>5, WayIs, Zenon
  <2>2. \A d \in 1 .. 3 : OnTheWay(v, w, i, m)[d] = OneOf(v[d], w[d], i, m)
    BY WayIs, Zenon
  <2>3. QED
    BY <2>1, <2>2
<1>9. \A d \in 1 .. 3 : OneOf(v[d], w[d], j, n) - OneOf(v[d], w[d], i, m) \in -1 .. 1
  BY <1>1, <1>2, <1>5, <1>6, OnesNear, Zenon
<1>10. QED
  BY <1>7, <1>8, <1>9

-----------------------------------------------------------------------------
(* The roadmap: edges keep off obstacles                                    *)

\* The way from one voxel of the map to another keeps to the grid.
LEMMA WayOnGrid ==
  ASSUME hits \in Worlds, NEW v \in hits, NEW w \in hits, NEW m \in Nat \ {0}, NEW i \in 0 .. m
  PROVE  OnTheWay(v, w, i, m) \in Grid
<1>1. v \in Grid /\ w \in Grid /\ v \in Cells /\ w \in Cells
  BY GridIs
<1>2. ASSUME NEW d \in 1 .. 3
      PROVE  OnTheWay(v, w, i, m)[d] \in Lowest(d) .. Highest(d)
  <2> DEFINE c == OneOf(v[d], w[d], i, m)
  <2>1. /\ v[d] \in Lowest(d) .. Highest(d) /\ w[d] \in Lowest(d) .. Highest(d)
        /\ Lowest(d) \in Int /\ Highest(d) \in Int
    BY <1>1, GridIs
  <2>2. v[d] \in Int /\ w[d] \in Int
    BY <2>1
  <2>3. c \in Int /\ (v[d] <= w[d] => c \in v[d] .. w[d]) /\ (w[d] <= v[d] => c \in w[d] .. v[d])
    BY <2>2, OneOfIs, Zenon
  <2>4. OnTheWay(v, w, i, m)[d] = c
    BY <1>1, WayIs
  <2> HIDE DEF c
  <2>5. QED
    BY <2>1, <2>2, <2>3, <2>4
<1>3. OnTheWay(v, w, i, m) \in Cells
  BY <1>1, WayIs
<1>4. QED
  BY <1>2, <1>3, GridIs

\* The voxels of the map are free.
LEMMA HitsAreFree == ASSUME hits \in Worlds PROVE hits \subseteq Occupancy
<1> SUFFICES ASSUME NEW v \in hits PROVE v \in Occupancy
  OBVIOUS
<1>1. v \in Grid /\ v \in Cells /\ v[3] \in Int
  BY GridIs, CellsAre
<1>2. 0 \in -ZThickness .. ZThickness
  BY RoadmapAssumption
<1>3. [v EXCEPT ![3] = v[3] - 0] = v
  <2>1. v[3] - 0 = v[3]
    BY <1>1
  <2>2. [v EXCEPT ![3] = v[3]] = <<v[1], v[2], v[3]>> /\ v = <<v[1], v[2], v[3]>>
    BY <1>1, CellsAre
  <2>3. QED
    BY <2>1, <2>2
<1>4. QED
  BY <1>1, <1>2, <1>3 DEF Occupancy

\* No clearance is beyond INF, and a margin of two voxels is a distance of two.
LEMMA BoundaryIs ==
  ASSUME DistanceInv, NEW p
  PROVE  /\ DistanceToBoundary(p) \in 0 .. INF
         /\ p \in hits /\ SafeMargin >= 2 /\ DistanceToBoundary(p) >= Square(SafeMargin)
              => distance[p] >= 4
<1>1. /\ hits \subseteq Grid /\ distance \in [Grid -> 0 .. INF] /\ INF \in Nat
      /\ SafeMargin \in Nat /\ Square(SafeMargin) < INF
  BY GridIs, RoadConstants DEF DistanceInv
<1> DEFINE k == (SafeMargin + 1) \div 2
<1>2. k \in Nat /\ k <= SafeMargin /\ (SafeMargin >= 2 => k < SafeMargin)
  BY <1>1
<1> HIDE DEF k
<1>3. Square(SafeMargin) \in Nat /\ Square(k) \in Nat
  BY <1>1, <1>2, SquaresGrow
<1>4. Square(k) <= Square(SafeMargin)
  <2>1. k * k <= k * SafeMargin /\ k * SafeMargin <= SafeMargin * SafeMargin
    BY <1>1, <1>2
  <2>2. QED
    BY <1>1, <1>2, <2>1 DEF Square
<1>5. SafeMargin >= 2 => Square(SafeMargin) >= 4
  BY <1>1 DEF Square
<1>6. CASE p \notin hits
  BY <1>1, <1>6 DEF DistanceToBoundary
<1>7. CASE p \in hits /\ distance[p] = INF
  <2>1. DistanceToBoundary(p) = Square(k)
    BY <1>7 DEF DistanceToBoundary, k
  <2>2. QED
    BY <1>1, <1>3, <1>4, <1>5, <1>7, <2>1
<1>8. CASE p \in hits /\ distance[p] # INF
  <2>1. DistanceToBoundary(p) = distance[p] /\ distance[p] \in 0 .. INF
    BY <1>1, <1>8 DEF DistanceToBoundary
  <2>2. QED
    BY <1>1, <1>3, <1>5, <2>1
<1>9. QED
  BY <1>6, <1>7, <1>8

Joinable == {"filter", "sample", "connect"}

\* With true distances, and a margin beyond the next voxel, what was looked at vouches
\* for all of the edge.
LEMMA EdgeIsFree ==
  ASSUME DistanceInv, stage \in Joinable, lucky, SafeMargin >= 2, NEW v \in hits,
         NEW w \in hits, v # w, IsEdgeFree(v, w), NEW m \in Nat \ {0}, NEW i \in 0 .. m
  PROVE  OnTheWay(v, w, i, m) \in Occupancy
<1> DEFINE u == OnTheWay(v, w, i, m)
<1>1. /\ hits \in Worlds /\ hits \subseteq Grid /\ v \in Cells /\ w \in Cells
      /\ u \in Grid /\ u \in Cells
  BY GridIs, WayOnGrid DEF DistanceInv
<1>2. PICK p \in Samples(v, w) : p \in Cells /\ \A d \in 1 .. 3 : p[d] - u[d] \in -1 .. 1
  BY <1>1, SampleNear
<1>3. p \in hits /\ DistanceToBoundary(p) >= Square(SafeMargin) /\ p \in Grid
  BY <1>1, <1>2 DEF IsEdgeFree
<1>4. distance[p] >= 4
  BY <1>3, BoundaryIs
<1> HIDE DEF u
<1>5. Sq(p, u) \in Int /\ Sq(p, u) <= 3
  <2>1. \A d \in 1 .. 3 : p[d] \in Int /\ u[d] \in Int /\ p[d] - u[d] \in -1 .. 1
    BY <1>1, <1>2, CellsAre
  <2>2. \A k \in -1 .. 1 : Square(k) \in 0 .. 1
    BY DEF Square
  <2>3. \A d \in 1 .. 3 : u[d] - p[d] \in -1 .. 1
    BY <2>1
  <2>4. \A d \in 1 .. 3 : Square(u[d] - p[d]) \in 0 .. 1
    BY <2>2, <2>3
  <2>5. /\ Square(u[1] - p[1]) \in 0 .. 1 /\ Square(u[2] - p[2]) \in 0 .. 1
        /\ Square(u[3] - p[3]) \in 0 .. 1
    BY <2>4
  <2>6. QED
    BY <2>5 DEF Sq
<1>6. ASSUME u \notin Occupancy PROVE FALSE
  <2>1. u \in Obstacles
    BY <1>1, <1>6 DEF Obstacles
  <2>2. distance[p] <= Sq(p, u) /\ distance[p] \in 0 .. INF
    BY <1>3, <2>1, AllHeardOf DEF Joinable
  <2>3. QED
    BY <1>4, <1>5, <2>2
<1>7. QED
  BY <1>6 DEF u

\* With short steps what was looked at is all there is, whatever the distances.
LEMMA EdgeIsFine ==
  ASSUME hits \in Worlds, FineSteps(Radius), NEW v \in hits, NEW w \in hits, v # w,
         Sq(v, w) < Radius, IsEdgeFree(v, w), NEW i \in 0 .. 4 * Steps(v, w) + 1
  PROVE  OnTheWay(v, w, i, 4 * Steps(v, w) + 1) \in Occupancy
<1> DEFINE origin == <<0, 0, 0>>
           u == <<w[1] - v[1], w[2] - v[2], w[3] - v[3]>>
           n == Steps(v, w)
           m == 4 * n + 1
           span == {k \in -Radius .. Radius : Square(k) < Radius}
<1>1. hits \subseteq Grid /\ v \in Cells /\ w \in Cells
  BY GridIs
<1>2. v[1] \in Int /\ v[2] \in Int /\ v[3] \in Int /\ w[1] \in Int /\ w[2] \in Int /\ w[3] \in Int
  BY <1>1, CellsAre
<1>3. n \in Nat \ {0} /\ Sq(v, w) \in Nat /\ Sq(v, w) > 0 /\ Radius \in Nat
  BY <1>1, StepsAre, SqIs, RoadConstants
<1>4. m \in Nat \ {0} /\ i \in 0 .. m
  BY <1>3
<1>5. u \in Cells /\ origin \in Cells
  BY <1>2 DEF Cells
<1>6. \A d \in 1 .. 3 : u[d] = w[d] - v[d] /\ origin[d] = 0
  OBVIOUS
<1>7. Sq(origin, u) = Sq(v, w)
  <2>1. /\ u[1] - origin[1] = w[1] - v[1] /\ u[2] - origin[2] = w[2] - v[2]
        /\ u[3] - origin[3] = w[3] - v[3]
    BY <1>2
  <2>2. QED
    BY <2>1 DEF Sq
<1>8. Steps(origin, u) = n
  BY <1>7 DEF Steps
<1>9. u \in (span \X span \X span) \ {origin}
  <2>1. \A d \in 1 .. 3 : u[d] \in span
    <3> TAKE d \in 1 .. 3
    <3>1. w[d] - v[d] \in Int /\ Square(w[d] - v[d]) <= Sq(v, w)
      BY <1>1, SqIs
    <3>2. /\ Square(w[d] - v[d]) \in Nat /\ w[d] - v[d] <= Square(w[d] - v[d])
          /\ -(w[d] - v[d]) <= Square(w[d] - v[d])
      BY <3>1, SquaresGrow
    <3>3. QED
      BY <1>3, <1>6, <3>1, <3>2
  <2>2. u \in span \X span \X span
    BY <2>1, <1>6
  <2>3. Sq(origin, origin) = 0
    BY DEF Sq, Square
  <2>4. u # origin
    BY <1>3, <1>7, <2>3
  <2>5. QED
    BY <2>2, <2>4
<1>10. \E j \in 0 .. n : OnTheWay(origin, u, i, m) = OnTheWay(origin, u, j, n)
  <2> HIDE DEF u
  <2>1. \A x \in (span \X span \X span) \ {origin} :
          Sq(origin, x) < Radius =>
            \A a \in 0 .. 4 * Steps(origin, x) + 1 : \E j \in 0 .. Steps(origin, x) :
              OnTheWay(origin, x, a, 4 * Steps(origin, x) + 1)
                = OnTheWay(origin, x, j, Steps(origin, x))
    BY Zenon DEF FineSteps
  <2>2. QED
    BY <1>4, <1>7, <1>8, <1>9, <2>1
<1>11. PICK j \in 0 .. n : OnTheWay(origin, u, i, m) = OnTheWay(origin, u, j, n)
  BY <1>10
<1> HIDE DEF n, m, u
<1>12. ASSUME NEW d \in 1 .. 3
       PROVE  OneOf(v[d], w[d], i, m) = OneOf(v[d], w[d], j, n)
  <2>1. v[d] \in Int /\ w[d] \in Int
    BY <1>1, CellsAre
  <2>2. OneOf(v[d], w[d], i, m) = v[d] + OneOf(0, w[d] - v[d], i, m)
    BY <1>4, <2>1, OneOfIs, Zenon
  <2>3. OneOf(v[d], w[d], j, n) = v[d] + OneOf(0, w[d] - v[d], j, n)
    BY <1>3, <1>11, <2>1, OneOfIs, Zenon
  <2>4. OnTheWay(origin, u, i, m)[d] = OneOf(origin[d], u[d], i, m)
    BY <1>4, <1>5, WayIs, Zenon
  <2>5. OnTheWay(origin, u, j, n)[d] = OneOf(origin[d], u[d], j, n)
    BY <1>3, <1>5, <1>11, WayIs, Zenon
  <2>6. OneOf(0, w[d] - v[d], i, m) = OneOf(0, w[d] - v[d], j, n)
    BY <1>6, <1>11, <2>4, <2>5
  <2>7. QED
    BY <2>2, <2>3, <2>6
<1>13. OnTheWay(v, w, i, m) = OnTheWay(v, w, j, n)
  <2>1. /\ OnTheWay(v, w, i, m) \in Cells
        /\ \A d \in 1 .. 3 : OnTheWay(v, w, i, m)[d] = OneOf(v[d], w[d], i, m)
    BY <1>1, <1>4, WayIs, Zenon
  <2>2. /\ OnTheWay(v, w, j, n) \in Cells
        /\ \A d \in 1 .. 3 : OnTheWay(v, w, j, n)[d] = OneOf(v[d], w[d], j, n)
    BY <1>1, <1>3, <1>11, WayIs, Zenon
  <2>3. QED
    BY <1>12, <2>1, <2>2, SameCell
<1>14. OnTheWay(v, w, j, n) \in Samples(v, w)
  BY <1>11 DEF Samples, n
<1>15. OnTheWay(v, w, i, m) \in hits
  BY <1>13, <1>14 DEF IsEdgeFree
<1>16. QED
  BY <1>15, HitsAreFree DEF m, n

\* An edge leads both ways, is no longer than the radius, and was looked at from one of
\* its ends.
EdgeInv(e) ==
  LET v == vertices[e[1]]
      w == vertices[e[2]]
  IN  /\ <<e[2], e[1], e[3]>> \in edges
      /\ v # w => Sq(v, w) < Radius /\ (IsEdgeFree(v, w) \/ IsEdgeFree(w, v))

RoadInv ==
  /\ DistanceInv
  /\ stage # "connect" => vertices = <<>> /\ edges = {} /\ connected = 0
  /\ safe_centers \subseteq hits /\ vertices \in Seq(safe_centers)
  /\ connected \in 0 .. MaxNodes /\ Len(vertices) \in 0 .. MaxNodes
  /\ edges \subseteq (DOMAIN vertices) \X (DOMAIN vertices) \X (0 .. INF)
  /\ \A e \in edges : EdgeInv(e)

\* The least clearance of an edge is that of one of the points.
LEMMA ClearanceIs ==
  ASSUME DistanceInv, NEW v \in hits, NEW w \in hits
  PROVE  MinClearance(v, w) \in 0 .. INF
<1> DEFINE T == {DistanceToBoundary(p) : p \in Samples(v, w)}
<1>1. \A p : DistanceToBoundary(p) \in 0 .. INF
  BY BoundaryIs
<1>2. Samples(v, w) # {}
  <2>1. v \in Cells /\ w \in Cells
    BY GridIs DEF DistanceInv
  <2>2. Steps(v, w) \in Nat
    BY <2>1, StepsAre
  <2>3. 0 \in 0 .. Steps(v, w)
    BY <2>2
  <2>4. QED
    BY <2>3 DEF Samples
<1>3. INF \in Nat
  BY RoadConstants
<1>4. T \in SUBSET Nat /\ T # {}
  BY <1>1, <1>2, <1>3
<1>5. Min(T) \in T
  BY <1>4, MinIs, Zenon
<1>6. QED
  BY <1>1, <1>5 DEF MinClearance

\* The centres are voxels of the map.
LEMMA CentersAre == SafeCenters \subseteq hits
<1>1. Upright(Safe) \subseteq hits /\ Upright(HalfSafe) \subseteq hits /\ HalfSafe \subseteq hits
  BY DEF Upright, Safe, HalfSafe
<1>2. QED
  BY <1>1 DEF SafeCenters

\* Before the first pass there are no edges.
LEMMA RoadInvInit == RoadInit => RoadInv
<1> SUFFICES ASSUME RoadInit PROVE RoadInv
  OBVIOUS
<1>1. DistanceInv
  BY DistanceInvInit
<1>2. MaxNodes \in Nat
  BY RoadConstants
<1>3. QED
  BY <1>1, <1>2 DEF RoadInit, RoadInv

\* Vertices are connected one after another, to those behind and before them alike.
LEMMA ConnectKeepsEdges ==
  ASSUME RoadInv, Connect
  PROVE  /\ connected' \in 0 .. MaxNodes
         /\ edges' \subseteq (DOMAIN vertices) \X (DOMAIN vertices) \X (0 .. INF)
         /\ \A e \in edges' : EdgeInv(e)'
<1> DEFINE i == connected + 1
           J == {k \in Neighbours(i) : /\ IsSlopeValid(vertices[i], vertices[k])
                                       /\ IsEdgeFree(vertices[i], vertices[k])}
<1>1. /\ hits' = hits /\ distance' = distance /\ vertices' = vertices
      /\ safe_centers' = safe_centers /\ stage' = stage /\ lucky' = lucky
      /\ connected' = i /\ connected < Len(vertices)
  BY DEF Connect
<1>2. edges' = edges \cup UNION {Joined(i, j) : j \in J}
  <2>1. \A k : /\ Neighbours(connected') = Neighbours(i)
               /\ Joined(connected', k) = Joined(i, k)
    BY <1>1
  <2>2. QED
    BY <1>1, <2>1 DEF Connect
<1>3. /\ DistanceInv /\ connected \in 0 .. MaxNodes /\ Len(vertices) \in 0 .. MaxNodes
      /\ vertices \in Seq(hits) /\ MaxNodes \in Nat
  BY RoadConstants DEF RoadInv
<1>4. /\ i \in 0 .. MaxNodes /\ i \in DOMAIN vertices
      /\ \A k \in DOMAIN vertices : vertices[k] \in hits /\ vertices[k] \in Cells
  <2>1. \A v \in hits : v \in Cells
    BY <1>3, GridIs DEF DistanceInv
  <2>2. QED
    BY <1>1, <1>3, <2>1
<1>5. \A j \in J : /\ j \in DOMAIN vertices /\ Sq(vertices[i], vertices[j]) < Radius
                   /\ IsEdgeFree(vertices[i], vertices[j])
  BY DEF Neighbours
<1> HIDE DEF i, J
<1>6. /\ \A e \in edges : e \in edges'
      /\ \A e : EdgeInv(e)' <=>
           /\ <<e[2], e[1], e[3]>> \in edges'
           /\ vertices[e[1]] # vertices[e[2]] =>
                /\ Sq(vertices[e[1]], vertices[e[2]]) < Radius
                /\ \/ IsEdgeFree(vertices[e[1]], vertices[e[2]])
                   \/ IsEdgeFree(vertices[e[2]], vertices[e[1]])
  BY <1>1, <1>2 DEF EdgeInv, IsEdgeFree, Samples, DistanceToBoundary, Steps
<1>7. ASSUME NEW e \in edges
      PROVE  e \in (DOMAIN vertices) \X (DOMAIN vertices) \X (0 .. INF) /\ EdgeInv(e)'
  BY <1>6 DEF RoadInv, EdgeInv
<1>8. ASSUME NEW j \in J, NEW e \in Joined(i, j)
      PROVE  e \in (DOMAIN vertices) \X (DOMAIN vertices) \X (0 .. INF) /\ EdgeInv(e)'
  <2> DEFINE c == MinClearance(vertices[i], vertices[j])
  <2>1. e = <<i, j, c>> \/ e = <<j, i, c>>
    BY DEF Joined
  <2>2. c \in 0 .. INF
    BY <1>3, <1>4, <1>5, ClearanceIs
  <2>3. <<i, j, c>> \in edges' /\ <<j, i, c>> \in edges'
    BY <1>2 DEF Joined
  <2>4. Sq(vertices[j], vertices[i]) = Sq(vertices[i], vertices[j])
    BY <1>4, <1>5, SqIs
  <2> HIDE DEF c
  <2>5. CASE e = <<i, j, c>>
    <3>1. e[1] = i /\ e[2] = j /\ e[3] = c
      BY <2>5
    <3>2. QED
      BY <1>4, <1>5, <1>6, <2>2, <2>3, <2>5, <3>1
  <2>6. CASE e = <<j, i, c>>
    <3>1. e[1] = j /\ e[2] = i /\ e[3] = c
      BY <2>6
    <3>2. QED
      BY <1>4, <1>5, <1>6, <2>2, <2>3, <2>4, <2>6, <3>1
  <2>7. QED
    BY <2>1, <2>5, <2>6
<1>9. \A e \in edges' : e \in edges \/ \E j \in J : e \in Joined(i, j)
  BY <1>2
<1>10. QED
  BY <1>1, <1>4, <1>7, <1>8, <1>9 DEF i

\* Only connecting a vertex adds edges, and nothing they rest on is changed after.
LEMMA RoadInvKept == RoadInv /\ [RoadNext]_roadVars => RoadInv'
<1> SUFFICES ASSUME RoadInv, [RoadNext]_roadVars PROVE RoadInv'
  OBVIOUS
<1>1. DistanceInv'
  BY DistanceInvKept DEF RoadInv
<1>2. MaxNodes \in Nat
  BY RoadConstants
<1>3. CASE Compute
  <2>1. /\ UNCHANGED <<hits, safe_centers, vertices, connected, edges>>
        /\ stage # "connect" /\ stage' # "connect"
    BY <1>3 DEF Compute, Pass
  <2>2. QED
    BY <1>1, <2>1 DEF RoadInv
<1>4. CASE FilterCenters
  <2>1. /\ UNCHANGED <<hits, vertices, connected, edges>> /\ safe_centers' = SafeCenters
        /\ stage # "connect" /\ stage' # "connect"
    BY <1>4 DEF FilterCenters
  <2>2. vertices' = <<>> /\ edges' = {} /\ connected' = 0 /\ safe_centers' \subseteq hits'
    BY <2>1, CentersAre DEF RoadInv
  <2>3. Len(vertices') = 0 /\ vertices' \in Seq(safe_centers')
    BY <2>2
  <2>4. QED
    BY <1>1, <1>2, <2>1, <2>2, <2>3 DEF RoadInv
<1>5. CASE Sample
  <2>1. /\ UNCHANGED <<hits, safe_centers, connected, edges>> /\ stage # "connect"
        /\ stage' = "connect" /\ vertices' \in [1 .. MaxNodes -> safe_centers]
    BY <1>5 DEF Sample
  <2>2. edges' = {} /\ connected' = 0 /\ safe_centers' = safe_centers
    BY <2>1 DEF RoadInv
  <2>3. vertices' \in Seq(safe_centers) /\ Len(vertices') = MaxNodes
    BY <1>2, <2>1
  <2>4. QED
    BY <1>1, <1>2, <2>1, <2>2, <2>3 DEF RoadInv
<1>6. CASE Connect
  <2>1. UNCHANGED <<hits, stage, safe_centers, vertices>> /\ stage = "connect"
    BY <1>6 DEF Connect
  <2>2. QED
    BY <1>1, <1>6, <2>1, ConnectKeepsEdges DEF RoadInv
<1>7. CASE UNCHANGED roadVars
  <2>1. UNCHANGED <<hits, stage, distance, safe_centers, vertices, connected, edges>>
    BY <1>7 DEF roadVars
  <2>2. \A e : EdgeInv(e)' <=> EdgeInv(e)
    BY <2>1 DEF EdgeInv, IsEdgeFree, Samples, DistanceToBoundary, Steps
  <2>3. QED
    BY <1>1, <2>1, <2>2 DEF RoadInv
<1>8. QED
  BY <1>3, <1>4, <1>5, <1>6, <1>7 DEF RoadNext

\* The invariant gives the types.
LEMMA RoadInvTypes == RoadInv => RoadTypeOK
BY DEF RoadInv, DistanceInv, RoadTypeOK

\* What the invariant says of the voxels an edge passes through.
LEMMA EdgeKeepsOff ==
  ASSUME RoadInv, NEW e \in edges, vertices[e[1]] # vertices[e[2]],
         NEW m \in Nat \ {0}, NEW i \in 0 .. m,
         \/ lucky /\ SafeMargin >= 2
         \/ FineSteps(Radius) /\ m = 4 * Steps(vertices[e[1]], vertices[e[2]]) + 1
  PROVE  OnTheWay(vertices[e[1]], vertices[e[2]], i, m) \in Occupancy
<1> DEFINE v == vertices[e[1]]
           w == vertices[e[2]]
<1>1. /\ DistanceInv /\ hits \in Worlds /\ stage \in Joinable
  BY DEF RoadInv, DistanceInv, Joinable
<1>2. v \in hits /\ w \in hits
  <2>1. e[1] \in DOMAIN vertices /\ e[2] \in DOMAIN vertices
    BY DEF RoadInv
  <2>2. vertices \in Seq(hits)
    BY DEF RoadInv
  <2>3. QED
    BY <2>1, <2>2
<1>3. /\ v \in Cells /\ w \in Cells /\ v # w /\ Sq(v, w) < Radius
      /\ IsEdgeFree(v, w) \/ IsEdgeFree(w, v)
  BY <1>1, <1>2, GridIs DEF RoadInv, EdgeInv
<1> HIDE DEF v, w
<1>4. /\ Sq(w, v) = Sq(v, w) /\ Steps(w, v) = Steps(v, w) /\ m - i \in 0 .. m
      /\ OnTheWay(w, v, m - i, m) = OnTheWay(v, w, i, m)
  BY <1>3, SqIs, StepsAre, WayIs
<1>5. CASE lucky /\ SafeMargin >= 2
  <2>1. IsEdgeFree(v, w) => OnTheWay(v, w, i, m) \in Occupancy
    BY <1>1, <1>2, <1>3, <1>5, EdgeIsFree
  <2>2. IsEdgeFree(w, v) => OnTheWay(w, v, m - i, m) \in Occupancy
    BY <1>1, <1>2, <1>3, <1>4, <1>5, EdgeIsFree
  <2>3. QED
    BY <1>3, <1>4, <2>1, <2>2 DEF v, w
<1>6. CASE FineSteps(Radius) /\ m = 4 * Steps(v, w) + 1
  <2>1. IsEdgeFree(v, w) => OnTheWay(v, w, i, m) \in Occupancy
    BY <1>1, <1>2, <1>3, <1>6, EdgeIsFine
  <2>2. IsEdgeFree(w, v) => OnTheWay(w, v, m - i, m) \in Occupancy
    BY <1>1, <1>2, <1>3, <1>4, <1>6, EdgeIsFine
  <2>3. QED
    BY <1>3, <1>4, <2>1, <2>2 DEF v, w
<1>7. QED
  BY <1>5, <1>6 DEF v, w

\* The invariant holds throughout.
LEMMA RoadInvHolds == RoadSpec => []RoadInv
<1>1. RoadInit => RoadInv
  BY RoadInvInit
<1>2. RoadInv /\ [RoadNext]_roadVars => RoadInv'
  BY RoadInvKept
<1>3. QED
  BY <1>1, <1>2, PTL DEF RoadSpec

\* Every variable of the roadmap's construction keeps its type.
THEOREM RoadTypes == RoadSpec => []RoadTypeOK
<1>1. RoadInv => RoadTypeOK
  BY RoadInvTypes
<1>2. QED
  BY <1>1, RoadInvHolds, PTL

\* No edge of the roadmap passes through an obstacle and every edge leads both ways: with
\* short steps whatever the distances, with longer ones if these are true and the margin
\* is two voxels or more (isEdgeFree, buildPRM).
THEOREM EdgesAreSafe ==
  RoadSpec => [](FineSteps(Radius) \/ (lucky /\ SafeMargin >= 2) => EdgesKeepOffObstacles)
<1>1. RoadInv => (FineSteps(Radius) \/ (lucky /\ SafeMargin >= 2) => EdgesKeepOffObstacles)
  <2> SUFFICES ASSUME RoadInv, FineSteps(Radius) \/ (lucky /\ SafeMargin >= 2), NEW e \in edges
               PROVE  LET v == vertices[e[1]]
                          w == vertices[e[2]]
                          n == 4 * Steps(v, w) + 1
                      IN  /\ <<e[2], e[1], e[3]>> \in edges
                          /\ v # w => \A i \in 0 .. n : OnTheWay(v, w, i, n) \in Occupancy
    BY DEF EdgesKeepOffObstacles
  <2>1. <<e[2], e[1], e[3]>> \in edges
    BY DEF RoadInv, EdgeInv
  <2>2. vertices[e[1]] \in Cells /\ vertices[e[2]] \in Cells
    <3>1. e[1] \in DOMAIN vertices /\ e[2] \in DOMAIN vertices /\ vertices \in Seq(hits)
      BY DEF RoadInv
    <3>2. vertices[e[1]] \in hits /\ vertices[e[2]] \in hits
      BY <3>1
    <3>3. QED
      BY <3>2, GridIs DEF RoadInv, DistanceInv
  <2>3. 4 * Steps(vertices[e[1]], vertices[e[2]]) + 1 \in Nat \ {0}
    <3>1. Steps(vertices[e[1]], vertices[e[2]]) \in Nat
      BY <2>2, StepsAre
    <3>2. QED
      BY <3>1
  <2>4. QED
    BY <2>1, <2>3, EdgeKeepsOff
<1>2. QED
  BY <1>1, RoadInvHolds, PTL

\* With true distances and such a margin there is no obstacle anywhere on an edge, in
\* however many parts it is looked at.
EdgesAreClear ==
  \A e \in edges : vertices[e[1]] # vertices[e[2]] =>
    \A n \in Nat \ {0} : \A i \in 0 .. n :
      OnTheWay(vertices[e[1]], vertices[e[2]], i, n) \in Occupancy

\* So a straight line between two joined vertices meets no obstacle.
THEOREM ClearEdges == RoadSpec => [](lucky /\ SafeMargin >= 2 => EdgesAreClear)
<1>1. RoadInv => (lucky /\ SafeMargin >= 2 => EdgesAreClear)
  BY EdgeKeepsOff DEF EdgesAreClear
<1>2. QED
  BY <1>1, RoadInvHolds, PTL
=============================================================================
