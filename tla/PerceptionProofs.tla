--------------------------- MODULE PerceptionProofs ---------------------------
(***************************************************************************)
(* Proofs about what the robot knows of where it is and of what is around   *)
(* it.                                                                     *)
(*                                                                         *)
(* The k-d tree, for any number of searching threads, any points and any    *)
(* length of the log: what the locks of a rebuild protect is so, and the    *)
(* tree is the set of points it should be.  The cube of the local map, for  *)
(* any cube and range that leave room for the robot and any number of axes: *)
(* the robot stays well inside, and what the cube leaves is deleted.        *)
(* Localisation: no registration undoes an operator's pose.  Obstacles:     *)
(* what is near is judged by the map, and by its layers, for any heights and *)
(* thresholds.  Odometry: for any duration of a scan and any spacing of the *)
(* samples, the filter's time is the end of the last scan it took.         *)
(***************************************************************************)
EXTENDS IkdTree, LocalMap, GlobalLocalization, ObstacleProcessor, LioFrontEnd,
        FiniteSetTheorems, SequenceTheorems, Induction, TLAPS

-----------------------------------------------------------------------------
(* The k-d tree: who reads what is being rebuilt                            *)

Phases  == {"outside", "box", "waiting", "inside", "counted", "done"}
Counted == {s \in Searchers : searching[s] = "counted"}

\* The rebuild thread has locked the neighbour searches out.
LockedOut == rebuilding \in {"flatten", "flattened", "swap", "swapped"}

SearchTypes == searching \in [Searchers -> Phases] /\ search_mutex_counter \in Int

\* Neighbours are searched while the mapping thread waits, so it finds no part to
\* rebuild meanwhile; ...
SearchersWaitedFor == step # "search" => \A s \in Searchers : searching[s] = "done"

\* ... a search that is not counted has found nothing to rebuild, and goes on so, or
\* has come in after the swap.
UncountedAlone ==
  (\E s \in Searchers : searching[s] = "inside") => Rebuild_Ptr = "none" \/ rebuilding = "swapped"

\* Nobody holds a node that has been replaced but by having read its box, and no
\* rebuild begins meanwhile.
KeptFromBox ==
  /\ \A s \in kept : s \in Searchers /\ searching[s] \in {"box", "inside"}
  /\ kept # {} => Rebuild_Ptr = "none" \/ rebuilding = "swapped"

\* The pointer stays for as long as the part is worked on.
PointerKept == rebuilding \notin {"no", "late", "delete"} => Rebuild_Ptr # "none"

\* The counter counts, or bars the way.
CounterCounts ==
  /\ LockedOut => search_mutex_counter = -1 /\ Counted = {}
  /\ ~LockedOut => search_mutex_counter = Cardinality(Counted)

\* A range search in nodes that have been replaced holds search_flag_mutex, and
\* the rebuild thread waits for it; but for nobody in Update.
StaleGuarded == stale => step = "update" \/ (step = "guarded" /\ rebuilding = "swapped")

TreeInv == /\ SearchTypes /\ SearchersWaitedFor /\ UncountedAlone /\ PointerKept /\ CounterCounts
        /\ KeptFromBox /\ StaleGuarded

\* Those that are counted are finitely many; a counter at zero counts nobody.
LEMMA CountedFinite ==
  /\ IsFiniteSet(Counted)
  /\ Cardinality(Counted) \in Nat
  /\ Cardinality(Counted) = 0 <=> Counted = {}
<1>1. IsFiniteSet(Counted)
  BY IkdAssumption, FS_Subset DEF Counted
<1> QED
  BY <1>1, FS_CardinalityType, FS_EmptySet

LEMMA TreeInvInit == IkdInit => TreeInv
<1> SUFFICES ASSUME IkdInit PROVE TreeInv
  OBVIOUS
<1>1. searching = [s \in Searchers |-> "done"] /\ search_mutex_counter = 0
  BY DEF IkdInit
<1>2. SearchTypes
  BY <1>1 DEF SearchTypes, Phases
<1>3. Counted = {}
  BY <1>1 DEF Counted
<1>4. Cardinality(Counted) = 0
  BY <1>3, FS_EmptySet
<1> QED
  BY <1>1, <1>2, <1>4
     DEF TreeInv, IkdInit, SearchersWaitedFor, UncountedAlone, PointerKept, CounterCounts, LockedOut,
         KeptFromBox, StaleGuarded

-----------------------------------------------------------------------------
(* The mapping thread                                                       *)

\* What its operations share: they search no neighbours, and at most set the pointer.
Operates ==
  /\ step \notin {"search", "guarded"} /\ step' # "search"
  /\ UNCHANGED Rebuild_Ptr \/ Rebuild_Ptr' # "none"
  /\ stale' = FALSE \/ (step # "update" /\ UNCHANGED stale)
  /\ UNCHANGED <<rebuilding, search_mutex_counter, searching, kept>>

LEMMA OperatesKeeps ==
  ASSUME TreeInv, Operates
  PROVE  TreeInv'
<1>1. \A s \in Searchers : searching[s] = "done" /\ searching'[s] = "done"
  BY DEF TreeInv, Operates, SearchersWaitedFor
<1>2. Counted' = Counted
  BY DEF Operates, Counted
<1>3. ~stale'
  BY DEF TreeInv, Operates, StaleGuarded
<1>4. SearchTypes' /\ SearchersWaitedFor' /\ UncountedAlone' /\ PointerKept' /\ KeptFromBox'
  <2>1. kept' = {}
    BY <1>1 DEF TreeInv, Operates, KeptFromBox
  <2> QED
    BY <1>1, <2>1
       DEF TreeInv, Operates, SearchTypes, SearchersWaitedFor, UncountedAlone, PointerKept, KeptFromBox
<1>5. CounterCounts'
  BY <1>2 DEF TreeInv, Operates, CounterCounts, LockedOut
<1> QED
  BY <1>3, <1>4, <1>5 DEF TreeInv, StaleGuarded

LEMMA BeginOperates == ASSUME NEW o, NEW points, Begin(o, points) PROVE Operates
BY DEF Begin, Operates, rebuildVars, oldVars

LEMMA MappingOperates ==
  ASSUME \/ \E box \in Boxes : DeletePointBox(box)
         \/ \E p \in Points : AddPoint(p)
         \/ RangeSearch \/ Visit \/ VisitLocked \/ Update \/ Return
  PROVE  Operates
<1>1. CASE \E box \in Boxes : DeletePointBox(box)
  BY <1>1, BeginOperates DEF DeletePointBox
<1>2. CASE \E p \in Points : AddPoint(p)
  BY <1>2, BeginOperates DEF AddPoint
<1>3. CASE RangeSearch
  BY <1>3 DEF RangeSearch, Operates, rebuildVars, oldVars
<1>4. CASE Visit
  <2>1. /\ step = "run" /\ step' \in {"run", "guarded", "lock S"}
        /\ UNCHANGED Rebuild_Ptr \/ Rebuild_Ptr' = "S"
        /\ UNCHANGED <<rebuilding, search_mutex_counter, searching, stale, kept>>
    BY <1>4 DEF Visit, rebuildVars, oldVars
  <2> QED
    BY <2>1 DEF Operates
<1>5. CASE VisitLocked
  BY <1>5 DEF VisitLocked, Operates, rebuildVars, oldVars
<1>6. CASE Return
  BY <1>6 DEF Return, Operates
<1>7. CASE Update
  BY <1>7 DEF Update, Operates, rebuildVars, oldVars
<1> QED
  BY <1>1, <1>2, <1>3, <1>4, <1>5, <1>6, <1>7

LEMMA RangeSearchedKeeps == ASSUME TreeInv, RangeSearched PROVE TreeInv'
<1>1. /\ step = "guarded" /\ step' = "run" /\ stale' = FALSE
      /\ UNCHANGED <<rebuilding, search_mutex_counter, searching, Rebuild_Ptr, kept>>
  BY DEF RangeSearched, rebuildVars
<1>2. Counted' = Counted
  BY <1>1 DEF Counted
<1>3. CounterCounts'
  BY <1>1, <1>2 DEF TreeInv, CounterCounts, LockedOut
<1> QED
  BY <1>1, <1>3
     DEF TreeInv, SearchTypes, SearchersWaitedFor, UncountedAlone, PointerKept, KeptFromBox, StaleGuarded

LEMMA SearchBoundsKeep == ASSUME TreeInv, BeginSearch \/ EndSearch PROVE TreeInv'
<1>1. UNCHANGED <<rebuilding, search_mutex_counter, Rebuild_Ptr, stale, kept>>
  BY DEF BeginSearch, EndSearch, rebuildVars, oldVars
<1>2. ~stale'
  BY <1>1 DEF TreeInv, BeginSearch, EndSearch, StaleGuarded
<1>3. /\ SearchTypes' /\ SearchersWaitedFor'
      /\ \A s \in Searchers : searching[s] = "done" /\ searching'[s] \in {"outside", "done"}
  <2>1. CASE BeginSearch
    BY <1>1, <2>1 DEF TreeInv, BeginSearch, SearchTypes, Phases, SearchersWaitedFor
  <2>2. CASE EndSearch
    BY <1>1, <2>2 DEF TreeInv, EndSearch, SearchTypes, Phases, SearchersWaitedFor
  <2> QED
    BY <2>1, <2>2
<1>4. Counted' = {} /\ Counted = {}
  BY <1>3 DEF Counted
<1>5. CounterCounts' /\ UncountedAlone' /\ KeptFromBox'
  BY <1>1, <1>3, <1>4 DEF TreeInv, CounterCounts, LockedOut, UncountedAlone, KeptFromBox
<1> QED
  BY <1>1, <1>2, <1>3, <1>5 DEF TreeInv, PointerKept, StaleGuarded

-----------------------------------------------------------------------------
(* The searchers                                                            *)

LEMMA SearchKeeps ==
  ASSUME TreeInv, NEW s \in Searchers, Search(s)
  PROVE  TreeInv'
<1>1. UNCHANGED <<step, rebuilding, Rebuild_Ptr, stale>>
  BY DEF Search, ReadBox, Ask, Count, Moves, rebuildVars
<1>2. PICK from \in Phases, to \in Phases :
        /\ searching[s] = from /\ searching' = [searching EXCEPT ![s] = to]
        /\ from # "done" /\ to # "outside"
        /\ to = "inside" => from = "box" /\ (Rebuild_Ptr = "none" \/ s \in kept)
        /\ to \in {"box", "waiting", "counted", "done"} => s \notin kept'
        /\ kept' \in {kept, kept \ {s}}
        /\ from # to
        /\ from # "counted" /\ to # "counted" => UNCHANGED search_mutex_counter
        /\ to = "counted" => /\ search_mutex_counter # -1
                             /\ search_mutex_counter' = search_mutex_counter + 1
        /\ from = "counted" => search_mutex_counter' = search_mutex_counter - 1
  <2>1. CASE ReadBox(s)
    <3>1. s \notin kept
      BY <2>1 DEF ReadBox, Moves, TreeInv, KeptFromBox
    <3> QED
      BY <2>1, <3>1 DEF ReadBox, Moves, Phases
  <2>2. CASE Ask(s)
    BY <2>2 DEF Ask, Moves, Phases
  <2>3. CASE Count(s)
    <3>1. s \notin kept
      BY <2>3 DEF Count, Moves, TreeInv, KeptFromBox
    <3> QED
      BY <2>3, <3>1 DEF Count, Moves, Phases
  <2>4. CASE ~ReadBox(s) /\ ~Ask(s) /\ ~Count(s)
    BY <2>4 DEF Search, Moves, Phases
  <2> QED
    BY <2>1, <2>2, <2>3, <2>4
<1>3. /\ SearchTypes' /\ step = "search"
      /\ \A t \in Searchers : searching'[t] = IF t = s THEN to ELSE searching[t]
  BY <1>2 DEF TreeInv, SearchTypes, SearchersWaitedFor
<1>4. SearchersWaitedFor' /\ PointerKept' /\ StaleGuarded'
  BY <1>1, <1>2, <1>3 DEF TreeInv, SearchersWaitedFor, PointerKept, StaleGuarded
<1>6. KeptFromBox' /\ UncountedAlone'
  <2>1. to = "inside" => Rebuild_Ptr = "none" \/ rebuilding = "swapped"
    BY <1>2 DEF TreeInv, KeptFromBox
  <2>2. ASSUME NEW t \in kept'
        PROVE  t \in Searchers /\ searching'[t] \in {"box", "inside"}
    <3>1. t \in kept /\ t \in Searchers /\ searching[t] \in {"box", "inside"}
      BY <1>2 DEF TreeInv, KeptFromBox
    <3>2. CASE t = s
      BY <1>2, <1>3, <3>1, <3>2 DEF Phases
    <3>3. CASE t # s
      BY <1>3, <3>1, <3>3
    <3> QED
      BY <3>2, <3>3
  <2>3. kept' # {} => Rebuild_Ptr' = "none" \/ rebuilding' = "swapped"
    BY <1>1, <1>2 DEF TreeInv, KeptFromBox
  <2>4. KeptFromBox'
    BY <2>2, <2>3 DEF KeptFromBox
  <2>5. ASSUME NEW t \in Searchers, searching'[t] = "inside"
        PROVE  Rebuild_Ptr = "none" \/ rebuilding = "swapped"
    <3>1. CASE t = s
      BY <1>3, <2>1, <2>5, <3>1
    <3>2. CASE t # s
      BY <1>3, <2>5, <3>2 DEF TreeInv, UncountedAlone
    <3> QED
      BY <3>1, <3>2
  <2> QED
    BY <1>1, <2>4, <2>5 DEF UncountedAlone
<1>5. CounterCounts'
  <2>1. CASE to = "counted"
    <3>1. ~LockedOut /\ search_mutex_counter = Cardinality(Counted)
      BY <1>2, <2>1 DEF TreeInv, CounterCounts
    <3>2. s \notin Counted /\ Counted' = Counted \cup {s}
      BY <1>2, <1>3, <2>1 DEF Counted
    <3>3. Cardinality(Counted') = Cardinality(Counted) + 1
      BY <3>2, CountedFinite, FS_AddElement
    <3> QED
      BY <1>1, <1>2, <2>1, <3>1, <3>3 DEF CounterCounts, LockedOut
  <2>2. CASE from = "counted"
    <3>1. s \in Counted /\ Counted' = Counted \ {s}
      BY <1>2, <1>3, <2>2 DEF Counted
    <3>2. ~LockedOut /\ search_mutex_counter = Cardinality(Counted)
      BY <3>1 DEF TreeInv, CounterCounts
    <3>3. Cardinality(Counted') = Cardinality(Counted) - 1
      BY <3>1, CountedFinite, FS_RemoveElement
    <3> QED
      BY <1>1, <1>2, <2>2, <3>2, <3>3 DEF CounterCounts, LockedOut
  <2>3. CASE from # "counted" /\ to # "counted"
    <3>1. Counted' = Counted
      BY <1>2, <1>3, <2>3 DEF Counted
    <3> QED
      BY <1>1, <1>2, <2>3, <3>1 DEF TreeInv, CounterCounts, LockedOut
  <2> QED
    BY <2>1, <2>2, <2>3
<1> QED
  BY <1>3, <1>4, <1>5, <1>6 DEF TreeInv

-----------------------------------------------------------------------------
(* The rebuild thread                                                       *)

\* It leaves the searchers alone, ...
LEMMA RebuildLeaves ==
  ASSUME RebuildThread
  PROVE  UNCHANGED <<step, searching, Counted>>
BY DEF RebuildThread, TakeLocks, LockSearch, Flatten, Unlock, Replay, Replayed, Swap, Release,
       ResetFlag, DeleteTreeNodes, Goes, mainVars, Counted

\* ... and bars their way only while none is counted.
LEMMA RebuildCounts ==
  ASSUME TreeInv, RebuildThread
  PROVE  CounterCounts' /\ search_mutex_counter' \in Int
<1>1. Counted' = Counted
  BY RebuildLeaves
<1>2. search_mutex_counter \in Int
  BY DEF TreeInv, SearchTypes
<1>3. ASSUME UNCHANGED search_mutex_counter, LockedOut' <=> LockedOut
      PROVE  CounterCounts' /\ search_mutex_counter' \in Int
  BY <1>1, <1>2, <1>3 DEF TreeInv, CounterCounts
<1>4. ASSUME NEW from, NEW to, LockSearch(from, to), from \notin {"flatten", "flattened", "swap", "swapped"},
             to \in {"flatten", "swap"}
      PROVE  CounterCounts' /\ search_mutex_counter' \in Int
  <2>1. ~LockedOut /\ LockedOut' /\ search_mutex_counter = 0 /\ search_mutex_counter' = -1
    BY <1>4 DEF LockSearch, Goes, LockedOut
  <2>2. Counted = {}
    BY <2>1, CountedFinite DEF TreeInv, CounterCounts
  <2> QED
    BY <1>1, <2>1, <2>2 DEF CounterCounts
<1>5. ASSUME LockedOut, ~LockedOut', search_mutex_counter' = 0
      PROVE  CounterCounts' /\ search_mutex_counter' \in Int
  BY <1>1, <1>5, CountedFinite DEF TreeInv, CounterCounts
<1>6. CASE LockSearch("wait", "flatten") \/ LockSearch("built", "swap")
  BY <1>4, <1>6
<1>7. CASE Unlock
  BY <1>5, <1>7 DEF Unlock, Goes, LockedOut
<1>8. CASE Release
  BY <1>5, <1>8 DEF Release, Goes, LockedOut
<1>9. CASE TakeLocks \/ Flatten \/ Replay \/ Replayed \/ Swap \/ ResetFlag \/ DeleteTreeNodes
  BY <1>3, <1>9
     DEF TakeLocks, Flatten, Replay, Replayed, Swap, ResetFlag, DeleteTreeNodes, Goes, LockedOut
<1> QED
  BY <1>6, <1>7, <1>8, <1>9 DEF RebuildThread

LEMMA RebuildKeeps ==
  ASSUME TreeInv, RebuildThread
  PROVE  TreeInv'
<1>1. UNCHANGED <<step, searching>> /\ CounterCounts' /\ search_mutex_counter' \in Int
  BY RebuildLeaves, RebuildCounts
<1>2. SearchTypes' /\ SearchersWaitedFor'
  BY <1>1 DEF TreeInv, SearchTypes, SearchersWaitedFor
<1>3. UNCHANGED Rebuild_Ptr \/ (Release /\ Rebuild_Ptr' = "none")
  BY DEF RebuildThread, TakeLocks, LockSearch, Flatten, Unlock, Replay, Replayed, Swap, Release,
         ResetFlag, DeleteTreeNodes
<1>4. UncountedAlone'
  <2>1. CASE Release
    BY <1>1, <2>1 DEF Release, UncountedAlone
  <2>2. CASE ~Release
    <3>1. UNCHANGED Rebuild_Ptr /\ rebuilding # "swapped"
      BY <1>3, <2>2
         DEF RebuildThread, TakeLocks, LockSearch, Flatten, Unlock, Replay, Replayed, Swap, ResetFlag,
             DeleteTreeNodes, Goes
    <3> QED
      BY <1>1, <3>1 DEF TreeInv, UncountedAlone
  <2> QED
    BY <2>1, <2>2
<1>7. KeptFromBox'
  <2>1. CASE Swap
    <3>1. \A s \in Searchers : searching[s] \notin {"inside", "counted"}
      BY <2>1 DEF Swap, Goes, TreeInv, UncountedAlone, PointerKept, CounterCounts, Counted, LockedOut
    <3> QED
      BY <1>1, <2>1, <3>1 DEF Swap, Goes, TreeInv, KeptFromBox
  <2>2. CASE Release
    BY <1>1, <2>2 DEF Release, oldVars, TreeInv, KeptFromBox
  <2>3. CASE ~Swap /\ ~Release
    <3>1. UNCHANGED <<kept, Rebuild_Ptr>> /\ rebuilding # "swapped"
      BY <1>3, <2>3
         DEF RebuildThread, TakeLocks, LockSearch, Flatten, Unlock, Replay, Replayed, ResetFlag,
             DeleteTreeNodes, Goes, oldVars
    <3> QED
      BY <1>1, <3>1 DEF TreeInv, KeptFromBox
  <2> QED
    BY <2>1, <2>2, <2>3
<1>5. PointerKept'
  <2>1. CASE Release
    BY <2>1 DEF Release, Goes, PointerKept
  <2>2. CASE TakeLocks
    BY <2>2 DEF TakeLocks, PointerKept
  <2>3. CASE ~Release /\ ~TakeLocks
    <3>1. UNCHANGED Rebuild_Ptr
      BY <1>3, <2>3
    <3>2. rebuilding' \notin {"no", "late", "delete"} => rebuilding \notin {"no", "late", "delete"}
      BY <2>3
         DEF RebuildThread, LockSearch, Flatten, Unlock, Replay, Replayed, Swap, ResetFlag,
             DeleteTreeNodes, Goes
    <3> QED
      BY <3>1, <3>2 DEF TreeInv, PointerKept
  <2> QED
    BY <2>1, <2>2, <2>3
<1>6. StaleGuarded'
  <2>1. CASE Swap
    BY <1>1, <2>1 DEF Swap, Goes, StaleGuarded
  <2>2. CASE Release
    BY <1>1, <2>2 DEF Release, SearchFlagFree, oldVars, TreeInv, StaleGuarded
  <2>3. CASE ~Swap /\ ~Release
    <3>1. UNCHANGED stale /\ rebuilding # "swapped"
      BY <2>3
         DEF RebuildThread, TakeLocks, LockSearch, Flatten, Unlock, Replay, Replayed, ResetFlag,
             DeleteTreeNodes, Goes, oldVars
    <3> QED
      BY <1>1, <3>1 DEF TreeInv, StaleGuarded
  <2> QED
    BY <2>1, <2>2, <2>3
<1> QED
  BY <1>1, <1>2, <1>4, <1>5, <1>6, <1>7 DEF TreeInv

-----------------------------------------------------------------------------

\* ReadNodesLive: what the locks of a rebuild protect, and no more.  No neighbour
\* search has gone into a part while it is flattened and up to the swap, although a
\* search that finds nothing to rebuild is not counted; who is counted is never in
\* nodes that have been replaced; and the nodes a range search is reading are not
\* deleted (ikd_Tree.cpp, multi_thread_rebuild, Search and Search_by_range).
THEOREM NodesReadAreLive == IkdSpec => []ReadNodesLive
<1>1. TreeInv /\ [IkdNext]_ikdVars => TreeInv'
  <2> SUFFICES ASSUME TreeInv, [IkdNext]_ikdVars
               PROVE  TreeInv'
    OBVIOUS
  <2>1. CASE UNCHANGED ikdVars
    BY <2>1 DEF ikdVars, mainVars, rebuildVars, oldVars, KeptFromBox, TreeInv, SearchTypes, SearchersWaitedFor, UncountedAlone,
                PointerKept, CounterCounts, Counted, LockedOut, StaleGuarded
  <2>2. CASE MappingThread
    BY <2>2, MappingOperates, OperatesKeeps, RangeSearchedKeeps, SearchBoundsKeep
       DEF MappingThread, Proceed
  <2> QED
    BY <2>1, <2>2, RebuildKeeps, SearchKeeps DEF IkdNext
<1>2. TreeInv => ReadNodesLive
  <2> SUFFICES ASSUME TreeInv
               PROVE  ReadNodesLive
    OBVIOUS
  <2>1. ASSUME LockedOut, rebuilding # "swapped", NEW s \in Searchers
        PROVE  searching[s] \notin {"inside", "counted"}
    <3>1. Rebuild_Ptr # "none" /\ s \notin Counted
      BY <2>1 DEF TreeInv, LockedOut, PointerKept, CounterCounts
    <3> QED
      BY <2>1, <3>1 DEF TreeInv, UncountedAlone, Counted
  <2>2. rebuilding \in {"late", "delete", "no"} /\ step = "guarded" => ~stale
    BY DEF TreeInv, StaleGuarded
  <2>3. \A s \in kept : searching[s] \in {"box", "inside"}
    BY DEF TreeInv, KeptFromBox
  <2> QED
    BY <2>1, <2>2, <2>3 DEF ReadNodesLive, LockedOut
<1> QED
  BY TreeInvInit, <1>1, <1>2, PTL DEF IkdSpec

-----------------------------------------------------------------------------
(* The k-d tree: its set of points                                          *)

\* The last operation of a sequence that says something about a point decides; if
\* there is none, the point stays as it was.
Removes(o, q) == o.op = "push_down" \/ (o.op = "delete" /\ q \in o.points)
Adds(o, q)    == o.op = "add" /\ q \in o.points
Stays(q, log, i) == \A j \in i + 1 .. Len(log) : ~Removes(log[j], q)
IsIn(q, log, points) ==
  \/ q \in points /\ Stays(q, log, 0)
  \/ \E i \in 1 .. Len(log) : Adds(log[i], q) /\ Stays(q, log, i)

\* What the new part holds once it has caught up.
CaughtUp(log, points) == {q \in Points : IsIn(q, log, points)}

\* The new part, with what it has missed, is the old part.
CopyCatchesUp ==
  rebuilding \in {"flattened", "build", "built", "swap"} =>
    /\ Rebuild_Ptr = "S" => CaughtUp(Rebuild_Logger, copy) = alive \cap BelowS
    /\ Rebuild_Ptr = "G" => CaughtUp(Rebuild_Logger, copy) = alive /\ tree_deleted = {}

\* Whoever may log an operation is heard: the log is empty before a rebuild
\* and whenever the rebuild thread holds the lock.
LogIsHeard ==
  /\ rebuild_flag <=> rebuilding \notin {"delete", "no"}
  /\ rebuilding \in {"wait", "flatten", "flattened"} => held
  /\ held \/ ~rebuild_flag => Rebuild_Logger = <<>>

\* What is still to be done at S, or further down, makes the tree what it should be.
Leads(t) ==
  \/ t \in {<<>>, <<SearchRange>>} /\ Valid = expected
  \/ t \in {<<Push_Down>>, <<Push_Down, SearchRange>>} /\ tree_deleted = {"F"} /\ Valid = expected
  \/ \E box \in SUBSET Points :
       /\ t = <<Operation("delete", box)>> /\ tree_deleted = {}
       /\ expected = alive \ (box \cap BelowS)
  \/ \E p \in Points :
       /\ t = <<Operation("add", {p})>>
       /\ "G" \notin tree_deleted /\ (p \in BelowF => "F" \notin tree_deleted)
       /\ expected = Valid \cup {p}
  \/ \E p \in BelowF :
       /\ t = <<Push_Down, Operation("add", {p})>> /\ tree_deleted = {"F"}
       /\ expected = Valid \cup {p}

OperationLeads ==
  /\ step \in {"idle", "search", "update"} => Valid = expected
  /\ step \in {"run", "lock S", "guarded"} => Leads(todo)
  /\ step = "lock G" =>
       \E o \in Operations : o.op # "push_down" /\ todo = <<o>> /\ expected = Run(o, Valid)

\* Where an operation may be when a part is to be rebuilt.
OperationWaits ==
  /\ Rebuild_Ptr = "G" => /\ step \in {"idle", "search", "run", "update", "lock G"}
                          /\ step = "run" => todo \in {<<>>, <<SearchRange>>} /\ path = {}
  /\ step = "lock G" => Rebuild_Ptr # "S"
  /\ step = "lock S" => /\ Rebuild_Ptr # "G" /\ todo # <<>>
                        /\ Concerns("S", Head(todo)) /\ Head(todo) # SearchRange
  /\ step = "guarded" => Rebuild_Ptr = "S" /\ todo = <<SearchRange>>
  /\ rebuilding \in {"late", "delete"} => Rebuild_Ptr = "none"
  /\ rebuilding \notin {"no", "late", "delete"} => Rebuild_Ptr # "none"

SetTypes ==
  /\ alive \subseteq Points /\ expected \subseteq Points /\ copy \subseteq Points
  /\ tree_deleted \subseteq {"F", "G"} /\ Rebuild_Ptr \in {"none", "S", "G"}
  /\ Rebuild_Logger \in Seq(Operations)
  /\ held \in BOOLEAN /\ rebuild_flag \in BOOLEAN
  /\ step \in {"idle", "run", "lock S", "lock G", "guarded", "update", "search"}
  /\ rebuilding \in {"no", "wait", "flatten", "flattened", "build", "built", "swap",
                     "swapped", "late", "delete"}

SetStands == SetTypes /\ CopyCatchesUp /\ LogIsHeard /\ OperationLeads /\ OperationWaits

SetInv == ~spoilt => SetStands

\* A removal that comes at the end, or at the beginning.
LEMMA StaysAtEnd ==
  ASSUME NEW q, NEW log \in Seq(Operations), NEW o \in Operations, NEW i \in 0 .. Len(log)
  PROVE  Stays(q, Append(log, o), i) <=> Stays(q, log, i) /\ ~Removes(o, q)
<1> DEFINE log2 == Append(log, o)
           n == Len(log)
<1>1. n \in Nat /\ Len(log2) = n + 1 /\ log2[n + 1] = o /\ \A j \in 1 .. n : log2[j] = log[j]
  OBVIOUS
<1> HIDE DEF log2, n
<1>2. i + 1 .. n + 1 = (i + 1 .. n) \cup {n + 1} /\ i + 1 .. n \subseteq 1 .. n
  BY <1>1 DEF n
<1>3. Stays(q, log2, i) <=> \A j \in (i + 1 .. n) \cup {n + 1} : ~Removes(log2[j], q)
  BY <1>1, <1>2 DEF Stays
<1>4. Stays(q, log, i) <=> \A j \in i + 1 .. n : ~Removes(log[j], q)
  BY DEF Stays, n
<1> QED
  BY <1>1, <1>2, <1>3, <1>4 DEF log2

LEMMA StaysInTail ==
  ASSUME NEW q, NEW log \in Seq(Operations), log # <<>>, NEW i \in 0 .. Len(log) - 1
  PROVE  Stays(q, Tail(log), i) <=> Stays(q, log, i + 1)
<1> DEFINE tail == Tail(log)
           n == Len(log)
<1>1. n \in Nat \ {0} /\ Len(tail) = n - 1 /\ \A j \in 1 .. n - 1 : tail[j] = log[j + 1]
  OBVIOUS
<1>2. Stays(q, tail, i) <=> \A j \in i + 1 .. n - 1 : ~Removes(log[j + 1], q)
  <2>1. i + 1 .. n - 1 \subseteq 1 .. n - 1
    BY <1>1
  <2>2. Stays(q, tail, i) <=> \A j \in i + 1 .. n - 1 : ~Removes(tail[j], q)
    BY <1>1 DEF Stays
  <2> HIDE DEF tail, n
  <2> QED
    BY <1>1, <2>1, <2>2
<1> HIDE DEF tail, n
<1>3. Stays(q, log, i + 1) <=> \A j \in i + 2 .. n : ~Removes(log[j], q)
  BY DEF Stays, n
<1>4. ASSUME \A j \in i + 1 .. n - 1 : ~Removes(log[j + 1], q), NEW j \in i + 2 .. n
      PROVE  ~Removes(log[j], q)
  <2>1. j - 1 \in i + 1 .. n - 1 /\ (j - 1) + 1 = j
    BY <1>1
  <2> QED
    BY <1>4, <2>1
<1>5. ASSUME \A j \in i + 2 .. n : ~Removes(log[j], q), NEW j \in i + 1 .. n - 1
      PROVE  ~Removes(log[j + 1], q)
  <2>1. j + 1 \in i + 2 .. n
    BY <1>1
  <2> QED
    BY <1>5, <2>1
<1> QED
  BY <1>2, <1>3, <1>4, <1>5 DEF tail

\* What run_operation does to one point.
LEMMA RunOnPoint ==
  ASSUME NEW o \in Operations, NEW points, NEW q
  PROVE  q \in Run(o, points) <=> Adds(o, q) \/ (q \in points /\ ~Removes(o, q))
BY DEF Operations, Run, Adds, Removes

LEMMA NothingMissed ==
  ASSUME NEW points \in SUBSET Points
  PROVE  CaughtUp(<<>>, points) = points
<1>1. \A q : IsIn(q, <<>>, points) <=> q \in points
  BY DEF IsIn, Stays
<1> QED
  BY <1>1 DEF CaughtUp

\* An operation is done and logged ...
LEMMA LoggedIsMissed ==
  ASSUME NEW log \in Seq(Operations), NEW o \in Operations, NEW points
  PROVE  CaughtUp(Append(log, o), points) = Run(o, CaughtUp(log, points))
<1> DEFINE log2 == Append(log, o)
           n == Len(log)
<1>1. n \in Nat /\ Len(log2) = n + 1 /\ log2[n + 1] = o /\ \A j \in 1 .. n : log2[j] = log[j]
  OBVIOUS
<1>2. ASSUME NEW q
      PROVE  IsIn(q, log2, points) <=> Adds(o, q) \/ (IsIn(q, log, points) /\ ~Removes(o, q))
  <2>1. \A i \in 0 .. n : Stays(q, log2, i) <=> Stays(q, log, i) /\ ~Removes(o, q)
    BY StaysAtEnd
  <2>2. Stays(q, log2, n + 1)
    BY <1>1 DEF Stays
  <2> DEFINE Kept(i) == Adds(log[i], q) /\ Stays(q, log, i)
             Kept2(i) == Adds(log2[i], q) /\ Stays(q, log2, i)
  <2>3. \A i \in 1 .. n : Kept2(i) <=> Kept(i) /\ ~Removes(o, q)
    BY <1>1, <2>1
  <2>4. Kept2(n + 1) <=> Adds(o, q)
    BY <1>1, <2>2
  <2>5. IsIn(q, log, points) <=> (q \in points /\ Stays(q, log, 0)) \/ \E i \in 1 .. n : Kept(i)
    BY DEF IsIn
  <2>6. IsIn(q, log2, points)
          <=> (q \in points /\ Stays(q, log2, 0)) \/ \E i \in 1 .. n + 1 : Kept2(i)
    BY <1>1 DEF IsIn
  <2>7. Stays(q, log2, 0) <=> Stays(q, log, 0) /\ ~Removes(o, q)
    BY <1>1, <2>1
  <2> HIDE DEF Kept, Kept2, log2, n
  <2>8. (\E i \in 1 .. n + 1 : Kept2(i)) <=> Kept2(n + 1) \/ \E i \in 1 .. n : Kept2(i)
    <3>1. 1 .. n + 1 = (1 .. n) \cup {n + 1}
      BY <1>1
    <3> QED
      BY <3>1
  <2> QED
    BY <2>3, <2>4, <2>5, <2>6, <2>7, <2>8
<1>3. \A q : q \in Run(o, CaughtUp(log, points))
               <=> Adds(o, q) \/ (q \in CaughtUp(log, points) /\ ~Removes(o, q))
  BY RunOnPoint
<1>4. \A q : Adds(o, q) => q \in Points
  BY DEF Operations, Adds
<1> HIDE DEF log2, n
<1>5. \A q : q \in CaughtUp(log2, points) <=> q \in Run(o, CaughtUp(log, points))
  BY <1>2, <1>3, <1>4 DEF CaughtUp
<1>6. CaughtUp(log2, points) = Run(o, CaughtUp(log, points))
  BY <1>5 DEF CaughtUp, Run, Operations
<1> QED
  BY <1>6 DEF log2

\* ... and run on the new part.
LEMMA RunIsCaughtUp ==
  ASSUME NEW log \in Seq(Operations), log # <<>>, NEW points
  PROVE  CaughtUp(Tail(log), Run(Head(log), points)) = CaughtUp(log, points)
<1> DEFINE tail == Tail(log)
           o == log[1]
           n == Len(log)
<1>1. /\ n \in Nat \ {0} /\ Len(tail) = n - 1 /\ Head(log) = o /\ o \in Operations
      /\ \A j \in 1 .. n - 1 : tail[j] = log[j + 1]
  OBVIOUS
<1>2. ASSUME NEW q
      PROVE  IsIn(q, tail, Run(o, points)) <=> IsIn(q, log, points)
  <2>1. \A i \in 0 .. n - 1 : Stays(q, tail, i) <=> Stays(q, log, i + 1)
    BY StaysInTail
  <2>2. Stays(q, log, 0) <=> Stays(q, log, 1) /\ ~Removes(o, q)
    <3>1. 1 .. n = {1} \cup (2 .. n)
      BY <1>1
    <3> QED
      BY <3>1 DEF Stays
  <2> DEFINE Kept(i) == Adds(log[i], q) /\ Stays(q, log, i)
             KeptT(i) == Adds(tail[i], q) /\ Stays(q, tail, i)
  <2>3. \A i \in 1 .. n - 1 : KeptT(i) <=> Kept(i + 1)
    BY <1>1, <2>1
  <2>4. Kept(1) <=> Adds(o, q) /\ Stays(q, log, 1)
    OBVIOUS
  <2>5. IsIn(q, log, points) <=> (q \in points /\ Stays(q, log, 0)) \/ \E i \in 1 .. n : Kept(i)
    BY DEF IsIn
  <2>6. IsIn(q, tail, Run(o, points))
          <=> (q \in Run(o, points) /\ Stays(q, tail, 0)) \/ \E i \in 1 .. n - 1 : KeptT(i)
    BY <1>1 DEF IsIn
  <2>7. Stays(q, tail, 0) <=> Stays(q, log, 1)
    BY <1>1, <2>1
  <2>8. q \in Run(o, points) <=> Adds(o, q) \/ (q \in points /\ ~Removes(o, q))
    BY <1>1, RunOnPoint
  <2> HIDE DEF Kept, KeptT, tail, n, o
  <2>9. (\E i \in 1 .. n : Kept(i)) <=> Kept(1) \/ \E i \in 1 .. n - 1 : Kept(i + 1)
    <3>1. ASSUME NEW i \in 1 .. n, Kept(i), ~Kept(1)
          PROVE  \E k \in 1 .. n - 1 : Kept(k + 1)
      <4>1. i - 1 \in 1 .. n - 1 /\ (i - 1) + 1 = i
        BY <1>1, <3>1
      <4> QED
        BY <3>1, <4>1
    <3>2. ASSUME NEW i \in 1 .. n - 1, Kept(i + 1)
          PROVE  \E k \in 1 .. n : Kept(k)
      <4>1. i + 1 \in 1 .. n
        BY <1>1
      <4> QED
        BY <3>2, <4>1
    <3>3. 1 \in 1 .. n
      BY <1>1
    <3> QED
      BY <3>1, <3>2, <3>3
  <2> QED
    BY <2>2, <2>3, <2>4, <2>5, <2>6, <2>7, <2>8, <2>9
<1> QED
  BY <1>1, <1>2 DEF CaughtUp

LEMMA ValidByMarks ==
  /\ tree_deleted = {} => Valid = alive
  /\ tree_deleted = {"F"} => Valid = alive \ BelowF
  /\ "G" \in tree_deleted => Valid = {}
  /\ "G" \notin tree_deleted /\ "F" \notin tree_deleted => Valid = alive
  /\ Valid \subseteq alive
BY DEF Valid

LEMMA SetInvInit == ASSUME IkdInit PROVE SetInv
<1>1. Valid = expected
  BY DEF IkdInit, Valid
<1>2. SetTypes
  <2>1. <<>> \in Seq(Operations)
    OBVIOUS
  <2>2. /\ alive = Points /\ tree_deleted = {} /\ copy = {} /\ expected = Points
        /\ Rebuild_Ptr = "none" /\ Rebuild_Logger = <<>> /\ rebuilding = "no" /\ step = "idle"
    BY DEF IkdInit
  <2>3. held \in BOOLEAN /\ rebuild_flag \in BOOLEAN
    BY DEF IkdInit
  <2> QED
    BY <2>1, <2>2, <2>3 DEF SetTypes
<1>3. LogIsHeard /\ CopyCatchesUp
  BY DEF IkdInit, LogIsHeard, CopyCatchesUp
<1> QED
  BY <1>1, <1>2, <1>3 DEF IkdInit, SetInv, SetStands, OperationLeads, OperationWaits

\* Neighbours are searched between two operations.
LEMMA SearchingKeepsSet ==
  ASSUME SetStands,
         UNCHANGED <<alive, tree_deleted, copy, expected, todo, path, Rebuild_Ptr,
                     Rebuild_Logger, rebuild_flag, rebuilding, held>>,
         step' = step \/ {step, step'} \subseteq {"idle", "search"}
  PROVE  SetStands'
<1>1. Valid' = Valid
  BY DEF Valid
<1>2. SetTypes' /\ LogIsHeard'
  BY DEF SetStands, SetTypes, LogIsHeard
<1>3. CopyCatchesUp'
  BY DEF SetStands, CopyCatchesUp
<1>4. OperationLeads'
  BY <1>1 DEF SetStands, OperationLeads, Leads
<1>5. OperationWaits'
  BY DEF SetStands, OperationWaits
<1> QED
  BY <1>2, <1>3, <1>4, <1>5 DEF SetStands

\* An operation on its way is not disturbed by the rebuild thread.
LEMMA RebuildKeepsOperation ==
  ASSUME SetStands, UNCHANGED mainVars, Valid' = Valid,
         UNCHANGED <<alive, tree_deleted>> \/ Rebuild_Ptr = "G"
  PROVE  OperationLeads'
<1>1. UNCHANGED <<step, todo, path, expected>>
  BY DEF mainVars
<1>2. CASE UNCHANGED <<alive, tree_deleted>>
  BY <1>1, <1>2 DEF SetStands, OperationLeads, Leads
<1>3. CASE Rebuild_Ptr = "G"
  <2>1. /\ step \in {"idle", "search", "run", "update", "lock G"}
        /\ step = "run" => todo \in {<<>>, <<SearchRange>>}
    BY <1>3 DEF SetStands, OperationWaits
  <2>2. step = "run" => Valid = expected
    <3>1. ASSUME todo \in {<<>>, <<SearchRange>>}, Leads(todo)
          PROVE  Valid = expected
      BY <3>1 DEF Leads, SearchRange, Push_Down, Operation
    <3> QED
      BY <2>1, <3>1 DEF SetStands, OperationLeads
  <2>3. step = "run" => Leads(todo)'
    BY <1>1, <2>1, <2>2 DEF Leads
  <2> QED
    BY <1>1, <2>1, <2>3 DEF SetStands, OperationLeads
<1> QED
  BY <1>2, <1>3

LEMMA RebuildKeepsSet ==
  ASSUME SetStands, RebuildThread, ~spoilt'
  PROVE  SetStands'
<1> USE DEF SetStands
<1>0. UNCHANGED mainVars /\ UNCHANGED <<step, todo, path, expected>>
  BY DEF RebuildThread, TakeLocks, LockSearch, Flatten, Unlock, Replay, Replayed, Swap, Release,
         ResetFlag, DeleteTreeNodes, Goes, mainVars
<1>1. CASE TakeLocks \/ LockSearch("wait", "flatten") \/ Unlock \/ Replayed
           \/ LockSearch("built", "swap") \/ Release \/ ResetFlag \/ DeleteTreeNodes
  <2>1. UNCHANGED <<alive, tree_deleted, Rebuild_Logger>> /\ Valid' = Valid
    BY <1>1 DEF TakeLocks, LockSearch, Unlock, Replayed, Release, ResetFlag, DeleteTreeNodes, Valid
  <2>2. OperationLeads'
    BY <1>0, <2>1, RebuildKeepsOperation
  <2>3. SetTypes' /\ OperationWaits'
    BY <1>0, <1>1, <2>1 DEF SetTypes, OperationWaits, TakeLocks, LockSearch, Unlock, Replayed,
           Release, ResetFlag, DeleteTreeNodes, Goes, SearchFlagFree
  <2>4. LogIsHeard'
    <3>1. CASE TakeLocks
      BY <2>1, <3>1 DEF LogIsHeard, TakeLocks, Goes
    <3>2. CASE LockSearch("wait", "flatten") \/ LockSearch("built", "swap")
      BY <2>1, <3>2 DEF LogIsHeard, LockSearch, Goes
    <3>3. CASE Unlock \/ Release
      <4>1. ~held' /\ UNCHANGED rebuild_flag /\ rebuilding \in {"flattened", "swapped"}
            /\ rebuilding' \in {"build", "built", "late"}
        BY <3>3 DEF Unlock, Release, Goes
      <4> QED
        BY <2>1, <4>1 DEF LogIsHeard
    <3>4. CASE Replayed
      BY <2>1, <3>4 DEF LogIsHeard, Replayed, Goes
    <3>5. CASE ResetFlag
      <4>1. Rebuild_Logger = <<>> /\ ~rebuild_flag' /\ rebuilding' = "delete"
        BY <3>5 DEF ResetFlag, Goes
      <4> QED
        BY <2>1, <4>1 DEF LogIsHeard
    <3>6. CASE DeleteTreeNodes
      BY <2>1, <3>6 DEF LogIsHeard, DeleteTreeNodes, Goes
    <3> QED
      BY <1>1, <3>1, <3>2, <3>3, <3>4, <3>5, <3>6
  <2>5. CopyCatchesUp'
    BY <1>1, <2>1 DEF CopyCatchesUp, TakeLocks, LockSearch, Unlock, Replayed, Release,
           ResetFlag, DeleteTreeNodes, Goes
  <2> QED
    BY <2>2, <2>3, <2>4, <2>5
<1>2. CASE Flatten
  <2>1. /\ rebuilding = "flatten" /\ rebuilding' = "flattened" /\ Rebuild_Logger' = Rebuild_Logger
        /\ UNCHANGED <<rebuild_flag, held, Rebuild_Ptr>>
    BY <1>2 DEF Flatten, Goes
  <2>2. Rebuild_Logger = <<>> /\ Rebuild_Ptr \in {"S", "G"}
    BY <2>1 DEF LogIsHeard, SetTypes, OperationWaits
  <2>3. CASE Rebuild_Ptr = "S"
    <3>1. copy' = alive \cap BelowS /\ UNCHANGED <<alive, tree_deleted>>
      BY <1>2, <2>3 DEF Flatten
    <3>2. Valid' = Valid
      BY <3>1 DEF Valid
    <3>3. CaughtUp(<<>>, copy') = copy'
      <4>1. alive \cap BelowS \in SUBSET Points
        BY DEF SetTypes
      <4> QED
        BY <3>1, <4>1, NothingMissed
    <3>4. CopyCatchesUp'
      BY <2>1, <2>2, <2>3, <3>1, <3>3 DEF CopyCatchesUp
    <3>5. SetTypes' /\ LogIsHeard' /\ OperationWaits'
      BY <1>0, <2>1, <3>1 DEF SetTypes, LogIsHeard, OperationWaits
    <3> QED
      BY <1>0, <3>1, <3>2, <3>4, <3>5, RebuildKeepsOperation
  <2>4. CASE Rebuild_Ptr = "G"
    <3>1. copy' = Valid /\ alive' = Valid /\ tree_deleted' = {}
      BY <1>2, <2>4 DEF Flatten
    <3>2. Valid' = Valid
      BY <3>1 DEF Valid
    <3>3. Valid \in SUBSET Points
      BY ValidByMarks DEF SetTypes
    <3>4. CaughtUp(<<>>, copy') = copy'
      BY <3>1, <3>3, NothingMissed
    <3>5. CopyCatchesUp'
      BY <2>1, <2>2, <2>4, <3>1, <3>4 DEF CopyCatchesUp
    <3>6. SetTypes' /\ LogIsHeard' /\ OperationWaits'
      BY <1>0, <2>1, <3>1, <3>3 DEF SetTypes, LogIsHeard, OperationWaits
    <3> QED
      BY <1>0, <2>4, <3>2, <3>5, <3>6, RebuildKeepsOperation
  <2> QED
    BY <2>2, <2>3, <2>4
<1>3. CASE Replay
  <2>1. /\ rebuilding = "build" /\ rebuilding' = "build" /\ ~held /\ Rebuild_Logger # <<>>
        /\ copy' = Run(Head(Rebuild_Logger), copy) /\ Rebuild_Logger' = Tail(Rebuild_Logger)
        /\ UNCHANGED <<alive, tree_deleted, rebuild_flag, held, Rebuild_Ptr>>
    BY <1>3 DEF Replay, Goes
  <2>2. CaughtUp(Rebuild_Logger', copy') = CaughtUp(Rebuild_Logger, copy)
    BY <2>1, RunIsCaughtUp DEF SetTypes
  <2>3. CopyCatchesUp'
    BY <2>1, <2>2 DEF CopyCatchesUp
  <2>4. Head(Rebuild_Logger) \in Operations /\ Rebuild_Logger' \in Seq(Operations)
    <3>1. ASSUME NEW log \in Seq(Operations), log # <<>>
          PROVE  Head(log) \in Operations /\ Tail(log) \in Seq(Operations)
      BY <3>1
    <3> QED
      BY <2>1, <3>1 DEF SetTypes
  <2>5. copy' \subseteq Points
    <3>1. \A q : q \in copy' => Adds(Head(Rebuild_Logger), q) \/ q \in copy
      BY <2>1, <2>4, RunOnPoint
    <3> QED
      BY <2>4, <3>1 DEF SetTypes, Adds, Operations
  <2>6. SetTypes' /\ LogIsHeard' /\ OperationWaits'
    BY <1>0, <2>1, <2>4, <2>5 DEF SetTypes, LogIsHeard, OperationWaits
  <2>7. Valid' = Valid
    BY <2>1 DEF Valid
  <2> QED
    BY <1>0, <2>1, <2>3, <2>6, <2>7, RebuildKeepsOperation
<1>4. CASE Swap
  <2>1. /\ rebuilding = "swap" /\ rebuilding' = "swapped"
        /\ UNCHANGED <<rebuild_flag, held, copy, Rebuild_Ptr, Rebuild_Logger>>
        /\ ~UpdateUnmarksF /\ ~MissesOperations
        /\ alive' = (alive \ Below(Rebuild_Ptr)) \cup copy
        /\ tree_deleted' = IF Rebuild_Ptr = "G" THEN {} ELSE tree_deleted
    BY <1>4 DEF Swap, Goes
  <2>2. Rebuild_Logger = <<>> /\ Rebuild_Ptr \in {"S", "G"}
    BY <2>1 DEF LogIsHeard, SetTypes, OperationWaits, MissesOperations
  <2>3. CaughtUp(Rebuild_Logger, copy) = copy
    BY <2>2, NothingMissed DEF SetTypes
  <2>4. UNCHANGED <<alive, tree_deleted>>
    <3>1. CASE Rebuild_Ptr = "S"
      BY <2>1, <2>3, <3>1 DEF CopyCatchesUp, Below
    <3>2. CASE Rebuild_Ptr = "G"
      BY <2>1, <2>3, <3>2 DEF CopyCatchesUp, Below, SetTypes
    <3> QED
      BY <2>2, <3>1, <3>2
  <2>5. Valid' = Valid
    BY <2>4 DEF Valid
  <2>6. SetTypes' /\ LogIsHeard' /\ OperationWaits' /\ CopyCatchesUp'
    BY <1>0, <2>1, <2>4 DEF SetTypes, LogIsHeard, OperationWaits, CopyCatchesUp
  <2> QED
    BY <1>0, <2>4, <2>5, <2>6, RebuildKeepsOperation
<1> QED
  BY <1>1, <1>2, <1>3, <1>4 DEF RebuildThread

LEMMA OneAfterAnother ==
  ASSUME NEW a, NEW b
  PROVE  /\ <<>> \o <<>> = <<>> /\ <<>> \o <<b>> = <<b>>
         /\ <<a>> \o <<>> = <<a>> /\ <<a>> \o <<b>> = <<a, b>>
<1> DEFINE S == {a, b}
<1>1. <<>> \in Seq(S) /\ <<a>> \in Seq(S) /\ <<b>> \in Seq(S)
  OBVIOUS
<1>2. \A s \in Seq(S) : <<>> \o s = s /\ s \o <<>> = s
  BY ConcatEmptySeq
<1>3. <<a>> \o <<b>> = <<a, b>>
  <2>1. <<a>> \o <<b>> \in Seq(S) /\ Len(<<a>> \o <<b>>) = 2
    BY <1>1
  <2>2. (<<a>> \o <<b>>)[1] = a /\ (<<a>> \o <<b>>)[2] = b
    BY <1>1
  <2>3. <<a, b>> \in Seq(S) /\ Len(<<a, b>>) = 2
    OBVIOUS
  <2>4. \A i \in 1 .. 2 : (<<a>> \o <<b>>)[i] = <<a, b>>[i]
    <3>1. \A i \in 1 .. 2 : i = 1 \/ i = 2
      OBVIOUS
    <3>2. <<a, b>>[1] = a /\ <<a, b>>[2] = b
      OBVIOUS
    <3> QED
      BY <2>2, <3>1, <3>2
  <2> QED
    BY <2>1, <2>3, <2>4, SeqEqual
<1> QED
  BY <1>1, <1>2, <1>3

\* What a step of the mapping thread leaves alone, as long as it is not at S with
\* the lock.
LEMMA CopyUndisturbed ==
  ASSUME SetStands, UNCHANGED <<rebuilding, copy, Rebuild_Logger, held, rebuild_flag>>,
         Rebuild_Ptr' = Rebuild_Ptr \/ rebuilding = "no",
         Rebuild_Ptr = "S" => alive' \cap BelowS = alive \cap BelowS,
         Rebuild_Ptr = "G" => UNCHANGED <<alive, tree_deleted>>
  PROVE  CopyCatchesUp' /\ LogIsHeard'
BY DEF SetStands, CopyCatchesUp, LogIsHeard

\* Every operation begins with the tree as it should be, and what it does at once
\* and what is left of it make up the whole.
LEMMA BeginKeepsSet ==
  ASSUME SetStands, NEW o \in Operations, NEW points \in SUBSET Points, Begin(o, points),
         o.op # "push_down", points = Run(o, expected),
         Rebuild_Ptr # "G" => /\ alive' \subseteq Points /\ tree_deleted' \subseteq {"F", "G"}
                              /\ alive' \cap BelowS = alive \cap BelowS
                              /\ Leads(todo)'
  PROVE  SetStands'
<1>1. /\ step = "idle" /\ expected' = points
      /\ UNCHANGED <<rebuildVars, Rebuild_Ptr, Rebuild_Logger>>
      /\ UNCHANGED <<rebuild_flag, rebuilding, held, copy>>
  BY DEF Begin, rebuildVars
<1>2. Valid = expected
  BY <1>1 DEF SetStands, OperationLeads
<1>3. CASE Rebuild_Ptr = "G"
  <2>1. step' = "lock G" /\ todo' = <<o>> /\ UNCHANGED <<alive, tree_deleted>>
    BY <1>3 DEF Begin, treeVars
  <2>2. Valid' = Valid
    BY <2>1 DEF Valid
  <2>3. OperationLeads'
    BY <1>1, <1>2, <2>1, <2>2 DEF OperationLeads
  <2>4. OperationWaits' /\ SetTypes'
    BY <1>1, <1>3, <2>1 DEF SetStands, OperationWaits, SetTypes
  <2> QED
    BY <1>1, <2>1, <2>3, <2>4, CopyUndisturbed DEF SetStands
<1>4. CASE Rebuild_Ptr # "G"
  <2>1. step' = "run"
    BY <1>4 DEF Begin
  <2>2. OperationLeads'
    BY <1>4, <2>1 DEF OperationLeads
  <2>3. OperationWaits' /\ SetTypes'
    BY <1>1, <1>4, <2>1 DEF SetStands, OperationWaits, SetTypes
  <2> QED
    BY <1>1, <1>4, <2>2, <2>3, CopyUndisturbed DEF SetStands
<1> QED
  BY <1>3, <1>4

LEMMA DeletingKeepsSet ==
  ASSUME SetStands, NEW box \in Boxes, DeletePointBox(box)
  PROVE  SetStands'
<1> DEFINE o == Operation("delete", box)
<1>1. /\ o \in Operations /\ o.op = "delete" /\ Run(o, expected) = expected \ box
      /\ box \in SUBSET Points
  BY IkdAssumption, Zenon DEF Operation, Operations, Run
<1>2. Begin(o, expected \ box) /\ step = "idle" /\ expected' = expected \ box
  BY DEF DeletePointBox, Begin
<1>3. Valid = expected /\ SetTypes
  BY <1>2 DEF SetStands, OperationLeads
<1>4. ASSUME Rebuild_Ptr # "G"
      PROVE  /\ alive' \subseteq Points /\ tree_deleted' \subseteq {"F", "G"}
             /\ alive' \cap BelowS = alive \cap BelowS
             /\ Leads(todo)'
  <2>1. DeleteAtRoot(box) \/ (Valid # {} /\ (DeleteAtF(box) \/ DeleteInS(box)))
    BY <1>4 DEF DeletePointBox
  <2>2. CASE DeleteAtRoot(box)
    <3>1. /\ todo' = <<>> /\ alive' = alive
          /\ \/ Valid = {} /\ tree_deleted' = tree_deleted
             \/ box \cap Valid = {} /\ tree_deleted' = tree_deleted
             \/ Valid \subseteq box /\ tree_deleted' = tree_deleted \cup {"G"}
      BY <2>2 DEF DeleteAtRoot, treeVars
    <3>2. Valid' = expected'
      BY <1>2, <1>3, <3>1 DEF Valid
    <3> QED
      BY <1>3, <3>1, <3>2 DEF Leads, SetTypes
  <2>3. CASE Valid # {} /\ DeleteAtF(box)
    <3>1. "G" \notin tree_deleted
      BY <2>3 DEF Valid
    <3>2. /\ alive' = alive \ (box \ BelowF) /\ todo' = <<>>
          /\ \/ Valid \cap BelowF = {} /\ tree_deleted' = tree_deleted
             \/ box \cap (Valid \cap BelowF) = {} /\ tree_deleted' = tree_deleted
             \/ /\ Valid \cap BelowF # {} /\ Valid \cap BelowF \subseteq box
                /\ tree_deleted' = tree_deleted \cup {"F"}
      BY <2>3 DEF DeleteAtF
    <3>3. Valid' = expected'
      BY <1>2, <1>3, <3>1, <3>2 DEF Valid, SetTypes
    <3> QED
      BY <1>3, <3>2, <3>3, IkdAssumption DEF Leads, SetTypes
  <2>4. CASE Valid # {} /\ DeleteInS(box)
    <3>1. /\ alive' = alive \ (box \ BelowS) /\ todo' = <<o>> /\ tree_deleted' = tree_deleted
          /\ Valid \cap BelowF # {}
      BY <2>4 DEF DeleteInS
    <3>2. tree_deleted = {} /\ Valid = alive
      BY <1>3, <3>1 DEF Valid, SetTypes
    <3>3. expected' = alive' \ (box \cap BelowS)
      BY <1>2, <1>3, <3>1, <3>2
    <3>4. Leads(todo)'
      BY <1>1, <3>1, <3>2, <3>3 DEF Leads
    <3> QED
      BY <1>3, <3>1, <3>4 DEF SetTypes
  <2> QED
    BY <2>1, <2>2, <2>3, <2>4
<1> HIDE DEF o
<1>5. expected \ box \in SUBSET Points
  BY <1>3 DEF SetTypes
<1> QED
  BY <1>1, <1>2, <1>4, <1>5, BeginKeepsSet

\* Pushing down changes nothing that is found, and nothing in S.
LEMMA PushingKeepsValid ==
  ASSUME SetStands, PushDownG
  PROVE  /\ Valid' = Valid /\ alive' \subseteq Points /\ alive' \cap BelowS = alive \cap BelowS
         /\ tree_deleted' = PushedDown /\ tree_deleted' \subseteq {"F"}
<1>1. tree_deleted' = PushedDown
      /\ alive' = IF "G" \in tree_deleted THEN alive \cap BelowF ELSE alive
  BY DEF PushDownG
<1>2. tree_deleted' \subseteq {"F"} /\ alive' \subseteq Points
  BY <1>1 DEF PushedDown, SetStands, SetTypes
<1>3. Valid' = Valid
  BY <1>1 DEF PushedDown, Valid
<1>4. alive' \cap BelowS = alive \cap BelowS
  BY <1>1, IkdAssumption
<1> QED
  BY <1>1, <1>2, <1>3, <1>4

LEMMA AddingKeepsSet ==
  ASSUME SetStands, NEW p \in Points, AddPoint(p)
  PROVE  SetStands'
<1> DEFINE o == Operation("add", {p})
<1>1. /\ o \in Operations /\ o.op = "add" /\ Run(o, expected) = expected \cup {p}
  BY Zenon DEF Operation, Operations, Run
<1>2. Begin(o, expected \cup {p}) /\ step = "idle" /\ expected' = expected \cup {p}
  BY DEF AddPoint, Begin
<1>3. Valid = expected /\ SetTypes
  BY <1>2 DEF SetStands, OperationLeads
<1>4. ASSUME Rebuild_Ptr # "G"
      PROVE  /\ alive' \subseteq Points /\ tree_deleted' \subseteq {"F", "G"}
             /\ alive' \cap BelowS = alive \cap BelowS
             /\ Leads(todo)'
  <2>1. /\ PushDownG
        /\ todo' = (IF p \in BelowF /\ "F" \in PushedDown THEN <<Push_Down>> ELSE <<>>) \o <<o>>
    BY <1>4 DEF AddPoint
  <2>2. /\ Valid' = Valid /\ alive' \subseteq Points /\ alive' \cap BelowS = alive \cap BelowS
        /\ tree_deleted' = PushedDown /\ tree_deleted' \subseteq {"F"}
    BY <2>1, PushingKeepsValid
  <2>3. expected' = Valid' \cup {p}
    BY <1>2, <1>3, <2>2
  <2>4. CASE p \in BelowF /\ "F" \in PushedDown
    <3>1. todo' = <<Push_Down, o>>
      BY <2>1, <2>4, OneAfterAnother
    <3>2. tree_deleted' = {"F"}
      BY <2>2, <2>4
    <3> QED
      BY <2>2, <2>3, <2>4, <3>1, <3>2 DEF Leads
  <2>5. CASE ~(p \in BelowF /\ "F" \in PushedDown)
    <3>1. todo' = <<o>>
      BY <2>1, <2>5, OneAfterAnother
    <3> QED
      BY <2>2, <2>3, <2>5, <3>1 DEF Leads
  <2> QED
    BY <2>4, <2>5
<1> HIDE DEF o
<1>5. expected \cup {p} \in SUBSET Points
  BY <1>3 DEF SetTypes
<1> QED
  BY <1>1, <1>2, <1>4, <1>5, BeginKeepsSet

LEMMA RangingKeepsSet ==
  ASSUME SetStands, RangeSearch
  PROVE  SetStands'
<1>1. /\ step = "idle" /\ step' = "run" /\ path' = {} /\ expected' = expected
      /\ UNCHANGED <<Rebuild_Ptr, Rebuild_Logger, rebuild_flag, rebuilding, held, copy>>
  BY DEF RangeSearch, rebuildVars
<1>2. Valid = expected /\ SetTypes
  BY <1>1 DEF SetStands, OperationLeads
<1>3. CASE Rebuild_Ptr = "G"
  <2>1. todo' = <<SearchRange>> /\ UNCHANGED <<alive, tree_deleted>>
    BY <1>3 DEF RangeSearch
  <2>2. Valid' = Valid
    BY <2>1 DEF Valid
  <2>3. Leads(todo)'
    BY <1>1, <1>2, <2>1, <2>2 DEF Leads
  <2>4. SetTypes' /\ OperationLeads' /\ OperationWaits'
    BY <1>1, <1>2, <1>3, <2>1, <2>3 DEF SetStands, SetTypes, OperationLeads, OperationWaits
  <2> QED
    BY <1>1, <2>1, <2>4, CopyUndisturbed DEF SetStands
<1>4. CASE Rebuild_Ptr # "G"
  <2>1. /\ PushDownG
        /\ \/ todo' = <<>>
           \/ \E further \in {<<>>, <<SearchRange>>} :
                todo' = (IF "F" \in PushedDown THEN <<Push_Down>> ELSE <<>>) \o further
    BY <1>4 DEF RangeSearch
  <2>2. /\ Valid' = Valid /\ alive' \subseteq Points /\ alive' \cap BelowS = alive \cap BelowS
        /\ tree_deleted' = PushedDown /\ tree_deleted' \subseteq {"F"}
    BY <2>1, PushingKeepsValid
  <2>3. \/ todo' \in {<<>>, <<SearchRange>>}
        \/ todo' \in {<<Push_Down>>, <<Push_Down, SearchRange>>} /\ "F" \in PushedDown
    BY <2>1, OneAfterAnother
  <2>4. Leads(todo)'
    BY <1>1, <1>2, <2>2, <2>3 DEF Leads
  <2>5. SetTypes' /\ OperationLeads' /\ OperationWaits'
    BY <1>1, <1>2, <1>4, <2>2, <2>4 DEF SetStands, SetTypes, OperationLeads, OperationWaits
  <2> QED
    BY <1>1, <1>4, <2>2, <2>5, CopyUndisturbed DEF SetStands
<1> QED
  BY <1>3, <1>4

LEMMA FirstAndRest ==
  ASSUME NEW a, NEW b
  PROVE  /\ Head(<<a>>) = a /\ Tail(<<a>>) = <<>>
         /\ Head(<<a, b>>) = a /\ Tail(<<a, b>>) = <<b>>
OBVIOUS

\* An operation on its way, by what comes next.
LEMMA NextToDo ==
  ASSUME NEW t, Leads(t), t # <<>>
  PROVE  \/ t = <<SearchRange>> /\ Valid = expected
         \/ /\ tree_deleted = {"F"} /\ Head(t) = Push_Down
            /\ \/ Tail(t) \in {<<>>, <<SearchRange>>} /\ Valid = expected
               \/ \E p \in BelowF : /\ Tail(t) = <<Operation("add", {p})>>
                                    /\ expected = Valid \cup {p}
         \/ \E box \in SUBSET Points :
              /\ t = <<Operation("delete", box)>> /\ tree_deleted = {}
              /\ expected = alive \ (box \cap BelowS)
         \/ \E p \in Points :
              /\ t = <<Operation("add", {p})>>
              /\ "G" \notin tree_deleted /\ (p \in BelowF => "F" \notin tree_deleted)
              /\ expected = Valid \cup {p}
<1>1. \A a, b : /\ Head(<<a>>) = a /\ Tail(<<a>>) = <<>>
                /\ Head(<<a, b>>) = a /\ Tail(<<a, b>>) = <<b>>
  BY FirstAndRest
<1>2. CASE t = <<Push_Down>> /\ tree_deleted = {"F"} /\ Valid = expected
  BY <1>1, <1>2
<1>3. CASE t = <<Push_Down, SearchRange>> /\ tree_deleted = {"F"} /\ Valid = expected
  BY <1>1, <1>3
<1>4. CASE \E p \in BelowF : /\ t = <<Push_Down, Operation("add", {p})>> /\ tree_deleted = {"F"}
                            /\ expected = Valid \cup {p}
  <2>1. PICK p \in BelowF : /\ t = <<Push_Down, Operation("add", {p})>> /\ tree_deleted = {"F"}
                            /\ expected = Valid \cup {p}
    BY <1>4
  <2>2. Head(t) = Push_Down /\ Tail(t) = <<Operation("add", {p})>>
    BY <1>1, <2>1
  <2> QED
    BY <2>1, <2>2
<1> QED
  BY <1>2, <1>3, <1>4, Zenon DEF Leads

LEMMA OperationFields ==
  /\ SearchRange.op = "range" /\ Push_Down.op = "push_down"
  /\ \A op, points : Operation(op, points).op = op /\ Operation(op, points).points = points
  /\ Push_Down \in Operations
  /\ \A points \in SUBSET Points : /\ Operation("add", points) \in Operations
                                   /\ Operation("delete", points) \in Operations
BY DEF SearchRange, Push_Down, Operation, Operations

LEMMA RangeStandsAlone ==
  ASSUME NEW t, Leads(t), t # <<>>, Head(t).op = "range"
  PROVE  t = <<SearchRange>>
<1>1. Head(t) # Push_Down
  BY OperationFields
<1>2. ASSUME NEW op, NEW points, t = <<Operation(op, points)>>
      PROVE  op = "range"
  <2>1. Head(t) = Operation(op, points)
    BY <1>2, FirstAndRest
  <2> QED
    BY <2>1 DEF Operation
<1>3. \A points : t # <<Operation("add", points)>> /\ t # <<Operation("delete", points)>>
  BY <1>2
<1> QED
  BY <1>1, <1>3, NextToDo

LEMMA ApplyByOperation ==
  ASSUME NEW o, Apply(o)
  PROVE  /\ o.op = "add" => alive' = alive \cup o.points /\ tree_deleted' = tree_deleted
         /\ o.op = "delete" => alive' = alive \ (o.points \cap BelowS) /\ tree_deleted' = tree_deleted
         /\ o.op = "push_down" => alive' = alive \ BelowF /\ tree_deleted' = tree_deleted \ {"F"}
         /\ o.op = "range" => alive' = alive /\ tree_deleted' = tree_deleted
BY Zenon DEF Apply

LEMMA RunByOperation ==
  ASSUME NEW o, NEW points
  PROVE  /\ o.op = "add" => Run(o, points) = points \cup o.points
         /\ o.op = "delete" => Run(o, points) = points \ o.points
         /\ o.op = "push_down" => Run(o, points) = {}
BY Zenon DEF Run

\* What the next operation does, and what it does to S.
LEMMA ApplyingLeads ==
  ASSUME SetTypes, Leads(todo), todo # <<>>, todo' = Tail(todo), Apply(Head(todo)),
         expected' = expected
  PROVE  /\ Leads(todo)' /\ alive' \subseteq Points /\ tree_deleted' \subseteq {"F", "G"}
         /\ Head(todo).op = "range" \/ ~Concerns("S", Head(todo)) => alive' \cap BelowS = alive \cap BelowS
         /\ Head(todo).op # "range" /\ Concerns("S", Head(todo)) =>
              alive' \cap BelowS = Run(Head(todo), alive \cap BelowS)
         /\ Head(todo).op # "range" => Head(todo) \in Operations
<1> USE DEF SetTypes
<1>1. CASE todo = <<SearchRange>> /\ Valid = expected
  <2>1. Head(todo) = SearchRange /\ Tail(todo) = <<>>
    BY <1>1, FirstAndRest
  <2>2. alive' = alive /\ tree_deleted' = tree_deleted /\ Head(todo).op = "range"
    BY <2>1, ApplyByOperation, OperationFields
  <2>3. Valid' = expected'
    BY <1>1, <2>2 DEF Valid
  <2> QED
    BY <2>1, <2>2, <2>3 DEF Leads
<1>2. CASE /\ tree_deleted = {"F"} /\ Head(todo) = Push_Down
           /\ \/ Tail(todo) \in {<<>>, <<SearchRange>>} /\ Valid = expected
              \/ \E p \in BelowF : /\ Tail(todo) = <<Operation("add", {p})>>
                                   /\ expected = Valid \cup {p}
  <2>1. alive' = alive \ BelowF /\ tree_deleted' = {} /\ Head(todo).op = "push_down"
    BY <1>2, ApplyByOperation, OperationFields
  <2>2. Valid' = Valid
    BY <1>2, <2>1 DEF Valid
  <2>3. Leads(todo)'
    <3>1. CASE Tail(todo) \in {<<>>, <<SearchRange>>} /\ Valid = expected
      BY <2>2, <3>1 DEF Leads
    <3>2. CASE \E p \in BelowF : Tail(todo) = <<Operation("add", {p})>> /\ expected = Valid \cup {p}
      <4>1. PICK p \in BelowF : Tail(todo) = <<Operation("add", {p})>> /\ expected = Valid \cup {p}
        BY <3>2
      <4>2. p \in Points /\ expected' = Valid' \cup {p}
        BY <2>2, <4>1, IkdAssumption
      <4> QED
        BY <2>1, <4>1, <4>2 DEF Leads
    <3> QED
      BY <1>2, <3>1, <3>2
  <2>4. alive' \cap BelowS = {} /\ Run(Head(todo), alive \cap BelowS) = {}
    <3>1. Run(Head(todo), alive \cap BelowS) = {}
      BY <2>1, RunByOperation, Zenon
    <3> QED
      BY <2>1, <3>1, IkdAssumption
  <2>5. Head(todo) \in Operations
    BY <1>2, OperationFields, Zenon
  <2>6. Concerns("S", Head(todo))
    BY <2>1 DEF Concerns
  <2> QED
    BY <2>1, <2>3, <2>4, <2>5, <2>6
<1>3. ASSUME NEW box \in SUBSET Points, todo = <<Operation("delete", box)>>, tree_deleted = {},
             expected = alive \ (box \cap BelowS)
      PROVE  /\ Leads(todo)' /\ alive' \subseteq Points /\ tree_deleted' \subseteq {"F", "G"}
             /\ alive' \cap BelowS = Run(Head(todo), alive \cap BelowS)
             /\ Head(todo).op = "delete" /\ Concerns("S", Head(todo)) /\ Head(todo) \in Operations
  <2>1. Head(todo) = Operation("delete", box) /\ Tail(todo) = <<>>
    BY <1>3, FirstAndRest
  <2>2. Head(todo).op = "delete" /\ Head(todo).points = box
    <3>1. Operation("delete", box).op = "delete" /\ Operation("delete", box).points = box
      BY OperationFields
    <3> QED
      BY ONLY <2>1, <3>1
  <2>3. alive' = alive \ (box \cap BelowS) /\ tree_deleted' = {}
    BY <1>3, <2>2, ApplyByOperation
  <2>4. Valid' = expected'
    BY <1>3, <2>3 DEF Valid
  <2>5. alive' \cap BelowS = Run(Head(todo), alive \cap BelowS)
    <3>1. Run(Head(todo), alive \cap BelowS) = (alive \cap BelowS) \ box
      BY <2>2, RunByOperation, Zenon
    <3> QED
      BY <2>3, <3>1
  <2>6. Concerns("S", Head(todo)) /\ Head(todo) \in Operations
    BY <2>1, <2>2 DEF Concerns, Operation, Operations
  <2> QED
    BY <2>1, <2>2, <2>3, <2>4, <2>5, <2>6 DEF Leads
<1>4. ASSUME NEW p \in Points, todo = <<Operation("add", {p})>>, "G" \notin tree_deleted,
             p \in BelowF => "F" \notin tree_deleted, expected = Valid \cup {p}
      PROVE  /\ Leads(todo)' /\ alive' \subseteq Points /\ tree_deleted' \subseteq {"F", "G"}
             /\ ~Concerns("S", Head(todo)) => alive' \cap BelowS = alive \cap BelowS
             /\ Concerns("S", Head(todo)) => alive' \cap BelowS = Run(Head(todo), alive \cap BelowS)
             /\ Head(todo).op = "add" /\ Head(todo) \in Operations
  <2>1. Head(todo) = Operation("add", {p}) /\ Tail(todo) = <<>>
    BY <1>4, FirstAndRest
  <2>2. Head(todo).op = "add" /\ Head(todo).points = {p}
    <3>1. Operation("add", {p}).op = "add" /\ Operation("add", {p}).points = {p}
      BY OperationFields
    <3> QED
      BY ONLY <2>1, <3>1
  <2>3. alive' = alive \cup {p} /\ tree_deleted' = tree_deleted
    BY <2>2, ApplyByOperation
  <2>4. Valid' = expected'
    BY <1>4, <2>3 DEF Valid
  <2>5. Concerns("S", Head(todo)) <=> p \in BelowS
    BY <2>2 DEF Concerns, Below
  <2>6. Run(Head(todo), alive \cap BelowS) = (alive \cap BelowS) \cup {p}
    BY <2>2, RunByOperation, Zenon
  <2>7. Head(todo) \in Operations
    <3>1. {p} \in SUBSET Points
      OBVIOUS
    <3> QED
      BY <2>1, <3>1, OperationFields, Zenon
  <2>8. p \in BelowS => alive' \cap BelowS = (alive \cap BelowS) \cup {p}
    BY <2>3
  <2>9. p \notin BelowS => alive' \cap BelowS = alive \cap BelowS
    BY <2>3
  <2> QED
    BY <2>1, <2>2, <2>3, <2>4, <2>5, <2>6, <2>7, <2>8, <2>9 DEF Leads
<1>5. CASE \E box \in SUBSET Points :
              /\ todo = <<Operation("delete", box)>> /\ tree_deleted = {}
              /\ expected = alive \ (box \cap BelowS)
  BY <1>3, <1>5
<1>6. CASE \E p \in Points :
              /\ todo = <<Operation("add", {p})>>
              /\ "G" \notin tree_deleted /\ (p \in BelowF => "F" \notin tree_deleted)
              /\ expected = Valid \cup {p}
  BY <1>4, <1>6
<1> QED
  BY <1>1, <1>2, <1>5, <1>6, NextToDo, Zenon

LEMMA VisitingKeepsSet ==
  ASSUME SetStands, Visit
  PROVE  SetStands'
<1> DEFINE o == Head(todo)
<1>1. /\ step = "run" /\ todo # <<>> /\ UNCHANGED <<path, expected>>
      /\ UNCHANGED <<Rebuild_Logger, rebuild_flag, rebuilding, held, copy>>
  BY DEF Visit, rebuildVars
<1>2. Leads(todo) /\ SetTypes
  BY <1>1 DEF SetStands, OperationLeads
<1>3. CASE /\ Concerns("S", o) /\ Rebuild_Ptr = "S"
           /\ step' = IF o.op = "range" THEN "guarded" ELSE "lock S"
           /\ UNCHANGED <<todo, treeVars, Rebuild_Ptr>>
  <2>1. UNCHANGED <<alive, tree_deleted>> /\ Valid' = Valid
    BY <1>3 DEF treeVars, Valid
  <2>2. Leads(todo)'
    BY <1>1, <1>2, <1>3, <2>1 DEF Leads
  <2>3. o.op = "range" => todo = <<SearchRange>>
    BY <1>1, <1>2, RangeStandsAlone
  <2>4. o = SearchRange => o.op = "range"
    BY OperationFields
  <2>5. OperationLeads'
    BY <1>3, <2>2 DEF OperationLeads
  <2>6. OperationWaits'
    BY <1>1, <1>3, <2>3, <2>4 DEF SetStands, OperationWaits
  <2>7. SetTypes'
    BY <1>1, <1>2, <1>3, <2>1 DEF SetTypes
  <2> QED
    BY <1>1, <1>3, <2>1, <2>5, <2>6, <2>7, CopyUndisturbed DEF SetStands
<1>4. CASE /\ ~(Concerns("S", o) /\ Rebuild_Ptr = "S")
           /\ Apply(o) /\ todo' = Tail(todo) /\ step' = step
           /\ \/ UNCHANGED Rebuild_Ptr
              \/ Rebuild_Ptr = "none" /\ rebuilding = "no" /\ Rebuild_Ptr' = "S"
  <2>1. /\ Leads(todo)' /\ alive' \subseteq Points /\ tree_deleted' \subseteq {"F", "G"}
        /\ o.op = "range" \/ ~Concerns("S", o) => alive' \cap BelowS = alive \cap BelowS
    BY <1>1, <1>2, <1>4, ApplyingLeads
  <2>2. Leads(todo)'
    BY <1>4, <2>1 DEF Leads
  <2>3. Rebuild_Ptr = "G" => /\ UNCHANGED <<alive, tree_deleted>>
                             /\ todo' = <<>> /\ path' = {}
    <3>1. Rebuild_Ptr = "G" => todo = <<SearchRange>> /\ path = {}
      BY <1>1 DEF SetStands, OperationWaits
    <3>2. todo = <<SearchRange>> => o.op = "range" /\ Tail(todo) = <<>>
      BY OperationFields, FirstAndRest
    <3> QED
      BY <1>1, <1>4, <3>1, <3>2, ApplyByOperation
  <2>4. OperationLeads'
    BY <1>1, <1>4, <2>2 DEF OperationLeads
  <2>5. OperationWaits'
    BY <1>1, <1>4, <2>3 DEF SetStands, OperationWaits
  <2>6. SetTypes'
    BY <1>1, <1>2, <1>4, <2>1 DEF SetTypes
  <2> QED
    BY <1>1, <1>4, <2>1, <2>3, <2>4, <2>5, <2>6, CopyUndisturbed DEF SetStands
<1> QED
  BY <1>3, <1>4 DEF Visit

LEMMA LockedKeepsSet ==
  ASSUME SetStands, VisitLocked
  PROVE  SetStands'
<1> DEFINE o == Head(todo)
<1>1. /\ ~held /\ Log(o) /\ todo' = Tail(todo)
      /\ UNCHANGED <<path, expected, Rebuild_Ptr, rebuild_flag, rebuilding, held, copy>>
  BY DEF VisitLocked, rebuildVars
<1>2. SetTypes
  BY DEF SetStands
<1>3. ASSUME o \in Operations
      PROVE  /\ LogIsHeard' /\ Rebuild_Logger' \in Seq(Operations)
             /\ rebuilding \in {"flattened", "build", "built", "swap"} =>
                  CaughtUp(Rebuild_Logger', copy') = Run(o, CaughtUp(Rebuild_Logger, copy))
  <2>1. rebuild_flag => Rebuild_Logger' = Append(Rebuild_Logger, o)
    BY <1>1 DEF Log
  <2>2. ~rebuild_flag => Rebuild_Logger' = Rebuild_Logger
    BY <1>1 DEF Log
  <2>3. LogIsHeard'
    BY <1>1, <2>2 DEF SetStands, LogIsHeard
  <2>4. Rebuild_Logger' \in Seq(Operations)
    <3>1. Rebuild_Logger \in Seq(Operations) /\ rebuild_flag \in BOOLEAN
      BY <1>2 DEF SetTypes
    <3>2. Append(Rebuild_Logger, o) \in Seq(Operations)
      BY <1>3, <3>1
    <3> QED
      BY <2>1, <2>2, <3>1, <3>2
  <2>5. rebuilding \in {"flattened", "build", "built", "swap"} => rebuild_flag
    BY DEF SetStands, LogIsHeard
  <2> HIDE DEF o
  <2>6. CaughtUp(Append(Rebuild_Logger, o), copy) = Run(o, CaughtUp(Rebuild_Logger, copy))
    BY <1>2, <1>3, LoggedIsMissed DEF SetTypes
  <2> QED
    BY <1>1, <2>1, <2>3, <2>4, <2>5, <2>6
<1>4. CASE step = "lock S" /\ step' = "run" /\ Apply(o)
  <2>1. Leads(todo) /\ todo # <<>> /\ Concerns("S", o) /\ o # SearchRange /\ Rebuild_Ptr # "G"
    BY <1>4 DEF SetStands, OperationLeads, OperationWaits
  <2>2. o.op # "range"
    <3>1. o.op = "range" => todo = <<SearchRange>>
      BY <2>1, RangeStandsAlone
    <3> QED
      BY <2>1, <3>1, FirstAndRest
  <2>3. /\ Leads(todo)' /\ alive' \subseteq Points /\ tree_deleted' \subseteq {"F", "G"}
        /\ alive' \cap BelowS = Run(o, alive \cap BelowS) /\ o \in Operations
    BY <1>1, <1>2, <1>4, <2>1, <2>2, ApplyingLeads
  <2>4. Leads(todo)'
    BY <1>1, <2>3 DEF Leads
  <2>5. CopyCatchesUp'
    BY <1>1, <1>3, <2>1, <2>3 DEF SetStands, CopyCatchesUp
  <2>6. OperationLeads' /\ OperationWaits'
    BY <1>1, <1>4, <2>1, <2>4 DEF SetStands, OperationLeads, OperationWaits
  <2>7. SetTypes'
    BY <1>1, <1>2, <1>3, <1>4, <2>3 DEF SetTypes
  <2> QED
    BY <1>3, <2>3, <2>5, <2>6, <2>7 DEF SetStands
<1>5. CASE /\ step = "lock G" /\ step' = "idle"
           /\ alive' = Run(o, Valid) /\ tree_deleted' = {}
  <2>1. o \in Operations /\ o.op # "push_down" /\ expected = Run(o, Valid) /\ Rebuild_Ptr # "S"
    <3>1. ASSUME NEW p, todo = <<p>>
          PROVE  o = p
      BY <3>1
    <3> QED
      BY <1>5, <3>1 DEF SetStands, OperationLeads, OperationWaits
  <2>2. Valid' = expected'
    BY <1>1, <1>5, <2>1 DEF Valid
  <2>3. alive' \subseteq Points
    BY <1>5, <1>2, <2>1 DEF SetTypes
  <2>4. rebuilding \in {"flattened", "build", "built", "swap"} /\ Rebuild_Ptr = "G" => Valid = alive
    BY DEF SetStands, CopyCatchesUp, Valid
  <2>5. CopyCatchesUp'
    BY <1>1, <1>3, <1>5, <2>1, <2>4 DEF SetStands, CopyCatchesUp
  <2>6. OperationLeads' /\ OperationWaits'
    BY <1>1, <1>5, <2>1, <2>2 DEF SetStands, OperationLeads, OperationWaits
  <2>7. SetTypes'
    BY <1>1, <1>2, <1>3, <1>5, <2>1, <2>3 DEF SetTypes
  <2> QED
    BY <1>3, <2>1, <2>5, <2>6, <2>7 DEF SetStands
<1> QED
  BY <1>4, <1>5 DEF VisitLocked

LEMMA ReturningKeepsSet ==
  ASSUME SetStands, RangeSearched \/ Update \/ Return, ~spoilt'
  PROVE  SetStands'
<1>1. /\ UNCHANGED <<alive, tree_deleted, expected>> /\ Valid' = Valid
      /\ UNCHANGED <<Rebuild_Logger, rebuild_flag, rebuilding, held, copy>>
      /\ Rebuild_Ptr' = Rebuild_Ptr \/ (rebuilding = "no" /\ Rebuild_Ptr' = "G" /\ step' = "idle")
  BY DEF RangeSearched, Update, Return, treeVars, rebuildVars, Valid
<1>2. CASE RangeSearched
  <2>1. /\ step = "guarded" /\ step' = "run" /\ todo = <<SearchRange>> /\ todo' = Tail(todo)
        /\ Rebuild_Ptr = "S" /\ Rebuild_Ptr' = "S" /\ Leads(todo)
    BY <1>2 DEF RangeSearched, SetStands, OperationLeads, OperationWaits
  <2>2. todo' = <<>>
    BY <2>1
  <2>3. Valid = expected
    <3>1. ASSUME Leads(<<SearchRange>>)
          PROVE  Valid = expected
      BY <3>1 DEF Leads, SearchRange, Push_Down, Operation
    <3> QED
      BY <2>1, <3>1
  <2>4. OperationLeads'
    BY <1>1, <2>1, <2>2, <2>3 DEF OperationLeads, Leads
  <2>5. OperationWaits' /\ SetTypes'
    BY <1>1, <2>1 DEF SetStands, OperationWaits, SetTypes
  <2> QED
    BY <1>1, <2>4, <2>5, CopyUndisturbed DEF SetStands
<1>3. CASE Update
  <2>1. step = "run" /\ step' = "update" /\ todo = <<>> /\ Leads(todo) /\ UNCHANGED <<path, Rebuild_Ptr>>
    BY <1>3 DEF Update, SetStands, OperationLeads
  <2>2. Valid = expected
    <3>1. ASSUME Leads(<<>>)
          PROVE  Valid = expected
      BY <3>1 DEF Leads
    <3> QED
      BY <2>1, <3>1
  <2>3. OperationLeads'
    BY <1>1, <2>1, <2>2 DEF OperationLeads
  <2>4. OperationWaits' /\ SetTypes'
    BY <1>1, <2>1 DEF SetStands, OperationWaits, SetTypes
  <2> QED
    BY <1>1, <2>1, <2>3, <2>4, CopyUndisturbed DEF SetStands
<1>4. CASE Return
  <2>1. step = "update" /\ step' = "idle" /\ Valid = expected
    BY <1>4 DEF Return, SetStands, OperationLeads
  <2>2. OperationLeads'
    BY <1>1, <2>1 DEF OperationLeads
  <2>3. OperationWaits' /\ SetTypes'
    BY <1>1, <2>1 DEF SetStands, OperationWaits, SetTypes
  <2> QED
    BY <1>1, <2>2, <2>3, CopyUndisturbed DEF SetStands
<1> QED
  BY <1>2, <1>3, <1>4

LEMMA SetInvKept == SetInv /\ [IkdNext]_ikdVars => SetInv'
<1> SUFFICES ASSUME SetInv, [IkdNext]_ikdVars, ~spoilt'
             PROVE  SetStands'
  BY DEF SetInv
<1>1. CASE MappingThread \/ UNCHANGED ikdVars \/ \E s \in Searchers : Search(s)
  <2>1. spoilt' = spoilt \/ spoilt' = (spoilt \/ ReadsDeleted)
    BY <1>1 DEF ikdVars, rebuildVars, MappingThread, DeletePointBox, AddPoint, Begin, RangeSearch,
           Proceed, Visit, VisitLocked, RangeSearched, Update, Return, BeginSearch, EndSearch, Search,
           ReadBox, Ask, Count, Moves
  <2>2. SetStands
    BY <2>1 DEF SetInv
  <2>3. CASE (\E s \in Searchers : Search(s)) \/ BeginSearch \/ EndSearch \/ UNCHANGED ikdVars
    <3>1. /\ UNCHANGED <<alive, tree_deleted, copy, expected, todo, path, Rebuild_Ptr,
                         Rebuild_Logger, rebuild_flag, rebuilding, held>>
          /\ step' = step \/ {step, step'} \subseteq {"idle", "search"}
      BY <2>3 DEF Search, ReadBox, Ask, Count, Moves, BeginSearch, EndSearch, ikdVars, treeVars, mainVars, rebuildVars
    <3> QED
      BY <2>2, <3>1, SearchingKeepsSet
  <2>4. CASE \E box \in Boxes : DeletePointBox(box)
    BY <2>2, <2>4, DeletingKeepsSet
  <2>5. CASE \E p \in Points : AddPoint(p)
    BY <2>2, <2>5, AddingKeepsSet
  <2>6. CASE RangeSearch
    BY <2>2, <2>6, RangingKeepsSet
  <2>7. CASE Proceed
    BY <2>2, <2>7, VisitingKeepsSet, LockedKeepsSet, ReturningKeepsSet DEF Proceed
  <2> QED
    BY <1>1, <2>3, <2>4, <2>5, <2>6, <2>7 DEF MappingThread
<1>2. CASE RebuildThread
  <2>1. ~spoilt
    BY <1>2 DEF RebuildThread, TakeLocks, LockSearch, Flatten, Unlock, Replay, Replayed, Swap,
           Release, ResetFlag, DeleteTreeNodes
  <2> QED
    BY <1>2, <2>1, RebuildKeepsSet DEF SetInv
<1> QED
  BY <1>1, <1>2 DEF IkdNext

\* TreeIsSet: between two operations the tree holds what has been added and not
\* deleted since, whatever a rebuild is doing (multi_thread_rebuild), however
\* deletions have been pushed down (Push_Down) and however long the log is.
THEOREM TreeHoldsItsSet == IkdSpec => []TreeIsSet
<1>1. SetInv => TreeIsSet
  BY DEF SetInv, SetStands, OperationLeads, TreeIsSet
<1> QED
  BY SetInvInit, SetInvKept, <1>1, PTL DEF IkdSpec

-----------------------------------------------------------------------------
(* The cube of the local map                                                *)

\* A shift is at least half the detection range, and not so long that it
\* brings the robot near the other side.
LEMMA MovDistBounds ==
  /\ Threshold \in Nat /\ MovDist \in Int
  /\ MovDist >= HalfRange
  /\ CubeLen - Threshold - MovDist >= HalfRange
<1> DEFINE span  == CubeLen - 2 * Threshold
           share == (9 * span) \div 20
<1>1. HalfRange \in Nat /\ HalfRange >= 1 /\ CubeLen \in Nat /\ CubeLen > 2 * Threshold
  BY LocalMapAssumption
<1>2. Threshold \in Nat /\ Threshold >= HalfRange + HalfRange
  BY <1>1 DEF Threshold
<1>3. span \in Nat
  BY <1>1, <1>2
<1>4. share \in Int /\ 20 * share <= 9 * span
  BY <1>3
<1>5. CASE share > HalfRange
  <2>1. MovDist = share
    BY <1>5 DEF MovDist
  <2>2. CubeLen - Threshold - share >= HalfRange
    <3> HIDE DEF share
    <3>1. share <= span
      BY <1>3, <1>4
    <3> QED
      BY <3>1, <1>1, <1>2, <1>4
  <2> HIDE DEF share
  <2> QED
    BY <2>1, <2>2, <1>1, <1>2, <1>4, <1>5
<1>6. CASE ~(share > HalfRange)
  <2>1. MovDist = HalfRange
    BY <1>6 DEF MovDist
  <2> QED
    BY <2>1, <1>1, <1>2
<1> QED
  BY <1>5, <1>6

\* What a scan does to an axis.
LEMMA ShiftKeepsInside ==
  ASSUME NEW p \in Int, NEW q \in Int, NEW v \in Int,
         q - p \in -MaxStep .. MaxStep,
         p - v >= HalfRange, v + CubeLen - p >= HalfRange,
         NEW w,
         w = v + (IF q - v \in -Threshold .. Threshold THEN -MovDist
                  ELSE IF v + CubeLen - q \in -Threshold .. Threshold THEN MovDist ELSE 0)
  PROVE  w \in Int /\ q - w >= HalfRange /\ w + CubeLen - q >= HalfRange
<1>1. /\ HalfRange \in Nat /\ HalfRange >= 1 /\ CubeLen \in Nat
      /\ MaxStep \in Nat /\ MaxStep <= HalfRange
  BY LocalMapAssumption
<1>2. /\ Threshold \in Nat /\ MovDist \in Int /\ MovDist >= HalfRange
      /\ CubeLen - Threshold - MovDist >= HalfRange
  BY MovDistBounds
<1>3. Threshold >= HalfRange
  BY <1>1 DEF Threshold
<1>4. q - v >= 0 /\ v + CubeLen - q >= 0
  BY <1>1
<1>5. CASE q - v <= Threshold
  <2>1. w = v - MovDist
    BY <1>2, <1>4, <1>5
  <2> QED
    BY <2>1, <1>1, <1>2, <1>4, <1>5
<1>6. CASE q - v > Threshold /\ v + CubeLen - q <= Threshold
  <2>1. w = v + MovDist
    BY <1>1, <1>2, <1>4, <1>6
  <2> QED
    BY <2>1, <1>1, <1>2, <1>4, <1>6
<1>7. CASE q - v > Threshold /\ v + CubeLen - q > Threshold
  <2>1. w = v
    BY <1>1, <1>2, <1>4, <1>7
  <2> QED
    BY <2>1, <1>1, <1>2, <1>3, <1>7
<1> QED
  BY <1>1, <1>2, <1>5, <1>6, <1>7

Inside == MapTypeOK /\ RobotWellInside

LEMMA InsideInit == MapInit => Inside
<1> SUFFICES ASSUME MapInit PROVE Inside
  OBVIOUS
<1>1. MapTypeOK
  <2>1. [a \in Axis |-> 0] \in [Axis -> Int]
    OBVIOUS
  <2>2. {} \subseteq [min : [Axis -> Int], max : [Axis -> Int]]
    OBVIOUS
  <2> QED
    BY <2>1, <2>2, Zenon DEF MapInit, MapTypeOK
<1>2. RobotWellInside
  BY DEF MapInit, RobotWellInside
<1> QED
  BY <1>1, <1>2 DEF Inside

\* The first scan puts the cube around the robot.
LEMMA FirstScan ==
  ASSUME Inside, NEW pos \in [Axis -> Int], LasermapFovSegment(pos), ~Localmap_Initialized
  PROVE  Inside'
<1>1. HalfRange \in Nat /\ CubeLen \in Nat /\ CubeLen % 2 = 0 /\ CubeLen > 6 * HalfRange
  BY LocalMapAssumption DEF Threshold
<1>2. /\ CubeLen \div 2 \in Int /\ CubeLen = 2 * (CubeLen \div 2)
  BY <1>1
<1>3. /\ pos_LiD' = pos /\ Localmap_Initialized' = TRUE /\ cub_needrm' = {}
      /\ vertex_min' = [a \in Axis |-> pos[a] - CubeLen \div 2]
  BY DEF LasermapFovSegment
<1>4. MapTypeOK'
  BY <1>2, <1>3 DEF MapTypeOK
<1>5. ASSUME NEW a \in Axis
      PROVE  /\ pos[a] - vertex_min'[a] >= HalfRange
             /\ vertex_min'[a] + CubeLen - pos[a] >= HalfRange
  <2>1. vertex_min'[a] = pos[a] - CubeLen \div 2 /\ pos[a] \in Int
    BY <1>3
  <2> DEFINE half == CubeLen \div 2
  <2>2. half \in Int /\ CubeLen = 2 * half /\ vertex_min'[a] = pos[a] - half
    BY <1>2, <2>1
  <2> HIDE DEF half
  <2> QED
    BY <1>1, <2>1, <2>2
<1> QED
  BY <1>3, <1>4, <1>5 DEF Inside, RobotWellInside

\* Any later scan.
LEMMA LaterScan ==
  ASSUME Inside, NEW pos \in [Axis -> Int], LasermapFovSegment(pos), Localmap_Initialized,
         \A a \in Axis : pos[a] - pos_LiD[a] \in -MaxStep .. MaxStep
  PROVE  Inside'
<1> DEFINE to == Shifted(pos)
<1>1. /\ pos_LiD' = pos /\ Localmap_Initialized' = TRUE /\ vertex_min' = to
      /\ cub_needrm' = {LeftOn(to, a) : a \in {b \in Axis : to[b] # vertex_min[b]}}
  BY DEF LasermapFovSegment
<1>2. ASSUME NEW a \in Axis
      PROVE  /\ to[a] \in Int
             /\ pos[a] - to[a] >= HalfRange /\ to[a] + CubeLen - pos[a] >= HalfRange
  <2>1. pos_LiD[a] \in Int /\ pos[a] \in Int /\ vertex_min[a] \in Int
    BY DEF Inside, MapTypeOK
  <2>2. /\ pos_LiD[a] - vertex_min[a] >= HalfRange
        /\ vertex_min[a] + CubeLen - pos_LiD[a] >= HalfRange
        /\ pos[a] - pos_LiD[a] \in -MaxStep .. MaxStep
    BY DEF Inside, RobotWellInside
  <2>3. to[a] = vertex_min[a]
                + (IF pos[a] - vertex_min[a] \in -Threshold .. Threshold THEN -MovDist
                   ELSE IF vertex_min[a] + CubeLen - pos[a] \in -Threshold .. Threshold
                        THEN MovDist ELSE 0)
    BY DEF Shifted, NearMin, NearMax
  <2> HIDE DEF to
  <2> QED
    BY <2>1, <2>2, <2>3, ShiftKeepsInside
<1>3. to \in [Axis -> Int]
  <2>1. to = [a \in Axis |-> to[a]]
    BY DEF Shifted
  <2> HIDE DEF to
  <2> QED
    BY <2>1, <1>2
<1>4. ASSUME NEW a \in Axis
      PROVE  LeftOn(to, a) \in [min : [Axis -> Int], max : [Axis -> Int]]
  <2> HIDE DEF to
  <2>1. CubeLen \in Int /\ vertex_min \in [Axis -> Int]
    BY LocalMapAssumption DEF Inside, MapTypeOK
  <2>2. /\ Cube(vertex_min).min \in [Axis -> Int] /\ Cube(vertex_min).max \in [Axis -> Int]
        /\ Cube(vertex_min) = Box(Cube(vertex_min).min, Cube(vertex_min).max)
    BY <2>1 DEF Cube, Box
  <2> DEFINE min == Cube(vertex_min).min
             max == Cube(vertex_min).max
  <2>3. to[a] \in Int /\ to[a] + CubeLen \in Int
    BY <1>3, <2>1
  <2>4. \/ LeftOn(to, a) = Box([min EXCEPT ![a] = to[a] + CubeLen], max)
        \/ LeftOn(to, a) = Box(min, [max EXCEPT ![a] = to[a]])
    BY Zenon DEF LeftOn, Cube, Box
  <2> HIDE DEF min, max
  <2>5. /\ [min EXCEPT ![a] = to[a] + CubeLen] \in [Axis -> Int]
        /\ [max EXCEPT ![a] = to[a]] \in [Axis -> Int]
    BY <2>2, <2>3 DEF min, max
  <2> QED
    BY <2>2, <2>4, <2>5 DEF Box, min, max
<1>5. MapTypeOK'
  <2> HIDE DEF to
  <2> QED
    BY <1>1, <1>3, <1>4 DEF MapTypeOK
<1>6. RobotWellInside'
  <2> HIDE DEF to
  <2> QED
    BY <1>1, <1>2 DEF RobotWellInside
<1> QED
  BY <1>5, <1>6 DEF Inside

LEMMA InsideKept == Inside /\ [MapNext]_mapVars => Inside'
<1> SUFFICES ASSUME Inside, [MapNext]_mapVars
             PROVE  Inside'
  OBVIOUS
<1>1. CASE MapNext
  <2>1. PICK pos \in [Axis -> -MaxPos .. MaxPos] :
          /\ \A a \in Axis : pos[a] - pos_LiD[a] \in -MaxStep .. MaxStep
          /\ LasermapFovSegment(pos)
    BY <1>1 DEF MapNext
  <2>2. pos \in [Axis -> Int]
    BY LocalMapAssumption
  <2> QED
    BY <2>1, <2>2, FirstScan, LaterScan
<1>2. CASE UNCHANGED mapVars
  BY <1>2 DEF mapVars, Inside, MapTypeOK, RobotWellInside
<1> QED
  BY <1>1, <1>2

\* RobotWellInside: however far the robot goes, after a scan no side of the
\* cube is nearer to it than half the detection range, so lasermap_fov_segment
\* never loses it beyond a side, where its absolute distances would see nothing.
THEOREM RobotStaysWellInside == MapSpec => []RobotWellInside
<1>1. Inside => RobotWellInside
  BY DEF Inside
<1> QED
  BY InsideInit, InsideKept, <1>1, PTL DEF MapSpec

\* The sides of what the cube leaves along an axis.
LEMMA LeftOnSides ==
  ASSUME vertex_min \in [Axis -> Int], NEW to \in [Axis -> Int], NEW a \in Axis, NEW b \in Axis
  PROVE  /\ LeftOn(to, a).min[b] = IF b = a /\ to[a] < vertex_min[a] THEN to[a] + CubeLen
                                   ELSE vertex_min[b]
         /\ LeftOn(to, a).max[b] = IF b = a /\ ~(to[a] < vertex_min[a]) THEN to[a]
                                   ELSE vertex_min[b] + CubeLen
<1> DEFINE min == vertex_min
           max == [c \in Axis |-> vertex_min[c] + CubeLen]
<1>1. Cube(vertex_min) = Box(min, max)
  BY DEF Cube
<1>2. /\ [min EXCEPT ![a] = to[a] + CubeLen][b] = IF b = a THEN to[a] + CubeLen ELSE vertex_min[b]
      /\ [max EXCEPT ![a] = to[a]][b] = IF b = a THEN to[a] ELSE vertex_min[b] + CubeLen
      /\ max[b] = vertex_min[b] + CubeLen
  OBVIOUS
<1> HIDE DEF max
<1>3. CASE to[a] < vertex_min[a]
  <2>1. /\ LeftOn(to, a).min = [min EXCEPT ![a] = to[a] + CubeLen]
        /\ LeftOn(to, a).max = max
    BY <1>1, <1>3 DEF LeftOn, Box
  <2> QED
    BY <1>2, <1>3, <2>1
<1>4. CASE ~(to[a] < vertex_min[a])
  <2>1. /\ LeftOn(to, a).min = min
        /\ LeftOn(to, a).max = [max EXCEPT ![a] = to[a]]
    BY <1>1, <1>4 DEF LeftOn, Box
  <2> QED
    BY <1>2, <1>4, <2>1
<1> QED
  BY <1>3, <1>4

\* The cube is shifted by less than its length.
LEMMA ShiftedALittle ==
  ASSUME vertex_min \in [Axis -> Int], NEW pos \in [Axis -> Int], NEW a \in Axis
  PROVE  /\ Shifted(pos) \in [Axis -> Int]
         /\ Shifted(pos)[a] > vertex_min[a] - CubeLen
         /\ Shifted(pos)[a] < vertex_min[a] + CubeLen
<1>1. MovDist \in Int /\ CubeLen \in Int /\ MovDist > 0 /\ MovDist < CubeLen
  <2>1. /\ HalfRange \in Nat /\ HalfRange >= 1 /\ CubeLen \in Nat
        /\ Threshold \in Nat /\ MovDist \in Int
        /\ MovDist >= HalfRange /\ CubeLen - Threshold - MovDist >= HalfRange
    BY MovDistBounds, LocalMapAssumption
  <2> QED
    BY <2>1
<1>2. ASSUME NEW b \in Axis
      PROVE  /\ Shifted(pos)[b] \in Int
             /\ Shifted(pos)[b] > vertex_min[b] - CubeLen
             /\ Shifted(pos)[b] < vertex_min[b] + CubeLen
  <2>1. Shifted(pos)[b] \in {vertex_min[b] - MovDist, vertex_min[b] + MovDist, vertex_min[b]}
    <3>1. PICK s \in {-MovDist, MovDist, 0} : Shifted(pos)[b] = vertex_min[b] + s
      BY DEF Shifted
    <3> QED
      BY <1>1, <3>1
  <2>2. vertex_min[b] \in Int
    OBVIOUS
  <2> QED
    BY <1>1, <2>1, <2>2
<1>3. Shifted(pos) = [b \in Axis |-> Shifted(pos)[b]]
  BY DEF Shifted
<1> QED
  BY <1>2, <1>3

\* DeletesWhatItLeaves, for any point: it is deleted if and only if it is in the
\* cube and in the shifted one no more (laserMapping.cpp, lasermap_fov_segment).
LEMMA DeletedAreLeft ==
  ASSUME vertex_min \in [Axis -> Int], NEW to \in [Axis -> Int],
         CubeLen \in Int, CubeLen > 0,
         \A a \in Axis : to[a] > vertex_min[a] - CubeLen /\ to[a] < vertex_min[a] + CubeLen,
         NEW p \in [Axis -> Int]
  PROVE  (\E a \in Axis : to[a] # vertex_min[a] /\ Within(LeftOn(to, a), p))
           <=> Within(Cube(vertex_min), p) /\ ~Within(Cube(to), p)
<1>1. ASSUME NEW min \in [Axis -> Int], NEW b \in Axis
      PROVE  Cube(min).min[b] = min[b] /\ Cube(min).max[b] = min[b] + CubeLen
  BY DEF Cube, Box
<1>2. ASSUME NEW a \in Axis, to[a] # vertex_min[a], Within(LeftOn(to, a), p)
      PROVE  Within(Cube(vertex_min), p) /\ ~Within(Cube(to), p)
  <2>1. ASSUME NEW b \in Axis
        PROVE  p[b] \in LeftOn(to, a).min[b] .. LeftOn(to, a).max[b] - 1
    BY <1>2 DEF Within
  <2>2. ASSUME NEW b \in Axis
        PROVE  p[b] \in vertex_min[b] .. vertex_min[b] + CubeLen - 1
    <3>1. p[b] \in Int /\ vertex_min[b] \in Int /\ to[b] \in Int
      OBVIOUS
    <3> QED
      BY <2>1, <3>1, LeftOnSides
  <2>3. p[a] \notin to[a] .. to[a] + CubeLen - 1
    <3>1. p[a] \in Int /\ vertex_min[a] \in Int /\ to[a] \in Int
      OBVIOUS
    <3> QED
      BY <1>2, <2>1, <3>1, LeftOnSides
  <2> QED
    BY <1>1, <2>2, <2>3 DEF Within
<1>3. ASSUME Within(Cube(vertex_min), p), ~Within(Cube(to), p)
      PROVE  \E a \in Axis : to[a] # vertex_min[a] /\ Within(LeftOn(to, a), p)
  <2>1. ASSUME NEW b \in Axis
        PROVE  p[b] \in vertex_min[b] .. vertex_min[b] + CubeLen - 1
    BY <1>1, <1>3 DEF Within
  <2>2. PICK a \in Axis : p[a] \notin to[a] .. to[a] + CubeLen - 1
    BY <1>1, <1>3 DEF Within
  <2>3. /\ p[a] \in Int /\ vertex_min[a] \in Int /\ to[a] \in Int
        /\ p[a] >= vertex_min[a] /\ p[a] < vertex_min[a] + CubeLen
        /\ p[a] < to[a] \/ p[a] >= to[a] + CubeLen
    BY <2>1, <2>2
  <2>4. to[a] # vertex_min[a]
    BY <2>3
  <2>5. ASSUME NEW b \in Axis
        PROVE  p[b] \in LeftOn(to, a).min[b] .. LeftOn(to, a).max[b] - 1
    <3>1. CASE b = a
      BY <2>3, <2>4, <3>1, LeftOnSides
    <3>2. CASE b # a
      BY <2>1, <3>2, LeftOnSides
    <3> QED
      BY <3>1, <3>2
  <2> QED
    BY <2>4, <2>5 DEF Within
<1> QED
  BY <1>2, <1>3

\* DeletesWhatItLeaves: the boxes that are deleted when the cube is shifted, one
\* for each axis, are together what it leaves, corners included, for any number of
\* axes shifted at once.
THEOREM WhatIsLeftIsDeleted == MapSpec => DeletesWhatItLeaves
<1>1. Inside /\ [MapNext]_mapVars =>
        [Localmap_Initialized /\ vertex_min' # vertex_min =>
           \A p \in [Axis -> BesideSides] :
             (\E box \in cub_needrm' : Within(box, p))
               <=> Within(Cube(vertex_min), p) /\ ~Within(Cube(vertex_min'), p)]_mapVars
  <2> SUFFICES ASSUME Inside, MapNext, Localmap_Initialized
               PROVE  \A p \in [Axis -> BesideSides] :
                        (\E box \in cub_needrm' : Within(box, p))
                          <=> Within(Cube(vertex_min), p) /\ ~Within(Cube(vertex_min'), p)
    OBVIOUS
  <2> TAKE p \in [Axis -> BesideSides]
  <2>1. PICK pos \in [Axis -> Int] : LasermapFovSegment(pos)
    <3>1. PICK pos \in [Axis -> -MaxPos .. MaxPos] : LasermapFovSegment(pos)
      BY DEF MapNext
    <3> QED
      BY <3>1, LocalMapAssumption
  <2> DEFINE to == Shifted(pos)
  <2>2. /\ vertex_min' = to
        /\ cub_needrm' = {LeftOn(to, a) : a \in {b \in Axis : to[b] # vertex_min[b]}}
    BY <2>1 DEF LasermapFovSegment
  <2>3. vertex_min \in [Axis -> Int] /\ CubeLen \in Int /\ CubeLen > 0
    BY LocalMapAssumption, MovDistBounds DEF Inside, MapTypeOK, Threshold
  <2>4. \A a \in Axis : to[a] > vertex_min[a] - CubeLen /\ to[a] < vertex_min[a] + CubeLen
    BY <2>3, ShiftedALittle
  <2>5. Axis # {} => to \in [Axis -> Int]
    BY <2>3, ShiftedALittle
  <2>6. Axis = {} => to \in [Axis -> Int]
    BY DEF Shifted
  <2> HIDE DEF to
  <2>7. p \in [Axis -> Int]
    <3>1. \A min \in {vertex_min, vertex_min'}, a \in Axis : min[a] \in Int
      BY <2>2, <2>3, <2>5, <2>6
    <3>2. \A d \in {-1, 0, CubeLen - 1, CubeLen} : d \in Int
      BY <2>3
    <3>3. BesideSides \subseteq Int
      BY <3>1, <3>2 DEF BesideSides
    <3> QED
      BY <3>3
  <2>8. (\E box \in cub_needrm' : Within(box, p))
          <=> \E a \in Axis : to[a] # vertex_min[a] /\ Within(LeftOn(to, a), p)
    BY <2>2
  <2>9. (\E a \in Axis : to[a] # vertex_min[a] /\ Within(LeftOn(to, a), p))
          <=> Within(Cube(vertex_min), p) /\ ~Within(Cube(to), p)
    BY <2>3, <2>4, <2>5, <2>6, <2>7, DeletedAreLeft
  <2>10. Cube(vertex_min') = Cube(to)
    BY <2>2
  <2> QED
    BY <2>8, <2>9, <2>10
<1> QED
  BY InsideInit, InsideKept, <1>1, PTL DEF MapSpec, DeletesWhatItLeaves

-----------------------------------------------------------------------------
(* The global localisation: whose pose stands                               *)

\* A lock is held by who is between taking it and giving it back.
LocksHeld ==
  /\ lock_mat_odom2map = "pose" <=> pose_step = "writing"
  /\ lock_mat_odom2map = "thread" <=> thread_step \in {"registering", "unlocking"}

\* What the registration began with is still what stands when it ends: only
\* the copy of the first pose writes without the lock.
RegistrationOfWhatStands ==
  thread_step \in {"registering", "unlocking"} => mat_odom2map.id = reg_matrix

\* A pose given before the thread registers is not counted; one given after
\* that is the one that stands, or is being written.
GivenStands ==
  /\ given # Unset => thread_step \notin {"start", "copying"}
  /\ given # Unset /\ lock_mat_odom2map # "pose" => mat_odom2map.id = given
  /\ given # Unset /\ lock_mat_odom2map = "pose" => initialpose = given

\* Two registrations that fit end the initialisation, and none that does not
\* fit is taken over afterwards.
FitWhenInitialized ==
  /\ loc_initialized => thread_step \notin {"start", "copying", "initialized"}
  /\ (loc_initialized \/ thread_step = "initialized") /\ lock_mat_odom2map # "pose"
       => mat_odom2map.by \in {"fit", "operator"}

PoseInv ==
  LocksHeld /\ RegistrationOfWhatStands /\ GivenStands /\ FitWhenInitialized

LEMMA PoseInvInit == ASSUME LocInit PROVE PoseInv
BY DEF LocInit, PoseInv, LocksHeld, RegistrationOfWhatStands, GivenStands, FitWhenInitialized,
       Matrix, Unset

\* The callbacks of odometry and scans touch neither matrix nor its lock.
LEMMA OthersKeepPose ==
  ASSUME PoseInv,
         UNCHANGED <<pose_step, initialpose, matVars, thread_step, reg_matrix, loc_initialized>>
  PROVE  PoseInv'
BY DEF PoseInv, LocksHeld, RegistrationOfWhatStands, GivenStands, FitWhenInitialized, matVars

LEMMA OperatorKeepsPose ==
  ASSUME PoseInv, CallbackInitialPose
  PROVE  PoseInv'
<1>1. UNCHANGED <<thread_step, reg_matrix, loc_initialized>>
  BY DEF CallbackInitialPose, threadVars, resultVars
<1>2. CASE PoseArrives \/ PoseSet
  BY <1>1, <1>2
     DEF PoseArrives, PoseSet, matVars, PoseInv, LocksHeld, RegistrationOfWhatStands, GivenStands,
         FitWhenInitialized
<1>3. CASE PoseLocks
  <2>1. /\ lock_mat_odom2map = "free" /\ lock_mat_odom2map' = "pose" /\ pose_step' = "writing"
        /\ initialpose' = initialpose
        /\ given' = IF thread_step \in {"start", "copying"} THEN given ELSE initialpose
    BY <1>3 DEF PoseLocks
  <2>2. thread_step \notin {"registering", "unlocking"}
    BY <2>1 DEF PoseInv, LocksHeld
  <2> QED
    BY <1>1, <2>1, <2>2
       DEF PoseInv, LocksHeld, RegistrationOfWhatStands, GivenStands, FitWhenInitialized
<1>4. CASE PoseWritten
  <2>1. /\ pose_step = "writing" /\ pose_step' = "idle" /\ lock_mat_odom2map' = "free"
        /\ mat_odom2map'.id = initialpose /\ mat_odom2map'.by = "operator"
        /\ initialpose' = initialpose /\ given' = given
    BY <1>4 DEF PoseWritten, Matrix
  <2>2. lock_mat_odom2map = "pose" /\ thread_step \notin {"registering", "unlocking"}
    BY <2>1 DEF PoseInv, LocksHeld
  <2> QED
    BY <1>1, <2>1, <2>2
       DEF PoseInv, LocksHeld, RegistrationOfWhatStands, GivenStands, FitWhenInitialized
<1> QED
  BY <1>2, <1>3, <1>4 DEF CallbackInitialPose

LEMMA ThreadKeepsPose ==
  ASSUME PoseInv, Localization
  PROVE  PoseInv'
<1>1. UNCHANGED <<pose_step, initialpose>>
  BY DEF Localization, poseVars
<1>2. CASE CopyBegins \/ CopyEnds
  <2>1. /\ thread_step \in {"start", "copying"} /\ thread_step' \in {"copying", "scan"}
        /\ UNCHANGED <<lock_mat_odom2map, given, loc_initialized>>
    BY <1>2 DEF CopyBegins, CopyEnds, resultVars
  <2>2. given = Unset /\ ~loc_initialized
    BY <2>1 DEF PoseInv, GivenStands, FitWhenInitialized
  <2> QED
    BY <1>1, <2>1, <2>2
       DEF PoseInv, LocksHeld, RegistrationOfWhatStands, GivenStands, FitWhenInitialized
<1>3. CASE NewOdometry \/ CopyScan
  <2>1. /\ thread_step \in {"stamp", "scan"} /\ thread_step' \in {"scan", "locking"}
        /\ UNCHANGED <<mat_odom2map, lock_mat_odom2map, given, reg_matrix, loc_initialized>>
    BY <1>3 DEF NewOdometry, CopyScan, resultVars, matVars
  <2> QED
    BY <1>1, <2>1
       DEF PoseInv, LocksHeld, RegistrationOfWhatStands, GivenStands, FitWhenInitialized
<1>4. CASE RegistrationBegins
  <2>1. /\ thread_step = "locking" /\ thread_step' = "registering"
        /\ lock_mat_odom2map = "free" /\ lock_mat_odom2map' = "thread"
        /\ reg_matrix' = mat_odom2map.id
        /\ UNCHANGED <<mat_odom2map, given, loc_initialized>>
    BY <1>4 DEF RegistrationBegins, resultVars
  <2> QED
    BY <1>1, <2>1
       DEF PoseInv, LocksHeld, RegistrationOfWhatStands, GivenStands, FitWhenInitialized
<1>5. CASE RegistrationEnds
  <2>1. /\ thread_step = "registering" /\ thread_step' = "unlocking"
        /\ mat_odom2map' \in {mat_odom2map, HalfWritten(reg_matrix)}
        /\ UNCHANGED <<lock_mat_odom2map, given, reg_matrix, loc_initialized>>
    BY <1>5 DEF RegistrationEnds
  <2>2. mat_odom2map' = mat_odom2map
    BY <2>1 DEF PoseInv, RegistrationOfWhatStands, HalfWritten
  <2> QED
    BY <1>1, <2>1, <2>2
       DEF PoseInv, LocksHeld, RegistrationOfWhatStands, GivenStands, FitWhenInitialized
<1>6. CASE Unlocked
  <2>1. /\ thread_step = "unlocking" /\ lock_mat_odom2map' = "free"
        /\ thread_step' \in {"stamp", "initialized", "scan"}
        /\ loc_initialized => thread_step' = "stamp"
        /\ thread_step' = "initialized" => ~loc_initialized
        /\ UNCHANGED <<given, loc_initialized>>
    BY <1>6 DEF Unlocked
  <2>2. lock_mat_odom2map = "thread" /\ mat_odom2map.id = reg_matrix
    BY <2>1 DEF PoseInv, LocksHeld, RegistrationOfWhatStands
  <2>3. mat_odom2map'.id = mat_odom2map.id
    BY <1>6, <2>2 DEF Unlocked, Matrix
  <2>4. thread_step' = "initialized" => fitness # "low"
    BY <1>6 DEF Unlocked
  <2>5. loc_initialized \/ thread_step' = "initialized" => mat_odom2map'.by \in {"fit", "operator"}
    <3>1. CASE ~Adopted(fitness)
      <4>1. loc_initialized /\ mat_odom2map' = mat_odom2map
        BY <1>6, <3>1 DEF Unlocked, Adopted
      <4> QED
        BY <2>2, <4>1 DEF PoseInv, FitWhenInitialized
    <3>2. CASE Adopted(fitness) /\ fitness # "low"
      BY <1>6, <3>2 DEF Unlocked, Matrix
    <3>3. CASE Adopted(fitness) /\ fitness = "low"
      BY <2>4, <3>3 DEF Adopted
    <3> QED
      BY <3>1, <3>2, <3>3
  <2> QED
    BY <1>1, <2>1, <2>2, <2>3, <2>5
       DEF PoseInv, LocksHeld, RegistrationOfWhatStands, GivenStands, FitWhenInitialized
<1>7. CASE Initialized
  <2>1. /\ thread_step = "initialized" /\ thread_step' = "stamp" /\ loc_initialized' = TRUE
        /\ UNCHANGED <<mat_odom2map, lock_mat_odom2map, given, reg_matrix>>
    BY <1>7 DEF Initialized, matVars
  <2> QED
    BY <1>1, <2>1
       DEF PoseInv, LocksHeld, RegistrationOfWhatStands, GivenStands, FitWhenInitialized
<1> QED
  BY <1>2, <1>3, <1>4, <1>5, <1>6, <1>7 DEF Localization

\* NoPoseLost: no registration undoes a pose the operator has given since it
\* began, and what the node publishes once it calls itself initialised fits or is
\* his, whatever the order of his callback, the odometry's, the scans' and the
\* thread (global_localization.cpp, CallbackInitialPose and Localization).
THEOREM PosesStand == LocSpec => []NoPoseLost
<1>1. PoseInv /\ [LocNext]_locVars => PoseInv'
  <2> SUFFICES ASSUME PoseInv, [LocNext]_locVars
               PROVE  PoseInv'
    OBVIOUS
  <2>1. CASE CallbackBaselink2Odom \/ CallbackScan \/ UNCHANGED locVars
    BY <2>1, OthersKeepPose
       DEF CallbackBaselink2Odom, CallbackScan, locVars, poseVars, threadVars, resultVars
  <2> QED
    BY <2>1, OperatorKeepsPose, ThreadKeepsPose DEF LocNext
<1>2. PoseInv => NoPoseLost
  BY DEF PoseInv, GivenStands, FitWhenInitialized, NoPoseLost
<1> QED
  BY PoseInvInit, <1>1, <1>2, PTL DEF LocSpec

\* A scan that finds the queue full waits for the lock with the queue as it is;
\* as long as the thread initialises, fewer than two results in a row fitted.
QueueWaits ==
  /\ scan_step \in {"idle", "locking", "gathering"}
  /\ que_pcd_scan \in Seq(Int) /\ pcd_scan_cur \in Seq(Int)
  /\ scan_step # "idle" => Len(que_pcd_scan) = queue_maxsize
CountsToTwo == ~loc_initialized /\ thread_step # "initialized" => count_success < 2

LocTypeInv == LocTypeOK /\ QueueWaits /\ CountsToTwo

LEMMA PosesInRange ==
  /\ Unset \in PoseId /\ Torn \in PoseId /\ 0 \in PoseId
  /\ \A n \in 0 .. MaxPoses : n \in PoseId
BY LocalizationAssumption DEF PoseId, Unset, Torn

LEMMA LocTypeInit == ASSUME LocInit PROVE LocTypeInv
<1>1. queue_maxsize \in Nat /\ queue_maxsize >= 1 /\ MaxPoses \in Nat /\ MaxScans \in Nat
  BY LocalizationAssumption
<1>2. /\ que_pcd_scan \in Seq(Int) /\ Len(que_pcd_scan) = 0
      /\ pcd_scan_cur \in Seq(Int) /\ Len(pcd_scan_cur) = 0
  BY DEF LocInit
<1>3. {odom_read, mat_baselink2map, mat_initialpose, map_crop, reg_matrix, given} \subseteq PoseId
  BY PosesInRange DEF LocInit
<1>4. /\ initialpose \in 0 .. MaxPoses /\ last_scan \in 0 .. MaxScans
      /\ mat_odom2map.id \in PoseId /\ mat_odom2map.by = "nothing"
  BY <1>1, PosesInRange DEF LocInit, Matrix
<1>5. QueueWaits /\ CountsToTwo
  BY <1>2 DEF LocInit, QueueWaits, CountsToTwo
<1>6. /\ timestamp_fresh \in BOOLEAN /\ loc_initialized \in BOOLEAN
      /\ lock_mat_odom2map = "free" /\ lock_scan = "free"
      /\ count_success = 0 /\ fitness \in Fitness /\ loc_fitness = "none"
  BY DEF LocInit, Fitness
<1> QED
  BY <1>1, <1>2, <1>3, <1>4, <1>5, <1>6 DEF LocTypeInv, LocTypeOK

LEMMA OdometryKeepsLocTypes ==
  ASSUME LocTypeInv, CallbackBaselink2Odom
  PROVE  LocTypeInv'
<1>1. UNCHANGED <<poseVars, matVars, scanVars, threadVars>>
  BY DEF CallbackBaselink2Odom
<1>2. /\ timestamp_fresh' \in BOOLEAN
      /\ odom_read' \in PoseId /\ mat_baselink2map' \in PoseId
  BY PosesInRange
     DEF CallbackBaselink2Odom, OdomArrives, OdomReads, OdomStores, LocTypeInv, LocTypeOK
<1> QED
  BY <1>1, <1>2
     DEF poseVars, matVars, scanVars, threadVars, copyVars, resultVars, LocTypeInv, LocTypeOK,
         QueueWaits, CountsToTwo

LEMMA OperatorKeepsLocTypes ==
  ASSUME LocTypeInv, CallbackInitialPose
  PROVE  LocTypeInv'
<1>1. UNCHANGED <<timestamp_fresh, odomVars, scanVars, threadVars>>
  BY DEF CallbackInitialPose
<1>2. initialpose' \in 0 .. MaxPoses
  BY LocalizationAssumption
     DEF CallbackInitialPose, PoseArrives, PoseSet, PoseLocks, PoseWritten, LocTypeInv, LocTypeOK
<1>3. mat_initialpose' \in PoseId /\ given' \in PoseId
  BY PosesInRange
     DEF CallbackInitialPose, PoseArrives, PoseSet, PoseLocks, PoseWritten, matVars,
         LocTypeInv, LocTypeOK
<1>4. /\ mat_odom2map'.id \in PoseId
      /\ mat_odom2map'.by \in {"nothing", "torn", "config", "operator", "misfit", "fit"}
      /\ lock_mat_odom2map' \in {"free", "pose", "thread"}
  BY PosesInRange
     DEF CallbackInitialPose, PoseArrives, PoseSet, PoseLocks, PoseWritten, matVars,
         HalfWritten, TornMatrix, Matrix, LocTypeInv, LocTypeOK
<1> QED
  BY <1>1, <1>2, <1>3, <1>4
     DEF odomVars, scanVars, threadVars, copyVars, resultVars, LocTypeInv, LocTypeOK,
         QueueWaits, CountsToTwo

LEMMA ScansKeepLocTypes ==
  ASSUME LocTypeInv, CallbackScan
  PROVE  LocTypeInv'
<1>1. UNCHANGED <<timestamp_fresh, odomVars, poseVars, matVars, threadVars>>
  BY DEF CallbackScan
<1>2. /\ que_pcd_scan \in Seq(Int) /\ Len(que_pcd_scan) \in Nat
      /\ Len(que_pcd_scan) <= queue_maxsize
      /\ pcd_scan_cur \in Seq(Int) /\ Len(pcd_scan_cur) \in Nat
      /\ Len(pcd_scan_cur) <= queue_maxsize
      /\ queue_maxsize \in Nat /\ queue_maxsize >= 1 /\ MaxScans \in Nat
      /\ last_scan \in 0 .. MaxScans /\ lock_scan \in {"free", "scan"}
      /\ scan_step \in {"idle", "locking", "gathering"}
      /\ scan_step # "idle" => Len(que_pcd_scan) = queue_maxsize
  BY LocalizationAssumption DEF LocTypeInv, LocTypeOK, QueueWaits
<1> DEFINE Scans == /\ QueueWaits' /\ last_scan' \in 0 .. MaxScans
                    /\ lock_scan' \in {"free", "scan"}
                    /\ Len(que_pcd_scan') <= queue_maxsize
                    /\ Len(pcd_scan_cur') <= queue_maxsize
<1>3. ASSUME ScanArrives PROVE Scans
  <2>1. last_scan' \in 0 .. MaxScans /\ last_scan' \in Int
    BY <1>2, <1>3 DEF ScanArrives
  <2>2. CASE Len(que_pcd_scan) >= queue_maxsize
    BY <1>2, <1>3, <2>1, <2>2 DEF ScanArrives, QueueWaits
  <2>3. CASE Len(que_pcd_scan) < queue_maxsize
    <3>1. que_pcd_scan' = Append(que_pcd_scan, last_scan') /\ scan_step' = scan_step
          /\ scan_step = "idle" /\ UNCHANGED <<pcd_scan_cur, lock_scan>>
      BY <1>2, <1>3, <2>3 DEF ScanArrives
    <3> QED
      BY <1>2, <2>1, <2>3, <3>1 DEF QueueWaits
  <2> QED
    BY <1>2, <2>2, <2>3
<1>4. ASSUME ScanLocks PROVE Scans
  BY <1>2, <1>4 DEF ScanLocks, QueueWaits
<1>5. ASSUME ScanGathers PROVE Scans
  <2>1. que_pcd_scan[Len(pcd_scan_cur) + 1] \in Int
    BY <1>2, <1>5 DEF ScanGathers
  <2> QED
    BY <1>2, <1>5, <2>1 DEF ScanGathers, QueueWaits
<1>6. ASSUME ScanPushed PROVE Scans
  <2>1. Len(que_pcd_scan) = queue_maxsize /\ que_pcd_scan # <<>>
    BY <1>2, <1>6 DEF ScanPushed
  <2>2. Tail(que_pcd_scan) \in Seq(Int) /\ Len(Tail(que_pcd_scan)) = Len(que_pcd_scan) - 1
    BY <1>2, <2>1
  <2>3. que_pcd_scan' = Append(Tail(que_pcd_scan), last_scan) /\ last_scan \in Int
    BY <1>2, <1>6 DEF ScanPushed
  <2> QED
    BY <1>2, <1>6, <2>1, <2>2, <2>3 DEF ScanPushed, QueueWaits
<1>7. Scans
  BY <1>3, <1>4, <1>5, <1>6 DEF CallbackScan
<1> QED
  BY <1>1, <1>7
     DEF odomVars, poseVars, matVars, threadVars, copyVars, resultVars, LocTypeInv, LocTypeOK,
         CountsToTwo

LEMMA ThreadKeepsLocTypes ==
  ASSUME LocTypeInv, Localization
  PROVE  LocTypeInv'
<1>1. UNCHANGED <<odomVars, poseVars, scanVars>>
  BY DEF Localization
<1>2. timestamp_fresh' \in BOOLEAN /\ loc_initialized' \in BOOLEAN
  BY DEF Localization, CopyBegins, CopyEnds, NewOdometry, CopyScan, RegistrationBegins,
         RegistrationEnds, Unlocked, Initialized, resultVars, LocTypeInv, LocTypeOK
<1>3. map_crop' \in PoseId /\ reg_matrix' \in PoseId /\ given' \in PoseId
  BY PosesInRange
     DEF Localization, CopyBegins, CopyEnds, NewOdometry, CopyScan, RegistrationBegins,
         RegistrationEnds, Unlocked, Initialized, copyVars, matVars, Crop, LocTypeInv, LocTypeOK
<1>4. /\ lock_mat_odom2map' \in {"free", "pose", "thread"}
      /\ fitness' \in Fitness /\ loc_fitness' \in Fitness \cup {"none"}
  BY DEF Localization, CopyBegins, CopyEnds, NewOdometry, CopyScan, RegistrationBegins,
         RegistrationEnds, Unlocked, Initialized, resultVars, matVars, LocTypeInv, LocTypeOK
<1>5. /\ mat_odom2map'.id \in PoseId
      /\ mat_odom2map'.by \in {"nothing", "torn", "config", "operator", "misfit", "fit"}
  <2>1. /\ mat_odom2map.id \in PoseId /\ mat_initialpose \in PoseId /\ reg_matrix \in PoseId
        /\ mat_odom2map.by \in {"nothing", "torn", "config", "operator", "misfit", "fit"}
    BY DEF LocTypeInv, LocTypeOK
  <2>2. CASE CopyBegins \/ CopyEnds
    BY <2>1, <2>2, PosesInRange DEF CopyBegins, CopyEnds, HalfWritten, TornMatrix, Matrix
  <2>3. CASE RegistrationEnds \/ Unlocked
    BY <2>1, <2>3, PosesInRange DEF RegistrationEnds, Unlocked, HalfWritten, TornMatrix, Matrix
  <2>4. CASE NewOdometry \/ CopyScan \/ RegistrationBegins \/ Initialized
    BY <2>1, <2>4 DEF NewOdometry, CopyScan, RegistrationBegins, Initialized, matVars
  <2> QED
    BY <2>2, <2>3, <2>4 DEF Localization
<1>6. count_success' \in 0 .. 2 /\ CountsToTwo'
  <2>1. count_success \in 0 .. 2
    BY DEF LocTypeInv, LocTypeOK
  <2>2. CASE Unlocked
    <3>1. loc_initialized \/ count_success < 2
      BY <2>2 DEF Unlocked, LocTypeInv, CountsToTwo
    <3> QED
      BY <2>1, <2>2, <3>1 DEF Unlocked, CountsToTwo
  <2>3. CASE Initialized
    BY <2>1, <2>3 DEF Initialized, CountsToTwo
  <2>4. CASE CopyBegins \/ CopyEnds \/ NewOdometry \/ CopyScan \/ RegistrationBegins
             \/ RegistrationEnds
    <3>1. /\ thread_step # "initialized" /\ thread_step' # "initialized"
          /\ UNCHANGED <<count_success, loc_initialized>>
      BY <2>4 DEF CopyBegins, CopyEnds, NewOdometry, CopyScan, RegistrationBegins,
                  RegistrationEnds, resultVars
    <3> QED
      BY <2>1, <3>1 DEF LocTypeInv, CountsToTwo
  <2> QED
    BY <2>2, <2>3, <2>4 DEF Localization
<1> QED
  BY <1>1, <1>2, <1>3, <1>4, <1>5, <1>6
     DEF odomVars, poseVars, scanVars, LocTypeInv, LocTypeOK, QueueWaits

\* Every matrix goes back to a pose that was given or is known to be torn, and the
\* queue of scans never grows beyond its length, although it is full while a scan
\* waits for the lock.
THEOREM LocalizationTypes == LocSpec => []LocTypeOK
<1>1. LocTypeInv /\ [LocNext]_locVars => LocTypeInv'
  <2> SUFFICES ASSUME LocTypeInv, [LocNext]_locVars
               PROVE  LocTypeInv'
    OBVIOUS
  <2>1. CASE UNCHANGED locVars
    BY <2>1
       DEF locVars, odomVars, poseVars, matVars, scanVars, threadVars, copyVars, resultVars,
           LocTypeInv, LocTypeOK, QueueWaits, CountsToTwo
  <2> QED
    BY <2>1, OdometryKeepsLocTypes, OperatorKeepsLocTypes, ScansKeepLocTypes,
       ThreadKeepsLocTypes DEF LocNext
<1>2. LocTypeInv => LocTypeOK
  BY DEF LocTypeInv
<1> QED
  BY LocTypeInit, <1>1, <1>2, PTL DEF LocSpec

-----------------------------------------------------------------------------
(* The obstacle processor: which map a point is judged against               *)

\* The window of the map around where it was cached.
WindowOf(cloud, center) ==
  [p \in Place |-> IF p \in Window(center) THEN cloud[p] ELSE EmptyCell]

\* Before the first map nothing is cached; as long as it is the only one, what is
\* cached is a window of it.
CacheOfOnlyMap ==
  /\ worlds \in Nat /\ robot \in Place /\ localMapInitialized \in BOOLEAN
  /\ worlds = 0 => worldCloud = EmptyCloud /\ ~localMapInitialized
  /\ worlds = 1 /\ localMapInitialized =>
       /\ lastRobotPosition \in Place
       /\ localWorldCloud = WindowOf(worldCloud, lastRobotPosition)

LEMMA CacheInit == ASSUME ObsInit PROVE CacheOfOnlyMap
BY DEF ObsInit, CacheOfOnlyMap

\* After the local map was updated, it is a window of the only map, and its centre
\* is nearer to the robot than the threshold.
LEMMA UpdatedCache ==
  ASSUME CacheOfOnlyMap, RcvLidarCallBack, worlds = 1
  PROVE  /\ localMapInitialized' /\ lastRobotPosition' \in Place
         /\ Apart(robot, lastRobotPosition') < CacheThreshold
              \/ lastRobotPosition' = robot
         /\ localWorldCloud' = WindowOf(worldCloud, lastRobotPosition')
<1>1. CASE UsesCache
  BY <1>1 DEF RcvLidarCallBack, UpdateLocalMap, UsesCache, mapCache, CacheOfOnlyMap
<1>2. CASE ~UsesCache
  <2>1. /\ localMapInitialized' = TRUE /\ lastRobotPosition' = robot
        /\ localWorldCloud' = WindowOf(worldCloud, robot)
    BY <1>2, Zenon DEF RcvLidarCallBack, UpdateLocalMap, CacheLocalMap, WindowOf
  <2> QED
    BY <2>1 DEF CacheOfOnlyMap
<1> QED
  BY <1>1, <1>2

LEMMA CacheKept == CacheOfOnlyMap /\ [ObsNext]_obsVars => CacheOfOnlyMap'
<1> SUFFICES ASSUME CacheOfOnlyMap, [ObsNext]_obsVars
             PROVE  CacheOfOnlyMap'
  OBVIOUS
<1>1. CASE RcvLidarCallBack
  <2>1. UNCHANGED <<worldCloud, worlds, robot>> /\ worldCloud # EmptyCloud
    BY <1>1 DEF RcvLidarCallBack
  <2>2. localMapInitialized' \in BOOLEAN
    BY <1>1 DEF RcvLidarCallBack, UpdateLocalMap, CacheLocalMap, mapCache, CacheOfOnlyMap
  <2>3. CASE worlds = 1
    <3>1. /\ lastRobotPosition' \in Place
          /\ localWorldCloud' = WindowOf(worldCloud, lastRobotPosition')
      BY <1>1, <2>3, UpdatedCache
    <3>2. localWorldCloud' = WindowOf(worldCloud, lastRobotPosition)'
      BY <2>1, <3>1, Zenon DEF WindowOf, Window, Apart
    <3> QED
      BY <2>1, <2>2, <2>3, <3>1, <3>2 DEF CacheOfOnlyMap
  <2>4. CASE worlds # 1
    BY <2>1, <2>2, <2>4 DEF CacheOfOnlyMap
  <2> QED
    BY <2>3, <2>4
<1>2. ASSUME NEW cloud \in Worlds, RcvWorldCallBack(cloud)
      PROVE  CacheOfOnlyMap'
  BY <1>2 DEF RcvWorldCallBack, mapCache, CacheOfOnlyMap
<1>3. CASE (\E to \in Place : RobotMoves(to)) \/ UNCHANGED obsVars
  <2>1. UNCHANGED <<worldCloud, worlds, mapCache>> /\ robot' \in Place
    BY <1>3 DEF RobotMoves, obsVars, CacheOfOnlyMap
  <2>2. WindowOf(worldCloud, lastRobotPosition)' = WindowOf(worldCloud, lastRobotPosition)
    BY <2>1, Zenon DEF WindowOf, Window, Apart, mapCache
  <2> QED
    BY <2>1, <2>2 DEF mapCache, CacheOfOnlyMap
<1> QED
  BY <1>1, <1>2, <1>3 DEF ObsNext

\* NearbyIsKnown: as long as one map has come, what is within reach of the robot
\* less the threshold is judged against that map, however the robot has crept away
\* from where its window was cached (obstacle_processor, updateLocalMap).
THEOREM NearbyIsJudgedByTheMap == ObsSpec => NearbyIsKnown
<1>1. ASSUME CacheOfOnlyMap, RcvLidarCallBack, worlds = 1,
             NEW p \in Place, Apart(p, robot) <= LocalMapSize - CacheThreshold + 1
      PROVE  localWorldCloud'[p] = worldCloud[p]
  <2> DEFINE center == lastRobotPosition'
  <2>1. /\ center \in Int /\ robot \in Int /\ p \in Int
        /\ Apart(robot, center) < CacheThreshold \/ center = robot
        /\ LocalMapSize \in Nat /\ CacheThreshold \in Nat \ {0}
    BY <1>1, UpdatedCache, ObstacleAssumption DEF CacheOfOnlyMap
  <2>2. Apart(p, center) <= LocalMapSize
    <3> HIDE DEF center
    <3> QED
      BY <1>1, <2>1 DEF Apart
  <2>3. p \in Window(center)
    BY <2>2 DEF Window
  <2> QED
    BY <1>1, <2>3, UpdatedCache DEF WindowOf
<1>2. CacheOfOnlyMap /\ [ObsNext]_obsVars =>
        [obs_raw' # obs_raw /\ worlds = 1 =>
           \A p \in Place : Apart(p, robot) <= LocalMapSize - CacheThreshold + 1 =>
             localWorldCloud'[p] = worldCloud[p]]_obsVars
  <2> SUFFICES ASSUME CacheOfOnlyMap, ObsNext, obs_raw' # obs_raw, worlds = 1,
                      NEW p \in Place, Apart(p, robot) <= LocalMapSize - CacheThreshold + 1
               PROVE  localWorldCloud'[p] = worldCloud[p]
    BY Zenon
  <2>1. RcvLidarCallBack
    BY DEF ObsNext, RcvWorldCallBack, RobotMoves
  <2> QED
    BY <1>1, <2>1
<1> QED
  BY CacheInit, CacheKept, <1>2, PTL DEF ObsSpec, NearbyIsKnown

-----------------------------------------------------------------------------
(* Obstacles: the layers of a cell are its groups                          *)

\* The heights are those up to the highest.
LEMMA HeightsAre ==
  /\ Max(Height) \in Nat /\ Height = 0 .. Max(Height)
  /\ LayerGap \in Nat /\ MergeMinPoints \in Nat /\ Tolerance \in Nat /\ GridThreshold \in Nat
  /\ Tolerance < GridThreshold
BY ObstacleAssumption

\* A sum over the heights up to the highest: what it is for a set of heights does not
\* depend on the order.
Sums(cell, g) ==
  CHOOSE f \in [Height -> Nat] :
    \A z \in Height : f[z] = (IF z = 0 THEN 0 ELSE f[z - 1]) + IF z \in g THEN cell[z] ELSE 0
Total(cell, g) == Sums(cell, g)[Max(Height)]

\* The sums are those of a recursive function over the heights.
LEMMA SumsAre ==
  ASSUME NEW cell \in [Height -> Nat], NEW g \in SUBSET Height
  PROVE  /\ Sums(cell, g) \in [Height -> Nat]
         /\ \A z \in Height :
              Sums(cell, g)[z] = (IF z = 0 THEN 0 ELSE Sums(cell, g)[z - 1])
                                 + IF z \in g THEN cell[z] ELSE 0
<1> DEFINE next == [n \in Nat |-> [x \in Nat |-> x + IF n \in g THEN cell[n] ELSE 0]]
           H == Max(Height)
<1>1. ASSUME NEW n \in Nat, NEW x \in Nat
      PROVE  next[n][x] = x + (IF n \in g THEN cell[n] ELSE 0) /\ next[n][x] \in Nat
  OBVIOUS
<1>2. H \in Nat /\ Height = 0 .. H
  BY HeightsAre
<1> HIDE DEF next, H
<1>3. PICK f \in [0 .. H -> Nat] : GoesBy(f, next, 0)
  <2>1. \A n \in Nat : \A x \in Nat : next[n][x] \in Nat
    BY <1>1
  <2>2. 0 \in Nat /\ H \in Nat
    BY <1>2
  <2>3. QED
    BY <2>1, <2>2, RecursionExists
<1>4. ASSUME NEW z \in Height
      PROVE  f[z] = (IF z = 0 THEN 0 ELSE f[z - 1]) + IF z \in g THEN cell[z] ELSE 0
  <2>1. z \in Nat /\ (IF z = 0 THEN 0 ELSE f[z - 1]) \in Nat
    BY <1>2
  <2>2. QED
    BY <1>1, <1>2, <1>3, <2>1 DEF GoesBy
<1>5. f \in [Height -> Nat]
  BY <1>2
<1>6. QED
  BY <1>4, <1>5 DEF Sums

\* Each height counts by itself.
LEMMA TotalIs ==
  ASSUME NEW cell \in [Height -> Nat], NEW g \in SUBSET Height
  PROVE  /\ Total(cell, g) \in Nat
         /\ g = {} => Total(cell, g) = 0
         /\ \A x \in g : Total(cell, g) = cell[x] + Total(cell, g \ {x})
<1> DEFINE H == Max(Height)
<1>1. H \in Nat /\ Height = 0 .. H /\ H \in Height
  BY HeightsAre
<1> HIDE DEF H
<1> DEFINE f == Sums(cell, g)
<1>2. /\ f \in [Height -> Nat]
      /\ \A z \in Height : f[z] = (IF z = 0 THEN 0 ELSE f[z - 1]) + IF z \in g THEN cell[z] ELSE 0
  BY SumsAre
<1>3. Total(cell, g) = f[H]
  BY DEF Total, H
<1> HIDE DEF f
<1>4. ASSUME g = {} PROVE f[H] = 0
  <2> DEFINE T == {n \in Nat : n <= H => f[n] = 0}
  <2>1. \A n \in Nat : n \in T <=> (n <= H => f[n] = 0)
    OBVIOUS
  <2> HIDE DEF T
  <2>2. 0 \in T
    BY <1>1, <1>2, <1>4, <2>1
  <2>3. ASSUME NEW n \in Nat, n \in T PROVE n + 1 \in T
    <3> SUFFICES ASSUME n + 1 <= H PROVE f[n + 1] = 0
      BY <2>1
    <3>1. n + 1 \in Height /\ n + 1 # 0 /\ (n + 1) - 1 = n /\ n <= H
      BY <1>1
    <3>2. f[n] = 0
      BY <2>1, <2>3, <3>1
    <3>3. f[n + 1] = f[n] + 0
      BY <1>2, <1>4, <3>1
    <3>4. QED
      BY <3>2, <3>3
  <2>4. H \in T
    BY <1>1, <2>2, <2>3, SetInduction
  <2>5. QED
    BY <1>1, <2>1, <2>4
<1>5. ASSUME NEW x \in g PROVE f[H] = cell[x] + Total(cell, g \ {x})
  <2> DEFINE h == Sums(cell, g \ {x})
  <2>1. /\ h \in [Height -> Nat]
        /\ \A z \in Height : h[z] = (IF z = 0 THEN 0 ELSE h[z - 1])
                                    + IF z \in g \ {x} THEN cell[z] ELSE 0
    BY SumsAre
  <2>2. Total(cell, g \ {x}) = h[H]
    BY DEF Total, H
  <2> HIDE DEF h
  <2> DEFINE T == {n \in Nat : n <= H => f[n] = h[n] + IF x <= n THEN cell[x] ELSE 0}
  <2>3. \A n \in Nat : n \in T <=> (n <= H => f[n] = h[n] + IF x <= n THEN cell[x] ELSE 0)
    OBVIOUS
  <2> HIDE DEF T
  <2>x. x \in Height /\ x \in Nat /\ cell[x] \in Nat
    BY <1>1
  <2>4. 0 \in T
    <3> SUFFICES f[0] = h[0] + IF x <= 0 THEN cell[x] ELSE 0
      BY <2>3
    <3>1. 0 \in Height /\ (x <= 0 <=> x = 0)
      BY <1>1, <2>x
    <3>2. /\ f[0] = 0 + IF 0 \in g THEN cell[0] ELSE 0
          /\ h[0] = 0 + IF 0 \in g \ {x} THEN cell[0] ELSE 0
      BY <1>2, <2>1, <3>1
    <3>3. QED
      BY <2>x, <3>1, <3>2
  <2>5. ASSUME NEW n \in Nat, n \in T PROVE n + 1 \in T
    <3> SUFFICES ASSUME n + 1 <= H
                 PROVE  f[n + 1] = h[n + 1] + IF x <= n + 1 THEN cell[x] ELSE 0
      BY <2>3
    <3>1. n + 1 \in Height /\ n + 1 # 0 /\ (n + 1) - 1 = n /\ n <= H /\ n \in Height
      BY <1>1
    <3>2. f[n] = h[n] + IF x <= n THEN cell[x] ELSE 0
      BY <2>3, <2>5, <3>1
    <3>3. /\ f[n + 1] = f[n] + IF n + 1 \in g THEN cell[n + 1] ELSE 0
          /\ h[n + 1] = h[n] + IF n + 1 \in g \ {x} THEN cell[n + 1] ELSE 0
      BY <1>2, <2>1, <3>1
    <3>4. f[n] \in Nat /\ h[n] \in Nat /\ cell[n + 1] \in Nat
      BY <1>2, <2>1, <3>1
    <3>5. CASE x = n + 1
      <4>1. ~(x <= n) /\ n + 1 \in g /\ n + 1 \notin g \ {x} /\ x <= n + 1
        BY <3>5, <2>x
      <4>2. QED
        BY <2>x, <3>2, <3>3, <3>4, <3>5, <4>1
    <3>6. CASE x # n + 1
      <4>1. (n + 1 \in g <=> n + 1 \in g \ {x}) /\ (x <= n <=> x <= n + 1)
        BY <2>x, <3>6
      <4>2. QED
        BY <2>x, <3>2, <3>3, <3>4, <4>1
    <3>7. QED
      BY <3>5, <3>6
  <2>6. H \in T
    BY <1>1, <2>4, <2>5, SetInduction
  <2>7. f[H] = h[H] + cell[x]
    BY <1>1, <2>3, <2>6, <2>x
  <2>8. h[H] \in Nat
    BY <1>1, <2>1
  <2>9. QED
    BY <2>2, <2>7, <2>8, <2>x
<1>6. QED
  BY <1>1, <1>2, <1>3, <1>4, <1>5

\* So the fold over a set of heights is that sum.
LEMMA PointsInIsTotal ==
  ASSUME NEW cell \in [Height -> Nat], NEW g \in SUBSET Height
  PROVE  PointsIn(cell, g) = Total(cell, g)
<1> DEFINE P(iter) == iter = [s \in SUBSET g |->
                                IF s = {} THEN 0
                                ELSE cell[CHOOSE x \in s : TRUE]
                                     + iter[s \ {CHOOSE x \in s : TRUE}]]
           iter0 == [s \in SUBSET g |-> Total(cell, s)]
<1>1. P(iter0)
  <2>1. ASSUME NEW s \in SUBSET g
        PROVE  iter0[s] = IF s = {} THEN 0
                          ELSE cell[CHOOSE x \in s : TRUE] + iter0[s \ {CHOOSE x \in s : TRUE}]
    <3>1. s \in SUBSET Height
      OBVIOUS
    <3>2. CASE s = {}
      BY <3>1, <3>2, TotalIs
    <3>3. CASE s # {}
      <4> DEFINE x == CHOOSE x \in s : TRUE
      <4>1. x \in s
        BY <3>3
      <4> HIDE DEF x
      <4>2. Total(cell, s) = cell[x] + Total(cell, s \ {x}) /\ s \ {x} \in SUBSET g
        BY <3>1, <4>1, TotalIs
      <4>3. iter0[s] = cell[x] + iter0[s \ {x}]
        BY <4>2
      <4>4. QED
        BY <3>3, <4>3 DEF x
    <3>4. QED
      BY <3>2, <3>3
  <2> HIDE DEF iter0
  <2>2. iter0 = [s \in SUBSET g |-> iter0[s]]
    BY DEF iter0
  <2>3. QED
    BY <2>1, <2>2
<1> HIDE DEF iter0
<1> DEFINE iter == CHOOSE iter : P(iter)
<1>2. P(iter)
  BY <1>1
<1>3. PointsIn(cell, g) = iter[g]
  BY DEF PointsIn, MapThenSumSet, MapThenFoldSet
<1> HIDE DEF iter
<1>4. \A s \in SUBSET g : /\ s = {} => iter[s] = 0
                          /\ s # {} => \E x \in s : iter[s] = cell[x] + iter[s \ {x}]
  <2> SUFFICES ASSUME NEW s \in SUBSET g
               PROVE  /\ s = {} => iter[s] = 0
                      /\ s # {} => \E x \in s : iter[s] = cell[x] + iter[s \ {x}]
    OBVIOUS
  <2> DEFINE x == CHOOSE x \in s : TRUE
  <2>1. iter[s] = IF s = {} THEN 0 ELSE cell[x] + iter[s \ {x}]
    BY <1>2
  <2>2. s # {} => x \in s
    OBVIOUS
  <2> HIDE DEF x
  <2>3. QED
    BY <2>1, <2>2
<1> HIDE DEF P
<1> DEFINE T == {n \in Nat : \A s \in SUBSET g : Cardinality(s) = n => iter[s] = Total(cell, s)}
<1>5. \A n \in Nat :
        n \in T <=> \A s \in SUBSET g : Cardinality(s) = n => iter[s] = Total(cell, s)
  OBVIOUS
<1> HIDE DEF T
<1>6. \A s \in SUBSET g : IsFiniteSet(s) /\ s \in SUBSET Height
  <2>1. IsFiniteSet(Height)
    BY HeightsAre, FS_Interval
  <2>2. QED
    BY <2>1, FS_Subset
<1>7. 0 \in T
  <2>1. ASSUME NEW s \in SUBSET g, Cardinality(s) = 0 PROVE iter[s] = Total(cell, s)
    <3>1. s = {}
      BY <1>6, <2>1, FS_EmptySet
    <3>2. QED
      BY <1>4, <1>6, <3>1, TotalIs
  <2>2. QED
    BY <1>5, <2>1
<1>8. ASSUME NEW n \in Nat, n \in T PROVE n + 1 \in T
  <2>1. ASSUME NEW s \in SUBSET g, Cardinality(s) = n + 1 PROVE iter[s] = Total(cell, s)
    <3>1. s # {}
      BY <2>1, FS_EmptySet
    <3>2. PICK x \in s : iter[s] = cell[x] + iter[s \ {x}]
      BY <1>4, <3>1
    <3>3. Cardinality(s \ {x}) = n /\ s \ {x} \in SUBSET g
      <4>1. Cardinality(s \ {x}) = Cardinality(s) - 1
        BY <1>6, <3>2, FS_RemoveElement
      <4>2. QED
        BY <2>1, <4>1
    <3>4. iter[s \ {x}] = Total(cell, s \ {x})
      BY <1>5, <1>8, <3>3
    <3>5. Total(cell, s) = cell[x] + Total(cell, s \ {x})
      BY <1>6, TotalIs
    <3>6. QED
      BY <3>2, <3>4, <3>5
  <2>2. QED
    BY <1>5, <2>1
<1>9. Cardinality(g) \in T
  <2>1. Cardinality(g) \in Nat
    BY <1>6, FS_CardinalityType
  <2>2. QED
    BY <1>7, <1>8, <2>1, SetInduction
<1>10. QED
  BY <1>3, <1>5, <1>6, <1>9, FS_CardinalityType

\* What there is between two heights of a cell, and how many points that is.
Between(cell, lo, hi) == {z \in Occupied(cell) : lo <= z /\ z <= hi}
Many(cell, lo, hi)    == PointsIn(cell, Between(cell, lo, hi))

\* A stretch has no gap within and begins after one; it is whole if it also ends
\* before one.
Opens(cell, lo) ==
  \/ \A x \in Occupied(cell) : lo <= x
  \/ \E p \in Occupied(cell) : lo - p > LayerGap /\ \A x \in Occupied(cell) : x <= p \/ lo <= x
Linked(cell, lo, hi) ==
  \A x \in Occupied(cell) :
    lo <= x /\ x < hi => \E w \in Occupied(cell) : w > x /\ w - x <= LayerGap
Closes(cell, hi) == \A x \in Occupied(cell) : x > hi => x - hi > LayerGap
Stretch(cell, lo, hi) ==
  /\ lo \in Occupied(cell) /\ hi \in Occupied(cell) /\ lo <= hi
  /\ Opens(cell, lo) /\ Linked(cell, lo, hi)

\* A layer that is kept is such a run, with all of its points, and they are enough.
IsKept(cell, layer) ==
  /\ Stretch(cell, layer.min, layer.max) /\ Closes(cell, layer.max)
  /\ layer.count = Many(cell, layer.min, layer.max)
  /\ layer.count > 0 /\ layer.count >= MergeMinPoints

\* A height belongs to a whole stretch, which is among the layers if it has enough points.
IsLayer(layers, lo, hi) == \E i \in 1 .. Len(layers) : layers[i].min = lo /\ layers[i].max = hi
Belongs(cell, layers, x) ==
  \E lo, hi \in Height :
    /\ Stretch(cell, lo, hi) /\ Closes(cell, hi) /\ lo <= x /\ x <= hi
    /\ Many(cell, lo, hi) >= MergeMinPoints => IsLayer(layers, lo, hi)

LayerSet   == [min : Nat, max : Nat, count : Nat, sum : Nat]
ClusterSet == [layers : Seq(LayerSet), current : LayerSet]

\* What buildGrid has when it has seen the points up to z.
Seen(cell, z, c) ==
  /\ c \in ClusterSet
  /\ \A i \in 1 .. Len(c.layers) : IsKept(cell, c.layers[i])
  /\ c.current.count = 0 =>
       /\ c.layers = <<>> /\ c.current.min = 0
       /\ \A x \in Occupied(cell) : x > z
  /\ c.current.count > 0 =>
       /\ Stretch(cell, c.current.min, c.current.max)
       /\ c.current.count = Many(cell, c.current.min, c.current.max)
       /\ c.current.max <= z
       /\ \A x \in Occupied(cell) : x <= z => x <= c.current.max
  /\ \A x \in Occupied(cell) : x <= z /\ x < c.current.min => Belongs(cell, c.layers, x)

\* The heights of points are numbers.
LEMMA OccupiedAre ==
  ASSUME NEW cell \in [Height -> Nat]
  PROVE  /\ Occupied(cell) \subseteq Height /\ Occupied(cell) \subseteq Nat
         /\ \A z \in Height : z \in Occupied(cell) <=> cell[z] > 0
         /\ \A lo, hi : Between(cell, lo, hi) \in SUBSET Height
BY HeightsAre DEF Occupied, Between

\* The first point of a stretch, and one more at its end.
LEMMA ManyGrows ==
  ASSUME NEW cell \in [Height -> Nat], NEW z \in Occupied(cell)
  PROVE  /\ Many(cell, z, z) = cell[z]
         /\ \A lo, hi \in Nat : /\ lo <= hi /\ hi < z
                                /\ \A x \in Occupied(cell) : x < z => x <= hi
                                => Many(cell, lo, z) = Many(cell, lo, hi) + cell[z]
<1>1. /\ z \in Height /\ z \in Nat /\ cell[z] \in Nat
      /\ \A lo, hi : Between(cell, lo, hi) \in SUBSET Height
  BY OccupiedAre
<1>2. Many(cell, z, z) = cell[z]
  <2>1. Between(cell, z, z) = {z}
    BY <1>1, OccupiedAre DEF Between
  <2>2. {z} \ {z} = {} /\ z \in {z} /\ {z} \in SUBSET Height /\ {} \in SUBSET Height
    BY <1>1
  <2>3. Total(cell, {z}) = cell[z] + Total(cell, {z} \ {z}) /\ Total(cell, {}) = 0
    BY <2>2, TotalIs
  <2>4. PointsIn(cell, {z}) = cell[z]
    BY <1>1, <2>2, <2>3, PointsInIsTotal
  <2>5. QED
    BY <2>1, <2>4 DEF Many
<1>3. ASSUME NEW lo \in Nat, NEW hi \in Nat, lo <= hi, hi < z,
             \A x \in Occupied(cell) : x < z => x <= hi
      PROVE  Many(cell, lo, z) = Many(cell, lo, hi) + cell[z]
  <2> DEFINE g == Between(cell, lo, z)
  <2>1. z \in g /\ g \ {z} = Between(cell, lo, hi)
    BY <1>1, <1>3, OccupiedAre DEF Between
  <2>2. g \in SUBSET Height /\ g \ {z} \in SUBSET Height
    BY <1>1
  <2> HIDE DEF g
  <2>3. Total(cell, g) = cell[z] + Total(cell, g \ {z}) /\ Total(cell, g \ {z}) \in Nat
    BY <2>1, <2>2, TotalIs
  <2>4. PointsIn(cell, g) = Total(cell, g) /\ PointsIn(cell, g \ {z}) = Total(cell, g \ {z})
    BY <2>2, PointsInIsTotal
  <2>5. QED
    BY <1>1, <2>1, <2>3, <2>4 DEF Many, g
<1>4. QED
  BY <1>2, <1>3

\* When the current layer is finished, all that has been seen belongs to a whole stretch.
LEMMA FinishedIs ==
  ASSUME NEW cell \in [Height -> Nat], NEW z \in Height \cup {-1}, NEW c, Seen(cell, z, c),
         c.current.count > 0 => Closes(cell, c.current.max)
  PROVE  /\ Finished(c) \in Seq(LayerSet)
         /\ \A i \in 1 .. Len(Finished(c)) : IsKept(cell, Finished(c)[i])
         /\ \A x \in Occupied(cell) : x <= z => Belongs(cell, Finished(c), x)
<1> DEFINE ls == c.layers
           cur == c.current
           fin == Finished(c)
<1>1. /\ ls \in Seq(LayerSet) /\ cur \in LayerSet
      /\ \A i \in 1 .. Len(ls) : IsKept(cell, ls[i])
      /\ cur.count = 0 => ls = <<>> /\ \A x \in Occupied(cell) : x > z
      /\ cur.count > 0 =>
           /\ Stretch(cell, cur.min, cur.max) /\ Closes(cell, cur.max)
           /\ cur.count = Many(cell, cur.min, cur.max)
           /\ \A x \in Occupied(cell) : x <= z => x <= cur.max
      /\ \A x \in Occupied(cell) : x <= z /\ x < cur.min => Belongs(cell, ls, x)
  BY DEF Seen, ClusterSet
<1>2. cur.count \in Nat /\ MergeMinPoints \in Nat /\ cur.min \in Nat /\ cur.max \in Nat
  BY <1>1, HeightsAre DEF LayerSet
<1>z. /\ z \in Int /\ \A x \in Occupied(cell) : x \in Nat
      /\ \A x \in Occupied(cell) : x \in Height
  BY HeightsAre, OccupiedAre
<1>3. fin = IF cur.count > 0 /\ cur.count >= MergeMinPoints THEN Append(ls, cur) ELSE ls
  BY DEF Finished
<1> HIDE DEF ls, cur, fin
<1>4. /\ fin \in Seq(LayerSet) /\ Len(ls) \in Nat
      /\ Len(fin) >= Len(ls) /\ \A i \in 1 .. Len(ls) : fin[i] = ls[i]
      /\ Len(fin) = Len(ls) \/ /\ Len(fin) = Len(ls) + 1 /\ fin[Len(ls) + 1] = cur
                               /\ cur.count > 0 /\ cur.count >= MergeMinPoints
      /\ cur.count > 0 /\ cur.count >= MergeMinPoints =>
           Len(fin) = Len(ls) + 1 /\ fin[Len(ls) + 1] = cur
  <2>1. Len(ls) \in Nat
    BY <1>1
  <2>2. CASE cur.count > 0 /\ cur.count >= MergeMinPoints
    <3>1. fin = Append(ls, cur)
      BY <1>3, <2>2
    <3>2. QED
      BY <1>1, <2>1, <2>2, <3>1, AppendProperties
  <2>3. CASE ~(cur.count > 0 /\ cur.count >= MergeMinPoints)
    BY <1>1, <1>3, <2>1, <2>3
  <2>4. QED
    BY <2>2, <2>3
<1>5. ASSUME NEW i \in 1 .. Len(fin) PROVE IsKept(cell, fin[i])
  <2>1. CASE i \in 1 .. Len(ls)
    BY <1>1, <1>4, <2>1
  <2>2. CASE i \notin 1 .. Len(ls)
    <3>1. fin[i] = cur /\ cur.count > 0 /\ cur.count >= MergeMinPoints
      BY <1>4, <2>2
    <3>2. QED
      BY <1>1, <3>1 DEF IsKept
  <2>3. QED
    BY <2>1, <2>2
<1>6. ASSUME NEW x \in Occupied(cell), x <= z PROVE Belongs(cell, fin, x)
  <2>1. cur.count > 0 /\ x <= cur.max
    <3>1. cur.count # 0
      BY <1>1, <1>6, <1>z
    <3>2. QED
      BY <1>1, <1>2, <1>6, <3>1
  <2>2. CASE x < cur.min
    <3>1. PICK lo, hi \in Height : /\ Stretch(cell, lo, hi) /\ Closes(cell, hi)
                                   /\ lo <= x /\ x <= hi
                                   /\ Many(cell, lo, hi) >= MergeMinPoints => IsLayer(ls, lo, hi)
      BY <1>1, <1>6, <2>2 DEF Belongs
    <3>2. IsLayer(ls, lo, hi) => IsLayer(fin, lo, hi)
      BY <1>4 DEF IsLayer
    <3>3. QED
      BY <3>1, <3>2 DEF Belongs
  <2>3. CASE ~(x < cur.min)
    <3>1. cur.min <= x
      BY <1>2, <1>z, <2>3
    <3>2. cur.min \in Height /\ cur.max \in Height
      BY <1>1, <1>z, <2>1 DEF Stretch
    <3>3. Many(cell, cur.min, cur.max) >= MergeMinPoints => IsLayer(fin, cur.min, cur.max)
      <4>1. ASSUME cur.count >= MergeMinPoints PROVE IsLayer(fin, cur.min, cur.max)
        <5>1. Len(ls) + 1 \in 1 .. Len(fin) /\ fin[Len(ls) + 1] = cur
          BY <1>4, <2>1, <4>1
        <5>2. QED
          BY <5>1 DEF IsLayer
      <4>2. QED
        BY <1>1, <2>1, <4>1
    <3>4. QED
      BY <1>1, <2>1, <3>1, <3>2, <3>3 DEF Belongs
  <2>4. QED
    BY <2>2, <2>3
<1>7. QED
  BY <1>4, <1>5, <1>6 DEF fin

\* One height more.
Step(cell, z, c) == IF cell[z] = 0 THEN c ELSE Clustered(c, z, cell[z])

\* buildGrid's loop over the points of a cell, a height at a time.
LEMMA SeenOneMore ==
  ASSUME NEW cell \in [Height -> Nat], NEW z \in Height, NEW c, Seen(cell, z - 1, c)
  PROVE  Seen(cell, z, Step(cell, z, c))
<1> DEFINE ls == c.layers
           cur == c.current
           n == cell[z]
<1>1. /\ c \in ClusterSet /\ ls \in Seq(LayerSet) /\ cur \in LayerSet
      /\ \A i \in 1 .. Len(ls) : IsKept(cell, ls[i])
      /\ cur.count = 0 => ls = <<>> /\ cur.min = 0 /\ \A x \in Occupied(cell) : x > z - 1
      /\ cur.count > 0 =>
           /\ Stretch(cell, cur.min, cur.max)
           /\ cur.count = Many(cell, cur.min, cur.max)
           /\ cur.max <= z - 1
           /\ \A x \in Occupied(cell) : x <= z - 1 => x <= cur.max
      /\ \A x \in Occupied(cell) : x <= z - 1 /\ x < cur.min => Belongs(cell, ls, x)
  BY DEF Seen, ClusterSet
<1>2. /\ cur.count \in Nat /\ cur.min \in Nat /\ cur.max \in Nat /\ cur.sum \in Nat
      /\ z \in Nat /\ n \in Nat /\ LayerGap \in Nat
      /\ \A x \in Occupied(cell) : x \in Nat
      /\ z \in Occupied(cell) <=> n > 0
  BY <1>1, HeightsAre, OccupiedAre DEF LayerSet
<1> HIDE DEF n, cur, ls
<1>3. \A x \in Nat : (x <= z <=> x <= z - 1 \/ x = z) /\ (x <= z - 1 <=> x < z)
  BY <1>2
<1>4. CASE n = 0
  <2>1. Step(cell, z, c) = c
    BY <1>4 DEF Step, n
  <2>2. \A x \in Occupied(cell) : (x <= z <=> x <= z - 1) /\ (x > z <=> x > z - 1)
    BY <1>2, <1>4
  <2>3. cur.max <= z - 1 => cur.max <= z
    BY <1>2
  <2>4. QED
    BY <1>1, <2>1, <2>2, <2>3 DEF Seen, cur, ls
<1>5. CASE n > 0 /\ cur.count > 0 /\ ~BeyondGap(cur, z)
  <2> DEFINE new == Joined(cur, z, n)
  <2>1. Step(cell, z, c) = [c EXCEPT !.current = new]
    <3>1. Step(cell, z, c) = Clustered(c, z, n)
      BY <1>2, <1>5 DEF Step, n
    <3>2. QED
      BY <1>5, <3>1 DEF Clustered, cur
  <2>2. new \in LayerSet /\ new.min = cur.min /\ new.max = z /\ new.count = cur.count + n
    <3>1. cur.count + n \in Nat /\ cur.sum + n * z \in Nat
      BY <1>2
    <3>2. QED
      BY <1>1, <1>2, <3>1 DEF Joined, LayerSet
  <2> HIDE DEF new
  <2>3. /\ Step(cell, z, c) \in ClusterSet /\ Step(cell, z, c).layers = ls
        /\ Step(cell, z, c).current = new
    BY <1>1, <2>1, <2>2 DEF ClusterSet, ls
  <2>4. Stretch(cell, cur.min, z)
    <3>1. /\ cur.min \in Occupied(cell) /\ cur.max \in Occupied(cell) /\ cur.min <= cur.max
          /\ Opens(cell, cur.min) /\ Linked(cell, cur.min, cur.max)
          /\ cur.max < z /\ z - cur.max <= LayerGap
      BY <1>1, <1>2, <1>5 DEF Stretch, BeyondGap
    <3>2. ASSUME NEW x \in Occupied(cell), cur.min <= x, x < z
          PROVE  \E w \in Occupied(cell) : w > x /\ w - x <= LayerGap
      <4>1. x <= cur.max
        BY <1>1, <1>2, <1>5, <3>2
      <4>2. CASE x = cur.max
        BY <1>2, <1>5, <3>1, <4>2
      <4>3. CASE x # cur.max
        BY <1>2, <3>1, <3>2, <4>1, <4>3 DEF Linked
      <4>4. QED
        BY <4>2, <4>3
    <3>3. z \in Occupied(cell) /\ cur.min <= z
      BY <1>2, <1>5, <3>1
    <3>4. QED
      BY <3>1, <3>2, <3>3 DEF Stretch, Linked
  <2>5. new.count = Many(cell, cur.min, z)
    <3>1. /\ cur.min <= cur.max /\ cur.max < z /\ z \in Occupied(cell)
          /\ \A x \in Occupied(cell) : x < z => x <= cur.max
      BY <1>1, <1>2, <1>3, <1>5 DEF Stretch
    <3>2. Many(cell, cur.min, z) = Many(cell, cur.min, cur.max) + n
      BY <1>2, <3>1, ManyGrows DEF n
    <3>3. QED
      BY <1>1, <1>5, <2>2, <3>2
  <2>6. new.count > 0
    BY <1>2, <1>5, <2>2
  <2>7. \A x \in Occupied(cell) : x <= z /\ x < new.min => Belongs(cell, ls, x)
    <3>1. cur.min <= z
      BY <2>4 DEF Stretch
    <3>2. QED
      BY <1>1, <1>2, <1>3, <2>2, <3>1
  <2>8. \A x \in Occupied(cell) : x <= z => x <= new.max
    BY <2>2
  <2>9. new.max <= z /\ new.count # 0
    BY <1>2, <2>2, <2>6
  <2>10. QED
    BY <1>1, <2>2, <2>3, <2>4, <2>5, <2>6, <2>7, <2>8, <2>9 DEF Seen
<1>6. CASE n > 0 /\ ~(cur.count > 0 /\ ~BeyondGap(cur, z))
  <2> DEFINE new == HeightLayer(z, n)
             fin == Finished(c)
  <2>1. Step(cell, z, c) = [layers |-> fin, current |-> new]
    <3>1. Step(cell, z, c) = Clustered(c, z, n)
      BY <1>2, <1>6 DEF Step, n
    <3>2. QED
      BY <1>6, <3>1 DEF Clustered, cur
  <2>2. new \in LayerSet /\ new.min = z /\ new.max = z /\ new.count = n
    <3>1. n * z \in Nat
      BY <1>2
    <3>2. QED
      BY <1>2, <3>1 DEF HeightLayer, LayerSet
  <2>3. cur.count > 0 => Closes(cell, cur.max) /\ z - cur.max > LayerGap
    <3> SUFFICES ASSUME cur.count > 0 PROVE Closes(cell, cur.max) /\ z - cur.max > LayerGap
      OBVIOUS
    <3>1. z - cur.max > LayerGap
      BY <1>2, <1>6 DEF BeyondGap
    <3>2. \A x \in Occupied(cell) : x > cur.max => x >= z
      BY <1>1, <1>2, <1>3
    <3>3. \A x \in Occupied(cell) : x >= z => x - cur.max > LayerGap
      BY <1>2, <3>1
    <3>4. QED
      BY <3>1, <3>2, <3>3 DEF Closes
  <2>4. /\ fin \in Seq(LayerSet)
        /\ \A i \in 1 .. Len(fin) : IsKept(cell, fin[i])
        /\ \A x \in Occupied(cell) : x <= z - 1 => Belongs(cell, fin, x)
    <3>1. z - 1 \in Height \cup {-1}
      BY HeightsAre
    <3>2. QED
      BY <2>3, <3>1, FinishedIs DEF cur
  <2> HIDE DEF new, fin
  <2>5. Step(cell, z, c) \in ClusterSet
    BY <2>1, <2>2, <2>4 DEF ClusterSet
  <2>6. Stretch(cell, z, z)
    <3>1. z \in Occupied(cell)
      BY <1>2, <1>6
    <3>2. Opens(cell, z)
      <4>1. CASE cur.count = 0
        <5>1. \A x \in Occupied(cell) : z <= x
          BY <1>1, <1>2, <4>1
        <5>2. QED
          BY <5>1 DEF Opens
      <4>2. CASE cur.count > 0
        <5>1. cur.max \in Occupied(cell) /\ z - cur.max > LayerGap
          BY <1>1, <2>3, <4>2 DEF Stretch
        <5>2. \A x \in Occupied(cell) : x <= cur.max \/ z <= x
          BY <1>1, <1>2, <1>3, <4>2
        <5>3. QED
          BY <5>1, <5>2 DEF Opens
      <4>3. QED
        BY <1>2, <4>1, <4>2
    <3>3. Linked(cell, z, z)
      BY <1>2 DEF Linked
    <3>4. QED
      BY <1>2, <3>1, <3>2, <3>3 DEF Stretch
  <2>7. new.count = Many(cell, z, z) /\ new.count > 0 /\ new.count # 0
    <3>1. Many(cell, z, z) = n
      BY <1>2, <1>6, ManyGrows DEF n
    <3>2. QED
      BY <1>2, <1>6, <2>2, <3>1
  <2>8. \A x \in Occupied(cell) : x <= z /\ x < new.min => Belongs(cell, fin, x)
    BY <1>2, <1>3, <2>2, <2>4
  <2>9. new.max <= z /\ \A x \in Occupied(cell) : x <= z => x <= new.max
    BY <1>2, <2>2
  <2>10. Step(cell, z, c).layers = fin /\ Step(cell, z, c).current = new
    BY <2>1
  <2>11. QED
    BY <2>2, <2>4, <2>5, <2>6, <2>7, <2>8, <2>9, <2>10 DEF Seen
<1>7. QED
  BY <1>2, <1>4, <1>5, <1>6

\* The layers of a cell: what has been seen when all heights have been, finished.
LEMMA LayersAre ==
  ASSUME NEW cell \in [Height -> Nat]
  PROVE  /\ Layers(cell) \in Seq(LayerSet)
         /\ \A i \in 1 .. Len(Layers(cell)) : IsKept(cell, Layers(cell)[i])
         /\ \A x \in Occupied(cell) : Belongs(cell, Layers(cell), x)
<1> DEFINE H == Max(Height)
           P(f) == f = [z \in Height |-> Step(cell, z, IF z = 0 THEN NoClusters ELSE f[z - 1])]
<1>1. H \in Nat /\ Height = 0 .. H /\ H \in Height
  BY HeightsAre
<1>start. Seen(cell, -1, NoClusters) /\ NoClusters \in ClusterSet
  <2>1. HeightLayer(0, 0) = [min |-> 0, max |-> 0, count |-> 0, sum |-> 0]
    BY DEF HeightLayer
  <2>2. HeightLayer(0, 0) \in LayerSet
    BY <2>1 DEF LayerSet
  <2>3. NoClusters.layers = <<>> /\ NoClusters.current = HeightLayer(0, 0)
    BY DEF NoClusters
  <2>4. <<>> \in Seq(LayerSet) /\ Len(<<>>) = 0
    OBVIOUS
  <2>5. NoClusters \in ClusterSet
    BY <2>2, <2>4 DEF NoClusters, ClusterSet
  <2>6. \A x \in Occupied(cell) : x > -1 /\ ~(x <= -1)
    <3>1. \A x \in Nat : x > -1 /\ ~(x <= -1)
      OBVIOUS
    <3>2. QED
      BY <3>1, OccupiedAre
  <2>7. QED
    BY <2>1, <2>3, <2>4, <2>5, <2>6 DEF Seen
<1> HIDE DEF H
\* The recursion has a solution, for a step leads from clusters to clusters.
<1>2. \E f : P(f)
  <2> DEFINE next ==
               [n \in Nat |-> [c \in ClusterSet |-> IF n \in Height THEN Step(cell, n, c) ELSE c]]
  <2>1. ASSUME NEW z \in Height, NEW c \in ClusterSet PROVE Step(cell, z, c) \in ClusterSet
    <3>0. /\ z \in Nat /\ cell[z] \in Nat /\ c.layers \in Seq(LayerSet) /\ c.current \in LayerSet
      BY <1>1 DEF ClusterSet
    <3>1. /\ cell[z] * z \in Nat /\ c.current.sum + cell[z] * z \in Nat
          /\ c.current.count + cell[z] \in Nat
      <4>1. c.current.sum \in Nat /\ c.current.count \in Nat
        BY <3>0 DEF LayerSet
      <4>2. \A i, j, k \in Nat : i * j \in Nat /\ k + i * j \in Nat /\ k + i \in Nat
        OBVIOUS
      <4>3. QED
        BY <3>0, <4>1, <4>2
    <3>2. HeightLayer(z, cell[z]) \in LayerSet
      BY <3>0, <3>1 DEF HeightLayer, LayerSet
    <3>3. Joined(c.current, z, cell[z]) \in LayerSet
      BY <3>0, <3>1 DEF Joined, LayerSet
    <3>4. Finished(c) \in Seq(LayerSet)
      BY <3>0, AppendProperties DEF Finished
    <3>5. Clustered(c, z, cell[z]) \in ClusterSet
      BY <3>2, <3>3, <3>4 DEF Clustered, ClusterSet
    <3>6. QED
      BY <3>5 DEF Step
  <2>2. \A n \in Nat : \A c \in ClusterSet : /\ next[n][c] \in ClusterSet
                                             /\ n \in Height => next[n][c] = Step(cell, n, c)
    BY <2>1
  <2> HIDE DEF next
  <2>3. PICK f \in [0 .. H -> ClusterSet] : GoesBy(f, next, NoClusters)
    BY <1>1, <1>start, <2>2, RecursionExists
  <2>4. f \in [Height -> ClusterSet]
    BY <1>1
  <2>5. ASSUME NEW z \in Height
        PROVE  f[z] = Step(cell, z, IF z = 0 THEN NoClusters ELSE f[z - 1])
    <3>1. z \in Nat /\ (z # 0 => z - 1 \in Height)
      BY <1>1
    <3>2. (IF z = 0 THEN NoClusters ELSE f[z - 1]) \in ClusterSet
      BY <1>start, <2>4, <3>1
    <3>3. f[z] = next[z][IF z = 0 THEN NoClusters ELSE f[z - 1]]
      BY <1>1, <2>3 DEF GoesBy
    <3>4. QED
      BY <2>2, <3>1, <3>2, <3>3
  <2>6. P(f)
    BY <2>4, <2>5
  <2> HIDE DEF P
  <2>7. QED
    BY <2>6
<1> DEFINE upTo == CHOOSE f : P(f)
<1>3. P(upTo)
  BY <1>2
<1>4. Layers(cell) = Finished(upTo[H])
  BY DEF Layers, Step, H
<1> HIDE DEF upTo
<1>5. \A z \in Height : upTo[z] = Step(cell, z, IF z = 0 THEN NoClusters ELSE upTo[z - 1])
  BY <1>3
<1> HIDE DEF P
<1> DEFINE T == {n \in Nat : n <= H => Seen(cell, n, upTo[n])}
<1>6. \A n \in Nat : n \in T <=> (n <= H => Seen(cell, n, upTo[n]))
  OBVIOUS
<1> HIDE DEF T
<1>7. 0 \in T
  <2>1. 0 \in Height /\ 0 - 1 = -1
    BY <1>1
  <2>2. Seen(cell, 0, Step(cell, 0, NoClusters))
    BY <1>start, <2>1, SeenOneMore
  <2>3. upTo[0] = Step(cell, 0, NoClusters)
    BY <1>5, <2>1
  <2>4. QED
    BY <1>6, <2>2, <2>3
<1>8. ASSUME NEW n \in Nat, n \in T PROVE n + 1 \in T
  <2> SUFFICES ASSUME n + 1 <= H PROVE Seen(cell, n + 1, upTo[n + 1])
    BY <1>6
  <2>1. n + 1 \in Height /\ n + 1 # 0 /\ (n + 1) - 1 = n /\ n <= H
    BY <1>1
  <2>2. Seen(cell, (n + 1) - 1, upTo[n])
    BY <1>6, <1>8, <2>1
  <2>3. Seen(cell, n + 1, Step(cell, n + 1, upTo[n]))
    BY <2>1, <2>2, SeenOneMore
  <2>4. upTo[n + 1] = Step(cell, n + 1, upTo[n])
    BY <1>5, <2>1
  <2>5. QED
    BY <2>3, <2>4
<1>9. Seen(cell, H, upTo[H])
  <2>1. H \in T
    BY <1>1, <1>7, <1>8, SetInduction
  <2>2. QED
    BY <1>1, <1>6, <2>1
<1>10. \A x \in Occupied(cell) : x <= H /\ x \in Nat
  BY <1>1, OccupiedAre
<1>11. upTo[H].current.count > 0 => Closes(cell, upTo[H].current.max)
  <2> SUFFICES ASSUME upTo[H].current.count > 0 PROVE Closes(cell, upTo[H].current.max)
    OBVIOUS
  <2>1. /\ \A x \in Occupied(cell) : x <= H => x <= upTo[H].current.max
        /\ upTo[H].current \in LayerSet
    BY <1>9 DEF Seen, ClusterSet
  <2>2. upTo[H].current.max \in Nat
    BY <2>1 DEF LayerSet
  <2>3. QED
    BY <1>10, <2>1, <2>2 DEF Closes
<1>12. QED
  BY <1>1, <1>4, <1>9, <1>10, <1>11, FinishedIs

\* Of two numbers, the smaller and the larger.
LEMMA OfTwo ==
  ASSUME NEW x \in Int, NEW y \in Int
  PROVE  /\ Min({x, y}) = IF x <= y THEN x ELSE y
         /\ Max({x, y}) = IF x <= y THEN y ELSE x
<1>1. CASE x <= y
  <2>1. \A a \in {x, y} : (\A b \in {x, y} : a <= b) <=> a = x
    BY <1>1
  <2>2. \A a \in {x, y} : (\A b \in {x, y} : a >= b) <=> a = y
    BY <1>1
  <2>3. QED
    BY <1>1, <2>1, <2>2 DEF Min, Max
<1>2. CASE ~(x <= y)
  <2>1. \A a \in {x, y} : (\A b \in {x, y} : a <= b) <=> a = y
    BY <1>2
  <2>2. \A a \in {x, y} : (\A b \in {x, y} : a >= b) <=> a = x
    BY <1>2
  <2>3. QED
    BY <1>2, <2>1, <2>2 DEF Min, Max
<1>3. QED
  BY <1>1, <1>2

\* The group of a height is what lies in its whole stretch.
LEMMA GroupIsStretch ==
  ASSUME NEW cell \in [Height -> Nat], NEW lo, NEW hi, Stretch(cell, lo, hi), Closes(cell, hi),
         NEW x \in Occupied(cell), lo <= x, x <= hi
  PROVE  /\ Group(cell, x) = Between(cell, lo, hi)
         /\ Min(Group(cell, x)) = lo /\ Max(Group(cell, x)) = hi
<1> DEFINE Occ == Occupied(cell)
           Joins(u) == \E w \in Occ : w > u /\ w - u <= LayerGap
<1>1. /\ lo \in Occ /\ hi \in Occ /\ \A u \in Occ : u \in Nat
      /\ Opens(cell, lo) /\ \A u \in Occ : lo <= u /\ u < hi => Joins(u)
      /\ \A u \in Occ : u > hi => u - hi > LayerGap
      /\ LayerGap \in Nat /\ x \in Occ
  BY HeightsAre, OccupiedAre DEF Stretch, Linked, Closes
<1>2. ASSUME NEW y \in Occ
      PROVE  y \in Group(cell, x) <=>
               \A u \in Occ : (u >= (IF y <= x THEN y ELSE x) /\ u < (IF y <= x THEN x ELSE y))
                                => Joins(u)
  <2>1. Min({y, x}) = (IF y <= x THEN y ELSE x) /\ Max({y, x}) = (IF y <= x THEN x ELSE y)
    <3>1. y \in Int /\ x \in Int
      BY <1>1
    <3>2. QED
      BY <3>1, OfTwo
  <2>2. QED
    BY <2>1 DEF Group
<1>3. Group(cell, x) \subseteq Occ
  BY DEF Group
<1>hi. ~Joins(hi)
  <2>1. \A w \in Occ : w > hi => w - hi > LayerGap
    BY <1>1
  <2>2. QED
    BY <1>1, <2>1
<1> HIDE DEF Joins, Occ
<1>4. ASSUME NEW y \in Occ, lo <= y, y <= hi PROVE y \in Group(cell, x)
  <2>1. ASSUME NEW u \in Occ, u >= (IF y <= x THEN y ELSE x), u < (IF y <= x THEN x ELSE y)
        PROVE  Joins(u)
    <3>1. lo <= u /\ u < hi
      BY <1>1, <1>4, <2>1
    <3>2. QED
      BY <1>1, <3>1
  <2>2. QED
    BY <1>2, <2>1
<1>5. ASSUME NEW y \in Occ, y \in Group(cell, x) PROVE lo <= y /\ y <= hi
  <2>1. \A u \in Occ : (u >= (IF y <= x THEN y ELSE x) /\ u < (IF y <= x THEN x ELSE y)) => Joins(u)
    BY <1>2, <1>5
  <2>2. ASSUME ~(y <= hi) PROVE FALSE
    <3>1. hi >= x /\ hi < y /\ ~(y <= x)
      BY <1>1, <2>2
    <3>2. Joins(hi)
      BY <1>1, <2>1, <3>1
    <3>3. QED
      BY <1>hi, <3>2
  <2>3. ASSUME ~(lo <= y) PROVE FALSE
    <3>1. PICK p \in Occ : lo - p > LayerGap /\ \A u \in Occ : u <= p \/ lo <= u
      BY <1>1, <2>3 DEF Opens, Occ
    <3>2. y <= p /\ p < x /\ y <= x
      BY <1>1, <2>3, <3>1
    <3>3. Joins(p)
      BY <1>1, <2>1, <3>2
    <3>4. PICK w \in Occ : w > p /\ w - p <= LayerGap
      BY <3>3 DEF Joins
    <3>5. lo <= w
      BY <1>1, <3>1, <3>4
    <3>6. QED
      BY <1>1, <3>1, <3>4, <3>5
  <2>4. QED
    BY <2>2, <2>3
<1>6. Group(cell, x) = Between(cell, lo, hi)
  BY <1>3, <1>4, <1>5 DEF Between, Occ
<1>7. /\ lo \in Between(cell, lo, hi) /\ hi \in Between(cell, lo, hi)
      /\ \A u \in Between(cell, lo, hi) : u \in Nat /\ lo <= u /\ u <= hi
      /\ lo \in Nat /\ hi \in Nat
  BY <1>1 DEF Between, Stretch, Occ
<1>8. /\ \A u \in Between(cell, lo, hi) : (\A v \in Between(cell, lo, hi) : u <= v) <=> u = lo
      /\ \A u \in Between(cell, lo, hi) : (\A v \in Between(cell, lo, hi) : u >= v) <=> u = hi
  BY <1>7
<1>9. QED
  BY <1>6, <1>7, <1>8 DEF Min, Max

\* The layers of a cell are its groups.
LEMMA LayersAreGroups ==
  ASSUME NEW cell \in [Height -> Nat]
  PROVE  /\ \A g \in Groups(cell) : IsLayer(Layers(cell), Min(g), Max(g))
         /\ \A i \in 1 .. Len(Layers(cell)) :
              \E g \in Groups(cell) : Min(g) = Layers(cell)[i].min /\ Max(g) = Layers(cell)[i].max
<1>1. ASSUME NEW g \in Groups(cell) PROVE IsLayer(Layers(cell), Min(g), Max(g))
  <2>1. PICK x \in Occupied(cell) : g = Group(cell, x) /\ PointsIn(cell, g) >= MergeMinPoints
    BY DEF Groups
  <2>2. PICK lo, hi \in Height :
          /\ Stretch(cell, lo, hi) /\ Closes(cell, hi) /\ lo <= x /\ x <= hi
          /\ Many(cell, lo, hi) >= MergeMinPoints => IsLayer(Layers(cell), lo, hi)
    BY LayersAre DEF Belongs
  <2>3. g = Between(cell, lo, hi) /\ Min(g) = lo /\ Max(g) = hi
    BY <2>1, <2>2, GroupIsStretch
  <2>4. QED
    BY <2>1, <2>2, <2>3 DEF Many
<1>2. ASSUME NEW i \in 1 .. Len(Layers(cell))
      PROVE  \E g \in Groups(cell) : Min(g) = Layers(cell)[i].min /\ Max(g) = Layers(cell)[i].max
  <2> DEFINE l == Layers(cell)[i]
             g == Group(cell, l.min)
  <2>1. IsKept(cell, l)
    BY LayersAre
  <2> HIDE DEF l
  <2>2. /\ Stretch(cell, l.min, l.max) /\ Closes(cell, l.max) /\ l.min \in Occupied(cell)
        /\ l.min <= l.min /\ l.min <= l.max /\ Many(cell, l.min, l.max) >= MergeMinPoints
    <3>1. l.min \in Occupied(cell)
      BY <2>1 DEF IsKept, Stretch
    <3>2. l.min <= l.min
      BY <3>1, OccupiedAre
    <3>3. QED
      BY <2>1, <3>1, <3>2 DEF IsKept, Stretch
  <2>3. g = Between(cell, l.min, l.max) /\ Min(g) = l.min /\ Max(g) = l.max
    BY <2>2, GroupIsStretch
  <2>4. PointsIn(cell, g) >= MergeMinPoints
    BY <2>2, <2>3 DEF Many
  <2>5. g \in Groups(cell)
    BY <2>2, <2>4 DEF Groups
  <2>6. QED
    BY <2>3, <2>5 DEF l
<1>3. QED
  BY <1>1, <1>2

\* What is nearer than what is no further, is nearer.
LEMMA FractionsInOrder ==
  ASSUME NEW a \in Nat, NEW b \in Nat, NEW c \in Nat, NEW d \in Nat, NEW e \in Nat, NEW f \in Nat,
         b > 0, d > 0, f > 0, a * d <= c * b, c * f <= e * d
  PROVE  a * f <= e * b
<1>mul. \A x, y, z \in Nat : x <= y => x * z <= y * z
  OBVIOUS
<1>1. (a * d) * f <= (c * b) * f
  BY <1>mul
<1>2. (c * f) * b <= (e * d) * b
  BY <1>mul
<1>3. (a * d) * f = (a * f) * d /\ (c * b) * f = (c * f) * b /\ (e * d) * b = (e * b) * d
  OBVIOUS
<1>4. (a * f) * d <= (e * b) * d
  BY <1>1, <1>2, <1>3
<1> DEFINE p == a * f
           q == e * b
<1>5. p \in Nat /\ q \in Nat /\ p * d <= q * d
  BY <1>4
<1> HIDE DEF p, q
<1>6. p <= q
  <2>1. ASSUME p > q PROVE FALSE
    <3>1. p >= q + 1
      BY <1>5, <2>1
    <3>2. (q + 1) * d <= p * d
      BY <1>5, <1>mul, <3>1
    <3>3. (q + 1) * d = q * d + d
      BY <1>5
    <3>4. p * d \in Nat /\ q * d \in Nat
      BY <1>5
    <3>5. QED
      BY <1>5, <3>2, <3>3, <3>4
  <2>2. QED
    BY <1>5, <2>1
<1>7. QED
  BY <1>6 DEF p, q

\* One of the layers is the closest.
LEMMA ClosestIsOne ==
  ASSUME NEW layers \in Seq(LayerSet), NEW z \in Nat, Len(layers) > 0,
         \A i \in 1 .. Len(layers) : layers[i].count > 0
  PROVE  \E i \in 1 .. Len(layers) : ClosestLayer(layers, z) = layers[i]
<1> DEFINE N == Len(layers)
           a(i) == Apart(z * layers[i].count, layers[i].sum)
           b(i) == layers[i].count
           Best(i, n) == \A j \in 1 .. n : ~Nearer(layers[j], layers[i], z)
<1>1. N \in Nat /\ N > 0
  OBVIOUS
<1>2. ASSUME NEW i \in 1 .. N PROVE a(i) \in Nat /\ b(i) \in Nat /\ b(i) > 0
  <2>1. layers[i] \in LayerSet
    OBVIOUS
  <2>2. layers[i].count \in Nat /\ layers[i].sum \in Nat
    BY <2>1 DEF LayerSet
  <2>3. z * layers[i].count \in Nat
    BY <2>2
  <2>4. \A x, y \in Nat : Apart(x, y) \in Nat
    BY DEF Apart
  <2>5. QED
    BY <2>2, <2>3, <2>4
<1>3. \A i, j \in 1 .. N : Nearer(layers[i], layers[j], z) <=> a(i) * b(j) < a(j) * b(i)
  BY DEF Nearer
<1> HIDE DEF a, b, N
<1>4. \A i, j \in 1 .. N : ~Nearer(layers[i], layers[j], z) <=> a(j) * b(i) <= a(i) * b(j)
  <2>1. \A i, j \in 1 .. N : a(i) * b(j) \in Nat /\ a(j) * b(i) \in Nat
    BY <1>2
  <2>2. \A x, y \in Nat : ~(x < y) <=> y <= x
    OBVIOUS
  <2>3. QED
    BY <1>3, <2>1, <2>2
<1> DEFINE T == {n \in Nat : n + 1 <= N => \E i \in 1 .. n + 1 : Best(i, n + 1)}
<1>5. \A n \in Nat : n \in T <=> (n + 1 <= N => \E i \in 1 .. n + 1 : Best(i, n + 1))
  OBVIOUS
<1> HIDE DEF T
<1>6. 0 \in T
  <2>1. 1 \in 1 .. N /\ 1 .. 0 + 1 = {1}
    BY <1>1
  <2>2. a(1) * b(1) <= a(1) * b(1)
    BY <1>2, <2>1
  <2>3. Best(1, 0 + 1)
    BY <1>4, <2>1, <2>2
  <2>4. QED
    BY <1>5, <2>1, <2>3
<1>7. ASSUME NEW n \in Nat, n \in T PROVE n + 1 \in T
  <2> DEFINE k == n + 2
  <2> SUFFICES ASSUME k <= N PROVE \E i \in 1 .. k : Best(i, k)
    BY <1>5
  <2>1. /\ k \in 1 .. N /\ n + 1 <= N
        /\ \A j \in 1 .. k : j \in 1 .. N /\ (j \in 1 .. n + 1 \/ j = k)
        /\ \A j \in 1 .. n + 1 : j \in 1 .. k
    BY <1>1
  <2>2. PICK i \in 1 .. n + 1 : Best(i, n + 1)
    BY <1>5, <1>7, <2>1
  <2>3. i \in 1 .. N /\ i \in 1 .. k
    BY <2>1
  <2> HIDE DEF k
  <2>4. CASE ~Nearer(layers[k], layers[i], z)
    BY <2>1, <2>2, <2>3, <2>4
  <2>5. CASE Nearer(layers[k], layers[i], z)
    <3>1. a(k) * b(i) <= a(i) * b(k)
      <4>1. a(k) * b(i) < a(i) * b(k)
        BY <1>3, <2>1, <2>3, <2>5
      <4>2. a(k) \in Nat /\ b(k) \in Nat /\ a(i) \in Nat /\ b(i) \in Nat
        BY <1>2, <2>1, <2>3
      <4>3. a(k) * b(i) \in Nat /\ a(i) * b(k) \in Nat
        BY <4>2
      <4>4. QED
        BY <4>1, <4>3
    <3>2. ASSUME NEW j \in 1 .. k PROVE ~Nearer(layers[j], layers[k], z)
      <4>1. j \in 1 .. N
        BY <2>1
      <4>2. CASE j = k
        <5>1. a(k) * b(k) \in Nat
          BY <1>2, <2>1
        <5>2. QED
          BY <1>4, <2>1, <4>2, <5>1
      <4>3. CASE j \in 1 .. n + 1
        <5>1. a(i) * b(j) <= a(j) * b(i)
          BY <1>4, <2>2, <2>3, <4>1, <4>3
        <5>2. a(k) * b(j) <= a(j) * b(k)
          <6>1. /\ a(k) \in Nat /\ b(k) \in Nat /\ a(i) \in Nat /\ b(i) \in Nat
                /\ a(j) \in Nat /\ b(j) \in Nat /\ b(k) > 0 /\ b(i) > 0 /\ b(j) > 0
            BY <1>2, <2>1, <2>3, <4>1
          <6>2. QED
            BY <3>1, <5>1, <6>1, FractionsInOrder
        <5>3. QED
          BY <1>4, <2>1, <4>1, <5>2
      <4>4. QED
        BY <2>1, <4>2, <4>3
    <3>3. k \in 1 .. k
      BY <2>1
    <3>4. QED
      BY <3>2, <3>3
  <2>6. QED
    BY <2>4, <2>5
<1>8. \E i \in 1 .. N : Best(i, N)
  <2>1. N - 1 \in Nat /\ (N - 1) + 1 = N /\ N <= N
    BY <1>1
  <2>2. N - 1 \in T
    BY <1>6, <1>7, <2>1, SetInduction
  <2>3. QED
    BY <1>5, <2>1, <2>2
<1> DEFINE S == {i \in DOMAIN layers : \A j \in DOMAIN layers : ~Nearer(layers[j], layers[i], z)}
<1>9. S \in SUBSET Nat /\ S # {} /\ \A i \in S : i \in 1 .. N
  <2>1. DOMAIN layers = 1 .. N
    BY DEF N
  <2>2. QED
    BY <1>8, <2>1
<1>10. ClosestLayer(layers, z) = layers[Min(S)]
  BY DEF ClosestLayer
<1> HIDE DEF S
<1>11. Min(S) \in S
  BY <1>9, LeastElement DEF Min
<1>12. QED
  BY <1>9, <1>10, <1>11 DEF N

\* Where there are groups, a height is judged by one of them.
LEMMA GridJudges ==
  ASSUME NEW cell \in [Height -> Nat], NEW z \in Height, Groups(cell) # {}
  PROVE  /\ Layers(cell) # <<>> /\ Occupied(cell) # {}
         /\ (\A g \in Groups(cell) : FarFrom(g, z)) => ObstacleOnGrid(Layers(cell), z)
         /\ (\A g \in Groups(cell) : ~FarFrom(g, z)) => ~ObstacleOnGrid(Layers(cell), z)
<1> DEFINE ls == Layers(cell)
<1>1. ls \in Seq(LayerSet) /\ \A i \in 1 .. Len(ls) : IsKept(cell, ls[i])
  BY LayersAre
<1>2. /\ \A g \in Groups(cell) : IsLayer(ls, Min(g), Max(g))
      /\ \A i \in 1 .. Len(ls) :
           \E g \in Groups(cell) : Min(g) = ls[i].min /\ Max(g) = ls[i].max
  BY LayersAreGroups
<1> HIDE DEF ls
<1>3. Len(ls) > 0 /\ ls # <<>>
  <2>1. \E i \in 1 .. Len(ls) : TRUE
    BY <1>2 DEF IsLayer
  <2>2. QED
    BY <1>1, <2>1
<1>4. z \in Nat /\ Tolerance \in Nat /\ GridThreshold \in Nat /\ Tolerance < GridThreshold
  BY HeightsAre
<1>5. PICK i \in 1 .. Len(ls) : ClosestLayer(ls, z) = ls[i]
  <2>1. \A i \in 1 .. Len(ls) : ls[i].count > 0
    BY <1>1 DEF IsKept
  <2>2. QED
    BY <1>1, <1>3, <1>4, <2>1, ClosestIsOne
<1> DEFINE l == ls[i]
<1>6. l.min \in Nat /\ l.max \in Nat
  <2>1. l \in LayerSet
    BY <1>1
  <2>2. QED
    BY <2>1 DEF LayerSet
<1>7. PICK g \in Groups(cell) : Min(g) = l.min /\ Max(g) = l.max
  BY <1>2
<1>8. ObstacleOnGrid(ls, z) <=>
        /\ z \notin l.min - Tolerance .. l.max + Tolerance
        /\ z - l.max >= GridThreshold \/ l.min - z >= GridThreshold
  BY <1>5 DEF ObstacleOnGrid
<1>9. FarFrom(g, z) <=> z - l.max >= GridThreshold \/ l.min - z >= GridThreshold
  BY <1>7 DEF FarFrom
<1> HIDE DEF l
<1>10. (z - l.max >= GridThreshold \/ l.min - z >= GridThreshold)
         => z \notin l.min - Tolerance .. l.max + Tolerance
  BY <1>4, <1>6
<1>11. Occupied(cell) # {}
  BY <1>7 DEF Groups
<1>12. QED
  BY <1>3, <1>7, <1>8, <1>9, <1>10, <1>11 DEF ls

\* The index, while it is in use, is that of the local map.
ObsInv ==
  /\ ObsTypeOK
  /\ gridIndexInitialized => gridIndex = BuildGrid(localWorldCloud)

\* The row of places ends before the position the robot was never at.
LEMMA RowIs ==
  /\ Max(Place) \in Int /\ Place \subseteq Int /\ \A p \in Place : p <= Max(Place)
  /\ CacheThreshold \in Nat /\ CacheThreshold > 0 /\ LocalMapSize \in Nat /\ MaxWorlds \in Nat
  /\ Worlds \subseteq [Place -> [Height -> Nat]]
  /\ Nowhere \notin Place /\ Nowhere \in Int
<1>1. /\ {Min(Place), Max(Place)} \subseteq Int /\ Place = Min(Place) .. Max(Place)
      /\ CacheThreshold \in Nat /\ CacheThreshold > 0 /\ LocalMapSize \in Nat /\ MaxWorlds \in Nat
      /\ Worlds \subseteq [Place -> [Height -> Nat]]
  BY ObstacleAssumption
<1> DEFINE last == Max(Place)
           first == Min(Place)
<1>2. last \in Int /\ first \in Int /\ Place = first .. last /\ Nowhere = last + 2 * CacheThreshold
  BY <1>1 DEF Nowhere
<1> HIDE DEF last, first
<1>3. /\ last \in Int /\ Place \subseteq Int /\ \A p \in Place : p <= last
      /\ Nowhere \notin Place /\ Nowhere \in Int
  BY <1>1, <1>2
<1>4. QED
  BY <1>1, <1>3 DEF last

\* Before the first map and the first cloud.
LEMMA ObsInvInit == ObsInit => ObsInv
<1> SUFFICES ASSUME ObsInit PROVE ObsInv
  OBVIOUS
<1>1. EmptyCloud \in [Place -> [Height -> Nat]]
  BY DEF EmptyCloud, EmptyCell
<1>2. /\ worldCloud = EmptyCloud /\ worlds = 0 /\ robot \in Place
      /\ localWorldCloud = EmptyCloud /\ localMapInitialized = FALSE
      /\ lastRobotPosition = Nowhere
      /\ DOMAIN gridIndex = Place /\ gridIndexInitialized = FALSE
      /\ obs_raw.at = Nowhere /\ obs_raw.points = {}
  BY DEF ObsInit
<1>3. 0 \in 0 .. MaxWorlds
  BY RowIs
<1>4. localMapInitialized = (lastRobotPosition # Nowhere)
      /\ gridIndexInitialized = (localWorldCloud # EmptyCloud)
  BY <1>2
<1>5. QED
  BY <1>1, <1>2, <1>3, <1>4 DEF ObsInv, ObsTypeOK

\* updateLocalMap keeps the index that of the local map.
LEMMA UpdateKeepsIndex ==
  ASSUME ObsInv, UpdateLocalMap
  PROVE  /\ lastRobotPosition' \in Place \cup {Nowhere}
         /\ localMapInitialized' = (lastRobotPosition' # Nowhere)
         /\ gridIndexInitialized' = (localWorldCloud' # EmptyCloud)
         /\ localWorldCloud' \in [Place -> [Height -> Nat]]
         /\ DOMAIN gridIndex' = Place
         /\ gridIndexInitialized' => gridIndex' = BuildGrid(localWorldCloud')
<1>1. CASE UsesCache
  <2>1. UNCHANGED mapCache
    BY <1>1 DEF UpdateLocalMap
  <2>2. QED
    BY <2>1 DEF mapCache, ObsInv, ObsTypeOK
<1>2. CASE ~UsesCache
  <2>1. CacheLocalMap
    BY <1>2 DEF UpdateLocalMap
  <2>2. localWorldCloud' \in [Place -> [Height -> Nat]]
    <3>1. worldCloud \in [Place -> [Height -> Nat]]
      BY RowIs DEF ObsInv, ObsTypeOK, EmptyCloud, EmptyCell
    <3>2. EmptyCell \in [Height -> Nat]
      BY DEF EmptyCell
    <3>3. QED
      BY <2>1, <3>1, <3>2 DEF CacheLocalMap
  <2>3. /\ gridIndexInitialized' = (localWorldCloud' # EmptyCloud)
        /\ gridIndex' = IF gridIndexInitialized' THEN BuildGrid(localWorldCloud') ELSE gridIndex
        /\ localMapInitialized' = TRUE /\ lastRobotPosition' = robot
    BY <2>1 DEF CacheLocalMap
  <2>4. robot \in Place /\ DOMAIN gridIndex = Place
    BY DEF ObsInv, ObsTypeOK
  <2>5. DOMAIN BuildGrid(localWorldCloud') = Place
    BY DEF BuildGrid
  <2>6. QED
    BY <2>2, <2>3, <2>4, <2>5, RowIs
<1>3. QED
  BY <1>1, <1>2

\* Every step keeps the index: the two callbacks, and the robot that moves.
LEMMA ObsInvKept == ObsInv /\ [ObsNext]_obsVars => ObsInv'
<1> SUFFICES ASSUME ObsInv, [ObsNext]_obsVars PROVE ObsInv'
  OBVIOUS
<1>1. CASE RcvLidarCallBack
  <2>1. UpdateLocalMap /\ UNCHANGED <<worldCloud, worlds, robot>>
    BY <1>1 DEF RcvLidarCallBack
  <2>2. obs_raw'.at \in Place \cup {Nowhere} /\ obs_raw'.points \subseteq Place \X Height
    <3>1. CASE UNCHANGED obs_raw
      BY <3>1 DEF ObsInv, ObsTypeOK
    <3>2. CASE obs_raw' = [at |-> robot, points |-> {pt \in Window(robot) \X Height :
                                                         ObstacleFound(pt[1], pt[2])}]
      BY <3>2 DEF ObsInv, ObsTypeOK, Window
    <3>3. QED
      BY <1>1, <3>1, <3>2 DEF RcvLidarCallBack
  <2>3. QED
    BY <2>1, <2>2, UpdateKeepsIndex DEF ObsInv, ObsTypeOK
<1>2. ASSUME NEW cloud \in Worlds, RcvWorldCallBack(cloud) PROVE ObsInv'
  <2>1. worlds' \in 0 .. MaxWorlds
    BY <1>2, RowIs DEF RcvWorldCallBack, ObsInv, ObsTypeOK
  <2>2. QED
    BY <1>2, <2>1 DEF RcvWorldCallBack, mapCache, ObsInv, ObsTypeOK
<1>3. ASSUME NEW to \in Place, RobotMoves(to) PROVE ObsInv'
  BY <1>3 DEF RobotMoves, mapCache, ObsInv, ObsTypeOK
<1>4. CASE UNCHANGED obsVars
  BY <1>4 DEF obsVars, mapCache, ObsInv, ObsTypeOK
<1>5. QED
  BY <1>1, <1>2, <1>3, <1>4 DEF ObsNext

\* Whatever is published is judged by the groups of the local map.
LEMMA PublishedIsJudged ==
  ASSUME ObsInv, RcvLidarCallBack, obs_raw' # obs_raw,
         NEW p \in Window(robot), NEW z \in Height, Groups(localWorldCloud'[p]) # {}
  PROVE  /\ (\A g \in Groups(localWorldCloud'[p]) : FarFrom(g, z)) => <<p, z>> \in obs_raw'.points
         /\ (\A g \in Groups(localWorldCloud'[p]) : ~FarFrom(g, z))
              => <<p, z>> \notin obs_raw'.points
<1> DEFINE cell == localWorldCloud'[p]
<1>1. UpdateLocalMap /\ p \in Place
  BY DEF RcvLidarCallBack, Window
<1>2. /\ localWorldCloud' \in [Place -> [Height -> Nat]]
      /\ gridIndexInitialized' = (localWorldCloud' # EmptyCloud)
      /\ gridIndexInitialized' => gridIndex' = BuildGrid(localWorldCloud')
  BY <1>1, UpdateKeepsIndex
<1>3. cell \in [Height -> Nat]
  BY <1>1, <1>2
<1>4. /\ Layers(cell) # <<>> /\ Occupied(cell) # {}
      /\ (\A g \in Groups(cell) : FarFrom(g, z)) => ObstacleOnGrid(Layers(cell), z)
      /\ (\A g \in Groups(cell) : ~FarFrom(g, z)) => ~ObstacleOnGrid(Layers(cell), z)
  BY <1>3, GridJudges
<1>5. gridIndexInitialized'
  <2>1. localWorldCloud' # EmptyCloud
    BY <1>1, <1>4 DEF EmptyCloud, EmptyCell, Occupied
  <2>2. QED
    BY <1>2, <2>1
<1>6. gridIndex'[p] = Layers(cell)
  BY <1>1, <1>2, <1>5 DEF BuildGrid
<1>7. ObstacleFound(p, z) <=> ObstacleOnGrid(Layers(cell), z)
  BY <1>1, <1>4, <1>5, <1>6 DEF ObstacleFound
<1>8. obs_raw'.points = {pt \in Window(robot) \X Height : ObstacleFound(pt[1], pt[2])}
  BY DEF RcvLidarCallBack
<1>9. <<p, z>> \in obs_raw'.points <=> ObstacleFound(p, z)
  BY <1>8
<1>10. QED
  BY <1>4, <1>7, <1>9

\* Whatever heights, gaps and numbers of points, rcvLidarCallBack publishes a point that
\* is far from every group of the cached map in its cell, and none that is near to each:
\* the layers of buildGrid are those groups, and the closest one is one of them.
THEOREM LayersJudgeObstacles == ObsSpec => NewThingsAreObstacles
<1>1. ObsInv /\ [ObsNext]_obsVars =>
        (obs_raw' # obs_raw =>
          \A p \in Window(robot) :
            LET known == Groups(localWorldCloud'[p])
            IN  \A z \in Height :
                  /\ (known # {} /\ \A g \in known : FarFrom(g, z))
                       => <<p, z>> \in obs_raw'.points
                  /\ (known # {} /\ \A g \in known : ~FarFrom(g, z))
                       => <<p, z>> \notin obs_raw'.points)
  <2> SUFFICES ASSUME ObsInv, [ObsNext]_obsVars, obs_raw' # obs_raw, NEW p \in Window(robot),
                      NEW z \in Height, Groups(localWorldCloud'[p]) # {}
               PROVE  /\ (\A g \in Groups(localWorldCloud'[p]) : FarFrom(g, z))
                           => <<p, z>> \in obs_raw'.points
                      /\ (\A g \in Groups(localWorldCloud'[p]) : ~FarFrom(g, z))
                           => <<p, z>> \notin obs_raw'.points
    OBVIOUS
  <2>1. RcvLidarCallBack
    BY DEF ObsNext, RcvWorldCallBack, RobotMoves, obsVars
  <2>2. QED
    BY <2>1, PublishedIsJudged
<1>2. QED
  BY <1>1, ObsInvInit, ObsInvKept, PTL DEF ObsSpec, NewThingsAreObstacles

\* The variables of the two callbacks keep their types, and the index is in use exactly
\* while updateLocalMap found points near the robot.
THEOREM ObstacleTypes == ObsSpec => []ObsTypeOK
<1>1. ObsInv => ObsTypeOK
  BY DEF ObsInv
<1>2. QED
  BY <1>1, ObsInvInit, ObsInvKept, PTL DEF ObsSpec

-----------------------------------------------------------------------------
(* Scans, samples and the time of the filter                               *)

\* The times of the scans, the type of what is taken up, and what is never there early.
LioShape ==
  /\ last_timestamp_lidar = Never => time_buffer = <<>> /\ filter_time = Never
  /\ filter_time = Never => feats_undistort = NoCloud
  /\ filter_time # Never => init_count >= MaxIniCount

\* A scan taken up is in front, and ends where one of the mean duration does.
TakenUp ==
  lidar_pushed => /\ meas.beg = Head(time_buffer)
                  /\ meas.end = meas.beg + lidar_mean_scantime
                  /\ meas.lidar.points # "none" => lidar_mean_scantime = ScanTime

\* Samples wait in order, and the longest gap is a dropout.
SamplesInOrder ==
  /\ \A i, j \in 1 .. Len(imu_buffer) : i <= j => imu_buffer[i] <= imu_buffer[j]
  /\ \A i \in 1 .. Len(imu_buffer) - 1 :
       imu_buffer[i + 1] <= imu_buffer[i] + IF regular THEN SampleTime ELSE ScanTime + 1
  /\ imu_buffer # <<>> => imu_buffer[Len(imu_buffer)] = last_timestamp_imu

\* The scans that wait, and the next one, end a scan's time after the last one, or later.
ScansAhead ==
  /\ \A i, j \in 1 .. Len(time_buffer) : i < j => time_buffer[i] + ScanTime <= time_buffer[j]
  /\ \A i \in 1 .. Len(time_buffer) : time_buffer[i] <= last_timestamp_lidar
  /\ filter_time # Never =>
       /\ \A i \in 1 .. Len(time_buffer) :
            time_buffer[i] + lidar_mean_scantime >= last_lidar_end_time + ScanTime
       /\ last_timestamp_lidar + lidar_mean_scantime >= last_lidar_end_time

\* No sample that waits was there at the end of the last scan.
SamplesFresh ==
  filter_time # Never =>
    /\ last_timestamp_imu >= last_lidar_end_time
    /\ \A i \in 1 .. Len(imu_buffer) : imu_buffer[i] >= last_lidar_end_time

\* Of the two clocks at most one has jumped back.
OneClockStands ==
  /\ ScansAhead \/ SamplesFresh
  /\ regular => ScansAhead /\ SamplesFresh

LastSampleIsOld == filter_time # Never => last_imu <= last_lidar_end_time

\* Where the next sample is at the latest.
NextSample == IF imu_buffer = <<>> THEN last_timestamp_imu + SampleTime ELSE Head(imu_buffer)

ScansHaveStamps ==
  /\ Len(lidar_buffer) = Len(time_buffer)
  /\ \A i \in 1 .. Len(lidar_buffer) : lidar_buffer[i].stamp = time_buffer[i]
  /\ lidar_pushed => meas.lidar = Head(lidar_buffer)

FirstSampleIsEarly ==
  flg_first_scan =>
    IF imu_buffer = <<>> THEN last_timestamp_imu = Never ELSE Head(imu_buffer) <= 1

NextSampleIsInTime ==
  ~flg_first_scan =>
    /\ last_timestamp_imu # Never /\ last_timestamp_lidar # Never
    /\ \A i \in 1 .. Len(time_buffer) : NextSample < time_buffer[i] + lidar_mean_scantime
    /\ NextSample < last_timestamp_lidar + ScanTime + lidar_mean_scantime

\* With regular sensors the scans have their stamps, and the next sample is before the
\* end of the next scan, but perhaps for the first.
InStep == regular => ScansHaveStamps /\ FirstSampleIsEarly /\ NextSampleIsInTime

LioInv ==
  /\ LioTypeOK /\ LioShape /\ TakenUp /\ SamplesInOrder /\ OneClockStands /\ LastSampleIsOld
  /\ InStep /\ FilterKeepsTime /\ OdometryIsOfItsScan

\* Before the first scan and the first sample the invariant holds.
LEMMA LioInvInit == LioInit => LioInv
<1> SUFFICES ASSUME LioInit PROVE LioInv
  OBVIOUS
<1> USE LioAssumption DEF LioInit
<1>1. LioTypeOK
  <2>1. /\ <<>> \in Seq(ScanCloud) /\ <<>> \in Seq(Stamp)
        /\ {last_timestamp_lidar, last_timestamp_imu, last_imu} \subseteq Stamp \cup {Never}
    OBVIOUS
  <2>2. meas.lidar = NoCloud /\ odometry.scan = NoCloud /\ feats_undistort = NoCloud
    BY DEF NoMeas, Silence
  <2>3. init_count \in Nat /\ filter_time \in Int /\ last_lidar_end_time \in Nat
    BY DEF Never
  <2>4. {feats_undistort, odometry.scan} \subseteq ScanCloud \cup {NoCloud}
    BY <2>2
  <2>5. /\ Len(lidar_buffer) <= Len(time_buffer) /\ lidar_mean_scantime \in {0, ScanTime}
        /\ meas.lidar \in ScanCloud \cup {NoCloud}
    BY <2>2
  <2>6. QED
    BY <2>1, <2>3, <2>4, <2>5 DEF LioTypeOK
<1>2. LioShape /\ TakenUp /\ SamplesInOrder /\ LastSampleIsOld /\ FilterKeepsTime
  BY DEF LioShape, TakenUp, SamplesInOrder, LastSampleIsOld, FilterKeepsTime
<1>3. OneClockStands
  BY DEF OneClockStands, ScansAhead, SamplesFresh
<1>4. InStep /\ OdometryIsOfItsScan
  BY DEF InStep, ScansHaveStamps, FirstSampleIsEarly, NextSampleIsInTime, OdometryIsOfItsScan
<1>5. QED
  BY <1>1, <1>2, <1>3, <1>4 DEF LioInv

\* The stamps are numbers.
LEMMA StampsAreNumbers ==
  ASSUME LioTypeOK
  PROVE  /\ Never = -1 /\ Stamp \subseteq Nat /\ ScanTime \in Nat /\ SampleTime \in Nat
         /\ SampleTime >= 1 /\ SampleTime < ScanTime /\ MaxStamp \in Nat
         /\ \A i \in 1 .. Len(imu_buffer) : imu_buffer[i] \in Nat
         /\ \A i \in 1 .. Len(time_buffer) : time_buffer[i] \in Nat
         /\ Len(imu_buffer) \in Nat /\ Len(time_buffer) \in Nat /\ Len(lidar_buffer) \in Nat
         /\ last_timestamp_imu \in Int /\ last_timestamp_imu >= -1
         /\ last_timestamp_lidar \in Int /\ last_timestamp_lidar >= -1
         /\ last_imu \in Int /\ last_imu >= -1
         /\ lidar_mean_scantime \in Nat /\ lidar_mean_scantime \in {0, ScanTime}
         /\ last_lidar_end_time \in Nat /\ filter_time \in Int
<1>1. /\ Never = -1 /\ ScanTime \in Nat /\ SampleTime \in Nat
      /\ SampleTime >= 1 /\ SampleTime < ScanTime /\ MaxStamp \in Nat
  BY LioAssumption DEF Never
<1>2. Stamp \subseteq Nat
  BY <1>1 DEF Stamp
<1>3. /\ \A i \in 1 .. Len(imu_buffer) : imu_buffer[i] \in Nat
      /\ \A i \in 1 .. Len(time_buffer) : time_buffer[i] \in Nat
      /\ Len(imu_buffer) \in Nat /\ Len(time_buffer) \in Nat /\ Len(lidar_buffer) \in Nat
  <2>1. imu_buffer \in Seq(Stamp) /\ time_buffer \in Seq(Stamp) /\ lidar_buffer \in Seq(ScanCloud)
    BY DEF LioTypeOK
  <2>2. /\ \A i \in 1 .. Len(imu_buffer) : imu_buffer[i] \in Stamp
        /\ \A i \in 1 .. Len(time_buffer) : time_buffer[i] \in Stamp
    BY <2>1
  <2>3. \A x \in Stamp : x \in Nat
    BY <1>2
  <2>4. Len(imu_buffer) \in Nat /\ Len(time_buffer) \in Nat /\ Len(lidar_buffer) \in Nat
    BY <2>1, LenProperties
  <2>5. QED
    BY <2>2, <2>3, <2>4, Zenon
<1>4. /\ last_timestamp_imu \in Int /\ last_timestamp_imu >= -1
      /\ last_timestamp_lidar \in Int /\ last_timestamp_lidar >= -1
      /\ last_imu \in Int /\ last_imu >= -1
  <2>1. /\ last_timestamp_imu \in Stamp \cup {Never} /\ last_timestamp_lidar \in Stamp \cup {Never}
        /\ last_imu \in Stamp \cup {Never}
    BY DEF LioTypeOK
  <2>2. \A x \in Stamp \cup {Never} : x \in Int /\ x >= -1
    BY <1>1, <1>2
  <2>3. QED
    BY <2>1, <2>2
<1>5. /\ lidar_mean_scantime \in {0, ScanTime} /\ last_lidar_end_time \in Nat /\ filter_time \in Int
  BY DEF LioTypeOK
<1>6. QED
  BY <1>1, <1>2, <1>3, <1>4, <1>5

\* ImuCbk, at a sample: in time, after a dropout or after a restart of the clock.
LEMMA SampleKeepsTime ==
  ASSUME LioInv, NEW t \in Stamp, Sample(t)
  PROVE  LioInv'
<1> DEFINE n == Len(imu_buffer)
<1>1. /\ LioTypeOK /\ LioShape /\ TakenUp /\ SamplesInOrder /\ OneClockStands
      /\ LastSampleIsOld /\ InStep /\ FilterKeepsTime
  BY DEF LioInv
<1>2. /\ InTime(t) \/ (regular /\ (DroppedOut(t) \/ Restarted(t)))
      /\ imu_buffer' = IF t < last_timestamp_imu THEN <<t>> ELSE Append(imu_buffer, t)
      /\ last_timestamp_imu' = t
      /\ regular' = (regular /\ InTime(t))
      /\ odometry' = Silence
      /\ UNCHANGED <<lidar_buffer, time_buffer, last_timestamp_lidar, lidar_pushed, meas,
                     lidar_mean_scantime, flg_first_scan, init_count, last_imu,
                     last_lidar_end_time, feats_undistort, filter_time, Root_Node>>
  BY DEF Sample, ImuCbk, process
<1>reg. regular' => regular /\ InTime(t)
  BY <1>2
<1>num. /\ Never = -1 /\ ScanTime \in Nat /\ SampleTime \in Nat
        /\ SampleTime >= 1 /\ SampleTime < ScanTime /\ t \in Nat /\ n \in Nat
        /\ \A i \in 1 .. n : imu_buffer[i] \in Nat
        /\ last_timestamp_imu \in Int /\ last_timestamp_imu >= -1
        /\ last_lidar_end_time \in Nat
  BY <1>1, StampsAreNumbers
<1>3. /\ InTime(t) => IF last_timestamp_imu = -1 THEN t <= 1
                      ELSE last_timestamp_imu < t /\ t <= last_timestamp_imu + SampleTime
      /\ DroppedOut(t) => t = last_timestamp_imu + ScanTime + 1
      /\ Restarted(t) => t = 0
  <2>1. ASSUME t - last_timestamp_imu \in 1 .. SampleTime
        PROVE  last_timestamp_imu < t /\ t <= last_timestamp_imu + SampleTime
    BY <1>num, <2>1
  <2>2. QED
    BY <1>num, <2>1 DEF InTime, DroppedOut, Restarted
<1>4. /\ t < last_timestamp_imu => regular /\ ~regular' /\ imu_buffer' = <<t>>
      /\ ~(t < last_timestamp_imu) => imu_buffer' = Append(imu_buffer, t)
  <2>1. t < last_timestamp_imu => ~InTime(t)
    BY <1>num, <1>3
  <2>2. QED
    BY <1>2, <2>1
<1>5. /\ regular \in BOOLEAN
      /\ imu_buffer \in Seq(Stamp)
  BY <1>1 DEF LioTypeOK
<1>6. ~(t < last_timestamp_imu) => /\ imu_buffer' \in Seq(Stamp) /\ Len(imu_buffer') = n + 1
                                   /\ \A i \in 1 .. n : imu_buffer'[i] = imu_buffer[i]
                                   /\ imu_buffer'[n + 1] = t
  BY <1>4, <1>5, AppendProperties
<1>7. t < last_timestamp_imu => /\ imu_buffer' \in Seq(Stamp) /\ Len(imu_buffer') = 1
                                /\ imu_buffer'[1] = t
  <2>1. <<t>> \in Seq(Stamp) /\ Len(<<t>>) = 1 /\ <<t>>[1] = t
    OBVIOUS
  <2>2. QED
    BY <1>4, <2>1
<1>last. n > 0 => imu_buffer[n] = last_timestamp_imu
  BY <1>1, <1>5, <1>num DEF SamplesInOrder
<1>8. LioTypeOK'
  <2>1. imu_buffer' \in Seq(Stamp)
    BY <1>6, <1>7
  <2>2. {last_timestamp_lidar, last_timestamp_imu, last_imu}' \subseteq Stamp \cup {Never}
    BY <1>1, <1>2 DEF LioTypeOK
  <2>3. {feats_undistort, odometry.scan}' \subseteq ScanCloud \cup {NoCloud}
    BY <1>1, <1>2 DEF LioTypeOK, Silence
  <2>4. QED
    BY <1>1, <1>2, <2>1, <2>2, <2>3 DEF LioTypeOK
<1>9. LioShape' /\ TakenUp' /\ LastSampleIsOld' /\ FilterKeepsTime'
  BY <1>1, <1>2 DEF LioShape, TakenUp, LastSampleIsOld, FilterKeepsTime
<1>10. SamplesInOrder'
  <2>1. CASE t < last_timestamp_imu
    <3>1. Len(imu_buffer') = 1 /\ imu_buffer'[1] = t /\ last_timestamp_imu' = t
      BY <1>2, <1>7, <2>1
    <3>2. /\ \A i, j \in 1 .. 1 : i = 1 /\ j = 1
          /\ 1 .. 1 - 1 = {}
      OBVIOUS
    <3>3. QED
      BY <1>num, <3>1, <3>2 DEF SamplesInOrder
  <2>2. CASE ~(t < last_timestamp_imu)
    <3> HIDE DEF n
    <3>1. /\ \A i, j \in 1 .. n : i <= j => imu_buffer[i] <= imu_buffer[j]
          /\ \A i \in 1 .. n - 1 :
               imu_buffer[i + 1] <= imu_buffer[i] + IF regular THEN SampleTime ELSE ScanTime + 1
      BY <1>1 DEF SamplesInOrder, n
    <3>2. ASSUME NEW i \in 1 .. n + 1, NEW j \in 1 .. n + 1, i <= j
          PROVE  imu_buffer'[i] <= imu_buffer'[j]
      <4>1. CASE j \in 1 .. n
        <5>1. i \in 1 .. n
          BY <1>num, <3>2, <4>1
        <5>2. QED
          BY <1>6, <2>2, <3>1, <3>2, <4>1, <5>1
      <4>2. CASE j = n + 1 /\ i \in 1 .. n
        <5>1. n > 0 /\ n \in 1 .. n /\ i <= n
          BY <1>num, <4>2
        <5>2. imu_buffer[i] <= imu_buffer[n]
          BY <3>1, <4>2, <5>1
        <5>3. QED
          BY <1>6, <1>last, <1>num, <2>2, <4>2, <5>1, <5>2
      <4>3. CASE j = n + 1 /\ i = n + 1
        BY <1>6, <1>num, <2>2, <4>3
      <4>4. QED
        BY <1>num, <3>2, <4>1, <4>2, <4>3
    <3>3. ASSUME NEW i \in 1 .. n
          PROVE  imu_buffer'[i + 1] <=
                   imu_buffer'[i] + IF regular' THEN SampleTime ELSE ScanTime + 1
      <4>1. CASE i < n
        <5>1. i \in 1 .. n - 1 /\ i + 1 \in 1 .. n
          BY <1>num, <4>1
        <5>2. imu_buffer[i + 1] <= imu_buffer[i] + IF regular THEN SampleTime ELSE ScanTime + 1
          BY <3>1, <5>1
        <5>3. regular' => regular
          BY <1>2
        <5>4. imu_buffer'[i + 1] = imu_buffer[i + 1] /\ imu_buffer'[i] = imu_buffer[i]
          BY <1>6, <2>2, <5>1
        <5>5. imu_buffer[i + 1] \in Nat /\ imu_buffer[i] \in Nat
          BY <1>num, <5>1
        <5> QED
          BY <1>num, <5>2, <5>3, <5>4, <5>5
      <4>2. CASE i = n
        <5>1. imu_buffer[n] = last_timestamp_imu /\ last_timestamp_imu \in Nat
          BY <1>last, <1>num, <4>2
        <5>2. t <= last_timestamp_imu + IF regular' THEN SampleTime ELSE ScanTime + 1
          <6>1. CASE InTime(t)
            BY <1>3, <1>num, <5>1, <6>1
          <6>2. CASE ~InTime(t)
            <7>1. ~regular' /\ (t = last_timestamp_imu + ScanTime + 1 \/ t = 0)
              BY <1>2, <1>3, <1>reg, <6>2
            <7>2. QED
              BY <1>num, <5>1, <7>1
          <6>3. QED
            BY <6>1, <6>2
        <5>3. imu_buffer'[n + 1] = t /\ imu_buffer'[n] = imu_buffer[n]
          BY <1>6, <1>num, <2>2, <4>2
        <5>4. QED
          BY <4>2, <5>1, <5>2, <5>3
      <4>3. QED
        BY <1>num, <4>1, <4>2
    <3>4. Len(imu_buffer') = n + 1 /\ (n + 1) - 1 = n /\ imu_buffer'[n + 1] = last_timestamp_imu'
      BY <1>2, <1>6, <1>num, <2>2
    <3>5. QED
      BY <3>2, <3>3, <3>4 DEF SamplesInOrder
  <2>3. QED
    BY <2>1, <2>2
<1>11. OneClockStands'
  <2>1. ScansAhead' <=> ScansAhead
    BY <1>2 DEF ScansAhead
  <2>2. CASE t < last_timestamp_imu
    BY <1>1, <1>4, <2>1, <2>2 DEF OneClockStands
  <2>3. ASSUME ~(t < last_timestamp_imu), SamplesFresh PROVE SamplesFresh'
    <3> SUFFICES ASSUME filter_time # Never
                 PROVE  /\ t >= last_lidar_end_time
                        /\ \A i \in 1 .. n + 1 : imu_buffer'[i] >= last_lidar_end_time
      BY <1>2, <1>6, <2>3 DEF SamplesFresh
    <3>1. /\ last_timestamp_imu >= last_lidar_end_time
          /\ \A i \in 1 .. n : imu_buffer[i] >= last_lidar_end_time
      BY <2>3 DEF SamplesFresh
    <3>2. t >= last_lidar_end_time
      BY <1>num, <2>3, <3>1
    <3>3. \A i \in 1 .. n + 1 : i \in 1 .. n \/ i = n + 1
      BY <1>num
    <3> HIDE DEF n
    <3>4. QED
      BY <1>6, <2>3, <3>1, <3>2, <3>3
  <2>4. CASE ~(t < last_timestamp_imu)
    <3>1. regular' => regular
      BY <1>2
    <3>2. QED
      BY <1>1, <2>1, <2>3, <2>4, <3>1 DEF OneClockStands
  <2>5. QED
    BY <2>2, <2>4
<1>12. InStep'
  <2> SUFFICES ASSUME regular' PROVE (ScansHaveStamps /\ FirstSampleIsEarly /\ NextSampleIsInTime)'
    BY DEF InStep
  <2>1. /\ regular /\ InTime(t) /\ ~(t < last_timestamp_imu)
        /\ ScansHaveStamps /\ FirstSampleIsEarly /\ NextSampleIsInTime
    BY <1>1, <1>4, <1>reg DEF InStep
  <2>2. /\ imu_buffer' # <<>> /\ (n > 0 => Head(imu_buffer') = Head(imu_buffer))
        /\ n = 0 => Head(imu_buffer') = t
    BY <1>5, <1>6, <1>num, <2>1
  <2>3. ScansHaveStamps'
    BY <1>2, <2>1 DEF ScansHaveStamps
  <2>4. FirstSampleIsEarly'
    <3> SUFFICES ASSUME flg_first_scan PROVE Head(imu_buffer') <= 1
      BY <1>2, <2>2 DEF FirstSampleIsEarly
    <3>1. CASE n = 0
      <4>1. last_timestamp_imu = -1
        BY <1>5, <1>num, <2>1, <3>1 DEF FirstSampleIsEarly
      <4>2. QED
        BY <1>3, <2>1, <2>2, <3>1, <4>1
    <3>2. CASE n > 0
      BY <1>5, <2>1, <2>2, <3>2 DEF FirstSampleIsEarly
    <3>3. QED
      BY <1>num, <3>1, <3>2
  <2>5. NextSampleIsInTime'
    <3> SUFFICES ASSUME ~flg_first_scan PROVE NextSampleIsInTime'
      BY <1>2 DEF NextSampleIsInTime
    <3>1. last_timestamp_imu # -1
      BY <1>num, <2>1 DEF NextSampleIsInTime
    <3>2. /\ NextSample' <= NextSample /\ NextSample \in Int /\ NextSample' \in Int
      <4>1. CASE n = 0
        <5>1. NextSample = last_timestamp_imu + SampleTime /\ NextSample' = t
          BY <1>5, <2>2, <4>1 DEF NextSample
        <5>2. QED
          BY <1>3, <1>num, <2>1, <3>1, <5>1
      <4>2. CASE n > 0
        <5>1. NextSample = imu_buffer[1] /\ NextSample' = NextSample /\ 1 \in 1 .. n
          BY <1>5, <1>num, <2>2, <4>2 DEF NextSample
        <5>2. QED
          BY <1>num, <5>1
      <4>3. QED
        BY <1>num, <4>1, <4>2
    <3>3. \A x \in Int : NextSample < x => NextSample' < x
      BY <3>2
    <3>4. /\ \A i \in 1 .. Len(time_buffer) : time_buffer[i] + lidar_mean_scantime \in Int
          /\ last_timestamp_lidar + ScanTime + lidar_mean_scantime \in Int
      <4>1. /\ \A i \in 1 .. Len(time_buffer) : time_buffer[i] \in Nat
            /\ last_timestamp_lidar \in Int /\ lidar_mean_scantime \in Nat
        BY <1>1, StampsAreNumbers
      <4>2. QED
        BY <1>num, <4>1
    <3>5. t # Never
      BY <1>num
    <3> HIDE DEF NextSample
    <3>6. QED
      BY <1>2, <2>1, <3>3, <3>4, <3>5 DEF NextSampleIsInTime
  <2>6. QED
    BY <2>3, <2>4, <2>5
<1>13. OdometryIsOfItsScan'
  BY <1>2 DEF OdometryIsOfItsScan
<1>14. QED
  BY <1>8, <1>9, <1>10, <1>11, <1>12, <1>13 DEF LioInv

\* PclCbk, at a scan: in turn, or after a restart of the clock.
LEMMA ScanKeepsTime ==
  ASSUME LioInv, NEW scan \in ScanCloud, Scan(scan)
  PROVE  LioInv'
<1> DEFINE n == Len(time_buffer)
           b == scan.stamp
<1>1. /\ LioTypeOK /\ LioShape /\ TakenUp /\ SamplesInOrder /\ OneClockStands
      /\ LastSampleIsOld /\ InStep /\ FilterKeepsTime
  BY DEF LioInv
<1>2. /\ InTurn(b) \/ (regular /\ Restarted(b))
      /\ lidar_buffer' = IF b < last_timestamp_lidar THEN <<scan>> ELSE Append(lidar_buffer, scan)
      /\ time_buffer' = Append(time_buffer, b)
      /\ last_timestamp_lidar' = b
      /\ regular' = (regular /\ InTurn(b))
      /\ odometry' = Silence
      /\ UNCHANGED <<imu_buffer, last_timestamp_imu, lidar_pushed, meas,
                     lidar_mean_scantime, flg_first_scan, init_count, last_imu,
                     last_lidar_end_time, feats_undistort, filter_time, Root_Node>>
  BY DEF Scan, PclCbk, process
<1>reg. regular' => regular /\ InTurn(b)
  BY <1>2
<1>num. /\ Never = -1 /\ ScanTime \in Nat /\ n \in Nat /\ n = Len(time_buffer)
        /\ \A i \in 1 .. n : time_buffer[i] \in Nat
        /\ last_timestamp_lidar \in Int /\ last_timestamp_lidar >= -1
        /\ last_lidar_end_time \in Nat /\ lidar_mean_scantime \in Nat
  BY <1>1, StampsAreNumbers
<1>b. b \in Stamp /\ b \in Nat
  BY <1>1, StampsAreNumbers DEF ScanCloud
<1>seq. /\ lidar_buffer \in Seq(ScanCloud) /\ time_buffer \in Seq(Stamp)
        /\ Len(lidar_buffer) <= n /\ (lidar_pushed => lidar_buffer # <<>>) /\ regular \in BOOLEAN
  BY <1>1 DEF LioTypeOK
<1> HIDE DEF n, b
<1>3. InTurn(b) => b > last_timestamp_lidar /\
                   (last_timestamp_lidar # -1 => b >= last_timestamp_lidar + ScanTime)
  <2>1. ASSUME b - last_timestamp_lidar \in {ScanTime, ScanTime + 1}
        PROVE  b > last_timestamp_lidar /\ b >= last_timestamp_lidar + ScanTime
    <3>1. ScanTime > 0
      BY LioAssumption
    <3>2. QED
      BY <1>num, <1>b, <2>1, <3>1
  <2>2. CASE last_timestamp_lidar = -1
    BY <1>num, <1>b, <2>2
  <2>3. CASE last_timestamp_lidar # -1
    BY <1>num, <2>1, <2>3 DEF InTurn
  <2>4. QED
    BY <2>2, <2>3
<1>4. /\ time_buffer' \in Seq(Stamp) /\ Len(time_buffer') = n + 1
      /\ \A i \in 1 .. n : time_buffer'[i] = time_buffer[i]
      /\ time_buffer'[n + 1] = b
  BY <1>2, <1>b, <1>seq, <1>num, AppendProperties
<1>5. /\ lidar_buffer' \in Seq(ScanCloud) /\ lidar_buffer' # <<>> /\ Len(lidar_buffer') <= n + 1
  <2>1. /\ <<scan>> \in Seq(ScanCloud) /\ Len(<<scan>>) = 1
        /\ Append(lidar_buffer, scan) \in Seq(ScanCloud)
        /\ Len(Append(lidar_buffer, scan)) = Len(lidar_buffer) + 1
    BY <1>seq, AppendProperties
  <2>2. Len(lidar_buffer) \in Nat
    BY <1>seq
  <2>3. Len(lidar_buffer') <= n + 1 /\ lidar_buffer' \in Seq(ScanCloud) /\ Len(lidar_buffer') > 0
    BY <1>2, <1>num, <1>seq, <2>1, <2>2
  <2>4. QED
    BY <2>3
<1>head. lidar_pushed => Head(time_buffer') = Head(time_buffer) /\ n > 0
  <2> SUFFICES ASSUME lidar_pushed PROVE Head(time_buffer') = Head(time_buffer) /\ n > 0
    OBVIOUS
  <2>1. n > 0
    BY <1>num, <1>seq
  <2>2. time_buffer'[1] = time_buffer[1] /\ time_buffer' # <<>> /\ time_buffer # <<>>
    BY <1>4, <1>num, <1>seq, <2>1
  <2>3. QED
    BY <1>4, <1>seq, <2>1, <2>2
<1>8. LioTypeOK'
  <2>1. {last_timestamp_lidar, last_timestamp_imu, last_imu}' \subseteq Stamp \cup {Never}
    BY <1>1, <1>2, <1>b DEF LioTypeOK
  <2>2. {feats_undistort, odometry.scan}' \subseteq ScanCloud \cup {NoCloud}
    BY <1>1, <1>2 DEF LioTypeOK, Silence
  <2>3. Len(lidar_buffer') <= Len(time_buffer')
    BY <1>4, <1>5
  <2>4. QED
    BY <1>1, <1>2, <1>4, <1>5, <2>1, <2>2, <2>3 DEF LioTypeOK
<1>9. LioShape' /\ SamplesInOrder' /\ LastSampleIsOld' /\ FilterKeepsTime'
  <2>1. b # Never
    BY <1>b, <1>num
  <2>2. LioShape'
    BY <1>1, <1>2, <2>1 DEF LioShape
  <2>3. SamplesInOrder'
    <3>1. regular' => regular
      BY <1>reg
    <3>2. /\ SampleTime <= ScanTime + 1 /\ SampleTime \in Nat
          /\ \A i \in 1 .. Len(imu_buffer) : imu_buffer[i] \in Nat
      BY <1>1, <1>num, StampsAreNumbers
    <3>3. ASSUME NEW i \in 1 .. Len(imu_buffer) - 1
          PROVE  imu_buffer[i + 1] <= imu_buffer[i] + IF regular' THEN SampleTime ELSE ScanTime + 1
      <4>1. imu_buffer[i + 1] <= imu_buffer[i] + IF regular THEN SampleTime ELSE ScanTime + 1
        BY <1>1 DEF SamplesInOrder
      <4>2. i \in 1 .. Len(imu_buffer) /\ i + 1 \in 1 .. Len(imu_buffer)
        BY <1>1, StampsAreNumbers
      <4>3. imu_buffer[i] \in Nat /\ imu_buffer[i + 1] \in Nat
        BY <3>2, <4>2
      <4>4. QED
        BY <1>num, <3>1, <3>2, <4>1, <4>3
    <3>4. QED
      BY <1>1, <1>2, <3>3 DEF SamplesInOrder
  <2>4. QED
    BY <1>1, <1>2, <2>2, <2>3 DEF LastSampleIsOld, FilterKeepsTime
<1>10. TakenUp'
  BY <1>1, <1>2, <1>head DEF TakenUp
<1>11. OneClockStands'
  <2>1. SamplesFresh' <=> SamplesFresh
    BY <1>2 DEF SamplesFresh
  <2>2. ASSUME InTurn(b), ScansAhead PROVE ScansAhead'
    <3>1. /\ \A i, j \in 1 .. n : i < j => time_buffer[i] + ScanTime <= time_buffer[j]
          /\ \A i \in 1 .. n : time_buffer[i] <= last_timestamp_lidar
          /\ filter_time # Never =>
               /\ \A i \in 1 .. n :
                    time_buffer[i] + lidar_mean_scantime >= last_lidar_end_time + ScanTime
               /\ last_timestamp_lidar + lidar_mean_scantime >= last_lidar_end_time
      BY <1>num, <2>2 DEF ScansAhead
    <3>2. ASSUME NEW i \in 1 .. n PROVE time_buffer[i] + ScanTime <= b /\ time_buffer[i] \in Nat
      <4>1. time_buffer[i] <= last_timestamp_lidar /\ time_buffer[i] \in Nat
        BY <1>num, <3>1
      <4>2. QED
        BY <1>3, <1>b, <1>num, <2>2, <4>1
    <3>3. ASSUME NEW i \in 1 .. n + 1, NEW j \in 1 .. n + 1, i < j
          PROVE  time_buffer'[i] + ScanTime <= time_buffer'[j]
      <4>1. i \in 1 .. n
        BY <1>num, <3>3
      <4>2. CASE j \in 1 .. n
        BY <1>4, <3>1, <3>3, <4>1, <4>2
      <4>3. CASE j = n + 1
        BY <1>4, <3>2, <4>1, <4>3
      <4>4. QED
        BY <1>num, <4>2, <4>3
    <3>4. ASSUME NEW i \in 1 .. n + 1 PROVE time_buffer'[i] <= b
      <4>1. CASE i \in 1 .. n
        <5>1. time_buffer[i] <= b
          BY <1>b, <1>num, <3>2, <4>1
        <5>2. QED
          BY <1>4, <4>1, <5>1
      <4>2. CASE i = n + 1
        BY <1>4, <1>b, <4>2
      <4>3. QED
        BY <1>num, <4>1, <4>2
    <3>5. ASSUME filter_time # Never
          PROVE  /\ b + lidar_mean_scantime >= last_lidar_end_time + ScanTime
                 /\ b + lidar_mean_scantime >= last_lidar_end_time
      <4>1. last_timestamp_lidar # -1
        BY <1>1, <1>num, <3>5 DEF LioShape
      <4>2. b >= last_timestamp_lidar + ScanTime
        BY <1>3, <2>2, <4>1
      <4>3. last_timestamp_lidar + lidar_mean_scantime >= last_lidar_end_time
        BY <3>1, <3>5
      <4>4. QED
        BY <1>b, <1>num, <4>2, <4>3
    <3>6. \A i \in 1 .. n + 1 : i \in 1 .. n \/ i = n + 1
      BY <1>num
    <3>7. ASSUME filter_time # Never, NEW i \in 1 .. n + 1
          PROVE  time_buffer'[i] + lidar_mean_scantime >= last_lidar_end_time + ScanTime
      BY <1>4, <3>1, <3>5, <3>6, <3>7
    <3>8. QED
      BY <1>2, <1>4, <3>3, <3>4, <3>5, <3>7 DEF ScansAhead
  <2>3. QED
    BY <1>1, <1>2, <1>reg, <2>1, <2>2 DEF OneClockStands
<1>12. InStep'
  <2> SUFFICES ASSUME regular' PROVE (ScansHaveStamps /\ FirstSampleIsEarly /\ NextSampleIsInTime)'
    BY DEF InStep
  <2>1. /\ regular /\ InTurn(b) /\ ~(b < last_timestamp_lidar)
        /\ ScansHaveStamps /\ FirstSampleIsEarly /\ NextSampleIsInTime
    BY <1>1, <1>3, <1>b, <1>num, <1>reg DEF InStep
  <2>2. ScansHaveStamps'
    <3>1. /\ Len(lidar_buffer) = n
          /\ \A i \in 1 .. n : lidar_buffer[i].stamp = time_buffer[i]
          /\ lidar_pushed => meas.lidar = Head(lidar_buffer)
      BY <1>num, <2>1 DEF ScansHaveStamps
    <3>2. /\ Len(lidar_buffer') = n + 1 /\ lidar_buffer'[n + 1] = scan
          /\ \A i \in 1 .. n : lidar_buffer'[i] = lidar_buffer[i]
      BY <1>2, <1>seq, <2>1, <3>1, AppendProperties
    <3>3. \A i \in 1 .. n + 1 : lidar_buffer'[i].stamp = time_buffer'[i]
      <4>1. \A i \in 1 .. n + 1 : i \in 1 .. n \/ i = n + 1
        BY <1>num
      <4>2. QED
        BY <1>4, <3>1, <3>2, <4>1 DEF b
    <3>4. ASSUME lidar_pushed PROVE Head(lidar_buffer') = Head(lidar_buffer)
      <4>1. n > 0 /\ lidar_buffer # <<>>
        BY <1>head, <1>seq, <3>4
      <4>2. lidar_buffer'[1] = lidar_buffer[1]
        BY <1>num, <3>2, <4>1
      <4>3. QED
        BY <1>5, <1>seq, <4>1, <4>2
    <3>5. QED
      BY <1>2, <1>4, <3>1, <3>2, <3>3, <3>4 DEF ScansHaveStamps
  <2>3. FirstSampleIsEarly'
    BY <1>2, <2>1 DEF FirstSampleIsEarly
  <2>4. NextSampleIsInTime'
    <3> SUFFICES ASSUME ~flg_first_scan PROVE NextSampleIsInTime'
      BY <1>2 DEF NextSampleIsInTime
    <3>1. /\ last_timestamp_imu # Never /\ last_timestamp_lidar # Never
          /\ \A i \in 1 .. n : NextSample < time_buffer[i] + lidar_mean_scantime
          /\ NextSample < last_timestamp_lidar + ScanTime + lidar_mean_scantime
      BY <1>num, <2>1 DEF NextSampleIsInTime
    <3>2. NextSample \in Int /\ NextSample' = NextSample
      <4>1. imu_buffer # <<>> => imu_buffer[1] \in Nat /\ Head(imu_buffer) = imu_buffer[1]
        <5>1. imu_buffer \in Seq(Stamp)
          BY <1>1 DEF LioTypeOK
        <5>2. QED
          BY <1>1, <5>1, StampsAreNumbers
      <4>2. last_timestamp_imu \in Int /\ SampleTime \in Nat
        BY <1>1, StampsAreNumbers
      <4>3. QED
        BY <1>2, <4>1, <4>2 DEF NextSample
    <3> HIDE DEF NextSample
    <3>3. b >= last_timestamp_lidar + ScanTime /\ b # Never
      BY <1>3, <1>b, <1>num, <2>1, <3>1
    <3>4. NextSample < b + lidar_mean_scantime /\ NextSample < b + ScanTime + lidar_mean_scantime
      BY <1>b, <1>num, <3>1, <3>2, <3>3
    <3>5. \A i \in 1 .. n + 1 : NextSample < time_buffer'[i] + lidar_mean_scantime
      <4>1. \A i \in 1 .. n + 1 : i \in 1 .. n \/ i = n + 1
        BY <1>num
      <4>2. QED
        BY <1>4, <3>1, <3>4, <4>1
    <3>6. QED
      BY <1>2, <1>4, <3>1, <3>2, <3>3, <3>4, <3>5 DEF NextSampleIsInTime
  <2>5. QED
    BY <2>2, <2>3, <2>4
<1>13. OdometryIsOfItsScan'
  BY <1>2 DEF OdometryIsOfItsScan
<1>14. QED
  BY <1>8, <1>9, <1>10, <1>11, <1>12, <1>13 DEF LioInv

\* A package takes a beginning of the samples that wait, up to its end.
LEMMA SamplesAre ==
  ASSUME LioTypeOK, SamplesInOrder, imu_buffer # <<>>, NEW end \in Int, last_timestamp_imu >= end
  PROVE  \E n \in 0 .. Len(imu_buffer) :
           /\ SamplesOf(end) = SubSeq(imu_buffer, 1, n)
           /\ n = 0 <=> imu_buffer[1] >= end
           /\ n > 0 => imu_buffer[n] <= end
           /\ n > 0 /\ imu_buffer[n] # end => n < Len(imu_buffer) /\ imu_buffer[n + 1] > end
           /\ \A i \in n + 1 .. Len(imu_buffer) : imu_buffer[i] >= end
<1> DEFINE N == Len(imu_buffer)
           Stops(k) == /\ \A i \in 1 .. k : Takes(i, end)
                       /\ k = N \/ ~Takes(k + 1, end)
<1>num. /\ N \in Nat /\ N > 0 /\ \A i \in 1 .. N : imu_buffer[i] \in Nat
        /\ \A i, j \in 1 .. N : i <= j => imu_buffer[i] <= imu_buffer[j]
        /\ imu_buffer[N] >= end /\ N = Len(imu_buffer)
  <2>1. imu_buffer \in Seq(Stamp)
    BY DEF LioTypeOK
  <2>2. N > 0
    BY <2>1
  <2>3. QED
    BY <2>2, StampsAreNumbers DEF SamplesInOrder
<1> HIDE DEF N
<1>1. \E k \in 0 .. N : Stops(k)
  <2>1. CASE \A i \in 1 .. N : Takes(i, end)
    BY <1>num, <2>1
  <2>2. CASE \E i \in 1 .. N : ~Takes(i, end)
    <3> DEFINE T == {i \in 1 .. N : ~Takes(i, end)}
    <3>1. T \in SUBSET Nat /\ T # {}
      BY <2>2
    <3>2. PICK m \in T : \A i \in T : m <= i
      BY <3>1, LeastElement
    <3>3. m \in 1 .. N /\ ~Takes(m, end) /\ \A i \in 1 .. N : i < m => Takes(i, end)
      BY <3>2
    <3>4. m - 1 \in 0 .. N /\ (m - 1) + 1 = m /\ \A i \in 1 .. m - 1 : i \in 1 .. N /\ i < m
      BY <1>num, <3>3
    <3>5. Stops(m - 1)
      BY <3>3, <3>4
    <3>6. QED
      BY <3>4, <3>5
  <2>3. QED
    BY <2>1, <2>2
<1> DEFINE n == CHOOSE k \in 0 .. N : Stops(k)
<1>2. SamplesOf(end) = SubSeq(imu_buffer, 1, n)
  BY DEF SamplesOf, N
<1>3. n \in 0 .. N /\ Stops(n)
  BY <1>1
<1> HIDE DEF n
<1>4. /\ \A i \in 1 .. n : Takes(i, end)
      /\ n = N \/ ~Takes(n + 1, end)
  BY <1>3
<1>5. n = 0 <=> imu_buffer[1] >= end
  <2>1. Takes(1, end) <=> imu_buffer[1] < end
    BY <1>num DEF Takes
  <2>2. n = 0 => ~Takes(1, end)
    BY <1>3, <1>4, <1>num
  <2>3. n # 0 => Takes(1, end)
    BY <1>3, <1>4, <1>num
  <2>4. QED
    BY <1>num, <2>1, <2>2, <2>3
<1>6. n > 0 => imu_buffer[n] <= end
  <2>1. n > 0 => Takes(n, end)
    BY <1>3, <1>4, <1>num
  <2>2. QED
    BY <2>1 DEF Takes
<1>7. ASSUME n > 0, n < N PROVE imu_buffer[n] >= end \/ imu_buffer[n + 1] > end
  <2>1. ~(imu_buffer[n] < end /\ imu_buffer[n + 1] <= end)
    <3>1. ~Takes(n + 1, end) /\ n + 1 # 1 /\ (n + 1) - 1 = n
      BY <1>3, <1>4, <1>7, <1>num
    <3>2. QED
      BY <3>1 DEF Takes
  <2>2. imu_buffer[n] \in Nat /\ imu_buffer[n + 1] \in Nat
    BY <1>3, <1>7, <1>num
  <2>3. QED
    BY <2>1, <2>2
<1>8. n > 0 /\ imu_buffer[n] # end => n < N /\ imu_buffer[n + 1] > end
  <2> SUFFICES ASSUME n > 0, imu_buffer[n] # end PROVE n < N /\ imu_buffer[n + 1] > end
    OBVIOUS
  <2>1. imu_buffer[n] < end
    BY <1>3, <1>6, <1>num
  <2>2. n < N
    BY <1>3, <1>num, <2>1
  <2>3. QED
    BY <1>7, <1>3, <1>num, <2>1, <2>2
<1>9. ASSUME NEW i \in n + 1 .. N PROVE imu_buffer[i] >= end
  <2>1. CASE n = 0
    <3>1. imu_buffer[1] >= end /\ 1 \in 1 .. N /\ i \in 1 .. N /\ 1 <= i
      BY <1>3, <1>5, <1>num, <2>1
    <3>2. imu_buffer[1] <= imu_buffer[i] /\ imu_buffer[i] \in Nat /\ imu_buffer[1] \in Nat
      BY <1>num, <3>1
    <3>3. QED
      BY <3>1, <3>2
  <2>2. CASE n > 0
    <3>1. n < N /\ n \in 1 .. N /\ n + 1 \in 1 .. N /\ i \in 1 .. N /\ n <= i /\ n + 1 <= i
      BY <1>3, <1>num, <2>2
    <3>2. /\ imu_buffer[n] <= imu_buffer[i] /\ imu_buffer[n + 1] <= imu_buffer[i]
          /\ imu_buffer[i] \in Nat /\ imu_buffer[n] \in Nat /\ imu_buffer[n + 1] \in Nat
      BY <1>num, <3>1
    <3>3. QED
      BY <1>7, <2>2, <3>1, <3>2
  <2>3. QED
    BY <1>3, <2>1, <2>2
<1>10. QED
  BY <1>2, <1>3, <1>5, <1>6, <1>8, <1>9 DEF N

\* The time over the first samples, when s[i] is the ith one.
Over(s, i) ==
  IF i = 0 THEN 0 ELSE IF s[i] < last_lidar_end_time THEN 0 ELSE s[i] - last_lidar_end_time

\* Over samples in order the filter is propagated from the end of the last scan to the
\* end of this one, if the last sample lies between them.
LEMMA PropagatedIsTheTime ==
  ASSUME LioTypeOK, NEW s \in Seq(Nat), s # <<>>, NEW end \in Int,
         \A i, j \in 1 .. Len(s) : i <= j => s[i] <= s[j],
         last_imu <= last_lidar_end_time, s[Len(s)] >= last_lidar_end_time, s[Len(s)] <= end
  PROVE  Propagated(s, end) = end - last_lidar_end_time
<1> DEFINE N == Len(s)
           L == last_lidar_end_time
           Dt(i) == TimeOver(IF i = 1 THEN last_imu ELSE s[i - 1], s[i])
           P(g) == g = [i \in 0 .. N |-> IF i = 0 THEN 0 ELSE g[i - 1] + Dt(i)]
           g0 == [i \in 0 .. N |-> Over(s, i)]
<1>num. /\ N \in Nat /\ N > 0 /\ \A i \in 1 .. N : s[i] \in Nat
        /\ L \in Nat /\ last_imu \in Int /\ last_imu <= L
        /\ \A i, j \in 1 .. N : i <= j => s[i] <= s[j]
        /\ s[N] >= L /\ s[N] <= end
  <2>1. N \in Nat /\ N > 0 /\ \A i \in 1 .. N : s[i] \in Nat
    <3>1. N \in Nat /\ N # 0
      BY EmptySeq
    <3>2. QED
      BY <3>1
  <2>2. L \in Nat /\ last_imu \in Int
    BY StampsAreNumbers
  <2>3. QED
    BY <2>1, <2>2
\* One step.
<1>1. ASSUME NEW i \in 1 .. N
      PROVE  Over(s, i) = Over(s, i - 1) + Dt(i) /\ Over(s, i) \in Nat
  <2>1. s[i] \in Nat
    BY <1>num
  <2>2. CASE i = 1
    <3>1. Dt(i) = IF s[i] < L THEN 0 ELSE s[i] - IF last_imu < L THEN L ELSE last_imu
      BY <2>2 DEF TimeOver
    <3>2. Over(s, i - 1) = 0 /\ Over(s, i) = IF s[i] < L THEN 0 ELSE s[i] - L
      BY <2>2 DEF Over
    <3> HIDE DEF Dt
    <3>3. QED
      BY <1>num, <2>1, <3>1, <3>2
  <2>3. CASE i # 1
    <3>1. i - 1 \in 1 .. N /\ i - 1 <= i /\ i - 1 # 0
      BY <1>num, <2>3
    <3>2. s[i - 1] \in Nat /\ s[i - 1] <= s[i]
      BY <1>num, <3>1
    <3>3. Dt(i) = IF s[i] < L THEN 0 ELSE s[i] - IF s[i - 1] < L THEN L ELSE s[i - 1]
      BY <2>3 DEF TimeOver
    <3>4. /\ Over(s, i - 1) = IF s[i - 1] < L THEN 0 ELSE s[i - 1] - L
          /\ Over(s, i) = IF s[i] < L THEN 0 ELSE s[i] - L
      BY <1>num, <3>1 DEF Over
    <3> HIDE DEF Dt
    <3>5. QED
      BY <1>num, <2>1, <3>2, <3>3, <3>4
  <2>4. QED
    BY <2>2, <2>3
<1> HIDE DEF Dt
<1>2. P(g0)
  <2>1. ASSUME NEW i \in 0 .. N PROVE g0[i] = IF i = 0 THEN 0 ELSE g0[i - 1] + Dt(i)
    <3>1. CASE i = 0
      BY <3>1 DEF Over
    <3>2. CASE i # 0
      <4>1. i \in 1 .. N /\ i - 1 \in 0 .. N
        BY <1>num, <3>2
      <4>2. g0[i] = Over(s, i) /\ g0[i - 1] = Over(s, i - 1)
        BY <4>1
      <4>3. QED
        BY <1>1, <3>2, <4>1, <4>2
    <3>3. QED
      BY <3>1, <3>2
  <2>2. g0 = [i \in 0 .. N |-> g0[i]]
    OBVIOUS
  <2> HIDE DEF g0
  <2>3. QED
    BY <2>1, <2>2
<1>3. P(CHOOSE g : P(g))
  BY <1>2
<1> DEFINE over == CHOOSE g : P(g)
<1>4. Propagated(s, end) = over[N] + IF end - s[N] > 0 THEN end - s[N] ELSE -(end - s[N])
  BY DEF Propagated, Dt
<1>5. \A i \in 0 .. N : over[i] = IF i = 0 THEN 0 ELSE over[i - 1] + Dt(i)
  <2>1. P(over)
    BY <1>3
  <2> HIDE DEF over
  <2>2. QED
    BY <2>1
<1> HIDE DEF over, P, g0
<1>6. \A i \in 0 .. N : over[i] = Over(s, i)
  <2> DEFINE T == {i \in Nat : i <= N => over[i] = Over(s, i)}
  <2>1. \A i \in Nat : i \in T <=> (i <= N => over[i] = Over(s, i))
    OBVIOUS
  <2> HIDE DEF T
  <2>2. 0 \in T
    BY <1>5, <1>num, <2>1 DEF Over
  <2>3. ASSUME NEW i \in Nat, i \in T PROVE i + 1 \in T
    <3> SUFFICES ASSUME i + 1 <= N PROVE over[i + 1] = Over(s, i + 1)
      BY <2>1
    <3>1. i + 1 \in 1 .. N /\ i + 1 \in 0 .. N /\ i + 1 # 0 /\ (i + 1) - 1 = i /\ i <= N
      BY <1>num
    <3>2. over[i] = Over(s, i)
      BY <2>1, <2>3, <3>1
    <3>3. over[i + 1] = over[i] + Dt(i + 1)
      BY <1>5, <3>1
    <3>4. Over(s, i + 1) = Over(s, i) + Dt(i + 1)
      BY <1>1, <3>1
    <3>5. QED
      BY <3>2, <3>3, <3>4
  <2>4. Nat \subseteq T
    BY <2>2, <2>3, SetInduction
  <2>5. QED
    BY <1>num, <2>1, <2>4
<1>7. over[N] = s[N] - L
  <2>1. N \in 0 .. N /\ N # 0 /\ s[N] \in Nat
    BY <1>num
  <2>2. over[N] = Over(s, N)
    BY <1>6, <2>1
  <2>3. QED
    BY <1>num, <2>1, <2>2 DEF Over
<1>8. QED
  <2>1. s[N] \in Nat
    BY <1>num
  <2>2. QED
    BY <1>4, <1>7, <1>num, <2>1

\* What is taken up, or was, ends a mean duration after its beginning, by the mean
\* duration as it is then.
LEMMA PushedScanIs ==
  ASSUME LioTypeOK, TakenUp, lidar_buffer # <<>>, NEW m, m = PushedMeanTime
  PROVE  /\ time_buffer # <<>> /\ Head(time_buffer) = time_buffer[1] /\ 1 \in 1 .. Len(time_buffer)
         /\ m \in {0, ScanTime} /\ m \in Nat /\ m >= lidar_mean_scantime
         /\ lidar_pushed => m = lidar_mean_scantime
         /\ PushedScan.beg = time_buffer[1] /\ PushedScan.end = time_buffer[1] + m
         /\ PushedScan.lidar.points # "none" => m = ScanTime
         /\ PushedScan.lidar \in ScanCloud \cup {NoCloud}
         /\ ScansHaveStamps => PushedScan.lidar = Head(lidar_buffer)
                               /\ PushedScan.lidar.stamp = time_buffer[1]
<1>1. /\ lidar_buffer \in Seq(ScanCloud) /\ time_buffer \in Seq(Stamp)
      /\ Len(lidar_buffer) <= Len(time_buffer) /\ lidar_mean_scantime \in {0, ScanTime}
      /\ meas.lidar \in ScanCloud \cup {NoCloud}
  BY DEF LioTypeOK
<1>2. /\ Len(lidar_buffer) \in Nat /\ Len(lidar_buffer) > 0 /\ Len(time_buffer) \in Nat
      /\ lidar_buffer[1] \in ScanCloud /\ Head(lidar_buffer) = lidar_buffer[1]
  BY <1>1
<1>3. /\ time_buffer # <<>> /\ Head(time_buffer) = time_buffer[1] /\ 1 \in 1 .. Len(time_buffer)
  BY <1>1, <1>2
<1>4. ScanTime \in Nat /\ lidar_mean_scantime \in Nat
  BY StampsAreNumbers
<1>5. ScansHaveStamps => lidar_buffer[1].stamp = time_buffer[1]
  BY <1>2, <1>3 DEF ScansHaveStamps
<1>6. CASE lidar_pushed
  <2>1. PushedScan = meas /\ m = lidar_mean_scantime
    BY <1>6 DEF PushedScan, PushedMeanTime
  <2>2. /\ meas.beg = Head(time_buffer) /\ meas.end = meas.beg + lidar_mean_scantime
        /\ meas.lidar.points # "none" => lidar_mean_scantime = ScanTime
    BY <1>6 DEF TakenUp
  <2>3. ScansHaveStamps => meas.lidar = Head(lidar_buffer)
    BY <1>6 DEF ScansHaveStamps
  <2>4. QED
    BY <1>1, <1>2, <1>3, <1>4, <1>5, <2>1, <2>2, <2>3
<1>7. CASE ~lidar_pushed
  <2> DEFINE scan == lidar_buffer[1]
  <2>1. /\ PushedScan.lidar = scan /\ PushedScan.beg = time_buffer[1]
        /\ PushedScan.end =
             time_buffer[1] + IF scan.points = "none" THEN lidar_mean_scantime ELSE ScanTime
    BY <1>2, <1>3, <1>7 DEF PushedScan, ScanInFront
  <2>2. m = IF scan.points = "none" THEN lidar_mean_scantime ELSE ScanTime
    BY <1>2, <1>7 DEF PushedMeanTime
  <2> HIDE DEF scan
  <2>3. m \in {0, ScanTime} /\ m \in Nat /\ m >= lidar_mean_scantime
    BY <1>1, <1>4, <2>2
  <2>4. QED
    BY <1>2, <1>3, <1>5, <1>7, <2>1, <2>2, <2>3 DEF scan
<1>8. QED
  BY <1>6, <1>7

\* A turn that only takes up a scan.
LEMMA TakingUpKeepsTime ==
  ASSUME LioInv, MainLoop, last_timestamp_imu < PushedScan.end
  PROVE  LioInv'
<1> DEFINE m == PushedMeanTime
<1>1. /\ LioTypeOK /\ LioShape /\ TakenUp /\ SamplesInOrder /\ OneClockStands
      /\ LastSampleIsOld /\ InStep /\ FilterKeepsTime
  BY DEF LioInv
<1>2. /\ lidar_buffer # <<>> /\ lidar_mean_scantime' = m
      /\ lidar_pushed' = TRUE /\ meas' = PushedScan /\ odometry' = Silence
      /\ UNCHANGED <<lidar_buffer, time_buffer, imu_buffer, last_timestamp_lidar,
                     last_timestamp_imu, flg_first_scan, init_count, last_imu,
                     last_lidar_end_time, feats_undistort, filter_time, Root_Node, regular>>
  BY DEF MainLoop, buffers, process
<1>3. /\ time_buffer # <<>> /\ Head(time_buffer) = time_buffer[1]
      /\ m \in {0, ScanTime} /\ m \in Nat /\ m >= lidar_mean_scantime
      /\ PushedScan.beg = time_buffer[1] /\ PushedScan.end = time_buffer[1] + m
      /\ PushedScan.lidar.points # "none" => m = ScanTime
      /\ PushedScan.lidar \in ScanCloud \cup {NoCloud}
      /\ ScansHaveStamps => PushedScan.lidar = Head(lidar_buffer)
  BY <1>1, <1>2, PushedScanIs
<1>num. /\ \A i \in 1 .. Len(time_buffer) : time_buffer[i] \in Nat
        /\ last_timestamp_lidar \in Int /\ last_lidar_end_time \in Nat
        /\ lidar_mean_scantime \in Nat /\ ScanTime \in Nat
  BY <1>1, StampsAreNumbers
<1> HIDE DEF m
<1>4. LioTypeOK'
  <2>1. {feats_undistort, odometry.scan}' \subseteq ScanCloud \cup {NoCloud}
    BY <1>1, <1>2 DEF LioTypeOK, Silence
  <2>2. meas'.lidar \in ScanCloud \cup {NoCloud} /\ lidar_mean_scantime' \in {0, ScanTime}
    BY <1>2, <1>3
  <2>3. QED
    BY <1>1, <1>2, <2>1, <2>2 DEF LioTypeOK
<1>5. LioShape' /\ LastSampleIsOld' /\ FilterKeepsTime' /\ SamplesInOrder'
  BY <1>1, <1>2 DEF LioShape, LastSampleIsOld, FilterKeepsTime, SamplesInOrder
<1>6. TakenUp'
  BY <1>2, <1>3 DEF TakenUp
<1>7. OneClockStands'
  <2>1. SamplesFresh' <=> SamplesFresh
    BY <1>2 DEF SamplesFresh
  <2>2. ASSUME ScansAhead PROVE ScansAhead'
    <3>1. ASSUME filter_time # Never
          PROVE  /\ \A i \in 1 .. Len(time_buffer) :
                      time_buffer[i] + m >= last_lidar_end_time + ScanTime
                 /\ last_timestamp_lidar + m >= last_lidar_end_time
      <4>1. /\ \A i \in 1 .. Len(time_buffer) :
                 time_buffer[i] + lidar_mean_scantime >= last_lidar_end_time + ScanTime
            /\ last_timestamp_lidar + lidar_mean_scantime >= last_lidar_end_time
        BY <2>2, <3>1 DEF ScansAhead
      <4>2. m \in Nat /\ m >= lidar_mean_scantime
        BY <1>3
      <4>3. last_timestamp_lidar + m >= last_lidar_end_time
        BY <1>num, <4>1, <4>2
      <4>4. ASSUME NEW i \in 1 .. Len(time_buffer)
            PROVE  time_buffer[i] + m >= last_lidar_end_time + ScanTime
        <5>1. /\ time_buffer[i] \in Nat
              /\ time_buffer[i] + lidar_mean_scantime >= last_lidar_end_time + ScanTime
          BY <1>num, <4>1
        <5>2. QED
          BY <1>num, <4>2, <5>1
      <4>5. QED
        BY <4>3, <4>4
    <3>2. QED
      BY <1>2, <2>2, <3>1 DEF ScansAhead
  <2>3. QED
    BY <1>1, <1>2, <2>1, <2>2 DEF OneClockStands
<1>8. InStep'
  <2> SUFFICES ASSUME regular PROVE (ScansHaveStamps /\ FirstSampleIsEarly /\ NextSampleIsInTime)'
    BY <1>2 DEF InStep
  <2>1. ScansHaveStamps /\ FirstSampleIsEarly /\ NextSampleIsInTime
    BY <1>1 DEF InStep
  <2>2. ScansHaveStamps' /\ FirstSampleIsEarly'
    BY <1>2, <1>3, <2>1 DEF ScansHaveStamps, FirstSampleIsEarly
  <2>3. NextSampleIsInTime'
    <3> SUFFICES ASSUME ~flg_first_scan PROVE NextSampleIsInTime'
      BY <1>2 DEF NextSampleIsInTime
    <3>1. /\ last_timestamp_imu # Never /\ last_timestamp_lidar # Never
          /\ \A i \in 1 .. Len(time_buffer) : NextSample < time_buffer[i] + lidar_mean_scantime
          /\ NextSample < last_timestamp_lidar + ScanTime + lidar_mean_scantime
      BY <2>1 DEF NextSampleIsInTime
    <3>2. NextSample \in Int /\ NextSample' = NextSample
      <4>1. imu_buffer # <<>> => imu_buffer[1] \in Nat /\ Head(imu_buffer) = imu_buffer[1]
        <5>1. imu_buffer \in Seq(Stamp)
          BY <1>1 DEF LioTypeOK
        <5>2. QED
          BY <1>1, <5>1, StampsAreNumbers
      <4>2. last_timestamp_imu \in Int /\ SampleTime \in Nat
        BY <1>1, StampsAreNumbers
      <4>3. QED
        BY <1>2, <4>1, <4>2 DEF NextSample
    <3> HIDE DEF NextSample
    <3>3. /\ \A i \in 1 .. Len(time_buffer) : NextSample < time_buffer[i] + m
          /\ NextSample < last_timestamp_lidar + ScanTime + m
      BY <1>3, <1>num, <3>1, <3>2
    <3>4. QED
      BY <1>2, <3>1, <3>2, <3>3 DEF NextSampleIsInTime
  <2>4. QED
    BY <2>2, <2>3
<1>9. OdometryIsOfItsScan'
  BY <1>2 DEF OdometryIsOfItsScan
<1>10. QED
  BY <1>4, <1>5, <1>6, <1>7, <1>8, <1>9 DEF LioInv

\* What a package does to the filter, when n samples come with it: nothing, or the
\* filter stands at the end of the scan afterwards.
FilterStands(n) ==
  /\ UNCHANGED <<last_lidar_end_time, feats_undistort, filter_time>>
  /\ \/ UNCHANGED <<init_count, last_imu>> /\ (flg_first_scan \/ n = 0)
     \/ /\ n > 0 /\ init_count < MaxIniCount
        /\ init_count' = init_count + n /\ last_imu' = imu_buffer[n]

FilterMoves(n) ==
  /\ n > 0 /\ init_count >= MaxIniCount /\ UNCHANGED init_count
  /\ last_imu' = imu_buffer[n] /\ last_lidar_end_time' = PushedScan.end
  /\ feats_undistort' = PushedScan.lidar /\ filter_time' = PushedScan.end

\* What a turn that hands a package on leaves.
HandedOn(m, n) ==
  /\ m = PushedMeanTime /\ n \in 0 .. Len(imu_buffer)
  /\ lidar_mean_scantime' = m /\ lidar_pushed' = FALSE /\ meas' = NoMeas
  /\ flg_first_scan' = FALSE
  /\ lidar_buffer' = Tail(lidar_buffer) /\ time_buffer' = Tail(time_buffer)
  /\ imu_buffer' = SubSeq(imu_buffer, n + 1, Len(imu_buffer))
  /\ UNCHANGED <<last_timestamp_lidar, last_timestamp_imu, regular>>
  /\ n = 0 <=> imu_buffer[1] >= PushedScan.end
  /\ n > 0 => imu_buffer[n] <= PushedScan.end
  /\ n > 0 /\ imu_buffer[n] # PushedScan.end =>
       n < Len(imu_buffer) /\ imu_buffer[n + 1] > PushedScan.end
  /\ \A i \in n + 1 .. Len(imu_buffer) : imu_buffer[i] >= PushedScan.end
  /\ FilterStands(n) \/ FilterMoves(n)
  /\ \/ odometry' = Silence /\ Root_Node' \in BOOLEAN
     \/ ~flg_first_scan /\ Register(PushedScan)

\* The last sample of a package is not before the end of the last scan: none is, if no
\* clock of the samples jumped back, and otherwise the scan is longer than a dropout.
LEMMA LastSampleIsNew ==
  ASSUME LioInv, lidar_buffer # <<>>, filter_time # Never, NEW m, m = PushedMeanTime,
         NEW n \in 1 .. Len(imu_buffer),
         imu_buffer[n] # PushedScan.end =>
           n < Len(imu_buffer) /\ imu_buffer[n + 1] > PushedScan.end
  PROVE  imu_buffer[n] >= last_lidar_end_time
<1>1. LioTypeOK /\ TakenUp /\ SamplesInOrder /\ OneClockStands
  BY DEF LioInv
<1>2. /\ 1 \in 1 .. Len(time_buffer) /\ m \in Nat /\ m >= lidar_mean_scantime
      /\ PushedScan.end = time_buffer[1] + m
  BY <1>1, PushedScanIs
<1>num. /\ ScanTime \in Nat /\ SampleTime \in Nat /\ SampleTime < ScanTime
        /\ \A i \in 1 .. Len(imu_buffer) : imu_buffer[i] \in Nat
        /\ time_buffer[1] \in Nat /\ Len(imu_buffer) \in Nat
        /\ lidar_mean_scantime \in Nat /\ last_lidar_end_time \in Nat
  BY <1>1, <1>2, StampsAreNumbers
<1>3. CASE SamplesFresh
  BY <1>3 DEF SamplesFresh
<1>4. CASE ScansAhead
  <2>1. time_buffer[1] + lidar_mean_scantime >= last_lidar_end_time + ScanTime
    BY <1>2, <1>4 DEF ScansAhead
  <2>2. PushedScan.end >= last_lidar_end_time + ScanTime /\ PushedScan.end \in Nat
    BY <1>2, <1>num, <2>1
  <2>3. CASE imu_buffer[n] = PushedScan.end
    BY <1>num, <2>2, <2>3
  <2>4. CASE imu_buffer[n] # PushedScan.end
    <3>1. n \in 1 .. Len(imu_buffer) - 1 /\ n + 1 \in 1 .. Len(imu_buffer)
      BY <1>num, <2>4
    <3>2. imu_buffer[n + 1] <= imu_buffer[n] + IF regular THEN SampleTime ELSE ScanTime + 1
      BY <1>1, <3>1 DEF SamplesInOrder
    <3>3. imu_buffer[n] \in Nat /\ imu_buffer[n + 1] \in Nat /\ imu_buffer[n + 1] > PushedScan.end
      BY <1>num, <2>4, <3>1
    <3>4. QED
      BY <1>num, <2>2, <3>2, <3>3
  <2>5. QED
    BY <2>3, <2>4
<1>5. QED
  BY <1>1, <1>3, <1>4 DEF OneClockStands

\* A turn that has samples up to the scan's end leaves the buffers, and the filter, so.
LEMMA LoopHandsOn ==
  ASSUME LioInv, MainLoop, ~(last_timestamp_imu < PushedScan.end)
  PROVE  \E m, n : HandedOn(m, n)
<1> DEFINE end == PushedScan.end
           m == PushedMeanTime
           samples == SamplesOf(end)
<1>1. LioTypeOK /\ LioShape /\ TakenUp /\ SamplesInOrder /\ LastSampleIsOld /\ FilterKeepsTime
  BY DEF LioInv
<1>2. /\ lidar_buffer # <<>> /\ imu_buffer # <<>> /\ lidar_mean_scantime' = m
      /\ PopPackage(samples) /\ lidar_pushed' = FALSE /\ meas' = NoMeas
      /\ flg_first_scan' = FALSE /\ UNCHANGED regular
      /\ IF flg_first_scan
           THEN odometry' = Silence /\ UNCHANGED <<process, Root_Node>>
           ELSE Process(PushedScan, samples) /\ Register(PushedScan)
  BY DEF MainLoop
<1>3. end \in Int /\ last_timestamp_imu >= end /\ 1 \in 1 .. Len(time_buffer)
  <2>1. 1 \in 1 .. Len(time_buffer) /\ m \in Nat /\ end = time_buffer[1] + m
    BY <1>1, <1>2, PushedScanIs
  <2>2. time_buffer[1] \in Nat /\ last_timestamp_imu \in Int
    BY <1>1, <2>1, StampsAreNumbers
  <2> HIDE DEF end
  <2>3. end \in Int
    BY <2>1, <2>2
  <2>4. QED
    BY <2>1, <2>2, <2>3 DEF end
<1>num. /\ \A i \in 1 .. Len(imu_buffer) : imu_buffer[i] \in Nat
        /\ Len(imu_buffer) \in Nat /\ imu_buffer \in Seq(Stamp) /\ last_imu \in Int
        /\ last_lidar_end_time \in Nat /\ filter_time \in Int
        /\ init_count \in Nat /\ MaxIniCount \in Nat /\ Root_Node \in BOOLEAN
  BY <1>1, StampsAreNumbers, LioAssumption DEF LioTypeOK
<1> HIDE DEF end
<1>4. PICK n \in 0 .. Len(imu_buffer) :
        /\ samples = SubSeq(imu_buffer, 1, n)
        /\ n = 0 <=> imu_buffer[1] >= end
        /\ n > 0 => imu_buffer[n] <= end
        /\ n > 0 /\ imu_buffer[n] # end => n < Len(imu_buffer) /\ imu_buffer[n + 1] > end
        /\ \A i \in n + 1 .. Len(imu_buffer) : imu_buffer[i] >= end
  BY <1>1, <1>2, <1>3, SamplesAre
<1> HIDE DEF samples
<1>5. /\ Len(samples) = n /\ \A i \in 1 .. n : samples[i] = imu_buffer[i] /\ samples[i] \in Nat
      /\ samples \in Seq(Nat)
  <2>1. \A i \in 1 .. n : i \in 1 .. Len(imu_buffer) /\ 1 + i - 1 = i
    BY <1>num
  <2>2. \A i \in 1 .. n : imu_buffer[i] \in Nat
    BY <1>num, <2>1
  <2>3. /\ SubSeq(imu_buffer, 1, n) \in Seq(Nat)
        /\ Len(SubSeq(imu_buffer, 1, n)) = IF 1 <= n THEN n - 1 + 1 ELSE 0
        /\ \A i \in 1 .. n - 1 + 1 : SubSeq(imu_buffer, 1, n)[i] = imu_buffer[1 + i - 1]
    BY <2>2, SubSeqProperties
  <2>4. n - 1 + 1 = n /\ (IF 1 <= n THEN n - 1 + 1 ELSE 0) = n
    BY <1>num
  <2>5. QED
    BY <1>4, <2>1, <2>2, <2>3, <2>4
<1>6. samples = <<>> <=> n = 0
  BY <1>5, EmptySeq
\* Processing.
<1>7. FilterStands(n) \/ FilterMoves(n)
  <2>1. CASE flg_first_scan
    BY <1>2, <2>1 DEF FilterStands, process
  <2>2. CASE ~flg_first_scan
    <3>1. Process(PushedScan, samples)
      BY <1>2, <2>2
    <3>2. CASE samples = <<>>
      BY <1>6, <3>1, <3>2 DEF Process, process, FilterStands
    <3>3. CASE samples # <<>>
      <4>1. /\ n > 0 /\ n \in 1 .. n /\ samples[Len(samples)] = imu_buffer[n]
            /\ n \in 1 .. Len(imu_buffer)
        BY <1>5, <1>6, <1>num, <3>3
      <4>2. CASE init_count < MaxIniCount
        BY <1>5, <1>num, <3>1, <3>3, <4>1, <4>2 DEF Process, FilterStands
      <4>3. CASE ~(init_count < MaxIniCount)
        <5>1. /\ last_imu' = imu_buffer[n] /\ last_lidar_end_time' = end
              /\ feats_undistort' = PushedScan.lidar
              /\ filter_time' = IF filter_time = Never THEN end
                                ELSE filter_time + Propagated(samples, end)
              /\ UNCHANGED init_count
          BY <3>1, <3>3, <4>1, <4>3 DEF Process, end
        <5>2. filter_time' = end
          <6>1. CASE filter_time = Never
            BY <5>1, <6>1
          <6>2. CASE filter_time # Never
            <7>1. filter_time = last_lidar_end_time /\ last_imu <= last_lidar_end_time
              BY <1>1, <6>2 DEF FilterKeepsTime, LastSampleIsOld
            <7>2. imu_buffer[n] >= last_lidar_end_time
              BY <1>2, <1>4, <4>1, <6>2, LastSampleIsNew DEF end
            <7>3. \A i, j \in 1 .. n : i <= j => samples[i] <= samples[j]
              <8>1. \A i \in 1 .. n : i \in 1 .. Len(imu_buffer)
                BY <1>num
              <8>2. QED
                BY <1>1, <1>5, <8>1 DEF SamplesInOrder
            <7>4. samples[Len(samples)] <= end
              BY <1>4, <4>1
            <7>5. Propagated(samples, end) = end - last_lidar_end_time
              BY <1>1, <1>3, <1>5, <3>3, <4>1, <7>1, <7>2, <7>3, <7>4, PropagatedIsTheTime
            <7>6. QED
              BY <1>3, <1>num, <5>1, <6>2, <7>1, <7>5
          <6>3. QED
            BY <6>1, <6>2
        <5>3. init_count >= MaxIniCount
          BY <1>num, <4>3
        <5>4. QED
          BY <4>1, <5>1, <5>2, <5>3 DEF FilterMoves, end
      <4>4. QED
        BY <4>2, <4>3
    <3>4. QED
      BY <3>2, <3>3
  <2>3. QED
    BY <2>1, <2>2
<1>8. /\ lidar_buffer' = Tail(lidar_buffer) /\ time_buffer' = Tail(time_buffer)
      /\ imu_buffer' = SubSeq(imu_buffer, n + 1, Len(imu_buffer))
      /\ UNCHANGED <<last_timestamp_lidar, last_timestamp_imu>>
  BY <1>2, <1>5 DEF PopPackage
<1>9. \/ odometry' = Silence /\ Root_Node' \in BOOLEAN
      \/ ~flg_first_scan /\ Register(PushedScan)
  BY <1>2, <1>num
<1>10. HandedOn(m, n)
  BY <1>2, <1>4, <1>7, <1>8, <1>9 DEF HandedOn, end
<1>11. QED
  BY <1>10

\* A turn that hands a package on.
LEMMA HandingOnKeepsTime ==
  ASSUME LioInv, MainLoop, ~(last_timestamp_imu < PushedScan.end), NEW m, NEW n, HandedOn(m, n)
  PROVE  LioInv'
<1> DEFINE N == Len(imu_buffer)
           k == Len(time_buffer)
           h == time_buffer[1]
           end == PushedScan.end
<1>1. /\ LioTypeOK /\ LioShape /\ TakenUp /\ SamplesInOrder /\ OneClockStands
      /\ LastSampleIsOld /\ InStep /\ FilterKeepsTime
  BY DEF LioInv
<1>2. /\ lidar_mean_scantime' = m /\ lidar_pushed' = FALSE /\ meas' = NoMeas
      /\ flg_first_scan' = FALSE
      /\ lidar_buffer' = Tail(lidar_buffer) /\ time_buffer' = Tail(time_buffer)
      /\ imu_buffer' = SubSeq(imu_buffer, n + 1, N)
      /\ UNCHANGED <<last_timestamp_lidar, last_timestamp_imu, regular>>
      /\ lidar_buffer # <<>> /\ imu_buffer # <<>>
  BY DEF HandedOn, MainLoop
<1>3. /\ n \in 0 .. N
      /\ n = 0 <=> imu_buffer[1] >= end
      /\ n > 0 => imu_buffer[n] <= end
      /\ n > 0 /\ imu_buffer[n] # end => n < N /\ imu_buffer[n + 1] > end
      /\ \A i \in n + 1 .. N : imu_buffer[i] >= end
  BY DEF HandedOn
<1>filter. FilterStands(n) \/ FilterMoves(n)
  BY DEF HandedOn
<1>4. /\ 1 \in 1 .. k /\ m \in {0, ScanTime} /\ m \in Nat /\ m >= lidar_mean_scantime
      /\ end = h + m
      /\ PushedScan.lidar.points # "none" => m = ScanTime
      /\ PushedScan.lidar \in ScanCloud \cup {NoCloud}
      /\ ScansHaveStamps => PushedScan.lidar = Head(lidar_buffer) /\ PushedScan.lidar.stamp = h
  <2>1. m = PushedMeanTime
    BY DEF HandedOn
  <2>2. QED
    BY <1>1, <1>2, <2>1, PushedScanIs
<1>num. /\ Never = -1 /\ ScanTime \in Nat /\ SampleTime \in Nat
        /\ SampleTime >= 1 /\ SampleTime < ScanTime
        /\ \A i \in 1 .. N : imu_buffer[i] \in Nat
        /\ \A i \in 1 .. k : time_buffer[i] \in Nat
        /\ N \in Nat /\ k \in Nat /\ k > 0 /\ h \in Nat
        /\ last_timestamp_imu \in Int /\ last_timestamp_lidar \in Int
        /\ lidar_mean_scantime \in Nat /\ last_lidar_end_time \in Nat
  BY <1>1, <1>4, StampsAreNumbers
<1>seq. /\ lidar_buffer \in Seq(ScanCloud) /\ time_buffer \in Seq(Stamp)
        /\ imu_buffer \in Seq(Stamp) /\ Len(lidar_buffer) <= k
        /\ N = Len(imu_buffer) /\ k = Len(time_buffer)
  BY <1>1 DEF LioTypeOK
<1> HIDE DEF N, k, h, end
<1>end. end \in Nat /\ last_timestamp_imu >= end
  <2>1. end \in Nat
    BY <1>4, <1>num
  <2>2. ~(last_timestamp_imu < end)
    BY DEF end
  <2>3. QED
    BY <1>num, <2>1, <2>2
<1>pos. N > 0 /\ imu_buffer[N] = last_timestamp_imu
  <2>1. N > 0
    BY <1>2, <1>num, <1>seq
  <2>2. QED
    BY <1>1, <1>2, <1>seq, <2>1 DEF SamplesInOrder
\* The buffers afterwards.
<1>time. /\ time_buffer' \in Seq(Stamp) /\ Len(time_buffer') = k - 1
         /\ \A i \in 1 .. k - 1 : time_buffer'[i] = time_buffer[i + 1]
  BY <1>2, <1>num, <1>seq, EmptySeq, HeadTailProperties
<1>lidar. /\ lidar_buffer' \in Seq(ScanCloud) /\ Len(lidar_buffer') = Len(lidar_buffer) - 1
          /\ \A i \in 1 .. Len(lidar_buffer) - 1 : lidar_buffer'[i] = lidar_buffer[i + 1]
          /\ Len(lidar_buffer) \in Nat
  BY <1>2, <1>seq, HeadTailProperties
<1>imu. /\ imu_buffer' \in Seq(Stamp) /\ Len(imu_buffer') = N - n
        /\ \A i \in 1 .. N - n : imu_buffer'[i] = imu_buffer[n + i]
  <2>1. \A i \in n + 1 .. N : imu_buffer[i] \in Stamp
    <3>1. \A i \in n + 1 .. N : i \in 1 .. N
      BY <1>3, <1>num
    <3>2. QED
      BY <1>seq, <3>1
  <2>2. n + 1 \in Int /\ N \in Int
    BY <1>3, <1>num
  <2>3. /\ SubSeq(imu_buffer, n + 1, N) \in Seq(Stamp)
        /\ Len(SubSeq(imu_buffer, n + 1, N)) = IF n + 1 <= N THEN N - (n + 1) + 1 ELSE 0
        /\ \A i \in 1 .. N - (n + 1) + 1 :
             SubSeq(imu_buffer, n + 1, N)[i] = imu_buffer[(n + 1) + i - 1]
    BY <2>1, <2>2, SubSeqProperties
  <2>4. /\ N - (n + 1) + 1 = N - n /\ (IF n + 1 <= N THEN N - (n + 1) + 1 ELSE 0) = N - n
        /\ \A i \in 1 .. N - n : (n + 1) + i - 1 = n + i
    BY <1>3, <1>num
  <2>5. QED
    BY <1>2, <2>3, <2>4
<1>rest. \A i \in 1 .. N - n : n + i \in n + 1 .. N /\ n + i \in 1 .. N
  BY <1>3, <1>num
<1>5. LioTypeOK'
  <2>1. Len(lidar_buffer') <= Len(time_buffer')
    BY <1>lidar, <1>num, <1>seq, <1>time
  <2>2. n > 0 => imu_buffer[n] \in Stamp
    BY <1>3, <1>num, <1>seq
  <2>3. /\ last_imu' \in Stamp \cup {Never} /\ init_count' \in Nat
        /\ filter_time' \in Int /\ last_lidar_end_time' \in Nat
        /\ feats_undistort' \in ScanCloud \cup {NoCloud}
    <3>1. /\ last_imu \in Stamp \cup {Never} /\ init_count \in Nat
          /\ filter_time \in Int /\ last_lidar_end_time \in Nat
          /\ feats_undistort \in ScanCloud \cup {NoCloud}
      BY <1>1 DEF LioTypeOK
    <3>2. CASE FilterStands(n)
      BY <1>3, <1>num, <2>2, <3>1, <3>2 DEF FilterStands
    <3>3. CASE FilterMoves(n)
      BY <1>4, <1>end, <2>2, <3>1, <3>3 DEF FilterMoves, end
    <3>4. QED
      BY <1>filter, <3>2, <3>3
  <2>4. odometry'.scan \in ScanCloud \cup {NoCloud} /\ Root_Node' \in BOOLEAN
    <3>1. CASE odometry' = Silence /\ Root_Node' \in BOOLEAN
      BY <3>1 DEF Silence
    <3>2. CASE Register(PushedScan)
      <4>1. Root_Node' \in BOOLEAN
        BY <1>1, <3>2 DEF Register, LioTypeOK
      <4>2. odometry' = Silence \/ odometry' = [stamp |-> PushedScan.end, scan |-> feats_undistort']
        BY <3>2 DEF Register
      <4>3. odometry'.scan = NoCloud \/ odometry'.scan = feats_undistort'
        BY <4>2 DEF Silence
      <4>4. QED
        BY <2>3, <4>1, <4>3
    <3>3. QED
      BY <3>1, <3>2 DEF HandedOn
  <2>5. meas'.lidar \in ScanCloud \cup {NoCloud}
    BY <1>2 DEF NoMeas
  <2>6. /\ {last_timestamp_lidar, last_timestamp_imu} \subseteq Stamp \cup {Never}
        /\ regular \in BOOLEAN
    BY <1>1 DEF LioTypeOK
  <2>7. /\ {last_timestamp_lidar, last_timestamp_imu, last_imu}' \subseteq Stamp \cup {Never}
        /\ {feats_undistort, odometry.scan}' \subseteq ScanCloud \cup {NoCloud}
    BY <1>2, <2>3, <2>4, <2>6
  <2>8. lidar_mean_scantime' \in {0, ScanTime} /\ lidar_pushed' = FALSE /\ flg_first_scan' = FALSE
    BY <1>2, <1>4
  <2>9. QED
    BY <1>2, <1>imu, <1>lidar, <1>time, <2>1, <2>3, <2>4, <2>5, <2>6, <2>7, <2>8 DEF LioTypeOK
<1>6. LioShape'
  <2>1. last_timestamp_lidar' # Never
    BY <1>1, <1>2, <1>num, <1>seq DEF LioShape
  <2>2. CASE FilterStands(n)
    <3>1. init_count' >= init_count /\ init_count \in Nat /\ init_count' \in Nat
      BY <1>1, <1>3, <1>num, <2>2 DEF FilterStands, LioTypeOK
    <3>2. MaxIniCount \in Nat
      BY LioAssumption
    <3>3. QED
      BY <1>1, <2>1, <2>2, <3>1, <3>2 DEF LioShape, FilterStands
  <2>3. CASE FilterMoves(n)
    <3>1. filter_time' # Never
      BY <1>end, <1>num, <2>3 DEF FilterMoves, end
    <3>2. QED
      BY <2>1, <2>3, <3>1 DEF LioShape, FilterMoves
  <2>4. QED
    BY <1>filter, <2>2, <2>3
<1>7. TakenUp'
  BY <1>2 DEF TakenUp
<1>8. SamplesInOrder'
  <2>1. /\ \A i, j \in 1 .. N : i <= j => imu_buffer[i] <= imu_buffer[j]
        /\ \A i \in 1 .. N - 1 :
             imu_buffer[i + 1] <= imu_buffer[i] + IF regular THEN SampleTime ELSE ScanTime + 1
    BY <1>1, <1>seq DEF SamplesInOrder
  <2>2. ASSUME NEW i \in 1 .. N - n, NEW j \in 1 .. N - n, i <= j
        PROVE  imu_buffer'[i] <= imu_buffer'[j]
    <3>1. n + i <= n + j
      BY <1>3, <2>2
    <3>2. QED
      BY <1>imu, <1>rest, <2>1, <3>1
  <2>3. ASSUME NEW i \in 1 .. (N - n) - 1
        PROVE  imu_buffer'[i + 1] <= imu_buffer'[i] + IF regular THEN SampleTime ELSE ScanTime + 1
    <3>1. /\ i \in 1 .. N - n /\ i + 1 \in 1 .. N - n /\ n + i \in 1 .. N - 1
          /\ (n + i) + 1 = n + (i + 1)
      BY <1>3, <1>num
    <3>2. imu_buffer'[i] = imu_buffer[n + i] /\ imu_buffer'[i + 1] = imu_buffer[(n + i) + 1]
      BY <1>imu, <3>1
    <3>3. QED
      BY <2>1, <3>1, <3>2
  <2>4. imu_buffer' # <<>> => imu_buffer'[Len(imu_buffer')] = last_timestamp_imu
    <3> SUFFICES ASSUME imu_buffer' # <<>> PROVE imu_buffer'[N - n] = last_timestamp_imu
      BY <1>imu
    <3>1. N - n > 0
      BY <1>3, <1>imu, <1>num, EmptySeq
    <3>2. N - n \in 1 .. N - n /\ n + (N - n) = N
      BY <1>3, <1>num, <3>1
    <3>3. QED
      BY <1>imu, <1>pos, <3>2
  <2>5. QED
    BY <1>2, <1>imu, <2>2, <2>3, <2>4 DEF SamplesInOrder
<1>9. LastSampleIsOld' /\ FilterKeepsTime'
  <2>1. CASE FilterStands(n)
    <3>1. FilterKeepsTime'
      BY <1>1, <2>1 DEF FilterStands, FilterKeepsTime
    <3>2. CASE UNCHANGED last_imu
      BY <1>1, <2>1, <3>1, <3>2 DEF FilterStands, LastSampleIsOld
    <3>3. CASE init_count < MaxIniCount
      <4>1. ~(init_count >= MaxIniCount)
        BY <1>1, <3>3, LioAssumption DEF LioTypeOK
      <4>2. filter_time = Never
        BY <1>1, <4>1 DEF LioShape
      <4>3. QED
        BY <2>1, <3>1, <4>2 DEF FilterStands, LastSampleIsOld
    <3>4. QED
      BY <2>1, <3>2, <3>3 DEF FilterStands
  <2>2. CASE FilterMoves(n)
    BY <1>3, <2>2 DEF FilterMoves, LastSampleIsOld, FilterKeepsTime, end
  <2>3. QED
    BY <1>filter, <2>1, <2>2
<1>10. OneClockStands'
  <2>1. ASSUME SamplesFresh \/ FilterMoves(n) PROVE SamplesFresh'
    <3>1. CASE FilterMoves(n)
      <4>1. last_lidar_end_time' = end
        BY <3>1 DEF FilterMoves, end
      <4>2. \A i \in 1 .. N - n : imu_buffer'[i] >= end
        BY <1>3, <1>imu, <1>rest
      <4>3. QED
        BY <1>2, <1>end, <1>imu, <4>1, <4>2 DEF SamplesFresh
    <3>2. CASE FilterStands(n) /\ SamplesFresh
      <4> SUFFICES ASSUME filter_time # Never PROVE SamplesFresh'
        BY <3>2 DEF FilterStands, SamplesFresh
      <4>1. /\ last_timestamp_imu >= last_lidar_end_time
            /\ \A i \in 1 .. N : imu_buffer[i] >= last_lidar_end_time
            /\ last_lidar_end_time' = last_lidar_end_time
        BY <1>seq, <3>2 DEF SamplesFresh, FilterStands
      <4>2. \A i \in 1 .. N - n : imu_buffer'[i] >= last_lidar_end_time
        BY <1>imu, <1>rest, <4>1
      <4>3. QED
        BY <1>2, <1>imu, <4>1, <4>2 DEF SamplesFresh
    <3>3. QED
      BY <1>filter, <2>1, <3>1, <3>2
  <2>2. ASSUME ScansAhead PROVE ScansAhead'
    <3>1. /\ \A i, j \in 1 .. k : i < j => time_buffer[i] + ScanTime <= time_buffer[j]
          /\ \A i \in 1 .. k : time_buffer[i] <= last_timestamp_lidar
          /\ filter_time # Never =>
               /\ \A i \in 1 .. k :
                    time_buffer[i] + lidar_mean_scantime >= last_lidar_end_time + ScanTime
               /\ last_timestamp_lidar + lidar_mean_scantime >= last_lidar_end_time
      BY <1>seq, <2>2 DEF ScansAhead
    <3>2. ASSUME NEW i \in 1 .. k - 1
          PROVE  /\ i + 1 \in 1 .. k /\ time_buffer'[i] = time_buffer[i + 1]
                 /\ time_buffer'[i] \in Nat /\ time_buffer'[i] <= last_timestamp_lidar
                 /\ h + ScanTime <= time_buffer'[i]
      <4>1. i + 1 \in 1 .. k /\ 1 < i + 1 /\ 1 \in 1 .. k
        BY <1>num
      <4>2. time_buffer'[i] = time_buffer[i + 1]
        BY <1>time
      <4>3. QED
        BY <1>num, <3>1, <4>1, <4>2 DEF h
    <3>3. ASSUME NEW i \in 1 .. k - 1, NEW j \in 1 .. k - 1, i < j
          PROVE  time_buffer'[i] + ScanTime <= time_buffer'[j]
      <4>1. i + 1 < j + 1
        BY <3>3
      <4>2. QED
        BY <3>1, <3>2, <4>1
    <3>4. h <= last_timestamp_lidar
      BY <1>4, <3>1 DEF h
    <3>5. ASSUME filter_time' # Never
          PROVE  /\ \A i \in 1 .. k - 1 : time_buffer'[i] + m >= last_lidar_end_time' + ScanTime
                 /\ last_timestamp_lidar + m >= last_lidar_end_time'
      <4>1. CASE FilterMoves(n)
        <5>1. last_lidar_end_time' = h + m
          BY <1>4, <4>1 DEF FilterMoves, end
        <5>2. \A i \in 1 .. k - 1 : time_buffer'[i] + m >= (h + m) + ScanTime
          BY <1>4, <1>num, <3>2
        <5>3. last_timestamp_lidar + m >= h + m
          BY <1>4, <1>num, <3>4
        <5>4. QED
          BY <5>1, <5>2, <5>3
      <4>2. CASE FilterStands(n)
        <5>1. filter_time # Never /\ last_lidar_end_time' = last_lidar_end_time
          BY <3>5, <4>2 DEF FilterStands
        <5>2. ASSUME NEW i \in 1 .. k - 1
              PROVE  time_buffer'[i] + m >= last_lidar_end_time + ScanTime
          <6>1. time_buffer'[i] + lidar_mean_scantime >= last_lidar_end_time + ScanTime
            BY <3>1, <3>2, <5>1
          <6>2. time_buffer'[i] \in Nat
            BY <3>2
          <6>3. QED
            BY <1>4, <1>num, <6>1, <6>2
        <5>3. last_timestamp_lidar + m >= last_lidar_end_time
          BY <1>4, <1>num, <3>1, <5>1
        <5>4. QED
          BY <5>1, <5>2, <5>3
      <4>3. QED
        BY <1>filter, <4>1, <4>2
    <3>6. QED
      BY <1>2, <1>time, <3>2, <3>3, <3>5 DEF ScansAhead
  <2>3. QED
    BY <1>1, <1>2, <2>1, <2>2 DEF OneClockStands
\* While the sensors are regular.
<1>11. ASSUME regular
       PROVE  ScansHaveStamps /\ FirstSampleIsEarly /\ NextSampleIsInTime /\ ScansAhead
  BY <1>1, <1>11 DEF InStep, OneClockStands
<1>12. ASSUME regular, ~flg_first_scan PROVE n > 0
  <2>1. NextSample < h + lidar_mean_scantime
    BY <1>4, <1>11, <1>12, <1>seq DEF NextSampleIsInTime, h
  <2>2. NextSample = imu_buffer[1] /\ imu_buffer[1] \in Nat
    BY <1>2, <1>num, <1>pos, <1>seq DEF NextSample
  <2>3. imu_buffer[1] < end
    BY <1>4, <1>num, <2>1, <2>2
  <2>4. QED
    BY <1>3, <1>end, <1>num, <2>2, <2>3
<1>13. InStep'
  <2> SUFFICES ASSUME regular PROVE (ScansHaveStamps /\ FirstSampleIsEarly /\ NextSampleIsInTime)'
    BY <1>2 DEF InStep
  <2>1. ScansHaveStamps'
    <3>1. Len(lidar_buffer) = k /\ \A i \in 1 .. k : lidar_buffer[i].stamp = time_buffer[i]
      BY <1>11, <1>seq DEF ScansHaveStamps
    <3>2. \A i \in 1 .. k - 1 : lidar_buffer'[i].stamp = time_buffer'[i]
      <4>1. \A i \in 1 .. k - 1 : i + 1 \in 1 .. k
        BY <1>num
      <4>2. QED
        BY <1>lidar, <1>time, <3>1, <4>1
    <3>3. QED
      BY <1>2, <1>lidar, <1>time, <3>1, <3>2 DEF ScansHaveStamps
  <2>2. FirstSampleIsEarly'
    BY <1>2 DEF FirstSampleIsEarly
  <2>3. NextSample' \in Int /\ NextSample' < end + ScanTime
    <3>1. CASE n = N
      <4>1. imu_buffer' = <<>>
        BY <1>imu, <1>num, <3>1, EmptySeq
      <4>2. last_timestamp_imu <= end
        BY <1>3, <1>pos, <3>1
      <4>3. NextSample' = last_timestamp_imu + SampleTime
        BY <1>2, <4>1 DEF NextSample
      <4>4. QED
        BY <1>end, <1>num, <4>2, <4>3
    <3>2. CASE n < N
      <4>1. NextSample' = imu_buffer[n + 1] /\ n + 1 \in 1 .. N /\ imu_buffer[n + 1] \in Nat
        <5>1. 1 \in 1 .. N - n /\ N - n > 0 /\ n + 1 \in 1 .. N
          BY <1>3, <1>num, <3>2
        <5>2. /\ imu_buffer' # <<>> /\ Head(imu_buffer') = imu_buffer'[1]
              /\ imu_buffer'[1] = imu_buffer[n + 1]
          BY <1>imu, <5>1
        <5>3. QED
          BY <1>num, <5>1, <5>2 DEF NextSample
      <4>2. CASE n > 0
        <5>1. n \in 1 .. N - 1 /\ n \in 1 .. N
          BY <1>3, <1>num, <3>2, <4>2
        <5>2. imu_buffer[n + 1] <= imu_buffer[n] + SampleTime
          BY <1>1, <1>seq, <5>1 DEF SamplesInOrder
        <5>3. imu_buffer[n] <= end /\ imu_buffer[n] \in Nat
          BY <1>3, <1>num, <4>2, <5>1
        <5>4. QED
          BY <1>end, <1>num, <4>1, <5>2, <5>3
      <4>3. CASE n = 0
        <5>1. flg_first_scan
          BY <1>12, <4>3
        <5>2. imu_buffer[1] <= 1
          BY <1>2, <1>11, <1>seq, <5>1 DEF FirstSampleIsEarly
        <5>3. QED
          BY <1>end, <1>num, <4>1, <4>3, <5>2
      <4>4. QED
        BY <1>3, <4>2, <4>3
    <3>3. QED
      BY <1>3, <1>num, <3>1, <3>2
  <2>4. NextSampleIsInTime'
    <3>1. /\ \A i \in 1 .. k - 1 : time_buffer'[i] + m >= end + ScanTime /\ time_buffer'[i] \in Nat
          /\ last_timestamp_lidar >= h
      <4>1. /\ \A i, j \in 1 .. k : i < j => time_buffer[i] + ScanTime <= time_buffer[j]
            /\ \A i \in 1 .. k : time_buffer[i] <= last_timestamp_lidar
        BY <1>11, <1>seq DEF ScansAhead
      <4>2. last_timestamp_lidar >= h
        BY <1>4, <1>num, <4>1 DEF h
      <4>3. ASSUME NEW i \in 1 .. k - 1
            PROVE  time_buffer'[i] + m >= end + ScanTime /\ time_buffer'[i] \in Nat
        <5>1. i + 1 \in 1 .. k /\ 1 < i + 1
          BY <1>num
        <5>2. time_buffer'[i] = time_buffer[i + 1] /\ time_buffer[i + 1] \in Nat
          BY <1>num, <1>time, <5>1
        <5>3. h + ScanTime <= time_buffer[i + 1]
          BY <1>4, <4>1, <5>1 DEF h
        <5>4. QED
          BY <1>4, <1>num, <5>2, <5>3
      <4>4. QED
        BY <4>2, <4>3
    <3> HIDE DEF NextSample
    <3>2. \A i \in 1 .. k - 1 : NextSample' < time_buffer'[i] + m
      BY <1>4, <1>end, <1>num, <2>3, <3>1
    <3>3. NextSample' < last_timestamp_lidar + ScanTime + m
      BY <1>4, <1>num, <2>3, <3>1
    <3>4. last_timestamp_imu # Never /\ last_timestamp_lidar # Never
      BY <1>end, <1>num, <3>1
    <3>5. QED
      BY <1>2, <1>time, <3>2, <3>3, <3>4 DEF NextSampleIsInTime
  <2>5. QED
    BY <2>1, <2>2, <2>4
<1>14. OdometryIsOfItsScan'
  <2> SUFFICES ASSUME regular, odometry' # Silence
               PROVE  /\ odometry'.stamp = odometry'.scan.stamp + ScanTime
                      /\ odometry'.stamp = filter_time'
    BY <1>2 DEF OdometryIsOfItsScan
  <2>1. ~flg_first_scan /\ Register(PushedScan)
    BY DEF HandedOn
  <2>2. /\ feats_undistort'.points = "many"
        /\ odometry' = [stamp |-> end, scan |-> feats_undistort']
    BY <2>1 DEF Register, end
  <2>3. FilterMoves(n)
    <3>1. n > 0
      BY <1>12, <2>1
    <3>2. ASSUME FilterStands(n) PROVE FALSE
      <4>1. init_count < MaxIniCount /\ feats_undistort' = feats_undistort
        BY <1>3, <1>num, <2>1, <3>1, <3>2 DEF FilterStands
      <4>2. ~(init_count >= MaxIniCount)
        BY <1>1, <4>1, LioAssumption DEF LioTypeOK
      <4>3. feats_undistort = NoCloud
        BY <1>1, <4>2 DEF LioShape
      <4>4. QED
        BY <2>2, <4>1, <4>3 DEF NoCloud
    <3>3. QED
      BY <1>filter, <3>2
  <2>4. feats_undistort' = PushedScan.lidar /\ filter_time' = end
    BY <2>3 DEF FilterMoves, end
  <2>5. m = ScanTime /\ PushedScan.lidar.stamp = h
    BY <1>4, <1>11, <2>2, <2>4
  <2>6. odometry'.stamp = end /\ odometry'.scan = PushedScan.lidar
    BY <2>2, <2>4
  <2>7. QED
    BY <1>4, <2>4, <2>5, <2>6
<1>15. QED
  BY <1>5, <1>6, <1>7, <1>8, <1>9, <1>10, <1>13, <1>14 DEF LioInv

\* Every step keeps the invariant: ImuCbk, PclCbk and a turn of the main loop.
LEMMA LioInvKept ==
  ASSUME LioInv, [LioNext]_lioVars
  PROVE  LioInv'
<1>1. CASE \E t \in Stamp : Sample(t)
  BY <1>1, SampleKeepsTime
<1>2. CASE \E scan \in ScanCloud : Scan(scan)
  BY <1>2, ScanKeepsTime
<1>3. CASE MainLoop
  <2>1. CASE last_timestamp_imu < PushedScan.end
    BY <1>3, <2>1, TakingUpKeepsTime
  <2>2. CASE ~(last_timestamp_imu < PushedScan.end)
    BY <1>3, <2>2, LoopHandsOn, HandingOnKeepsTime
  <2>3. QED
    BY <2>1, <2>2
<1>4. CASE UNCHANGED lioVars
  BY <1>4 DEF lioVars, buffers, process, LioInv, LioTypeOK, LioShape, TakenUp, SamplesInOrder,
       OneClockStands, ScansAhead, SamplesFresh, LastSampleIsOld, InStep, ScansHaveStamps,
       FirstSampleIsEarly, NextSampleIsInTime, NextSample, FilterKeepsTime, OdometryIsOfItsScan
<1>5. QED
  BY <1>1, <1>2, <1>3, <1>4 DEF LioNext

\* UndistortPcl propagates the filter over the samples sync_packages hands it to the end
\* of the scan and no further: through a dropout of samples, or one clock that jumps back,
\* the time the filter has reached is the end of the last scan it took.
THEOREM TimeIsKept == LioSpec => []FilterKeepsTime
<1>1. LioInv => FilterKeepsTime
  BY DEF LioInv
<1>2. QED
  BY <1>1, LioInvInit, LioInvKept, PTL DEF LioSpec

\* While the sensors are regular, the odometry the main loop publishes after sync_packages
\* and UndistortPcl is of the scan it registered: its stamp is that scan's end, and the
\* filter has come just so far.
THEOREM OdometryHasItsScan == LioSpec => []OdometryIsOfItsScan
<1>1. LioInv => OdometryIsOfItsScan
  BY DEF LioInv
<1>2. QED
  BY <1>1, LioInvInit, LioInvKept, PTL DEF LioSpec

\* The buffers of sync_packages hold stamps and scans, never more scans than beginnings.
THEOREM OdometryTypes == LioSpec => []LioTypeOK
<1>1. LioInv => LioTypeOK
  BY DEF LioInv
<1>2. QED
  BY <1>1, LioInvInit, LioInvKept, PTL DEF LioSpec

=============================================================================
