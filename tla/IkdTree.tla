------------------------------ MODULE IkdTree ------------------------------
(***************************************************************************)
(* The incremental k-d tree that holds the map of the LiDAR odometry        *)
(* (ikd_Tree.cpp): the mapping thread adds points, deletes boxes and looks  *)
(* for points in a range, its OpenMP threads look for nearest neighbours,   *)
(* and a rebuild thread copies a part that has lost its balance, builds it  *)
(* anew, runs the operations it has missed on the new part and swaps it in. *)
(*                                                                         *)
(* The tree is seen as three nodes on a path: the root "G", a son "F" and   *)
(* its son "S".  The root and S are large enough to be rebuilt by the       *)
(* thread.  A deletion that covers a node only marks it; the mark is pushed *)
(* down when somebody passes.  Smaller parts are rebuilt on the spot and    *)
(* change no set of points.  Deletion for downsampling is a deletion and an *)
(* addition here.                                                          *)
(***************************************************************************)
EXTENDS Integers, Sequences, FiniteSets

CONSTANTS
  Points,
  BelowF, BelowS,   \* the points that lie in F and in S
  Boxes,            \* what a box to delete may hold
  Searchers,        \* the threads of the parallel loop
  MaxOperations     \* bound on additions and deletions

ASSUME IkdAssumption ==
  /\ BelowS \subseteq BelowF /\ BelowF \subseteq Points
  /\ Boxes \subseteq SUBSET Points /\ MaxOperations \in Nat
  /\ IsFiniteSet(Searchers)

VARIABLES
  alive,            \* the points whose own nodes are not marked as deleted
  tree_deleted,     \* of F and G: marked, and not pushed down yet
  working_flag,     \* of F and G
  Rebuild_Ptr,      \* "none", "S" or "G"
  rebuild_flag,
  Rebuild_Logger,
  search_mutex_counter,
  rebuilding,       \* the rebuild thread: where it is, ...
  held,             \* ... whether it holds working_flag_mutex, ...
  copy,             \* ... and the points of the new part
  step,             \* the mapping thread: where it is, ...
  todo,             \* ... what it has still to do further down, ...
  path,             \* ... and the nodes it comes back through
  searching,        \* where each searcher is with regard to the part to be rebuilt
  stale,            \* ghost: have the nodes the mapping thread holds been replaced?
  kept,             \* ghost: the searchers that hold a node that has been replaced
  operations,
  expected,         \* ghost: the points added and not deleted since
  spoilt            \* ghost: has a rebuild gone wrong in a way the README lists?

treeVars   == <<alive, tree_deleted, working_flag>>
mainVars   == <<step, todo, path, operations, expected>>
rebuildVars == <<rebuild_flag, rebuilding, held, copy, spoilt>>
oldVars    == <<stale, kept>>
ikdVars == <<treeVars, mainVars, rebuildVars, Rebuild_Ptr, Rebuild_Logger,
             search_mutex_counter, searching, oldVars>>

Operation(op, points) == [op |-> op, points |-> points]
Push_Down == Operation("push_down", {})
SearchRange == Operation("range", {})
Operations == [op : {"add", "delete", "push_down"}, points : SUBSET Points]

\* The points a search finds.
Valid == IF "G" \in tree_deleted THEN {}
         ELSE IF "F" \in tree_deleted THEN alive \ BelowF ELSE alive

Below(node) == IF node = "S" THEN BelowS ELSE Points

\* A slip: a mark pushed down during a rebuild is lost on the new part.
RunWithoutMarks(o, points) ==
  CASE o.op = "add"       -> points \cup o.points
    [] o.op = "delete"    -> points \ o.points
    [] o.op = "push_down" -> points

\* run_operation
Run(o, points) ==
  CASE o.op = "add"       -> points \cup o.points
    [] o.op = "delete"    -> points \ o.points
    [] o.op = "push_down" -> {}

\* Build, from the first scan
IkdInit ==
  /\ alive = Points /\ tree_deleted = {} /\ working_flag = {}
  /\ Rebuild_Ptr = "none" /\ rebuild_flag = FALSE /\ Rebuild_Logger = <<>>
  /\ search_mutex_counter = 0
  /\ rebuilding = "no" /\ held = FALSE /\ copy = {}
  /\ step = "idle" /\ todo = <<>> /\ path = {}
  /\ searching = [s \in Searchers |-> "done"] /\ stale = FALSE /\ kept = {}
  /\ operations = 0 /\ expected = alive /\ spoilt = FALSE

-----------------------------------------------------------------------------
(* The mapping thread                                                       *)

\* An operation begins; with the whole tree about to be rebuilt it needs the lock.
Begin(o, points) ==
  /\ step = "idle" /\ operations < MaxOperations
  /\ operations' = operations + 1 /\ expected' = points
  /\ \/ Rebuild_Ptr = "G" /\ step' = "lock G" /\ todo' = <<o>> /\ path' = {}
        /\ UNCHANGED treeVars
     \/ Rebuild_Ptr # "G" /\ step' = "run"
  /\ UNCHANGED <<rebuildVars, Rebuild_Ptr, Rebuild_Logger, search_mutex_counter,
                 searching, oldVars>>

\* Delete_by_range at the root returns at once if everything has been deleted, the
\* box is elsewhere, or it covers everything.  The last two leave working_flag set.
DeleteAtRoot(box) ==
  /\ todo' = <<>> /\ path' = {}
  /\ \/ Valid = {} /\ UNCHANGED treeVars
     \/ Valid # {} /\ box \cap Valid = {} /\ working_flag' = working_flag \cup {"G"}
        /\ UNCHANGED <<alive, tree_deleted>>
     \/ Valid # {} /\ Valid \subseteq box /\ working_flag' = working_flag \cup {"G"}
        /\ tree_deleted' = tree_deleted \cup {"G"} /\ UNCHANGED alive

\* The same one node further down ...
DeleteAtF(box) ==
  LET below == Valid \cap BelowF
  IN  /\ alive' = alive \ (box \ BelowF)
      /\ todo' = <<>> /\ path' = {"G"}
      /\ \/ below = {} /\ working_flag' = working_flag \cup {"G"} /\ UNCHANGED tree_deleted
         \/ below # {} /\ box \cap below = {} /\ working_flag' = {"F", "G"}
            /\ UNCHANGED tree_deleted
         \/ below # {} /\ below \subseteq box /\ working_flag' = {"F", "G"}
            /\ tree_deleted' = tree_deleted \cup {"F"}

\* ... and S, when the box cuts through F.
DeleteInS(box) ==
  /\ Valid \cap BelowF # {}
  /\ alive' = alive \ (box \ BelowS)
  /\ todo' = <<Operation("delete", box)>> /\ path' = {"F", "G"}
  /\ working_flag' = {"F", "G"} /\ UNCHANGED tree_deleted

\* Delete_Point_Boxes, one box.
DeletePointBox(box) ==
  /\ Begin(Operation("delete", box), expected \ box)
  /\ Rebuild_Ptr # "G" =>
       DeleteAtRoot(box) \/ (Valid # {} /\ (DeleteAtF(box) \/ DeleteInS(box)))

\* Push_Down at the root
PushedDown == IF "G" \in tree_deleted THEN {"F"} ELSE tree_deleted
PushDownG ==
  /\ tree_deleted' = PushedDown
  /\ alive' = IF "G" \in tree_deleted THEN alive \cap BelowF ELSE alive

\* Add_Points, one point (Add_by_point): every node on the way is pushed down.
AddPoint(p) ==
  /\ p \notin expected
  /\ Begin(Operation("add", {p}), expected \cup {p})
  /\ Rebuild_Ptr # "G" =>
       /\ PushDownG
       /\ path' = IF p \in BelowF THEN {"F", "G"} ELSE {"G"}
       /\ working_flag' = working_flag \cup path'
       /\ todo' = (IF p \in BelowF /\ "F" \in PushedDown THEN <<Push_Down>> ELSE <<>>)
                    \o <<Operation("add", {p})>>

\* Search_by_range, of Add_Points, in a box that holds no node of this size: it
\* pushes down as well, and leaves the flags alone.
RangeSearch ==
  /\ step = "idle"
  /\ step' = "run" /\ path' = {}
  /\ \/ Rebuild_Ptr = "G" /\ todo' = <<SearchRange>> /\ UNCHANGED <<alive, tree_deleted>>
     \/ Rebuild_Ptr # "G" /\ PushDownG /\ todo' = <<>>
     \/ /\ Rebuild_Ptr # "G" /\ PushDownG
        /\ \E further \in {<<>>, <<SearchRange>>} :
             todo' = (IF "F" \in PushedDown THEN <<Push_Down>> ELSE <<>>) \o further
  /\ UNCHANGED <<working_flag, operations, expected, rebuildVars, Rebuild_Ptr,
                 Rebuild_Logger, search_mutex_counter, searching, oldVars>>

\* What an operation does at S (or to a point elsewhere).
Apply(o) ==
  /\ alive' = CASE o.op = "add"       -> alive \cup o.points
                [] o.op = "delete"    -> alive \ (o.points \cap BelowS)
                [] o.op = "push_down" -> alive \ BelowF
                [] o.op = "range"     -> alive
  /\ tree_deleted' = IF o.op = "push_down" THEN tree_deleted \ {"F"} ELSE tree_deleted

Concerns(node, o) == o.op # "add" \/ o.points \subseteq Below(node)

\* At the son that is being rebuilt the thread asks for the lock; elsewhere it goes
\* on, and may find S out of balance (Criterion_Check, Rebuild), unless the box has
\* covered it.
Visit ==
  /\ step = "run" /\ todo # <<>>
  /\ LET o == Head(todo) IN
     \/ /\ Concerns("S", o) /\ Rebuild_Ptr = "S"
        /\ step' = IF o.op = "range" THEN "guarded" ELSE "lock S"
        /\ UNCHANGED <<todo, treeVars, Rebuild_Ptr>>
     \/ /\ ~(Concerns("S", o) /\ Rebuild_Ptr = "S")
        /\ Apply(o) /\ todo' = Tail(todo) /\ UNCHANGED <<step, working_flag>>
        /\ \/ UNCHANGED Rebuild_Ptr
           \/ /\ o.op \in {"add", "delete"} /\ Concerns("S", o)
              /\ alive' \cap BelowS # {}
              /\ Rebuild_Ptr = "none" /\ rebuilding = "no" /\ Rebuild_Ptr' = "S"
  /\ UNCHANGED <<path, operations, expected, rebuildVars, Rebuild_Logger,
                 search_mutex_counter, searching, oldVars>>

\* While the new part is built, it misses what is done.
Log(o) == Rebuild_Logger' = IF rebuild_flag THEN Append(Rebuild_Logger, o)
                                            ELSE Rebuild_Logger

\* With working_flag_mutex: the operation on the old part, and into the log.
VisitLocked ==
  /\ step \in {"lock S", "lock G"} /\ ~held
  /\ Log(Head(todo)) /\ todo' = Tail(todo)
  /\ \/ step = "lock S" /\ step' = "run" /\ Apply(Head(todo))
     \/ /\ step = "lock G" /\ step' = "idle"
        /\ alive' = Run(Head(todo), Valid) /\ tree_deleted' = {}
  /\ UNCHANGED <<working_flag, path, operations, expected, rebuildVars, Rebuild_Ptr,
                 search_mutex_counter, searching, oldVars>>

\* The range search comes out of S and gives search_flag_mutex back.
RangeSearched ==
  /\ step = "guarded"
  /\ step' = "run" /\ todo' = Tail(todo) /\ stale' = FALSE
  /\ UNCHANGED <<path, operations, expected, treeVars, rebuildVars, Rebuild_Ptr,
                 Rebuild_Logger, search_mutex_counter, searching, kept>>

\* On the way back Update loads the sons of a node, reads what they count and sets
\* their father, all without a lock: of F, those of S, which may be replaced and
\* deleted meanwhile.
Update ==
  /\ step = "run" /\ todo = <<>> /\ step' = "update"
  /\ UNCHANGED <<todo, path, operations, expected, treeVars, rebuildVars, Rebuild_Ptr,
                 Rebuild_Logger, search_mutex_counter, searching, oldVars>>

ReadsDeleted == stale /\ rebuilding = "no"

\* Then the nodes are done; the root may have lost its balance, and counts for more
\* than S.  The rebuild thread keeps the pointer while it works.  What has been read
\* of a deleted node is anything, and may tell that nothing is alive in F.
Return ==
  /\ step = "update"
  /\ step' = "idle" /\ path' = {} /\ working_flag' = working_flag \ path
  /\ \/ UNCHANGED tree_deleted
     \/ ReadsDeleted /\ tree_deleted' = tree_deleted \cup {"F"}
  /\ spoilt' = (spoilt \/ ReadsDeleted) /\ stale' = FALSE
  /\ \/ UNCHANGED Rebuild_Ptr
     \/ "G" \in path /\ rebuilding = "no" /\ Rebuild_Ptr' = "G"
  /\ UNCHANGED <<todo, operations, expected, alive, rebuild_flag, rebuilding, held, copy,
                 Rebuild_Logger, search_mutex_counter, searching, kept>>

-----------------------------------------------------------------------------
(* The searchers: the mapping thread waits until all have searched          *)

Moves(s, from, to) ==
  /\ searching[s] = from /\ searching' = [searching EXCEPT ![s] = to]
  /\ UNCHANGED <<step, todo, path, operations, expected, treeVars, rebuildVars, Rebuild_Ptr,
                 Rebuild_Logger, stale>>

BeginSearch ==
  /\ step = "idle" /\ step' = "search"
  /\ searching' = [s \in Searchers |-> "outside"]
  /\ UNCHANGED <<todo, path, operations, expected, treeVars, rebuildVars, Rebuild_Ptr,
                 Rebuild_Logger, search_mutex_counter, oldVars>>

\* Search reads the box of a son before it asks whether the son is to be rebuilt.
\* (Nearest_Search, at the root, only asks.)
ReadBox(s) ==
  /\ Moves(s, "outside", IF Rebuild_Ptr = "G" THEN "waiting" ELSE "box")
  /\ UNCHANGED <<search_mutex_counter, kept>>

\* Then it asks, and goes in, or waits to be counted.  Who has read the box of a node
\* that has been replaced since may go on with that node, for the compiler is free to
\* load the pointer once; and while the rebuild thread has not let go of Rebuild_Ptr
\* the two pointers it compares may differ.
Ask(s) ==
  /\ \/ /\ Moves(s, "box", IF Rebuild_Ptr = "none" THEN "inside" ELSE "waiting")
        /\ kept' = kept \ {s}
     \/ s \in kept /\ Moves(s, "box", "inside") /\ kept' \in {kept, kept \ {s}}
  /\ UNCHANGED search_mutex_counter

\* Into a part to be rebuilt only when counted, with a pointer loaded after that.
Count(s) ==
  /\ Moves(s, "waiting", "counted") /\ search_mutex_counter # -1 /\ step # "guarded"
  /\ search_mutex_counter' = search_mutex_counter + 1 /\ UNCHANGED kept

\* Nearest_Search, Search
Search(s) ==
  \/ ReadBox(s) \/ Ask(s) \/ Count(s)
  \/ /\ Moves(s, "counted", "done") /\ search_mutex_counter' = search_mutex_counter - 1
     /\ kept' = kept \ {s}
  \/ /\ Moves(s, "inside", "done") /\ kept' = kept \ {s}
     /\ UNCHANGED search_mutex_counter

EndSearch ==
  /\ step = "search" /\ \A s \in Searchers : searching[s] = "done"
  /\ step' = "idle"
  /\ UNCHANGED <<todo, path, operations, expected, treeVars, rebuildVars, Rebuild_Ptr,
                 Rebuild_Logger, search_mutex_counter, searching, oldVars>>

-----------------------------------------------------------------------------
(* multi_thread_rebuild                                                     *)

\* The next place of the rebuild thread.
Goes(from, to) ==
  /\ rebuilding = from /\ rebuilding' = to
  /\ UNCHANGED <<mainVars, working_flag, searching>>

SearchFlagFree == step # "guarded"

\* rebuild_ptr_mutex and working_flag_mutex are taken ...
TakeLocks ==
  /\ Goes("no", "wait") /\ Rebuild_Ptr # "none"
  /\ held' = TRUE /\ rebuild_flag' = TRUE
  /\ UNCHANGED <<alive, tree_deleted, copy, spoilt, Rebuild_Ptr, Rebuild_Logger,
                 search_mutex_counter, oldVars>>

\* A slip: searches are locked out without waiting for those that go on.
LockSearchAtOnce(from, to) ==
  /\ Goes(from, to) /\ SearchFlagFree /\ search_mutex_counter' = -1
  /\ UNCHANGED <<alive, tree_deleted, rebuild_flag, held, copy, spoilt, Rebuild_Ptr,
                 Rebuild_Logger, oldVars>>

\* ... and searches are locked out, when those in the part have ended, twice: for
\* the copy and for the swap.
LockSearch(from, to) ==
  /\ Goes(from, to) /\ SearchFlagFree
  /\ search_mutex_counter = 0 /\ search_mutex_counter' = -1
  /\ UNCHANGED <<alive, tree_deleted, rebuild_flag, held, copy, spoilt, Rebuild_Ptr,
                 Rebuild_Logger, oldVars>>

\* flatten: what is alive is copied; marks further up do not count.
Flatten ==
  /\ Goes("flatten", "flattened")
  /\ \/ Rebuild_Ptr = "S" /\ copy' = alive \cap BelowS /\ UNCHANGED <<alive, tree_deleted>>
     \/ Rebuild_Ptr = "G" /\ copy' = Valid /\ alive' = Valid /\ tree_deleted' = {}
  /\ UNCHANGED <<rebuild_flag, held, spoilt, Rebuild_Ptr, Rebuild_Logger,
                 search_mutex_counter, oldVars>>

\* Searches and operations may go on.  When nothing is left of the part, the
\* operations that are missed will not be run, and the locks not be taken again.
Unlock ==
  /\ Goes("flattened", IF copy = {} THEN "built" ELSE "build") /\ SearchFlagFree
  /\ search_mutex_counter' = 0 /\ held' = FALSE
  /\ UNCHANGED <<alive, tree_deleted, rebuild_flag, copy, spoilt, Rebuild_Ptr,
                 Rebuild_Logger, oldVars>>

\* A slip: the operation is run and stays in the log.
ReplayFront ==
  /\ Goes("build", "build") /\ ~held /\ Rebuild_Logger # <<>>
  /\ copy' = Run(Head(Rebuild_Logger), copy)
  /\ UNCHANGED <<alive, tree_deleted, rebuild_flag, held, spoilt, Rebuild_Ptr,
                 Rebuild_Logger, search_mutex_counter, oldVars>>

\* An operation that has been missed
Replay ==
  /\ Goes("build", "build") /\ ~held /\ Rebuild_Logger # <<>>
  /\ copy' = Run(Head(Rebuild_Logger), copy) /\ Rebuild_Logger' = Tail(Rebuild_Logger)
  /\ UNCHANGED <<alive, tree_deleted, rebuild_flag, held, spoilt, Rebuild_Ptr,
                 search_mutex_counter, oldVars>>

\* There is none: with the lock still held, none can come.
Replayed ==
  /\ Goes("build", "built") /\ Rebuild_Logger = <<>>
  /\ held' = TRUE
  /\ UNCHANGED <<alive, tree_deleted, rebuild_flag, copy, spoilt, Rebuild_Ptr,
                 Rebuild_Logger, search_mutex_counter, oldVars>>

\* Update of the nodes above S goes up to one an operation is passing through, or
\* that has its father's mark to come.  It takes F, whose sons do not have its mark
\* yet, for alive.
UpdateUnmarksF ==
  /\ Rebuild_Ptr = "S" /\ held
  /\ "F" \in tree_deleted /\ "F" \notin working_flag /\ "G" \notin tree_deleted

\* The operations that were missed are not in the new part.
MissesOperations == ~held /\ Rebuild_Logger # <<>>

\* The new part takes the place of the old one.
Swap ==
  /\ Goes("swap", "swapped")
  /\ alive' = (alive \ Below(Rebuild_Ptr)) \cup copy
  /\ tree_deleted' = IF Rebuild_Ptr = "G" THEN {}
                     ELSE IF UpdateUnmarksF THEN tree_deleted \ {"F"} ELSE tree_deleted
  /\ spoilt' = (spoilt \/ UpdateUnmarksF \/ MissesOperations)
  /\ stale' = (step = "guarded" \/ (step = "update" /\ "F" \in path))
  /\ kept' = kept \cup {s \in Searchers : searching[s] \in {"box", "inside", "counted"}}
  /\ UNCHANGED <<rebuild_flag, held, copy, Rebuild_Ptr, Rebuild_Logger,
                 search_mutex_counter>>

\* Searches and operations may go on; ...
Release ==
  /\ Goes("swapped", "late") /\ SearchFlagFree
  /\ search_mutex_counter' = 0 /\ Rebuild_Ptr' = "none" /\ held' = FALSE
  /\ UNCHANGED <<alive, tree_deleted, rebuild_flag, copy, spoilt, Rebuild_Logger, oldVars>>

\* ... only then the flag is reset: who came in between has logged an operation
\* for a rebuild that is over.
ResetFlag ==
  /\ Goes("late", "delete")
  /\ rebuild_flag' = FALSE
  /\ spoilt' = (spoilt \/ Rebuild_Logger # <<>>)
  /\ UNCHANGED <<alive, tree_deleted, held, copy, Rebuild_Ptr, Rebuild_Logger,
                 search_mutex_counter, oldVars>>

\* The nodes that have been replaced are deleted.
DeleteTreeNodes ==
  /\ Goes("delete", "no") /\ copy' = {}
  /\ UNCHANGED <<alive, tree_deleted, rebuild_flag, held, spoilt, Rebuild_Ptr,
                 Rebuild_Logger, search_mutex_counter, oldVars>>

RebuildThread ==
  \/ TakeLocks \/ LockSearch("wait", "flatten") \/ Flatten \/ Unlock \/ Replay \/ Replayed
  \/ LockSearch("built", "swap") \/ Swap \/ Release \/ ResetFlag \/ DeleteTreeNodes

Proceed == Visit \/ VisitLocked \/ RangeSearched \/ Update \/ Return

MappingThread ==
  \/ \E box \in Boxes : DeletePointBox(box)
  \/ \E p \in Points : AddPoint(p)
  \/ RangeSearch \/ Proceed \/ BeginSearch \/ EndSearch

IkdNext == MappingThread \/ RebuildThread \/ \E s \in Searchers : Search(s)

IkdSpec == IkdInit /\ [][IkdNext]_ikdVars

-----------------------------------------------------------------------------
(* Properties                                                               *)

IkdTypeOK ==
  /\ alive \subseteq Points /\ copy \subseteq Points /\ expected \subseteq Points
  /\ tree_deleted \subseteq {"F", "G"} /\ working_flag \subseteq {"F", "G"}
  /\ path \subseteq {"F", "G"} /\ Rebuild_Ptr \in {"none", "S", "G"}
  /\ {rebuild_flag, held, stale, spoilt} \subseteq BOOLEAN
  /\ Rebuild_Logger \in Seq(Operations)
  /\ todo \in Seq(Operations \cup {SearchRange}) /\ Len(todo) <= 2
  /\ search_mutex_counter \in -1 .. Cardinality(Searchers)
  /\ rebuilding \in {"no", "wait", "flatten", "flattened", "build", "built", "swap",
                     "swapped", "late", "delete"}
  /\ step \in {"idle", "run", "lock S", "lock G", "guarded", "update", "search"}
  /\ searching \in [Searchers -> {"outside", "box", "waiting", "inside", "counted", "done"}]
  /\ kept \subseteq Searchers
  /\ operations \in 0 .. MaxOperations

\* Between two operations the tree holds what has been added and not deleted
\* since, whatever a rebuild is doing and however the deletions have been pushed
\* down: nothing is lost by the swap, nothing comes back.  It ceases to be true
\* in the four cases that `spoilt' stands for.
TreeIsSet == step \in {"idle", "search"} /\ ~spoilt => Valid = expected

\* What the locks of a rebuild protect.  While the rebuild thread pushes marks down,
\* and up to the swap, no neighbour search has gone into the part, counted or not;
\* a search that is counted is never in nodes that have been replaced; and the nodes
\* a range search below S is reading are not deleted, although it is not counted, for
\* the rebuild thread has to take search_flag_mutex once more.  They do not protect
\* the top of the part: its box is read by searches that are not counted, who may
\* even go on from there, and it is read and written by Update.
ReadNodesLive ==
  /\ rebuilding \in {"flatten", "flattened", "swap"} =>
       \A s \in Searchers : searching[s] \notin {"inside", "counted"}
  /\ \A s \in kept : searching[s] \in {"box", "inside"}
  /\ rebuilding \in {"late", "delete", "no"} /\ step = "guarded" => ~stale

\* A rebuild that has begun ends: neither searches nor operations keep it waiting
\* for ever, and the log becomes empty.
RebuildEnds == rebuilding = "wait" ~> rebuilding = "no"
=============================================================================
