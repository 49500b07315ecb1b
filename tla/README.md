# Verification of the 3D navigation stack

TLA+ models of this workspace (`src/src/3D_NAV`): the navigation chain from a
goal to the legs, and what it rests on, from the LiDARs over odometry and
localisation to the obstacles on the map. TLC checks the models on small
instances, TLAPS proves the most important properties of planners, chain, base,
drivers and perception for every roadmap, plan length, number of LiDARs and so
on. Paths below are relative to
`src/src/3D_NAV`.

## 1. The system

ROS 1 nodes, each a process, talk over topics:

    LiDARs -> drivers (livox_ros_driver2, rslidar_sdk)
                 |  (M20: two LiDARs -> m20_lidar_fusion)
                 v
             FAST_LIO  --- odometry, cloud ---> open3d_loc (map -> odom)
                                |                     |
                                v                     v  transform map -> robot
                        obstacle_processor      planners, controller
                                | /obs_raw
    goal_pose, cancel           v
            |
            v
      planning_3d ---- /planned_path ---> bezier_path_optimizer
            |                                   |
            | /navigation_state                 | /path_smooth
            v                                   v
      +---------------- local_planner (NMPC) ---------------+
                              |  /local_plan          ^ /curr_state
                              v                       |
       keyboard ------> controller_node --------------+
                              |  /cmd_vel
                              v
     B button -> emergency_stop_monitor -> go2_base_controller -> robot

| Component | State it keeps | Operations | What makes it correct |
|---|---|---|---|
| global planner, roadmap (`planning_3d_PRM.cpp`, `edt_3d.h`) | occupancy, distances, centres, vertices, edges | the constructor: `compute`, `buildPRM`, `isEdgeFree`, `isSlopeValid` | distances are exact, edges pass through nothing and lead both ways |
| global planner, search | per call `pq`, `gScore`, `cameFrom` | `snapToFree`, `findClosestVertex`, `computePath` | a cheapest unblocked route or none; ends |
| global planner, state machine | `nav_state_`, goal, `last_path_`, `vertex_blocked_`, replanning clock | `update()` at 10 Hz, `goalCb`, `cancelNavigationCb`, `obstacleCallback` | one task at a time, the path is the task's, announcements are true, arrival and obstacles are noticed |
| path smoother (`bezier_path_optimizer.cpp`) | none between messages | `pathCb` | no point lost, ends at the goal |
| local planner (`local_planner.cpp`) | cached path, goal heading, pose, nav state, direction of the turn | four callbacks, the planning timer | no motion without a task; never blocks on itself |
| controller (`controller_node.cpp`, `keyboard_input.cpp`) | mode, manual speed, last plan | control loop, plan callback, interrupt | whoever has the say is obeyed |
| Go2 base (`go2_base_controller/loco`) | last command and its age, emergency flag, two mutexes | command callback, control loop, emergency stop, shutdown hooks; monitor of the B button | watchdog and emergency stop win over commands |
| obstacle processor (`obstacle_processor_node.cpp`) | world map, cached local map, grid of height layers | two cloud callbacks | what stands clear of the known layers is an obstacle; the cached map covers what is near |
| global localisation (`open3d_loc`) | map -> odom, pose, queue of scans, confidence, five locks | three callbacks, a registration thread | an operator's pose is not undone; once initialised, the pose rests on a registration that fits |
| odometry, scans (`FAST_LIO/src/laserMapping.cpp`, `IMU_Processing.hpp`) | two buffers, the package, the filter's time | two callbacks, `sync_packages`, the main loop | points are placed at their time, no time is lost or used twice |
| odometry, map (`ikd_Tree.cpp`, `laserMapping.cpp`) | the k-d tree, its log and locks; the cube around the robot | search, add, delete a box, the rebuild thread; `lasermap_fov_segment` | the tree is the set it should be; the robot stays inside the cube |
| fusion of two LiDARs (`m20_lidar_fusion.cpp`) | two bounded queues | two callbacks | no scan loses its counterpart |
| Livox driver (`livox_ros_driver2`) | settings still open, a ring for each LiDAR, a semaphore | callbacks of the SDK, process thread, poll thread, destructor | every LiDAR is sampled, no frame stays behind, the node can end |
| RoboSense driver (`rslidar_sdk`) | packet queue, the cloud being filled, two cloud queues | receive, handle and send threads, `stop` | whole clouds are whole turns, each cloud has one owner, stopping ends |
| NMPC solver (`mpc_solver.cpp`) | warm start | `solve` | numerical |
| bring-up (`nav_bringup`): stair workflow, offline simulator | processes; simulated pose | start, verify, clean up; follow the path | nothing left running |
| map tools, rviz tool | | offline conversion, mouse input | |

What is hard here: every hop is a topic, so the end of a task, the new task and
the paths of both travel on different routes and overtake each other; a command
is repeated until another one comes; clocks run unsynchronised; vectors are
extended while they are cut; drivers hand clouds from thread to thread over
rings and queues with as few locks as possible; the k-d tree is rebuilt while
it is searched and changed; a registration of seconds competes with an operator;
sensors drop out, start again and overflow; processes are killed and started
over. `PROJECT.json` lists each such hazard at its line with the properties
that watch it.

## 2. Modules

| Module | Models | Correspondence |
|---|---|---|
| `Edt3d` | the distance transform | a pass over lines with the lower envelope; what an unassigned boundary holds is chosen |
| `Roadmap` | the roadmap's construction | one action for each stage of the constructor and for each vertex that is connected |
| `PrmGraph` | the roadmap as data and the two snapping queries | `snapToFree`, `findClosestVertex`, the three attempts of `computePath`; `PlanResults` says what a search may return, as a reference and not as an algorithm |
| `PrmAstar` | the search, one queue element a step | the variables of `computePath` under their own names |
| `NavTask` | the abstract task server | accept, route, arrive, complete, abort, cancel |
| `NavPlanner` | the planner's state machine | one action for each state `update()` does something in, one for each callback; `sent` holds what the last step published |
| `PathSmoother` | `pathCb` | `raw` grows while `seg_beg` advances; a curve is its control polygon |
| `LocalPlanner` | the local planner | one action for each callback and for each state the timer acts in; `blocked_on_itself` is the double lock of `state_mutex_` |
| `Controller` | the controller | a turn of the loop in either mode, the plan callback, the signal handler, the steps of the way out |
| `NavSystem` | the chain | `NavPlanner`, `LocalPlanner` and `Controller` as instances, a queue for each topic, the smoother as a transfer, a robot that obeys `/cmd_vel` |
| `Go2Base`, `EmergencyStopMonitor` | the base | control loop and emergency callback step by step between the mutexes, hooks and their calls, calls that fail, crash and restart |
| `Drive` | plans and keys to legs | `Controller` and `EmergencyStopMonitor` as instances around `Go2Base`: the navigation chain, or a base with its button and commands from anybody |
| `ObstacleProcessor` | both cloud callbacks | `updateLocalMap`, `BuildGrid` (layers by gaps, merging), `obstacle` by layer and by fallback |
| `GlobalLocalization` | callbacks and thread | one action between two locks; matrices are which pose they come from and how |
| `LioFrontEnd` | buffers and filter time | both callbacks, `sync_packages` in its two parts, one turn of the main loop |
| `IkdTree` | the tree and its threads | three nodes on a path, deletion marks, log, the three mutexes |
| `LocalMap` | `lasermap_fov_segment` | one action a scan, on any number of axes |
| `M20LidarFusion` | the fusion | a callback with its matching loop |
| `FrameQueue` | what a Livox ring promises | push, give up for want of room, publish |
| `LivoxPoints` | the way of a Livox frame | SDK thread, process thread and poll thread access by access; wrapping indices; semaphore |
| `LivoxConfig` | settings of Livox LiDARs | reports, requests and their answers: confirmed, refused, timed out |
| `RsDriver` | the way of a RoboSense cloud | three threads, overflow, splitting at the angle, DIFOP before MSOP, `stop` join by join |
| `MCNavPlanner`, `MCNavSystem`, `MCPlanning`, `MCRoadmap`, `MCDrive`, `MCDrivers`, `MCPerception` | instances for TLC | components that share nothing are checked in one run, chosen by a variable that never changes |
| `NavPlannerProofs`, `PlanningProofs` (search, smoother and roadmap), `LocalPlannerProofs`, `NavSystemProofs`, `DriveProofs`, `DriverProofs`, `PerceptionProofs` | proofs | section 5 |
| `Induction` | induction over numbers, for the proofs | section 5 |

Abstractions, all of data:

* Positions are points of a small set with a distance table, or voxels; a
  length is a natural number. Headings are classes: equal means closer than the
  tolerance.
* A path carries the goal it was planned for as a ghost tag. A command is what
  it does: the signs of its speeds, and which path it follows.
* A callback of a node with one thread is one step. Where there are several
  threads (`Go2Base`, `GlobalLocalization`, `IkdTree`, `LivoxPoints`,
  `RsDriver`), a step is what lies between two locks, or two accesses where
  there is no lock.
* Which vertices an obstacle blocks, whether a registration fits and what the
  solver returns is chosen freely.
* A cloud is its stamp, or where its first point is and how many there are; a
  pose is which message it came with; points of the tree lie on a line.
* The obstacle processor's places are cells of a row with heights; the tie
  between the closest layers is left as in the code.
* Ghosts: the tag of a path; `expected` and `spoilt` in `IkdTree` (below), and
  `stale` and `kept`, who holds nodes that have been replaced;
  `regular` in `LioFrontEnd`; `given` in `GlobalLocalization`; `whole` in
  `RsDriver`; what was received, squeezed out and fused in `M20LidarFusion`.
* Definitions introduced as a slip (`EndTaskKeepingGoal`) are wrong variants.
  They are used nowhere in the specifications; each breaks one property when it
  takes the place of the right definition, which shows that the property can
  fail.

`spoilt` marks four ways of a rebuild of the k-d tree after which its set is not what
was asked for, all of them in the code: `Update` above the part takes back a
mark that has not been pushed down (it counts the new, smaller part only);
operations that came while a part with no points left was rebuilt are dropped;
`Update` of an operation on its way back, which takes no lock, reads and writes
nodes that were replaced and deleted since it loaded them (`ikd_Tree.cpp:1460`);
and an operation that comes between the release of the locks and
`rebuild_flag = false` is logged for a rebuild that is over (the code prints
ERROR!!! when it meets it, `ikd_Tree.cpp:246`). `TreeIsSet` says that nothing
else goes wrong.

Each module states the type of its variables (`TypeOK`, or with the component's
name in front). No run lists it: the types are theorems (section 5).

Left out of the modelled components: markers and clouds for display; the average
clearance of an edge; sampled coordinates and tangents of smooth paths; the
controls inside a plan after the first; `/local_path`; angular keys (they have
the shape of the linear ones); what a registration computes; the filter's
arithmetic; the tree's balance and downsampling; decoding of packets; IMU
queues of the drivers; parameters that are read and not used.

## 3. Runs

| Run | `.cfg` | Instance | Question |
|---|---|---|---|
| `planner` | `NavPlanner` | corridor a - b - c with a detour d, an off-road point f, an unreachable x; two headings; replan every 2 updates | safety and refinement of the state machine |
| `planner_live` | `NavPlannerLive` | a triangle, one heading, replan every 3 updates | blocked paths are dealt with, arrival is noticed |
| `planning` | `Planning` | search: five vertices, two of them at one place, two narrow edges, all sets of blocked vertices; smoother: plans of 2 to 12 vertices; local planner: two goals, four headings, every direction of motion; roadmap: towers, rubble, storeys, islands, a ramp | what a plan passes through, part by part |
| `system` | `NavSystem` | two vertices, two goals, cancel requests, replan every 2 updates, one message a topic | safety of the chain |
| `system_live` | `NavSystemLive` | four headings, one goal pose, cancel requests, no replanning | the chain stops, and turning aligns |
| `drive` | `Drive` | keys w, s, i, q; a plan that moves, one that stops, one too short; calls that fail, crashes, restarts | every way to stop the robot reaches it |
| `drivers` | `Drivers` | three Livox LiDARs on the network, one in the file; rings of one frame with indices of two bits; turns of three packets, a queue of one, two clouds; fusion with queues of two | no wake-up, frame, cloud, counterpart is lost; what must end ends |
| `perception` | `Perception` | tree of three points and three operations; 12 units of time of scans and samples; a cube on two axes; two poses and three scans; four places with four heights | what the robot knows is right |
| `system_align_stuck` | `NavSystemAlignStuck` | two headings, smoothing may lose the heading | finding 1 |
| `system_stale_path` | `NavSystemStalePath` | as `system` | finding 2 |
| `drive_emergency` | `DriveEmergency` | as `drive`, calls do not fail | finding 3 |
| `edt` | `Edt` | the maps of `planning` | finding 4 |

Bounds, and why they are enough for the cases that matter to happen:

* `ReplanTicks` is the replanning interval in updates and caps the only clock of
  the planner; two is the smallest that lets both branches of the tracking
  update run, three leaves room for outages of the transform. The unit of its
  lengths is a quarter of a metre with the tolerances of `3d_planning.launch`.
* Twelve vertices give thirteen points, that is two full polygons and each
  length of the last one; legs are a metre or nothing.
* `MaxGoals = 2`: a task, its successor, and every message of the first still on
  its way. `QueueBound = 1` still lets each topic be overtaken by each other
  one. Queues are bounded by delaying publishers, never by losing messages,
  except `/planned_path` and `/cmd_vel`, which keep the newest.
* `system_live`: with four headings a turn goes either way, and there are turns of
  one heading and of two, the half turn. Poses have any heading; the goal's is fixed
  (`LiveSpec`), which loses nothing: headings are only ever compared with each other,
  and the one default, heading 0 before the first smooth path, is never what a turn
  aims at, since no turn begins before a path has come.
* Roadmap: margin, headroom and thickness are three voxels, each vertex has one
  neighbour, there are three vertices, and three centres make do. The towers
  have every set of the levels 0, 2, 8 and 16, and pairs of towers each set of 0
  and 5: lines that begin with free voxels, with and without parabolas that hide
  others. INF is beyond the largest of the grids, and an unassigned boundary is found
  to be below, among or above all others. Both fallbacks of the centres, sloped edges and edges refused over a
  gap are reached.
* Drive: one tick of age and one after it, one call for the zeros of the hooks
  (the code makes ten), speeds of -1, 0 and 1.
* Livox: indices of two bits wrap round after four frames (the code has 32), a
  ring of two slots holds one. Two LiDARs find room in the cache, a third does
  not; each is reported twice.
* RoboSense: a turn may be cut by the overflow at either end or in the middle, and
  begin at any angle; a cloud ends at three points if no split comes. Three
  packets a turn are needed: with two, a packet lost at the end of a turn and one
  lost in its middle are the same packet, and a model that took a cloud with a gap
  at its end for a whole one went unnoticed until the proof was tried.
* Fusion: scans every three units, pairs within one; queues of two overflow when
  the other LiDAR is silent. Late, lost and ill-matched scans all occur.
* Tree: a part and a part of the part, of two points each, below a root of three;
  three operations are one before a rebuild, one during it and one after it, in
  any place. Boxes are stretches with the middle point.
* Odometry: four scans of three units, a sample every two, gaps longer than a
  scan, and clocks that start again; buffers of two.
* Cube: the robot may go anywhere within eight units on two axes, one a scan; the
  cube of 14 has to be shifted up to both ends, and corners are left.
* Localisation: two poses of the operator and three scans, with queues of two,
  are enough for a pose between every two locks of a registration and of the
  crop before it.
* Obstacles: any cell of at most four points on heights 0 to 3 beside floor, with
  gaps of one, merged at two points: one layer, two, a dropped one, none.

Larger instances were checked by hand: boxes of every stretch and heights 0 to 4
(554 483 states), a tree of four points (644 864), 16 units of time (705 994),
three poses (472 796) or four scans (672 423). They found nothing more.

Deadlock is checked in all runs but those whose parts end by themselves: the
search, the smoother and the roadmap (`planning`, `edt`), a stopped driver and
queues whose inputs are used up (`drivers`), and histories that reach their
bound (`perception`).

Fairness:

* `NavPlanner`: the main loop of `main()` never ends, so `Update` is weakly fair;
  goals, cancel requests, obstacles, moves and outages are not. `ArrivalNoticed`
  assumes in addition that outages end.
* `PathSmoother`, `PrmAstar`: a callback that has begun runs.
* `NavSystem`: all nodes spin, all topics deliver, and a robot told to turn on
  the spot turns; nothing is assumed of one told to translate.
* `Drive`: turns of the controller's loop without a key keep coming, since
  `getKey` waits 50 ms at most; time goes by; the base's 50 Hz timer, the
  monitor's 10 Hz timer and its subscriber run; of the calls of the control loop
  some reach the robot (strong fairness: a network is not cut for ever). A
  crash, a restart, a signal or a button is never assumed.
* Drivers: threads run; a Livox LiDAR answers a request, in the one way or the
  other, and sends frames; a driver that is being stopped goes on stopping.
  RoboSense packets need not come: the socket's `select` has a timeout, so the
  receiving thread ends when told.
* Perception: the tree's threads go on. The rebuild thread is strongly fair
  because it looks every microsecond whether there is nobody in the part, and
  between two scans there is not. Odometry and scans keep coming, a callback
  that has begun goes on.

## 4. What the checks show

What holds:

* The planner's task bookkeeping is consistent under every interleaving: goal,
  path and state are released together, whichever way a task ends, and the
  announced states follow the documented machine.
* The search returns a cheapest unblocked route even with start and goal snapped
  to blocked surroundings. The smoother neither loses nor repeats a point.
  Obstacles on the path are dealt with by the periodic replan.
* Edges of the roadmap pass through nothing although only points of them are
  looked at, and distances are never too small.
* The local planner never locks its mutex twice, and the plan it leaves standing
  does not move the robot outside TRACKING and GOAL_ALIGN. Every end of a task
  stops the robot; a turn on the spot ends aligned; once the topics are empty,
  the local planner has no path of an earlier task.
* A person who takes over, or a plan that stops, is obeyed in the end although
  older commands are still on their way; a silent controller does not leave the
  robot walking; after an emergency stop nothing passes but what had been let
  through before.
* The ring without locks of the Livox driver is a queue, and its semaphore,
  looked at without a lock, leaves no frame behind but one that came before its
  LiDAR was sampling. Clouds of the RoboSense driver that lost no packet are
  turns, through overflows as well. Both nodes can be ended. The fusion drops
  nothing whose counterpart is still to come.
* The k-d tree is the set of points it should be, apart from the four cases of
  section 2, whatever the rebuild thread is doing. While a part is flattened, and up
  to its swap, no search has gone into it; a search that was counted is never in
  nodes that have been replaced, and what a range search reads is not deleted. That
  is all the locks protect (see below). Rebuilds end. The robot stays inside the cube, and what a shift
  deletes is what the cube leaves.
* Every part of the time is integrated once, and odometry is computed from the
  scan it is stamped with, as long as no sensor's clock starts again.
* A registration of seconds does not undo the pose an operator gave meanwhile, and
  once localisation is initialised, what is published rests on a registration that
  fits. Before that map-to-odom is published whatever the last fit was
  (`global_localization.cpp:428`), and nothing is claimed of it.
* Within the cached window places are judged by what the first world map says. In a
  cell with layers a point clear of every layer is an obstacle and a point within
  the tolerance of every layer is none; one that is near some layers and clear of others
  is judged by the closest centroid, and left open.

Where code and documents differ (the runs with expected violations):

1. GOAL_ALIGN may never end: the turn is chosen once, from the end of the smooth
   path and the last pose; the planner judges the end by the goal pose.
2. A smooth path still on its way refills the cache emptied at the end of its
   task, and is tracked for the next goal until that goal's path arrives.
3. The control loop of the base sends its `Move` after letting go of the mutex
   under which it looked at the emergency flag: the `Move` may be the last thing
   the robot hears.
4. The distance transform stores a boundary of its lower envelope that it never
   assigned (`edt_3d.h:156`, `:177`), and may overestimate distances on lines
   that begin with a free voxel.

Seen on the way, without a run of their own. Planners and controller:

* `force_replan_` is set and never read, so an obstacle waits for the next
  periodic replan. A start and a goal snapped to one vertex count as
  unreachable, so a replan on the last metre aborts the task
  (`planning_3d_PRM.cpp:755`). GOAL_ALIGN completes at any distance from the goal
  if the heading is right. `obstacle_timeout` and `end_strategy = keep_original`
  have no effect (the latter proved, `EndOrientationRecomputed`).
* `buildPRM`'s second fallback (`:499-506`) drops the headroom check that the
  comment at `:266` promises; vertices with less clearance than the margin get
  no edges; edges do not look at headroom; the radius is compared with squared
  distances, which a step of one metre hides. At the deployed sizes finding 4
  changes clearances and costs more than it decides about the margin.
* Ctrl+C shuts the publishers down before the stop command is sent
  (`controller_node.cpp:71`): what stops the robot is the watchdog of the base,
  which in turn never fires while the controller repeats the plan of a local
  planner that is dead (`:119`).

Base: short presses of the button are missed; the monitor shuts down right after
it publishes, so its message may not leave; `go2_base_control.sh` kills the old
bridge without waiting for its end.

Drivers, odometry and localisation:

* A Livox setting that is refused, or a LiDAR without any, means that it is never
  sampled; with silent LiDARs the node does not end. The overflow of the
  RoboSense queue throws away all packets; a second `stop` joins joined threads.
* The fusion keeps order only for scan periods of more than twice
  `max_sync_diff` (deployed: 100 ms and 5 ms).
* A LiDAR whose clock starts again empties the clouds but not their stamps
  (`laserMapping.cpp:287`). A dropout longer than a scan leaves the points of the
  scan before. `s_plot` arrays are indexed without a bound. A robot that jumps
  far beyond the cube is not followed, for distances to its sides are absolute
  (`:252`).
* `ikd_Tree.cpp` reads `Rebuild_Ptr` without a lock (`:431`, `:513`), and a part
  that has been emptied is dereferenced (`:332`).
* `Search` reads the boxes of both sons before it looks at `Rebuild_Ptr` and counts
  itself (`:1097`, `:1103`), so it can read the top node of a part that is being
  swapped (`:316`) and deleted (`:354`), and may go on from the pointer it has.
  `Update` (`:1050`, `:1458`) loads, reads and writes the sons without any lock.
* `open3d_loc` copies the initial pose without a lock when its thread starts
  (`global_localization.cpp:690`), reads its confidence without one (`:878`), adopts
  bad results while it initialises, and never joins the thread.
* The obstacle processor announces a fallback for cells without layers and has
  none (`obstacle_processor_node.cpp:872`); a new map does not replace the cached
  one; early returns publish nothing, so obstacles are never taken back (`:618`).

Not modelled, with a race all the same: `offline_base_sim.py:134` indexes a path
that another thread may have replaced by a shorter one; in
`m20_stair_workflow.sh:145` the EXIT trap does not see a `local` variable and
leaves sensors running.

## 5. What is proved

Everything here holds for every value of the constants that satisfies the named
assumptions, most of which say no more than which set a constant is from. Those
that say more:

* `GraphAssumption`, `ChainAssumption`: a roadmap is a graph with natural costs
  and distances, of which the vertices and the free centres are points.
* `CostAssumption`: the roadmap is finite, lengths are the same both ways and obey
  the triangle inequality, and no edge costs less than its length (the penalty
  factor is at least one).
* `RoadmapAssumption`: a map is bounded, and INF (in the code the largest float) lies
  beyond the margin and beyond twelve times the square of the largest coordinate, so
  beyond every distance on the grid; a voxel has at least one step of an edge (deployed:
  voxels of 0.2 m and 0.4 m, steps of 0.1 m).
* `IkdAssumption`: finitely many searchers.
* `LocalMapAssumption`: the cube has room between its thresholds, and a scan is no
  further than half the range.
* `ObstacleAssumption`: cells are a row, heights are an initial stretch of the
  naturals, the cache is renewed at a distance of at least one, and the tolerance of
  a layer is below the threshold of an obstacle (deployed: 0.15 m and 0.4 m).
* `LioAssumption`: two samples are closer together than a scan lasts. What the
  sensors do beyond that (once, a dropout slightly longer than a scan, or a clock
  that jumps back) is part of the model, as for the runs.
* `ManualAssumption`: what the keys ask for is a speed, up to the largest.
* `PointsAssumption`, `RingAssumption`: at least one LiDAR; the capacity of a ring
  divides the range of its indices at least twice. The code rounds the size up to
  a power of two (`InitQueue`) and counts in 32 bits.
* `FusionAssumption`: queues of two or more, and a scan period of more than twice the
  tolerance (deployed: 100 ms and 5 ms).
* `RsAssumption`: a turn has two blocks or more and fits into a cloud.

Induction (`Induction`). The induction theorems of the library take an operator,
which the provers cannot instantiate. `SetInduction` says the same of membership
in a set, and follows from strict inclusion being well-founded on finite sets. A
recursive function is a `CHOOSE`; its properties follow from a function that
satisfies its equation (built by induction), and from any two such functions being
equal (by induction again). `RestExists`, `CostsExist` and `RouteCostIsLast`, `PrefixesExist` and
`FlattenIsLastPrefix` are such pairs, `BackIsChain` and `PropagatedIsTheTime` are both
in one. `RecursionExists` is the first half once for all: what each step makes of
the value before defines a function on an initial stretch.

Planner (`NavPlannerProofs`):

* `PlannerInvariant`: `[](TypeOK /\ GoalHeldWhileActive /\ PathBelongsToTask)`.
  The conjunction is inductive: the goal is needed to know that a plan is made
  for something, the types that a route is a sequence of vertices. `PlannerTypes`
  is its first part.
* `AnnouncementsFollowDiagram`: the states published in a step, of which there may
  be two, lead from the state before to the state after along the documented
  machine. One lemma an action, from the types alone.
* `PlannerImplementsTask`: `Spec => ImplementsTask`. With the invariant, each
  step is a step of `NavTask` under the mapping that reads the goal only while
  one is held, or leaves phase and goal alone.
* `PathsLeadToGoal`: what leaves the planner is a route to a vertex within three
  steps of the goal. Beyond the invariant this needs that the path kept for
  re-publication has the same shape, which is the strengthening used there.
* `PlansAreUnblocked`: an action property, from the shape of `PlanResults`.

Search (`PlanningProofs`):

* `PredecessorsAreSound`: predecessors are unblocked neighbours and scores account
  for the edges between. Inductive together with: the elements of the queue have a
  score, blocked vertices have no successors.
* `SearchFindsCheapest`: `[]SearchIsPlanResult`, that is A* with its queue of stale
  elements is right. `SearchInv` adds five things. Everything reached is joined to
  the start by a chain of predecessors (`ChainsLeadToStart`); what an improved
  vertex had before it stays, since scores do not rise along a chain. A chain
  repeats no vertex (`ChainIsSimple`), so reading back ends and gives it
  (`BackIsChain`), at no more than the score (`ChainCost`). Every unblocked vertex
  reached is in the queue at its present score or has been expanded at it
  (`Pending`), so on each route there is a first vertex that is still queued
  (`Frontier`). No element promises less than its vertex needs (`QueueBounds`), and
  cost and heuristic never fall together along a route (`HeuristicAlongRoute`,
  from the triangle inequality), so no route is cheaper than the goal's score when
  the goal is taken out (`GoalIsCheapest`). When the queue runs empty there is no
  route. The invariant was checked by TLC on the instance of `planning` first.

Making of the roadmap (`PlanningProofs`):

* `PassesGiveDistances`: `[]DistancesAreExact`, for every map. One line first
  (`LineIsExact`): the parabolas of the envelope follow each other from where they
  meet (`InSequence`), and no parabola of the line is anywhere lower than all of
  them (`Envelops`). One that is covered is nowhere lower than both the new one and
  its neighbour to the left: where the new one is not lower, the neighbour is
  (`SkippedEnvelops`; `FurtherParabola` goes back to the one that stays). So the
  backward pass, which takes the last one that begins before a voxel, takes the lowest
  (`IsOverIsLowest`). The forward pass is a recursive function, handled by
  `RecursionExists` (`EnvelopeIsLast`). Then space: after the passes in the directions of
  D a voxel has `HeardOf` the obstacles that differ from it in these directions alone.
  Its distance is the one to some of them, or INF (`Attained`, whatever the
  uninitialised boundaries are found to be), and to the nearest if these were below
  all places where parabolas meet (`Least`, as long as `lucky`); a pass in a new
  direction takes both from D to one more (`PassKeepsDistances`).
* `EdgesAreSafe`: `[](FineSteps(Radius) \/ (lucky /\ SafeMargin >= 2) =>
  EdgesKeepOffObstacles)`. Every edge leads both ways in any case (`RoadInv`); that it
  keeps off obstacles between the points that were looked at has two reasons. With
  true distances and a margin of two voxels, each voxel on the edge is next to that
  of some point looked at (`SampleNear`, from `StepsAre` and `QuotientsNear`), at most
  three from it, squared, and the margin is four at least. Otherwise `FineSteps` is
  needed: no edge within the radius passes through a voxel in which no point is looked
  at; it speaks of the constants alone, and edges are the same wherever they begin
  (`OneOfIs`). TLC evaluates it for the deployed radii and steps, where it is true (the
  assumption `MCFineSteps`: 6.25 voxels squared and four steps a voxel in
  `3d_planning.launch`; 12.5 and two in `bringup_navigation.launch` and
  `bringup_m20_nav.launch`, whose margins, a voxel and half of one, are too small for
  the other condition). With neither, an edge may pass through a voxel that was missed:
  one by (-4, 3, 3), with four steps a voxel, misses one. The radius of the run is
  large enough for such an edge, but its maps have none.
* `ClearEdges`: with true distances and such a margin there is no obstacle on an edge
  at any fraction of the way, however fine. `RoadTypes`: the types.

Smoother and local planner (`PlanningProofs`, `LocalPlannerProofs`):

* `CutAlwaysLeavesATail`: the loop of the smoother reaches neither the end of a
  plan of any length nor leaves more than five points.
* `KeepOriginalHasNoEffect`: with five samples a curve or more, the planned end
  orientation is never used. The strengthening relates the number of curves to
  the number of points consumed, and bounds that by the length of the message.
* `CuttingLosesNoPoint`: `[]NoPointLost`. The invariant says what the curves hold
  while the cut goes on: flattened, the path up to where the cut is (`CutIsKept`),
  with one inserted point before each curve but the first; what is left is the
  plan's after one inserted point (`RestIsPlanned`). If that point is all there is,
  it lies where the plan ends, for the plan repeats its last position
  (`Q1OfRepeated`). The lemmas say what flattening, inserting and tails do to the
  elements of a sequence.
* `NoMotionOutsideTask`, `TimerNeverBlocks`, `AlignmentIsSteady`: the local
  planner. The inductive invariant adds that the direction of the turn is known
  exactly in GOAL_ALIGN.

The chain (`NavSystemProofs`). Its module instantiates the proof modules of the
planner and of the local planner, so what is proved of the parts is used and not
proved again; the lemmas `Same...` say that the parts inside the chain are the
parts the other modules speak of.

* `PlannerInChain`: `Spec => P!Spec`, a step of the chain is a step of the planner
  or none. `ChainMovesOnlyOnTask` is the same for what was proved of the local
  planner, whose environment the planner turns out to be.
* `LocalPlannerFollows`, `StalePathsAreForgotten`: `[]LocalFollowsPlanner` and
  `[]NoStalePathAtRest`. The invariant `ChainInv` says of the states the local
  planner has seen and has still to see that each follows from the one before
  (a state that was skipped might be the one that empties its cache), and of the
  newest path, wherever it has
  got to (waiting for the smoother, smoothed, or received), that it is the
  current task's while that is tracked.

Base (`DriveProofs`): `MutexHasOneHolder`, from which, with the types,
`EmergencyStopHolds`: `DriveSpec => EmergencyHolds`. `MutexHeld` relates the
holder of the mutex to where the threads are, through hooks in either thread,
crashes and restarts; without it the control loop might be past its check with
the flag up.

Drivers (`DriverProofs`):

* `WakeUpsAreKept`: `[]NoWakeUpLost` of the Livox driver. The strengthening says
  who will see to the frames of a LiDAR: the semaphore is raised, or the process
  thread has moved an index and not looked at it yet, or the poll thread has not
  come to that ring yet, or the node leaves and will not sleep again. Only
  whether a ring is empty matters, so its size and the wrapping do not.
* `RingIsFrameQueue`: `PointsSpec => ImplementsFrameQueue`. `RingInv` says which
  slot each thread works on: from the look at the indices until its own index
  moves, the writer's slot is free (`RoomIsKept`), and what the reader has copied
  is still what its slot holds (`FrameIsKept`); never more slots are used than
  there are. Each loop over the LiDARs takes the first of a set, which exists
  (`FirstExists`). The indices wrap, so the lemmas about them speak of remainders by the
  width of the index and by the capacity, the first a multiple of the second.
* `CloudsAreTurns`: `[]WholeCloudsAreTurns` of the RoboSense driver. `RsInv` follows
  the angle from the socket to the cloud: each packet in the queue goes on where
  the one before ended or knows that something is missing (`PacketsAreLinked`),
  and a cloud without a gap that is being filled reaches from the split angle to
  the last angle handled (`FilledInTurn`), so that it is a turn when it is split
  off. Beside that, a cloud is in one place only: being filled, in one of the two
  queues, or being sent (`OneOwner`), which takes the count of the queue to show.
* `CounterpartsAreFused`: `[]NoCounterpartLost` of the fusion. The matching loop is
  a recursive function of two positions; by induction over what is left of the
  queues, what it takes away has met a scan of the other LiDAR that is as new, or
  newer than the tolerance before it (`MatchOutcome`), and two scans that are in
  sync are met in one turn, whatever comes before them (`MatchFinds`). So every scan
  received is still queued, was squeezed out, or has met its time
  (`NoneForgotten`); in the last case the next scan of the other LiDAR, a period
  later, is too new for it. The invariant was checked by TLC on the instance of
  `drivers` first.
* `PointsTypes`, `RsTypes`: the types of both, with the bounds of indices, queue
  and clouds.

Perception (`PerceptionProofs`):

* `NodesReadAreLive`: `[]ReadNodesLive` of the k-d tree. Inductive together with:
  the counter is the number of counted searches, or -1 with none of them; a
  search that is not counted goes in only while there is nothing to rebuild, or
  with a pointer to nodes that have been replaced (`KeptFromBox`, `UncountedAlone`);
  the mapping thread waits for all searches; and of operations only `Update` and a
  range search, which holds `search_flag_mutex`, have nodes that were replaced
  (`StaleGuarded`).
* `TreeHoldsItsSet`: `[]TreeIsSet` of the k-d tree. A log is a fold over its
  operations, but each operation acts on each point by itself: a point is in what
  a log leaves if the last operation that says something about it adds it, or none
  does and it was there. Stated so (`CaughtUp`), adding at the end and running from
  the front are lemmas without induction. The invariant `SetInv` says that the
  copy, once it has caught up, is the old part (`CopyCatchesUp`); that the log is
  empty before a rebuild and whenever the rebuild thread holds the lock
  (`LogIsHeard`); that what the mapping thread has still to do further down makes
  the tree what it should be, whichever mark is pushed down first
  (`OperationLeads`); and where an operation may wait for which part
  (`OperationWaits`). It was checked by TLC on S, F and the root with different
  points, every box and four operations (2 595 549 states) before it was proved.
* `RobotStaysWellInside`: `[]RobotWellInside` of the local map. A shift is at
  least half the range, and too short to bring the robot near the other side.
* `WhatIsLeftIsDeleted`: `DeletesWhatItLeaves`. The boxes are cut off axis by axis;
  the lemmas show for one axis that a box and what remains make up what was there.
* `PosesStand`: `[]NoPoseLost` of the localisation. `PoseInv` says which lock is
  held where the thread and the callbacks are, that a registration under way began
  from the pose that stands (the lock is held for all of it), and that a pose given
  is the one that stands, or is being written. `LocalizationTypes` needs that a
  scan that finds the queue full waits for the lock with the queue as it is, and
  that fewer than two results in a row fitted until localisation is initialised.
* `NearbyIsJudgedByTheMap`: `NearbyIsKnown` of the obstacle processor. The
  strengthening, `CacheOfOnlyMap`, says what the cached window holds: the places of
  the first map within its size of where the robot was when it was cut out.
* `LayersJudgeObstacles`: `NewThingsAreObstacles`, with `ObstacleTypes`. Two ways of
  dividing a cell are compared: `buildGrid` goes up through the points once, and the
  property asks for groups without a gap. The invariant of the loop (`Seen`,
  `SeenOneMore`) says that the current layer is a stretch without a gap that begins
  above one, that the layers kept are whole stretches with enough points, and that
  every point seen is in one of these or in a stretch with too few. A group is such
  a stretch (`GroupIsStretch`), and so the layers are the groups (`LayersAreGroups`). The
  number of points of a group is a fold over a set, a layer's a running count; that
  they agree is `PointsInIsTotal`. The closest centroid is compared in fractions, an
  order that is transitive (`FractionsInOrder`), so there is one that no other is
  nearer than (`ClosestIsOne`). A point far from all groups is judged by one of them
  and passes the threshold; it passes the tolerance since that is smaller.
* `TimeIsKept`, `OdometryHasItsScan`: `[]FilterKeepsTime` and
  `[]OdometryIsOfItsScan` of the odometry, with `OdometryTypes`. The steps of the
  filter over the samples of a package add up to the time from the end of the last
  scan to the end of this one, if the last of the samples lies between them
  (`PropagatedIsTheTime`, by induction over the samples). That it is not beyond the
  end is the loop of `sync_packages` (`SamplesAre`); that it is not before the
  beginning takes `LioInv`. Of the two clocks at most one has jumped back
  (`OneClockStands`): if it is not the samples' (`SamplesFresh`), those that wait were
  all stamped after the last scan ended; if it is, the scans still lie ahead by the
  time of a scan (`ScansAhead`), and the gap before the first sample left behind, which
  is beyond the end of the scan, is of a scan's time and one unit at most
  (`SamplesInOrder`), so the last one taken is late enough (`LastSampleIsNew`). While
  the sensors are regular, the next sample is before the end of the next scan
  (`NextSampleIsInTime`), so no package comes without samples and the scan that is
  registered is the one that was just undistorted; and the two queues, of scans and
  of stamps, agree (`ScansHaveStamps`), which the emptying of one of them on a jump
  would break. The invariant was checked by TLC on the instance of `perception`
  first.

Only model-checked:

* Everything about liveness and fairness (`ENABLED` is out of the prover's reach).
* That the edges of the roadmaps of `planning` keep off obstacles where a parabola was
  hidden, with a radius too large for `FineSteps`: in general they need not (above).

## 6. Plan

Done: all modules of section 2, in the order planner, chain, base, drivers,
odometry, localisation, obstacles, roadmap, fusion; and proofs of section 5.

Every invariant and action property that a run checks is stated by a theorem;
liveness is left to the runs. What could come next is what section 7 leaves out.

## 7. Not modelled

* NMPC solver: real-valued optimisation without protocol state; the local
  planner takes its controls and failures as choices.
* Registration, the iterated Kalman filter, nearest neighbours and the balance of
  the tree: real arithmetic. Their results are choices where somebody waits for
  them.
* `galileo_lio` is a near copy of `FAST_LIO` (same buffers, tree and cube); the
  models are of `FAST_LIO`, which the documented launch files start.
* Third-party code within the repository: `matplotlibcpp.h`, `IKFoM_toolkit`,
  `backward.hpp`, the decoders, parsers and SDK wrappers of the two drivers
  beyond the threads and queues modelled here. Together with the copy above it
  is most of the lines, which is why the map covers a small share of them.
* Map tools, rviz tool: batch geometry and mouse input.
* Stair workflow and simulator: their state is that of docker and the operating
  system; a test aid.
* `/navigation_state` may lose a state (its publisher keeps one). The code has no
  answer to that, so `LocalFollowsPlanner` needs lossless topics.
